-------------------------- MODULE LifecycleProofs --------------------------
(***************************************************************************)
(* What a step of Sequencer may do to a transaction, and that Sequencer    *)
(* implements TxLifecycle.                                                 *)
(***************************************************************************)
EXTENDS SafetyProofs, LifecycleRefinement

-----------------------------------------------------------------------------
(***************************************************************************)
(* The eight kinds of step                                                 *)
(***************************************************************************)

Quiet == UNCHANGED <<txs, envVars>>

Grows == Mine

Stores(r) ==
    /\ rpc[r].pc = "store" /\ rpc[r].hash \in Hash /\ rpc[r].window \in Nat
    /\ OnlyNew(rpc[r].hash, r, rpc[r].eon, rpc[r].window)
    /\ UNCHANGED envVars

\* The bid loop writes a status, where it may be which and become which.
BidWrites(g) ==
    /\ txs[g].identity \notin gossip
    /\ UNCHANGED envVars
    /\ \/ /\ bidder.pc = "block" /\ g \in bidder.pending
          /\ txs[g].status = "init" /\ OnlyStatus(g, "blocked")
       \/ /\ bidder.pc = "mark" /\ g \in bidder.hashes
          /\ txs[g].status = "init" /\ OnlyStatus(g, "bidsubmitted")
       \/ /\ bidder.pc = "stream" /\ g \in bidder.hashes
          /\ txs[g].status \in {"bidsubmitted", "committed"}
          /\ OnlyCommitment(g, bidder.block)
       \/ /\ bidder.pc \in {"remark", "reset"} /\ g \in bidder.hashes
          /\ txs[g].status \in {"init", "bidsubmitted", "committed"}
          /\ OnlyStatus(g, "init")

Gossips ==
    /\ bidder.pc = "gossip"
    /\ gossip' = gossip \union bidder.identities
    /\ UNCHANGED <<txs, block, onChain>>

KeyComes(g) ==
    /\ txs[g].identity \in gossip
    /\ OnlyKey(g)
    /\ UNCHANGED envVars

Decrypts(g) ==
    /\ txs[g].identity \in gossip /\ txs[g].decryptionKey
    /\ OnlyStatus(g, "decrypted")
    /\ UNCHANGED envVars

Finalises(g) ==
    /\ txs[g].identity \in gossip /\ txs[g].decryptionKey
    /\ txs[g].status \in {"decrypted", "finalised"}
    /\ g \in onChain /\ txs[g].commitedBlock <= block
    /\ OnlyStatus(g, "finalised")
    /\ UNCHANGED envVars

-----------------------------------------------------------------------------
(***************************************************************************)
(* Every step is of one of these kinds                                     *)
(***************************************************************************)

LEMMA RpcKind ==
    ASSUME Inductive, RpcTurn
    PROVE  Quiet \/ \E r \in Request : Stores(r)
<1>1. UNCHANGED envVars
    BY DEF RpcTurn
<1>2. ASSUME NEW r \in Request, StoreEncrypted(r)
      PROVE  Stores(r)
    <2>1. /\ rpc[r].hash \in Hash /\ rpc[r].window \in Nat
          /\ rpc[r].pc = "store" /\ r \in Identity
        BY <1>2 DEF Inductive, TypeOK, RpcOK, Request, StoreEncrypted
    <2>2. OnlyNew(rpc[r].hash, r, rpc[r].eon, rpc[r].window)
        BY <1>2, <2>1, NewWrite DEF StoreEncrypted, Inductive, TypeOK
    <2> QED
        BY <1>1, <2>1, <2>2 DEF Stores
<1> QED
    BY <1>1, <1>2
    DEF RpcTurn, RpcStep, LookUp, EncryptTransaction, EncryptionFails, StoreRefused, Quiet

\* The loops that mark the transactions of a bid, at whatever point it is.
LEMMA TurnKind ==
    ASSUME Inductive, BidTurn, NEW g \in Hash,
           BlockExpired(g) \/ MarkBidSubmitted(g) \/ RemarkInit(g) \/ ResetInit(g)
    PROVE  g \in DOMAIN txs /\ BidWrites(g)
<1> USE DEF At
<1>1. PICK s \in {"init", "bidsubmitted", "blocked"} :
          /\ WriteStatus(g, s)
          /\ \/ bidder.pc = "block" /\ s = "blocked"
             \/ bidder.pc = "mark" /\ s = "bidsubmitted"
             \/ bidder.pc \in {"remark", "reset"} /\ s = "init"
    BY DEF BlockExpired, MarkBidSubmitted, RemarkInit, ResetInit
<1>2. BidsAreStored /\ BidStatuses /\ BidLocals /\ BidUnknown
    BY DEF Inductive
<1>3. g \in bidder.pending /\ UNCHANGED envVars
    BY <1>1 DEF WriteStatus, Turn, BidTurn, envVars
<1>4. g \in DOMAIN txs /\ txs[g].identity \notin gossip
    BY <1>1, <1>2, <1>3 DEF BidsAreStored, BidUnknown
<1>5. OnlyStatus(g, s)
    BY <1>1, <1>4, StatusWrite DEF WriteStatus, Inductive, TypeOK, TransactionStatus
<1>6. bidder.pc # "block" => g \in bidder.hashes
    BY <1>1, <1>2, <1>3 DEF BidLocals, BidOpen
<1>7. BidWrites(g)
    BY <1>1, <1>2, <1>3, <1>4, <1>5, <1>6 DEF BidWrites, BidStatuses, StatusOf
<1> QED
    BY <1>4, <1>7

LEMMA CommitKind ==
    ASSUME Inductive, BidTurn, NEW g \in Hash, MarkCommitted(g)
    PROVE  g \in DOMAIN txs /\ BidWrites(g)
<1>1. BidsAreStored /\ BidStatuses /\ BidLocals /\ BidUnknown
    BY DEF Inductive
<1>2. /\ g \in bidder.pending /\ bidder.pc = "stream"
      /\ bidder.block \in Nat /\ UNCHANGED envVars
    BY DEF MarkCommitted, At, Turn, Inductive, TypeOK, BidderOK, BidTurn, envVars
<1>3. g \in DOMAIN txs /\ g \in bidder.hashes /\ txs[g].identity \notin gossip
    BY <1>1, <1>2 DEF BidsAreStored, BidLocals, BidUnknown, BidOpen
<1>4. OnlyCommitment(g, bidder.block)
    BY <1>2, <1>3, CommitWrite DEF MarkCommitted, Inductive, TypeOK
<1>5. txs[g].status \in {"bidsubmitted", "committed"}
    BY <1>1, <1>2 DEF BidStatuses, StatusOf
<1> QED
    BY <1>2, <1>3, <1>4, <1>5 DEF BidWrites

LEMMA BidKind ==
    ASSUME Inductive, BidTurn
    PROVE  Quiet \/ Gossips \/ \E g \in DOMAIN txs : BidWrites(g)
<1>1. UNCHANGED <<block, onChain>>
    BY DEF BidTurn
<1>2. CASE \E g \in Hash :
             \/ BlockExpired(g) \/ MarkBidSubmitted(g) \/ MarkCommitted(g)
             \/ RemarkInit(g) \/ ResetInit(g)
    BY <1>2, TurnKind, CommitKind
<1>3. CASE \E p \in Provider : SendCommitment(p)
    BY <1>1, <1>3 DEF SendCommitment, At, Gossips
<1>4. CASE Local
    BY <1>1, <1>4 DEF Local, Quiet, envVars
<1> QED
    BY <1>2, <1>3, <1>4
    DEF BidTurn, BidStep, BidAround, BidOnStream, ReadBlock, NothingToBid, Classify, NoBid,
        CreateBid, SendBid, SendBidFails, ReceiveCommitment, StreamEnds, BidTimesOut, StreamFails,
        ReturnError, BidDropped, SkipCommitment, BidDone

LEMMA KeyKind ==
    ASSUME Inductive, KeyTurn
    PROVE  Quiet \/ \E g \in DOMAIN txs : KeyComes(g) \/ Decrypts(g)
<1>1. UNCHANGED envVars
    BY DEF KeyTurn
<1>2. ASSUME NEW w \in Worker, NEW i \in keyh[w].keys, SetKey(w, i)
      PROVE  \E g \in DOMAIN txs : KeyComes(g)
    <2>1. PICK g \in DOMAIN txs : txs[g].identity = i /\ SetDecryptionKey(g)
        BY <1>2 DEF SetKey, GetTransactionsByIdentity
    <2>2. OnlyKey(g)
        BY <2>1, KeyWrite DEF Inductive, TypeOK
    <2>3. i \in gossip
        BY <2>1, ForeignAssumption
        DEF Inductive, KeyInv, Released, TypeOK, TransactionStoreOK, StoredTransaction
    <2> QED
        BY <1>1, <2>1, <2>2, <2>3 DEF KeyComes
<1>3. ASSUME NEW w \in Worker, MarkDecrypted(w)
      PROVE  \E g \in DOMAIN txs : Decrypts(g)
    <2>1. PICK g \in keyh[w].found : UpdateTransactionStatus(g, "decrypted")
        BY <1>3 DEF MarkDecrypted
    <2>2. g \in DOMAIN txs /\ txs[g].decryptionKey
        BY DEF Inductive, KeyInv
    <2>3. OnlyStatus(g, "decrypted")
        BY <2>1, <2>2, StatusWrite DEF Inductive, TypeOK, TransactionStatus
    <2>4. txs[g].identity \in gossip
        BY <2>2 DEF Inductive, GossipInv
    <2> QED
        BY <1>1, <2>2, <2>3, <2>4 DEF Decrypts
<1> QED
    BY <1>1, <1>2, <1>3
    DEF KeyTurn, KeyStep, HandleMessage, ReceiveKeys, SkipUnknown, Quiet

LEMMA VerifierKind ==
    ASSUME Inductive, VerifierTurn
    PROVE  Quiet \/ \E g \in DOMAIN txs : Finalises(g)
<1>1. UNCHANGED envVars
    BY DEF VerifierTurn
<1>2. ASSUME Finalise
      PROVE  \E g \in DOMAIN txs : Finalises(g)
    <2>1. PICK g \in verifier.found : UpdateTransactionStatus(g, "finalised")
        BY <1>2 DEF Finalise
    <2>2. g \in DOMAIN txs /\ txs[g].status \in {"decrypted", "finalised"}
        BY DEF Inductive, VerifierListIsCurrent
    <2>3. OnlyStatus(g, "finalised")
        BY <2>1, <2>2, StatusWrite DEF Inductive, TypeOK, TransactionStatus
    <2>4. txs[g].identity \in gossip /\ txs[g].decryptionKey
        BY <2>2 DEF Inductive, GossipInv
    <2>5. g \in onChain /\ txs[g].commitedBlock <= block
        BY DEF Inductive, VerifierInv
    <2> QED
        BY <1>1, <2>2, <2>3, <2>4, <2>5 DEF Finalises
<1> QED
    BY <1>1, <1>2
    DEF VerifierTurn, VerifierStep, GetBlockNumber, ListDecrypted, ReceiptFound,
        NoReceipt, EndPass, Quiet

LEMMA StepKind ==
    ASSUME Inductive, [Next]_vars
    PROVE  \/ Quiet \/ Grows \/ Gossips
           \/ \E r \in Request : Stores(r)
           \/ \E g \in DOMAIN txs :
                 BidWrites(g) \/ KeyComes(g) \/ Decrypts(g) \/ Finalises(g)
<1>1. CASE MineStep
    BY <1>1 DEF MineStep, Grows
<1>2. CASE UNCHANGED vars
    BY <1>2 DEF vars, Quiet
<1> QED
    BY <1>1, <1>2, RpcKind, BidKind, KeyKind, VerifierKind DEF Next

-----------------------------------------------------------------------------
(***************************************************************************)
(* The action properties                                                   *)
(***************************************************************************)

LEMMA StatusMoves ==
    ASSUME Inductive, [Next]_vars, NEW h \in DOMAIN txs
    PROVE  \/ /\ StatusOf(h)' = StatusOf(h)
              /\ txs'[h].commitedBlock = txs[h].commitedBlock
           \/ /\ txs[h].identity \in gossip
              /\ \/ StatusOf(h)' = "decrypted"
                 \/ StatusOf(h) = "decrypted" /\ StatusOf(h)' = "finalised"
              /\ txs'[h].commitedBlock = txs[h].commitedBlock
           \/ /\ txs[h].identity \notin gossip
              /\ \/ /\ StatusOf(h) = "init"
                    /\ StatusOf(h)' \in {"blocked", "bidsubmitted"}
                 \/ StatusOf(h)' = "committed"
                 \/ /\ StatusOf(h)' = "init" /\ h \in bidder.hashes
                    /\ bidder.pc \in {"remark", "reset"}
<1> USE DEF StatusOf
<1>1. CASE Quiet \/ Grows \/ Gossips
    BY <1>1 DEF Quiet, Grows, Mine, Gossips
<1>2. CASE \E r \in Request : Stores(r)
    BY <1>2 DEF Stores, OnlyNew
<1>3. CASE \E g \in DOMAIN txs : BidWrites(g)
    BY <1>3 DEF BidWrites, OnlyStatus, OnlyCommitment
<1>4. CASE \E g \in DOMAIN txs : KeyComes(g) \/ Decrypts(g) \/ Finalises(g)
    BY <1>4 DEF KeyComes, Decrypts, Finalises, OnlyKey, OnlyStatus
<1> QED
    BY <1>1, <1>2, <1>3, <1>4, StepKind

\* No step changes the identity of a stored transaction.
LEMMA IdentityStays ==
    ASSUME Inductive, [Next]_vars, NEW h \in DOMAIN txs
    PROVE  txs'[h].identity = txs[h].identity
BY StepKind
DEF Quiet, Grows, Mine, Gossips, Stores, OnlyNew, BidWrites, KeyComes, Decrypts,
    Finalises, OnlyStatus, OnlyCommitment, OnlyKey, SameTransactions

\* Bid creation overwrites nothing but init.
THEOREM BidsTakeTheWaiting == Spec => OnlyWaitingIsBid
<1>1. Inductive /\ [Next]_vars =>
        \A h \in DOMAIN txs :
           StatusOf(h)' # StatusOf(h) /\ StatusOf(h)' \in {"bidsubmitted", "blocked"}
               => StatusOf(h) = "init"
    BY StatusMoves
<1> QED
    BY <1>1, InductiveInvariant, PTL DEF Spec, OnlyWaitingIsBid

\* What the keypers were told stays true.
THEOREM CommitmentsStand == Spec => CommitmentIsFixed
<1>1. Inductive /\ [Next]_vars =>
        \A h \in DOMAIN txs :
           txs[h].identity \in gossip
               => /\ txs'[h].identity = txs[h].identity
                  /\ txs'[h].commitedBlock = txs[h].commitedBlock
    BY StatusMoves, IdentityStays
<1> QED
    BY <1>1, InductiveInvariant, PTL DEF Spec, CommitmentIsFixed

\* A commitment is not thrown away.
THEOREM CommitmentsAreKept == Spec => CommittedIsKept
<1>1. Inductive /\ [Next]_vars =>
        \A h \in DOMAIN txs :
           StatusOf(h) = "committed" /\ StatusOf(h)' # "committed"
               => \/ StatusOf(h)' = "decrypted"
                  \/ /\ StatusOf(h)' = "init"
                     /\ h \in bidder.hashes
                     /\ bidder.pc \in {"remark", "reset"}
    BY StatusMoves
<1> QED
    BY <1>1, InductiveInvariant, PTL DEF Spec, CommittedIsKept

-----------------------------------------------------------------------------
(***************************************************************************)
(* The block numbers in hand                                               *)
(***************************************************************************)

LEMMA InitBlocks == Init => BlocksInHand
BY InclusionWindowAssumption
DEF Init, InitRpc, InitBidder, IdleBidder, InitEnvironment, BlocksInHand

LEMMA BlocksKept == Inductive /\ BlocksInHand /\ [Next]_vars => BlocksInHand'
<1> SUFFICES ASSUME Inductive, BlocksInHand, [Next]_vars PROVE BlocksInHand'
    OBVIOUS
<1>1. /\ block \in Nat /\ block' \in Nat /\ block <= block'
      /\ InclusionWindow \in Nat /\ MaxInclusionWindow \in Nat
      /\ bidder.block \in Nat
    <2>1. block' = block \/ block' = block + 1
        BY DEF Next, MineStep, Mine, RpcTurn, BidTurn, KeyTurn, VerifierTurn, envVars, vars
    <2> QED
        BY <2>1, InclusionWindowAssumption, MaxInclusionWindowAssumption
        DEF Inductive, TypeOK, EnvironmentOK, BidderOK
<1>2. \A r \in Request :
         rpc'[r].pc = "store" => rpc'[r].window <= block' + MaxInclusionWindow
    <2>1. CASE RpcTurn
        BY <1>1, <2>1
        DEF BlocksInHand, Inductive, TypeOK, RpcOK, RpcTurn, RpcStep, LookUp, envVars,
            EncryptTransaction, EncryptionFails, StoreEncrypted, StoreRefused, ScheduledBlock
    <2>2. CASE rpc' = rpc
        BY <1>1, <2>2 DEF BlocksInHand, Inductive, TypeOK, RpcOK
    <2> QED
        BY <2>1, <2>2 DEF Next, MineStep, BidTurn, KeyTurn, VerifierTurn, vars
<1>3. /\ bidder'.block <= block' + InclusionWindow
      /\ bidder'.pc = "block" =>
            \A h \in bidder'.pending : txs'[h].maxInclusionWindow < bidder'.block
    <2>1. CASE bidder' = bidder
        <3>1. \A h \in DOMAIN txs :
                  txs'[h].maxInclusionWindow = txs[h].maxInclusionWindow
            BY StepKind
            DEF Quiet, Grows, Mine, Gossips, Stores, OnlyNew, BidWrites, KeyComes, Decrypts,
                Finalises, OnlyStatus, OnlyCommitment, OnlyKey, SameTransactions
        <3> QED
            BY <1>1, <2>1, <3>1 DEF BlocksInHand, Inductive, BidsAreStored
    <2>2. CASE BidTurn
        <3>1. /\ block' = block
              /\ bidder \in [pc : BidderPc, block : Nat, hashes : SUBSET Hash,
                             identities : SUBSET Identity, pending : SUBSET Hash,
                             commitments : SUBSET Provider]
            BY <2>2 DEF BidTurn, Inductive, TypeOK, BidderOK
        <3>2. CASE ReadBlock
            BY <1>1, <3>1, <3>2 DEF ReadBlock
        <3>3. CASE Classify
            <4>1. /\ bidder'.block = bidder.block /\ txs' = txs
                  /\ bidder'.pending = Expired(GetTransactionsByStatus("init"))
                BY <3>1, <3>3 DEF Classify, Local
            <4>2. \A h \in Expired(GetTransactionsByStatus("init")) :
                      txs[h].maxInclusionWindow < bidder.block
                BY <1>1
                DEF Expired, GetTransactionsByStatus, IsEligible,
                    Inductive, TypeOK, TransactionStoreOK, StoredTransaction
            <4> QED
                BY <1>1, <3>1, <4>1, <4>2 DEF BlocksInHand
        <3>4. CASE \E h \in Hash : BlockExpired(h)
            <4>1. PICK g \in Hash : BlockExpired(g)
                BY <3>4
            <4>2. /\ bidder'.block = bidder.block /\ bidder'.pc = bidder.pc
                  /\ bidder'.pending \subseteq bidder.pending
                BY <3>1, <4>1 DEF BlockExpired, WriteStatus, Turn
            <4>3. \A h \in DOMAIN txs :
                      txs'[h].maxInclusionWindow = txs[h].maxInclusionWindow
                BY <2>2, <4>1, TurnKind
                DEF BidWrites, OnlyStatus, OnlyCommitment, SameTransactions
            <4> QED
                BY <1>1, <3>1, <4>2, <4>3 DEF BlocksInHand, Inductive, BidsAreStored
        <3>5. CASE bidder' = IdleBidder
            <4>1. bidder'.block = 0 /\ bidder'.pc = "idle"
                BY <3>5 DEF IdleBidder
            <4>2. \A m, n \in Nat : 0 <= m + n
                OBVIOUS
            <4> QED
                BY <1>1, <4>1, <4>2
        <3>6. CASE bidder'.block = bidder.block /\ bidder'.pc # "block"
            BY <1>1, <3>1, <3>6 DEF BlocksInHand
        <3>7. ASSUME NEW pc \in BidderPc \ {"block"}, NEW pending, GoTo(pc, pending)
              PROVE  bidder'.block = bidder.block /\ bidder'.pc # "block"
            BY <3>1, <3>7 DEF GoTo
        <3>8. CASE \E h \in Hash :
                      MarkBidSubmitted(h) \/ MarkCommitted(h) \/ RemarkInit(h) \/ ResetInit(h)
            BY <3>1, <3>6, <3>8
            DEF MarkBidSubmitted, MarkCommitted, RemarkInit, ResetInit, WriteStatus, Turn, At
        <3>9. CASE CreateBid \/ \E p \in Provider :
                      ReceiveCommitment(p) \/ SendCommitment(p) \/ SkipCommitment(p)
            BY <3>1, <3>6, <3>9
            DEF CreateBid, ReceiveCommitment, SendCommitment, SkipCommitment, LoopEnds, At
        <3>10. CASE SendBid \/ SendBidFails \/ StreamEnds \/ BidTimesOut \/ StreamFails
                     \/ ReturnError
            BY <3>6, <3>7, <3>10
            DEF SendBid, SendBidFails, StreamEnds, ReturnCommitments, BidTimesOut,
                StreamFails, ReturnError, BidderPc
        <3> QED
            BY <2>2, <3>2, <3>3, <3>4, <3>5, <3>8, <3>9, <3>10
            DEF BidTurn, BidStep, BidAround, BidOnStream, NothingToBid, NoBid,
                BidDropped, BidDone
    <2> QED
        BY <2>1, <2>2 DEF Next, MineStep, RpcTurn, KeyTurn, VerifierTurn, vars
<1> QED
    BY <1>2, <1>3 DEF BlocksInHand

\* The block numbers the goroutines hold were read from the chain.
THEOREM BlocksAreRead == Spec => []BlocksInHand
BY InitBlocks, BlocksKept, InductiveInvariant, PTL DEF Spec

-----------------------------------------------------------------------------
(***************************************************************************)
(* The refinement                                                          *)
(***************************************************************************)

\* A step that leaves what LifeOf looks at alone.
LEMMA LifeStays ==
    ASSUME NEW h \in DOMAIN txs, h \in DOMAIN txs',
           txs'[h].identity = txs[h].identity,
           txs'[h].maxInclusionWindow = txs[h].maxInclusionWindow,
           PhaseOf(h)' = PhaseOf(h), IsGossiped(h)' = IsGossiped(h),
           IsGossiped(h) => txs'[h].commitedBlock = txs[h].commitedBlock
    PROVE  LifeOf(h)' = LifeOf(h)
BY DEF LifeOf

\* A step after which one transaction is in another phase and nothing else
\* that LifeOf looks at has changed.
LEMMA LifeMoves ==
    ASSUME TransactionStoreOK, NEW g \in DOMAIN txs, SameTransactions, UNCHANGED envVars,
           \A h \in DOMAIN txs : h # g => PhaseOf(h)' = PhaseOf(h),
           \A h \in DOMAIN txs :
               IsGossiped(h) => txs'[h].commitedBlock = txs[h].commitedBlock,
           NEW from, PhaseOf(g) = from, NEW to, PhaseOf(g)' = to
    PROVE  /\ from = to => UNCHANGED Life!vars
           /\ from # to => Life!Move(g, from, to)
<1>1. \A h \in DOMAIN txs : IsGossiped(h)' = IsGossiped(h)
    BY DEF IsGossiped, SameTransactions, envVars
<1>2. \A h \in Hash : h # g => LifeOf(h)' = LifeOf(h)
    BY <1>1 DEF SameTransactions, LifeOf
<1>3. /\ g \in Hash /\ UNCHANGED <<block, onChain>>
      /\ g \in DOMAIN txs'
    BY DEF TransactionStoreOK, SameTransactions, envVars
<1>4. CASE from = to
    <2>1. LifeOf(g)' = LifeOf(g)
        BY <1>1, <1>4 DEF LifeOf, SameTransactions
    <2> QED
        BY <1>2, <1>3, <1>4, <2>1 DEF Life!vars, Lives
<1>5. CASE from # to
    <2> DEFINE b == IF IsGossiped(g) THEN txs[g].commitedBlock ELSE 0
               L(ph) == [phase    |-> ph,
                         identity |-> {txs[g].identity},
                         window   |-> txs[g].maxInclusionWindow,
                         block    |-> b]
    <2>4. LifeOf(g) = L(from)
        BY DEF LifeOf
    <2>5. LifeOf(g)' = L(to)
        BY <1>1, <1>3 DEF LifeOf, SameTransactions
    <2>1. LifeOf(g)' = [LifeOf(g) EXCEPT !.phase = to]
        <3> HIDE DEF b
        <3> QED
            BY <2>4, <2>5
    <2>2. Lives' = [Lives EXCEPT ![g].phase = to]
        BY <1>2, <1>3, <2>1 DEF Lives
    <2>3. Lives[g].phase = from
        BY <1>3 DEF Lives, LifeOf
    <2> QED
        BY <1>3, <1>5, <2>2, <2>3 DEF Life!Move
<1> QED
    BY <1>4, <1>5

LEMMA InitLives == Init => Life!Init
<1> SUFFICES ASSUME Init PROVE Life!Init
    OBVIOUS
<1>1. DOMAIN txs = {} /\ block = 0 /\ onChain = {}
    BY DEF Init, InitEnvironment
<1> QED
    BY <1>1 DEF Life!Init, Life!Unknown, Lives, LifeOf

LEMMA QuietLives == ASSUME Quiet PROVE UNCHANGED Life!vars
BY DEF Quiet, envVars, Life!vars, Lives, LifeOf, PhaseOf, IsGossiped

LEMMA GrowLives == ASSUME Inductive, Grows PROVE Life!Grow
<1>1. UNCHANGED <<txs, gossip>> /\ block' = block + 1
    BY DEF Grows, Mine
<1>2. PICK S \in SUBSET Hash : onChain' = onChain \union S
    BY DEF Grows, Mine
<1>3. Lives' = Lives
    BY <1>1 DEF Lives, LifeOf, PhaseOf, IsGossiped
<1> QED
    BY <1>1, <1>2, <1>3 DEF Life!Grow

\* A request that stores its transaction under its own identity.
LEMMA StoreLives ==
    ASSUME Inductive, BlocksInHand, NEW r \in Request, Stores(r)
    PROVE  Life!Next
<1>1. PICK h \in Hash, n \in Nat : h = rpc[r].hash /\ n = rpc[r].window
    BY DEF Stores
<1>2. /\ h \in Hash /\ r \in Identity /\ UNCHANGED <<block, onChain, gossip>>
      /\ h \notin DOMAIN txs /\ DOMAIN txs' = DOMAIN txs \union {h}
      /\ \A g \in DOMAIN txs : txs'[g] = txs[g]
      /\ txs'[h] = NewTransaction(r, rpc[r].eon, n)
    BY <1>1 DEF Stores, OnlyNew, envVars, Request
<1>3. n \in 0 .. block + MaxInclusionWindow
    BY <1>1, MaxInclusionWindowAssumption
    DEF BlocksInHand, Stores, Inductive, TypeOK, EnvironmentOK
<1>4. /\ r \notin gossip
      /\ \A g \in DOMAIN txs : txs[g].identity # r
    BY <1>2
    DEF Stores, Inductive, GossipedFindable, GetTransactionsByIdentity, ReplyIsKept
<1>5. \A g \in Hash : g # h => LifeOf(g)' = LifeOf(g)
    BY <1>2 DEF LifeOf, PhaseOf, IsGossiped
<1>6. LifeOf(h)' = [phase |-> "pending", identity |-> {r}, window |-> n, block |-> 0]
    <2>1. /\ h \in DOMAIN txs'
          /\ txs'[h].identity = r /\ txs'[h].maxInclusionWindow = n
          /\ txs'[h].status = "init"
        BY <1>2 DEF NewTransaction
    <2>2. ~ IsGossiped(h)'
        BY <1>2, <1>4, <2>1 DEF IsGossiped
    <2>3. PhaseOf(h)' = "pending"
        BY <2>1, <2>2 DEF PhaseOf
    <2> QED
        BY <2>1, <2>2, <2>3 DEF LifeOf
<1>7. /\ Lives[h] = Life!Unknown
      /\ \A g \in Hash : r \notin Lives[g].identity
    BY <1>2, <1>4 DEF Lives, LifeOf, Life!Unknown
<1>8. Lives' = [Lives EXCEPT ![h] =
                  [phase |-> "pending", identity |-> {r}, window |-> n, block |-> 0]]
    BY <1>2, <1>5, <1>6 DEF Lives
<1>9. Life!Accept(h, r, n)
    BY <1>2, <1>7, <1>8 DEF Life!Accept
<1> QED
    BY <1>2, <1>3, <1>9 DEF Life!Next

\* Blocking drops a transaction; every other write of the bid loop is unseen.
LEMMA BidLives ==
    ASSUME Inductive, BlocksInHand, NEW g \in DOMAIN txs, BidWrites(g)
    PROVE  Life!Next \/ UNCHANGED Life!vars
<1> USE DEF PhaseOf, IsGossiped
<1>1. /\ txs[g].identity \notin gossip /\ SameTransactions /\ UNCHANGED envVars
      /\ gossip' = gossip /\ g \in Hash /\ TransactionStoreOK
    BY DEF BidWrites, OnlyStatus, OnlyCommitment, envVars, Inductive, TypeOK,
           TransactionStoreOK
<1>2. /\ \A h \in DOMAIN txs : h # g => PhaseOf(h)' = PhaseOf(h)
      /\ \A h \in DOMAIN txs :
             IsGossiped(h) => txs'[h].commitedBlock = txs[h].commitedBlock
    BY <1>1 DEF BidWrites, OnlyStatus, OnlyCommitment, SameTransactions
<1>3. PhaseOf(g) = "pending"
    BY <1>1 DEF BidWrites
<1>4. CASE txs'[g].status # "blocked"
    <2>1. PhaseOf(g)' = "pending"
        BY <1>1, <1>4 DEF SameTransactions
    <2> QED
        <3> HIDE DEF PhaseOf, IsGossiped
        <3> QED
            BY <1>1, <1>2, <1>3, <2>1, LifeMoves
<1>5. CASE txs'[g].status = "blocked"
    <2>1. PhaseOf(g)' = "dropped"
        BY <1>1, <1>5 DEF SameTransactions
    <2>2. bidder.pc = "block" /\ g \in bidder.pending
        BY <1>5 DEF BidWrites, OnlyStatus, OnlyCommitment
    <2>3. txs[g].maxInclusionWindow < block + InclusionWindow
        BY <2>2, InclusionWindowAssumption
        DEF BlocksInHand, Inductive, TypeOK, EnvironmentOK, BidderOK,
            TransactionStoreOK, StoredTransaction
    <2>4. Lives[g].window = txs[g].maxInclusionWindow
        BY <1>1 DEF Lives, LifeOf
    <2>5. Life!Move(g, "pending", "dropped")
        <3> HIDE DEF PhaseOf, IsGossiped
        <3> QED
            BY <1>1, <1>2, <1>3, <2>1, LifeMoves
    <2>6. Life!Drop(g)
        BY <2>3, <2>4, <2>5 DEF Life!Drop
    <2> QED
        BY <1>1, <2>6 DEF Life!Next
<1> QED
    BY <1>4, <1>5

\* The first commitment that is sent promises the transactions of the bid; the
\* next ones repeat it.
LEMMA GossipLives ==
    ASSUME Inductive, BlocksInHand, Gossips
    PROVE  Life!Next
<1> DEFINE S == {h \in bidder.hashes : ~ IsGossiped(h)}
           b == bidder.block
<1>1. /\ bidder.pc = "gossip" /\ UNCHANGED <<txs, block, onChain>>
      /\ gossip' = gossip \union bidder.identities
    BY DEF Gossips
<1>2. /\ bidder.identities = {txs[h].identity : h \in bidder.hashes}
      /\ \A h \in bidder.hashes : b <= txs[h].maxInclusionWindow
      /\ b # 0 /\ bidder.hashes \subseteq DOMAIN txs
    BY <1>1 DEF Inductive, BidLocals, BidsAreStored
<1>3. b \in 1 .. block + InclusionWindow
    BY <1>2, InclusionWindowAssumption
    DEF BlocksInHand, Inductive, TypeOK, EnvironmentOK, BidderOK
<1>4. S \in SUBSET Hash
    BY <1>2 DEF Inductive, TypeOK, TransactionStoreOK
<1>5. \A h \in DOMAIN txs : txs[h].identity \in bidder.identities => h \in bidder.hashes
    BY <1>2 DEF Inductive, ReplyIsKept, TypeOK, TransactionStoreOK, StoredTransaction, Request
<1>6. \A h \in DOMAIN txs : IsGossiped(h)' <=> IsGossiped(h) \/ h \in S
    BY <1>1, <1>2, <1>5 DEF IsGossiped
<1>7. \A h \in Hash \ S : LifeOf(h)' = LifeOf(h)
    BY <1>1, <1>6 DEF LifeOf, PhaseOf
<1>8. ASSUME NEW h \in S
      PROVE  /\ LifeOf(h).phase = "pending" /\ b <= LifeOf(h).window
             /\ LifeOf(h)' = [phase    |-> "promised",
                              identity |-> LifeOf(h).identity,
                              window   |-> LifeOf(h).window,
                              block    |-> b]
    <2>1. h \in DOMAIN txs /\ ~ IsGossiped(h) /\ IsGossiped(h)'
        BY <1>2, <1>6
    <2>2. /\ txs[h].status \in Settled /\ txs[h].commitedBlock = b
          /\ txs[h].decryptionKey # TRUE /\ txs[h].status # "finalised"
        BY <1>1, <2>1 DEF Inductive, BidStatuses, StatusOf, GossipInv, IsGossiped
    <2> DEFINE L(ph, bl) == [phase    |-> ph,
                             identity |-> {txs[h].identity},
                             window   |-> txs[h].maxInclusionWindow,
                             block    |-> bl]
    <2>3. LifeOf(h) = L("pending", 0)
        BY <2>1, <2>2 DEF LifeOf, PhaseOf, Settled
    <2>4. LifeOf(h)' = L("promised", b)
        BY <1>1, <2>1, <2>2 DEF LifeOf, PhaseOf
    <2>5. b <= txs[h].maxInclusionWindow
        BY <1>2
    <2> QED
        BY <2>3, <2>4, <2>5
<1>9. Lives' = [h \in Hash |->
                  IF h \in S THEN [phase    |-> "promised",
                                   identity |-> Lives[h].identity,
                                   window   |-> Lives[h].window,
                                   block    |-> b]
                             ELSE Lives[h]]
    <2> HIDE DEF S, b
    <2> QED
        BY <1>4, <1>7, <1>8 DEF Lives
<1>10. \A h \in S : Lives[h].phase = "pending" /\ b <= Lives[h].window
    BY <1>4, <1>8 DEF Lives
<1>11. Life!Promise(S, b)
    BY <1>1, <1>9, <1>10 DEF Life!Promise
<1> QED
    BY <1>3, <1>4, <1>11 DEF Life!Next

\* What the key handler and the verifier write.
LEMMA KeyLives ==
    ASSUME Inductive, NEW g \in DOMAIN txs, KeyComes(g) \/ Decrypts(g) \/ Finalises(g)
    PROVE  Life!Next \/ UNCHANGED Life!vars
<1> USE DEF PhaseOf, IsGossiped
<1>1. /\ txs[g].identity \in gossip /\ SameTransactions /\ UNCHANGED envVars
      /\ gossip' = gossip /\ g \in Hash /\ TransactionStoreOK
    BY DEF KeyComes, Decrypts, Finalises, OnlyStatus, OnlyKey, envVars, Inductive, TypeOK,
           TransactionStoreOK
<1>2. /\ \A h \in DOMAIN txs : h # g => PhaseOf(h)' = PhaseOf(h)
      /\ \A h \in DOMAIN txs :
             IsGossiped(h) => txs'[h].commitedBlock = txs[h].commitedBlock
    BY <1>1 DEF KeyComes, Decrypts, Finalises, OnlyStatus, OnlyKey, SameTransactions
<1>3. txs[g].status = "finalised" => txs[g].decryptionKey
    BY DEF Inductive, GossipInv
<1>4. ASSUME NEW from, PhaseOf(g) = from, NEW to, PhaseOf(g)' = to
      PROVE  /\ from = to => UNCHANGED Life!vars
             /\ from # to => Life!Move(g, from, to)
    <2> HIDE DEF PhaseOf, IsGossiped
    <2> QED
        BY <1>1, <1>2, <1>4, LifeMoves
<1>6. CASE KeyComes(g)
    <2>1. \/ PhaseOf(g) = "promised" /\ PhaseOf(g)' = "revealed"
          \/ PhaseOf(g) = "revealed" /\ PhaseOf(g)' = "revealed"
          \/ PhaseOf(g) = "confirmed" /\ PhaseOf(g)' = "confirmed"
        BY <1>1, <1>3, <1>6 DEF KeyComes, OnlyKey, SameTransactions
    <2> QED
        BY <1>1, <1>4, <2>1 DEF Life!Next, Life!Reveal
<1>7. CASE Decrypts(g)
    <2>1. \/ PhaseOf(g) = "revealed" /\ PhaseOf(g)' = "revealed"
          \/ PhaseOf(g) = "confirmed" /\ PhaseOf(g)' = "revealed"
        BY <1>1, <1>7 DEF Decrypts, OnlyStatus, SameTransactions
    <2> QED
        BY <1>1, <1>4, <2>1 DEF Life!Next, Life!Reopen
<1>8. CASE Finalises(g)
    <2>1. \/ PhaseOf(g) = "revealed" /\ PhaseOf(g)' = "confirmed"
          \/ PhaseOf(g) = "confirmed" /\ PhaseOf(g)' = "confirmed"
        BY <1>1, <1>8 DEF Finalises, OnlyStatus, SameTransactions
    <2>2. g \in onChain /\ Lives[g].block <= block
        BY <1>1, <1>8 DEF Finalises, Lives, LifeOf
    <2> QED
        BY <1>1, <1>4, <2>1, <2>2 DEF Life!Next, Life!Confirm
<1> QED
    BY <1>6, <1>7, <1>8

LEMMA StepLives ==
    Inductive /\ BlocksInHand /\ [Next]_vars => [Life!Next]_(Life!vars)
BY StepKind, QuietLives, GrowLives, StoreLives, BidLives, GossipLives, KeyLives
DEF Life!Next

\* The sequencer does what it promises: every behaviour of it, seen through
\* Lives, is a behaviour of TxLifecycle.
THEOREM SequencerImplementsTxLifecycle == Spec => ImplementsTxLifecycle
BY InitLives, StepLives, InductiveInvariant, BlocksAreRead, PTL
DEF Spec, ImplementsTxLifecycle, Life!Spec

=============================================================================
