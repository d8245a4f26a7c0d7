--------------------------- MODULE PropertyProofs ---------------------------
(***************************************************************************)
(* More safety properties of Sequencer: of the eons its transactions are   *)
(* encrypted for, and of the keys on their way to them.  Each is inductive *)
(* relative to Inductive, together with a fact about the locals of the     *)
(* goroutines (StrongInductive).                                           *)
(***************************************************************************)
EXTENDS LifecycleProofs

-----------------------------------------------------------------------------
(***************************************************************************)
(* What a step leaves in the store                                         *)
(***************************************************************************)

\* Nothing is taken from the store or back from the keypers.
LEMMA StoreGrows ==
    ASSUME Inductive, [Next]_vars
    PROVE  /\ gossip \subseteq gossip'
           /\ \A h \in DOMAIN txs :
                  h \in DOMAIN txs' /\ txs'[h].identity = txs[h].identity
<1>1. CASE Quiet \/ Grows \/ Gossips
    BY <1>1 DEF Quiet, Grows, Mine, Gossips, envVars
<1>2. CASE \E r \in Request : Stores(r)
    BY <1>2 DEF Stores, OnlyNew, envVars
<1>3. CASE \E g \in DOMAIN txs : BidWrites(g)
    BY <1>3 DEF BidWrites, OnlyStatus, OnlyCommitment, SameTransactions, envVars
<1>4. CASE \E g \in DOMAIN txs : KeyComes(g) \/ Decrypts(g) \/ Finalises(g)
    BY <1>4 DEF KeyComes, Decrypts, Finalises, OnlyKey, OnlyStatus, SameTransactions, envVars
<1> QED
    BY <1>1, <1>2, <1>3, <1>4, StepKind

\* Only the key handler gives a transaction its key.
LEMMA KeysStay ==
    ASSUME Inductive, MineStep \/ RpcTurn \/ BidTurn \/ VerifierTurn
    PROVE  \A h \in DOMAIN txs' :
               txs'[h].decryptionKey => h \in DOMAIN txs /\ txs[h].decryptionKey
<1>1. CASE Quiet \/ Gossips \/ MineStep
    BY <1>1 DEF Quiet, MineStep, Mine, Gossips
<1>2. CASE \E r \in Request : Stores(r)
    <2>1. PICK r \in Request : Stores(r)
        BY <1>2
    <2>2. txs'[rpc[r].hash].decryptionKey = FALSE
        BY <2>1 DEF Stores, OnlyNew, NewTransaction
    <2> QED
        BY <2>1, <2>2 DEF Stores, OnlyNew
<1>3. CASE \E g \in DOMAIN txs : BidWrites(g) \/ Finalises(g)
    BY <1>3 DEF BidWrites, Finalises, OnlyStatus, OnlyCommitment, SameTransactions
<1> QED
    BY <1>1, <1>2, <1>3, RpcKind, BidKind, VerifierKind

-----------------------------------------------------------------------------
(***************************************************************************)
(* The eons                                                                *)
(***************************************************************************)

LEMMA InitEons == Init => EonsInHand
BY DEF Init, InitRpc, EonsInHand

LEMMA EonsKept ==
    ASSUME Inductive, EonsInHand, [Next]_vars
    PROVE  EonsInHand'
<1>1. \A r \in Request : rpc'[r].pc = "store" => rpc'[r].eon = EonOf(rpc'[r].window)
    <2>1. CASE RpcTurn
        BY <2>1
        DEF EonsInHand, Inductive, TypeOK, RpcOK, RpcTurn, RpcStep, LookUp,
            EncryptTransaction, EncryptionFails, StoreEncrypted, StoreRefused
    <2>2. CASE rpc' = rpc
        BY <2>2 DEF EonsInHand
    <2> QED
        BY <2>1, <2>2 DEF Next, MineStep, BidTurn, KeyTurn, VerifierTurn, vars
<1>2. \A h \in DOMAIN txs' : txs'[h].eon = EonOf(txs'[h].maxInclusionWindow)
    <2>1. CASE UNCHANGED txs \/ SameTransactions
        BY <2>1 DEF EonsInHand, SameTransactions
    <2>2. ASSUME NEW r \in Request, Stores(r)
          PROVE  \A h \in DOMAIN txs' : txs'[h].eon = EonOf(txs'[h].maxInclusionWindow)
        <3>1. rpc[r].eon = EonOf(rpc[r].window)
            BY <2>2 DEF Stores, EonsInHand
        <3>2. /\ txs'[rpc[r].hash].eon = rpc[r].eon
              /\ txs'[rpc[r].hash].maxInclusionWindow = rpc[r].window
            BY <2>2 DEF Stores, OnlyNew, NewTransaction
        <3> QED
            BY <2>2, <3>1, <3>2 DEF Stores, OnlyNew, EonsInHand
    <2> QED
        BY <2>1, <2>2, StepKind
        DEF Quiet, Grows, Mine, Gossips, BidWrites, KeyComes, Decrypts, Finalises,
            OnlyStatus, OnlyCommitment, OnlyKey
<1> QED
    BY <1>1, <1>2 DEF EonsInHand

-----------------------------------------------------------------------------
(***************************************************************************)
(* The keys                                                                *)
(***************************************************************************)

\* The steps of the key handler, with the transaction they are about.
LEMMA HandlerMoves ==
    ASSUME Inductive, KeyTurn
    PROVE  \E w \in Worker :
              /\ \A v \in Worker : v # w => keyh'[v] = keyh[v]
              /\ \/ /\ keyh[w].keys = {} /\ keyh'[w].found = keyh[w].found
                    /\ txs' = txs
                 \/ \E i \in keyh[w].keys :
                       /\ GetTransactionsByIdentity(i) = {} /\ txs' = txs
                       /\ keyh'[w].keys = keyh[w].keys \ {i}
                       /\ keyh'[w].found = keyh[w].found
                 \/ \E h \in DOMAIN txs :
                       /\ OnlyKey(h) /\ keyh[w].found = {}
                       /\ keyh'[w].keys = keyh[w].keys \ {txs[h].identity}
                       /\ keyh'[w].found = {h}
                 \/ \E h \in keyh[w].found :
                       /\ h \in DOMAIN txs /\ OnlyStatus(h, "decrypted")
                       /\ keyh'[w].keys = keyh[w].keys /\ keyh'[w].found = {}
<1> USE DEF Inductive, TypeOK, KeyHandlerOK
<1>1. PICK w \in Worker :
          \/ \E keys \in SUBSET Released : ReceiveKeys(w, keys)
          \/ \E i \in keyh[w].keys : SkipUnknown(w, i) \/ SetKey(w, i)
          \/ MarkDecrypted(w)
    BY DEF KeyTurn, KeyStep, HandleMessage
<1>2. ASSUME NEW keys \in SUBSET Released, ReceiveKeys(w, keys)
      PROVE  /\ \A v \in Worker : v # w => keyh'[v] = keyh[v]
             /\ keyh[w].keys = {} /\ keyh'[w].found = keyh[w].found /\ txs' = txs
    BY <1>2 DEF ReceiveKeys, IdleHandler
<1>3. ASSUME NEW i \in keyh[w].keys, SkipUnknown(w, i)
      PROVE  /\ \A v \in Worker : v # w => keyh'[v] = keyh[v]
             /\ GetTransactionsByIdentity(i) = {} /\ txs' = txs
             /\ keyh'[w].keys = keyh[w].keys \ {i}
             /\ keyh'[w].found = keyh[w].found
    BY <1>3 DEF SkipUnknown, TakeKey
<1>4. ASSUME NEW i \in keyh[w].keys, SetKey(w, i)
      PROVE  /\ \A v \in Worker : v # w => keyh'[v] = keyh[v]
             /\ \E h \in DOMAIN txs :
                   /\ OnlyKey(h) /\ keyh[w].found = {}
                   /\ keyh'[w].keys = keyh[w].keys \ {txs[h].identity}
                   /\ keyh'[w].found = {h}
    <2>1. PICK h \in DOMAIN txs :
              /\ txs[h].identity = i
              /\ SetDecryptionKey(h)
              /\ keyh' = [keyh EXCEPT ![w].keys = @ \ {i}, ![w].found = {h}]
        BY <1>4 DEF SetKey, GetTransactionsByIdentity
    <2>2. OnlyKey(h)
        BY <2>1, KeyWrite
    <2>3. /\ keyh[w].found = {}
          /\ keyh'[w].keys = keyh[w].keys \ {i} /\ keyh'[w].found = {h}
          /\ \A v \in Worker : v # w => keyh'[v] = keyh[v]
        BY <1>4, <2>1 DEF SetKey, TakeKey
    <2> QED
        BY <2>1, <2>2, <2>3
<1>5. CASE MarkDecrypted(w)
    <2>1. PICK h \in keyh[w].found :
              /\ UpdateTransactionStatus(h, "decrypted")
              /\ keyh' = [keyh EXCEPT ![w].found = {}]
        BY <1>5 DEF MarkDecrypted
    <2>2. h \in DOMAIN txs
        BY DEF KeyInv
    <2>3. OnlyStatus(h, "decrypted")
        BY <2>1, <2>2, StatusWrite DEF TransactionStatus
    <2>4. /\ keyh'[w].keys = keyh[w].keys /\ keyh'[w].found = {}
          /\ \A v \in Worker : v # w => keyh'[v] = keyh[v]
        BY <2>1
    <2> QED
        BY <2>2, <2>3, <2>4
<1> QED
    BY <1>1, <1>2, <1>3, <1>4, <1>5

LEMMA InitKeys == Init => OneFound /\ KeyIsFollowed
BY DEF Init, InitKeyHandler, IdleHandler, OneFound, KeyIsFollowed

LEMMA OneFoundKept ==
    ASSUME Inductive, OneFound, [Next]_vars
    PROVE  OneFound'
<1>1. CASE KeyTurn
    BY <1>1, HandlerMoves DEF OneFound
<1>2. CASE keyh' = keyh
    BY <1>2 DEF OneFound
<1> QED
    BY <1>1, <1>2 DEF Next, MineStep, RpcTurn, BidTurn, VerifierTurn, vars

\* A transaction with its key is one the keypers know, so that no goroutine but
\* the key handler and the verifier writes its status.
LEMMA FollowedKept ==
    ASSUME Inductive, OneFound, KeyIsFollowed, [Next]_vars
    PROVE  KeyIsFollowed'
<1>1. CASE UNCHANGED vars
    BY <1>1 DEF vars, KeyIsFollowed
<1>2. CASE MineStep \/ RpcTurn \/ BidTurn \/ VerifierTurn
    <2>1. keyh' = keyh
        BY <1>2 DEF MineStep, RpcTurn, BidTurn, VerifierTurn
    <2>2. ASSUME NEW h \in DOMAIN txs', txs'[h].decryptionKey
          PROVE  \/ txs'[h].status \in {"decrypted", "finalised"}
                 \/ \E w \in Worker : h \in keyh[w].found
        <3>1. h \in DOMAIN txs /\ txs[h].decryptionKey
            BY <1>2, <2>2, KeysStay
        <3>2. txs[h].identity \in gossip
            BY <3>1 DEF Inductive, GossipInv
        <3> QED
            BY <3>1, <3>2, StatusMoves DEF KeyIsFollowed, StatusOf
    <2> QED
        BY <2>1, <2>2 DEF KeyIsFollowed
<1>3. CASE KeyTurn
    <2>1. PICK w \in Worker :
              /\ \A v \in Worker : v # w => keyh'[v] = keyh[v]
              /\ \/ keyh'[w].found = keyh[w].found /\ txs' = txs
                 \/ \E h \in DOMAIN txs :
                       OnlyKey(h) /\ keyh[w].found = {} /\ keyh'[w].found = {h}
                 \/ \E h \in keyh[w].found : h \in DOMAIN txs /\ OnlyStatus(h, "decrypted")
        BY <1>3, HandlerMoves
    <2>2. CASE keyh'[w].found = keyh[w].found /\ txs' = txs
        <3>1. \A v \in Worker : keyh'[v].found = keyh[v].found
            BY <2>1, <2>2
        <3> QED
            BY <2>2, <3>1 DEF KeyIsFollowed
    <2>3. ASSUME NEW h \in DOMAIN txs,
                 OnlyKey(h) /\ keyh[w].found = {} /\ keyh'[w].found = {h}
          PROVE  KeyIsFollowed'
        BY <2>1, <2>3 DEF KeyIsFollowed, OnlyKey, SameTransactions
    <2>4. ASSUME NEW h \in keyh[w].found, h \in DOMAIN txs, OnlyStatus(h, "decrypted")
          PROVE  KeyIsFollowed'
        <3>1. \A g \in keyh[w].found : g = h
            BY <2>4 DEF OneFound
        <3> QED
            BY <2>1, <2>4, <3>1 DEF KeyIsFollowed, OnlyStatus, SameTransactions
    <2> QED
        BY <2>1, <2>2, <2>3, <2>4
<1> QED
    BY <1>1, <1>2, <1>3 DEF Next

-----------------------------------------------------------------------------
(***************************************************************************)
(* The end of a pass of the bid loop                                       *)
(***************************************************************************)

\* A step that stays at a point has less to do there: it writes one of the
\* transactions left, or deals with one of the commitments left.
Lessens ==
    /\ bidder'.pc = bidder.pc
    /\ CommitmentsLeft' \subseteq CommitmentsLeft
    /\ CommitmentsLeft' = CommitmentsLeft
          => bidder'.pending \subseteq bidder.pending /\ bidder'.pending # bidder.pending

LEMMA TurnLessens ==
    ASSUME BidderOK, NEW h \in Hash, Turn(h)
    PROVE  Lessens
<1>1. /\ bidder'.pc = bidder.pc /\ bidder'.commitments = bidder.commitments
      /\ bidder'.pending = bidder.pending \ {h} /\ h \in bidder.pending
    BY DEF BidderOK, Turn
<1>2. CommitmentsLeft' = CommitmentsLeft
    BY <1>1 DEF CommitmentsLeft
<1> QED
    BY <1>1, <1>2 DEF Lessens

LEMMA CommitmentLessens ==
    ASSUME BidderOK, NEW p \in Provider,
           ReceiveCommitment(p) \/ SendCommitment(p) \/ SkipCommitment(p)
    PROVE  Lessens
<1> USE DEF BidderOK
<1>1. CASE ReceiveCommitment(p)
    <2>1. /\ bidder.pc = "stream" /\ bidder'.pc = "stream" /\ p \notin bidder.commitments
          /\ bidder'.commitments = bidder.commitments \union {p}
        BY <1>1 DEF ReceiveCommitment, LoopEnds, At
    <2>2. /\ CommitmentsLeft = Provider \ bidder.commitments
          /\ CommitmentsLeft' = Provider \ (bidder.commitments \union {p})
        BY <2>1 DEF CommitmentsLeft
    <2>3. p \in CommitmentsLeft /\ p \notin CommitmentsLeft'
        BY <2>1, <2>2
    <2> QED
        BY <2>1, <2>2, <2>3 DEF Lessens
<1>2. CASE SendCommitment(p) \/ SkipCommitment(p)
    <2>1. /\ bidder.pc = "gossip" /\ bidder'.pc = "gossip" /\ p \in bidder.commitments
          /\ bidder'.commitments = bidder.commitments \ {p}
        BY <1>2 DEF SendCommitment, SkipCommitment, At
    <2>2. CommitmentsLeft = bidder.commitments /\ CommitmentsLeft' = bidder.commitments \ {p}
        BY <2>1 DEF CommitmentsLeft
    <2> QED
        BY <2>1, <2>2 DEF Lessens
<1> QED
    BY <1>1, <1>2

LEMMA GoesOn ==
    ASSUME BidderOK, NEW pc \in Ahead(bidder.pc), NEW pending, GoTo(pc, pending)
    PROVE  bidder'.pc \in Ahead(bidder.pc)
BY DEF BidderOK, GoTo

LEMMA PassStep ==
    ASSUME BidderOK, BidTurn
    PROVE  \/ bidder.pc = "idle" /\ bidder'.pc = "classify"
           \/ bidder'.pc \in Ahead(bidder.pc)
           \/ Lessens
<1> USE DEF At, LoopEnds
<1>1. CASE ReadBlock
    BY <1>1 DEF ReadBlock, BidderOK
<1>2. CASE NothingToBid \/ NoBid \/ BidDropped \/ BidDone
    BY <1>2 DEF NothingToBid, NoBid, BidDropped, BidDone, IdleBidder, Ahead, BidderPc
<1>3. CASE Classify \/ CreateBid
    BY <1>3 DEF Classify, CreateBid, BidderOK, Ahead, BidderPc
<1>4. ASSUME NEW h \in Hash,
             \/ BlockExpired(h) \/ MarkBidSubmitted(h) \/ MarkCommitted(h)
             \/ RemarkInit(h) \/ ResetInit(h)
      PROVE  Lessens
    BY <1>4, TurnLessens
    DEF BlockExpired, MarkBidSubmitted, MarkCommitted, RemarkInit, ResetInit, WriteStatus
<1>5. ASSUME NEW p \in Provider,
             ReceiveCommitment(p) \/ SendCommitment(p) \/ SkipCommitment(p)
      PROVE  Lessens
    BY <1>5, CommitmentLessens
<1>6. CASE SendBid \/ SendBidFails
    <2>1. "stream" \in Ahead("mark") /\ "reset" \in Ahead("mark")
        BY DEF Ahead
    <2> QED
        BY <1>6, <2>1, GoesOn DEF SendBid, SendBidFails
<1>7. CASE StreamEnds \/ BidTimesOut \/ StreamFails
    <2>1. "gossip" \in Ahead("stream") /\ "reset" \in Ahead("stream") /\ "remark" \in Ahead("stream")
        BY DEF Ahead
    <2> QED
        BY <1>7, <2>1, GoesOn DEF StreamEnds, ReturnCommitments, BidTimesOut, StreamFails
<1>8. CASE ReturnError
    <2>1. "reset" \in Ahead("remark")
        BY DEF Ahead
    <2> QED
        BY <1>8, <2>1, GoesOn DEF ReturnError
<1> QED
    BY <1>1, <1>2, <1>3, <1>4, <1>5, <1>6, <1>7, <1>8
    DEF BidTurn, BidStep, BidAround, BidOnStream

-----------------------------------------------------------------------------
(***************************************************************************)
(* The theorems                                                            *)
(***************************************************************************)

\* The stronger invariant holds in every state that the sequencer reaches.
THEOREM StrongInvariant == Spec => []StrongInductive
<1>1. Init => StrongInductive
    BY InitInductive, InitEons, InitKeys DEF StrongInductive
<1>2. StrongInductive /\ [Next]_vars => StrongInductive'
    <2>1. Inductive /\ [Next]_vars => Inductive'
        BY MineKeeps, RpcKeeps, BidKeeps, KeyKeeps, VerifierKeeps, StutterKeeps DEF Next
    <2> QED
        BY <2>1, EonsKept, OneFoundKept, FollowedKept DEF StrongInductive
<1> QED
    BY <1>1, <1>2, PTL DEF Spec

\* No transaction is committed for a block of a later keyper set than the one it
\* is encrypted for: its window and its eon were chosen together, the block is
\* in the window, and the eons follow the blocks.  The sets differ only when one
\* takes over in between.
THEOREM EonsAreNotPast == Spec => []EonIsNotPast
<1>1. StrongInductive => EonIsNotPast
    <2> SUFFICES ASSUME StrongInductive, NEW h \in DOMAIN txs
                 PROVE  /\ EonOf(txs[h].commitedBlock) <= txs[h].eon
                        /\ EonOf(txs[h].commitedBlock) # txs[h].eon =>
                              \E s \in EonStart :
                                  /\ txs[h].commitedBlock < s
                                  /\ s <= txs[h].maxInclusionWindow
        BY DEF EonIsNotPast
    <2>1. PICK b \in Nat, n \in Nat :
              b = txs[h].commitedBlock /\ n = txs[h].maxInclusionWindow /\ b <= n
        BY DEF StrongInductive, Inductive, CommittedWithinWindow, TypeOK,
               TransactionStoreOK, StoredTransaction
    <2>2. txs[h].eon = EonOf(n)
        BY <2>1 DEF StrongInductive, EonsInHand
    <2>3. EonOf(b) <= EonOf(n)
        BY <2>1, EonMonotone
    <2>4. EonOf(b) # EonOf(n) => \E s \in EonStart : b < s /\ s <= n
        BY <2>1, EonConstant
    <2> QED
        BY <2>1, <2>2, <2>3, <2>4
<1> QED
    BY <1>1, StrongInvariant, PTL

\* A key that is there is shown by the status, or about to be.
THEOREM KeysAreFollowed == Spec => []KeyIsFollowed
<1>1. StrongInductive => KeyIsFollowed
    BY DEF StrongInductive
<1> QED
    BY <1>1, StrongInvariant, PTL

\* No key is dropped on the way to its transaction: there is one transaction of
\* its identity, the worker takes it in hand with the key, and lets it go with
\* the status.
THEOREM KeysAreHandled == Spec => KeyIsHandled
<1>1. StrongInductive /\ [Next]_vars =>
        \A w \in Worker, h \in DOMAIN txs :
           /\ txs[h].identity \in keyh[w].keys \ keyh'[w].keys
                 => txs'[h].decryptionKey /\ h \in keyh'[w].found
           /\ h \in keyh[w].found \ keyh'[w].found
                 => StatusOf(h)' = "decrypted"
    <2> SUFFICES ASSUME StrongInductive, [Next]_vars, NEW w \in Worker, NEW h \in DOMAIN txs
                 PROVE  /\ txs[h].identity \in keyh[w].keys \ keyh'[w].keys
                              => txs'[h].decryptionKey /\ h \in keyh'[w].found
                        /\ h \in keyh[w].found \ keyh'[w].found
                              => StatusOf(h)' = "decrypted"
        OBVIOUS
    <2>1. CASE keyh'[w] = keyh[w]
        BY <2>1
    <2>2. CASE KeyTurn /\ keyh'[w] # keyh[w]
        <3>1. \A g \in DOMAIN txs : txs[g].identity = txs[h].identity => g = h
            BY DEF StrongInductive, Inductive, ReplyIsKept, TypeOK, TransactionStoreOK,
                   StoredTransaction, Request
        <3>2. \A g \in keyh[w].found : h \in keyh[w].found => g = h
            BY DEF StrongInductive, OneFound
        <3>3. \/ /\ keyh[w].keys = {} /\ keyh'[w].found = keyh[w].found
              \/ \E i \in keyh[w].keys :
                    /\ GetTransactionsByIdentity(i) = {}
                    /\ keyh'[w].keys = keyh[w].keys \ {i}
                    /\ keyh'[w].found = keyh[w].found
              \/ \E g \in DOMAIN txs :
                    /\ OnlyKey(g) /\ keyh[w].found = {}
                    /\ keyh'[w].keys = keyh[w].keys \ {txs[g].identity}
                    /\ keyh'[w].found = {g}
              \/ \E g \in keyh[w].found :
                    /\ g \in DOMAIN txs /\ OnlyStatus(g, "decrypted")
                    /\ keyh'[w].keys = keyh[w].keys /\ keyh'[w].found = {}
            BY <2>2, HandlerMoves DEF StrongInductive
        <3> QED
            BY <3>1, <3>2, <3>3
            DEF GetTransactionsByIdentity, OnlyKey, OnlyStatus, SameTransactions, StatusOf
    <2> QED
        BY <2>1, <2>2 DEF Next, MineStep, RpcTurn, BidTurn, VerifierTurn, vars
<1> QED
    BY <1>1, StrongInvariant, PTL DEF Spec, KeyIsHandled

\* A pass of the bid loop ends: each of its steps goes on to a later point or
\* has less to do, and there are finitely many points, providers and
\* transactions.
THEOREM PassesComeToAnEnd == Spec => PassesEnd
<1>1. TypeOK /\ [Next]_vars =>
        \/ UNCHANGED bidder
        \/ bidder.pc = "idle" /\ bidder'.pc = "classify"
        \/ bidder'.pc \in Ahead(bidder.pc)
        \/ /\ bidder'.pc = bidder.pc
           /\ CommitmentsLeft' \subseteq CommitmentsLeft
           /\ CommitmentsLeft' = CommitmentsLeft
                 => bidder'.pending \subseteq bidder.pending /\ bidder'.pending # bidder.pending
    <2> SUFFICES ASSUME TypeOK, [Next]_vars
                 PROVE  \/ UNCHANGED bidder
                        \/ bidder.pc = "idle" /\ bidder'.pc = "classify"
                        \/ bidder'.pc \in Ahead(bidder.pc)
                        \/ Lessens
        BY DEF Lessens
    <2>1. CASE BidTurn
        BY <2>1, PassStep DEF TypeOK
    <2> QED
        BY <2>1 DEF Next, MineStep, RpcTurn, KeyTurn, VerifierTurn, vars
<1> QED
    BY <1>1, TypeCorrect, PTL DEF Spec, PassesEnd

-----------------------------------------------------------------------------
(***************************************************************************)
(* The promises: those of TxLifecycle, which Sequencer implements          *)
(***************************************************************************)

Kept == INSTANCE TxLifecycleProofs WITH life <- Lives

\* TxLifecycle and the module of its proofs, which extends it, say the same.
LEMMA SameLives ==
    /\ Life!Init => Kept!Init
    /\ [Life!Next]_(Life!vars) => [Kept!Next]_(Kept!vars)
<1>1. Life!Init => Kept!Init
    BY DEF Life!Init, Kept!Init, Life!Unknown, Kept!Unknown
<1>2. Life!Next => Kept!Next
    BY DEF Life!Next, Life!Accept, Life!Drop, Life!Reveal, Life!Confirm, Life!Reopen,
           Life!Promise, Life!Grow, Life!Move, Life!Unknown,
           Kept!Next, Kept!Accept, Kept!Drop, Kept!Reveal, Kept!Confirm, Kept!Reopen,
           Kept!Promise, Kept!Grow, Kept!Move, Kept!Unknown
<1>3. UNCHANGED Life!vars => UNCHANGED Kept!vars
    BY DEF Life!vars, Kept!vars
<1> QED
    BY <1>1, <1>2, <1>3

\* What TxLifecycle says of its promises is so of the sequencer's, as it
\* implements TxLifecycle.
THEOREM PromisesAreHeld == Spec => []PromisesHold
<1>1. Kept!Spec => [](Kept!LifeOK /\ Kept!PromisesHold)
    BY Kept!PromisesAreSound, InclusionWindowAssumption, MaxInclusionWindowAssumption
<1>2. Life!Spec => Kept!Spec
    BY SameLives, PTL DEF Life!Spec, Kept!Spec
<1>3. Kept!PromisesHold => PromisesHold
    BY DEF Kept!PromisesHold, PromisesHold, Life!PromisesHold, Kept!Promised, Life!Promised
<1> QED
    BY <1>1, <1>2, <1>3, SequencerImplementsTxLifecycle, PTL DEF ImplementsTxLifecycle

\* No goroutine takes back what the keypers or the client were told, however
\* blindly it writes the statuses.
THEOREM PromisesAreKept == Spec => PromisesStand
<1>1. Kept!Spec => Kept!PromisesStand
    BY Kept!PromisesAreFinal, InclusionWindowAssumption, MaxInclusionWindowAssumption
<1>2. Life!Spec => Kept!Spec
    BY SameLives, PTL DEF Life!Spec, Kept!Spec
<1>3. Kept!PromisesStand => PromisesStand
    BY DEF Kept!PromisesStand, PromisesStand, Life!PromisesStand, Kept!Promised,
           Life!Promised, Kept!vars, Life!vars
<1> QED
    BY <1>1, <1>2, <1>3, SequencerImplementsTxLifecycle, PTL DEF ImplementsTxLifecycle

=============================================================================
