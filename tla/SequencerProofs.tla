-------------------------- MODULE SequencerProofs --------------------------
(***************************************************************************)
(* Proofs about Sequencer, for every value of its constants.               *)
(***************************************************************************)
EXTENDS SequencerInvariant, FiniteSetTheorems, TLAPS

-----------------------------------------------------------------------------
(***************************************************************************)
(* Type correctness                                                        *)
(***************************************************************************)

\* Each writer of the store leaves a store that knows the same hashes, and more.
LEMMA StatusWriteType ==
    ASSUME TransactionStoreOK, NEW h, NEW s \in TransactionStatus,
           UpdateTransactionStatus(h, s)
    PROVE  TransactionStoreOK' /\ DOMAIN txs \subseteq DOMAIN txs'
BY DEF TransactionStoreOK, StoredTransaction, UpdateTransactionStatus

LEMMA CommitWriteType ==
    ASSUME TransactionStoreOK, NEW h, NEW b \in Nat,
           UpdateCommittedTransaction(h, b)
    PROVE  TransactionStoreOK' /\ DOMAIN txs \subseteq DOMAIN txs'
<1>1. DOMAIN txs' = DOMAIN txs
    BY DEF UpdateCommittedTransaction
<1>2. txs' = [g \in DOMAIN txs |->
                IF g = h THEN [txs[g] EXCEPT !.status = "committed", !.commitedBlock = b]
                         ELSE txs[g]]
    BY DEF UpdateCommittedTransaction
<1>3. \A g \in DOMAIN txs :
          [txs[g] EXCEPT !.status = "committed", !.commitedBlock = b] \in StoredTransaction
    BY DEF TransactionStoreOK, StoredTransaction, TransactionStatus
<1> QED
    BY <1>1, <1>2, <1>3 DEF TransactionStoreOK

LEMMA KeyWriteType ==
    ASSUME TransactionStoreOK, NEW h, SetDecryptionKey(h)
    PROVE  TransactionStoreOK' /\ DOMAIN txs \subseteq DOMAIN txs'
BY DEF TransactionStoreOK, StoredTransaction, SetDecryptionKey

LEMMA StoreType ==
    ASSUME TransactionStoreOK, NEW h \in Hash, NEW i \in Identity, NEW e \in Nat, NEW n \in Nat,
           StoreTransaction(h, i, e, n)
    PROVE  TransactionStoreOK' /\ DOMAIN txs \subseteq DOMAIN txs'
BY DEF TransactionStoreOK, StoredTransaction, TransactionStatus,
       StoreTransaction, PutTransaction, NewTransaction

\* An eon is a number.
LEMMA EonType == \A b \in Nat : EonOf(b) \in Nat
<1> TAKE b \in Nat
<1>1. IsFiniteSet({s \in EonStart : s <= b})
    BY EonStartAssumption, FS_Subset
<1> QED
    BY <1>1, FS_CardinalityType DEF EonOf

\* A later block is never in an earlier eon.
LEMMA EonMonotone ==
    ASSUME NEW b \in Nat, NEW c \in Nat, b <= c
    PROVE  EonOf(b) <= EonOf(c)
<1>1. \A s \in EonStart : s <= b => s <= c
    BY EonStartAssumption
<1>2. {s \in EonStart : s <= b} \subseteq {s \in EonStart : s <= c}
    BY <1>1
<1>3. IsFiniteSet({s \in EonStart : s <= c})
    BY EonStartAssumption, FS_Subset
<1> QED
    BY <1>2, <1>3, FS_Subset DEF EonOf

\* Two blocks between which no keyper set takes over are in one eon.
LEMMA EonConstant ==
    ASSUME NEW b \in Nat, NEW c \in Nat, b <= c,
           \A s \in EonStart : ~ (b < s /\ s <= c)
    PROVE  EonOf(b) = EonOf(c)
<1>1. \A s \in EonStart : s <= b <=> s <= c
    BY EonStartAssumption
<1>2. {s \in EonStart : s <= b} = {s \in EonStart : s <= c}
    BY <1>1
<1> QED
    BY <1>2 DEF EonOf

LEMMA InitType == Init => TypeOK
<1> SUFFICES ASSUME Init PROVE TypeOK
    OBVIOUS
<1>1. TransactionStoreOK
    BY DEF Init, TransactionStoreOK
<1>2. EnvironmentOK
    BY DEF Init, InitEnvironment, EnvironmentOK
<1>3. RpcOK
    BY DEF Init, InitRpc, RpcOK, RpcState
<1>4. BidderOK
    BY DEF Init, InitBidder, IdleBidder, BidderOK, BidderPc
<1>5. KeyHandlerOK
    BY DEF Init, InitKeyHandler, IdleHandler, KeyHandlerOK
<1>6. VerifierOK
    BY DEF Init, InitVerifier, IdleVerifier, VerifierOK
<1> QED
    BY <1>1, <1>2, <1>3, <1>4, <1>5, <1>6 DEF TypeOK

LEMMA MineType == TypeOK /\ MineStep => TypeOK'
<1> SUFFICES ASSUME TypeOK, MineStep PROVE TypeOK'
    OBVIOUS
<1>1. EnvironmentOK'
    BY DEF TypeOK, EnvironmentOK, MineStep, Mine
<1>2. txs' = txs /\ rpc' = rpc /\ bidder' = bidder /\ keyh' = keyh /\ verifier' = verifier
    BY DEF MineStep, Mine
<1> QED
    BY <1>1, <1>2 DEF TypeOK, TransactionStoreOK, RpcOK, BidderOK, KeyHandlerOK, VerifierOK

LEMMA RpcType == TypeOK /\ RpcTurn => TypeOK'
<1> SUFFICES ASSUME TypeOK, RpcTurn PROVE TypeOK'
    OBVIOUS
<1> USE DEF TypeOK
<1>1. PICK r \in Request :
          \/ LookUp(r) \/ EncryptTransaction(r) \/ EncryptionFails(r)
          \/ StoreEncrypted(r) \/ StoreRefused(r)
    BY DEF RpcTurn, RpcStep
<1>2. RpcOK' /\ TransactionStoreOK'
    <2>1. CASE LookUp(r)
        BY <2>1 DEF LookUp, RpcOK, RpcState, TransactionStoreOK
    <2>2. CASE EncryptTransaction(r)
        <3>1. ScheduledBlock \in Nat
            BY MaxInclusionWindowAssumption DEF ScheduledBlock, EnvironmentOK
        <3> QED
            BY <2>2, <3>1, EonType DEF EncryptTransaction, RpcOK, RpcState, TransactionStoreOK
    <2>3. CASE EncryptionFails(r)
        BY <2>3 DEF EncryptionFails, RpcOK, RpcState, TransactionStoreOK
    <2>4. CASE StoreEncrypted(r)
        <3>1. rpc[r].hash \in Hash /\ rpc[r].eon \in Nat /\ rpc[r].window \in Nat /\ r \in Identity
            BY DEF RpcOK, Request
        <3>2. TransactionStoreOK'
            BY <2>4, <3>1, StoreType DEF StoreEncrypted
        <3> QED
            BY <2>4, <3>2 DEF StoreEncrypted, RpcOK, RpcState
    <2>5. CASE StoreRefused(r)
        BY <2>5 DEF StoreRefused, RpcOK, RpcState, TransactionStoreOK
    <2> QED
        BY <1>1, <2>1, <2>2, <2>3, <2>4, <2>5
<1>3. UNCHANGED <<envVars, bidder, keyh, verifier>>
    BY DEF RpcTurn
<1> QED
    BY <1>2, <1>3 DEF envVars, EnvironmentOK, BidderOK, KeyHandlerOK, VerifierOK

LEMMA KeyType == TypeOK /\ KeyTurn => TypeOK'
<1> SUFFICES ASSUME TypeOK, KeyTurn PROVE TypeOK'
    OBVIOUS
<1> USE DEF TypeOK
<1>1. PICK w \in Worker :
          \/ \E keys \in SUBSET Released : ReceiveKeys(w, keys)
          \/ \E i \in keyh[w].keys : SkipUnknown(w, i) \/ SetKey(w, i)
          \/ MarkDecrypted(w)
    BY DEF KeyTurn, KeyStep, HandleMessage
<1>2. KeyHandlerOK' /\ TransactionStoreOK'
    <2>1. CASE \E keys \in SUBSET Released : ReceiveKeys(w, keys)
        BY <2>1 DEF ReceiveKeys, Released, KeyHandlerOK, EnvironmentOK, TransactionStoreOK
    <2>2. ASSUME NEW i \in keyh[w].keys, SkipUnknown(w, i)
          PROVE  KeyHandlerOK' /\ TransactionStoreOK'
        BY <2>2 DEF SkipUnknown, KeyHandlerOK, TransactionStoreOK
    <2>3. ASSUME NEW i \in keyh[w].keys, SetKey(w, i)
          PROVE  KeyHandlerOK' /\ TransactionStoreOK'
        <3>1. PICK h \in DOMAIN txs :
                  /\ SetDecryptionKey(h)
                  /\ keyh' = [keyh EXCEPT ![w].keys = @ \ {i}, ![w].found = {h}]
            BY <2>3 DEF SetKey, GetTransactionsByIdentity
        <3> QED
            BY <3>1, KeyWriteType DEF KeyHandlerOK, TransactionStoreOK
    <2>4. CASE MarkDecrypted(w)
        <3>1. TransactionStoreOK'
            BY <2>4, StatusWriteType DEF MarkDecrypted, TransactionStatus
        <3> QED
            BY <2>4, <3>1 DEF MarkDecrypted, KeyHandlerOK
    <2> QED
        BY <1>1, <2>1, <2>2, <2>3, <2>4
<1>3. UNCHANGED <<envVars, rpc, bidder, verifier>>
    BY DEF KeyTurn
<1> QED
    BY <1>2, <1>3 DEF envVars, EnvironmentOK, RpcOK, BidderOK, VerifierOK

LEMMA VerifierType == TypeOK /\ VerifierTurn => TypeOK'
<1> SUFFICES ASSUME TypeOK, VerifierTurn PROVE TypeOK'
    OBVIOUS
<1> USE DEF TypeOK
<1>1. VerifierOK' /\ TransactionStoreOK'
    <2> USE DEF VerifierOK, TransactionStoreOK
    <2>1. CASE GetBlockNumber
        BY <2>1 DEF GetBlockNumber, EnvironmentOK
    <2>2. CASE ListDecrypted
        BY <2>2 DEF ListDecrypted, GetTransactionsByCommitedBlock
    <2>3. ASSUME NEW h \in Hash, ReceiptFound(h)
          PROVE  VerifierOK' /\ TransactionStoreOK'
        BY <2>3 DEF ReceiptFound
    <2>4. ASSUME NEW h \in Hash, NoReceipt(h)
          PROVE  VerifierOK' /\ TransactionStoreOK'
        BY <2>4 DEF NoReceipt
    <2>5. CASE Finalise
        <3>1. TransactionStoreOK'
            BY <2>5, StatusWriteType DEF Finalise, TransactionStatus
        <3> QED
            BY <2>5, <3>1 DEF Finalise
    <2>6. CASE EndPass
        BY <2>6 DEF EndPass, IdleVerifier
    <2> QED
        BY <2>1, <2>2, <2>3, <2>4, <2>5, <2>6 DEF VerifierTurn, VerifierStep
<1>2. UNCHANGED <<envVars, rpc, bidder, keyh>>
    BY DEF VerifierTurn
<1> QED
    BY <1>1, <1>2 DEF envVars, EnvironmentOK, RpcOK, BidderOK, KeyHandlerOK

\* The steps of the bid loop that leave the store alone, and those that write
\* to it, are typed apart.
LEMMA BidLocalType ==
    ASSUME TypeOK, BidsAreStored, Local,
           \/ ReadBlock \/ NothingToBid \/ Classify \/ NoBid \/ CreateBid
           \/ SendBid \/ SendBidFails
           \/ \E p \in Provider : ReceiveCommitment(p)
           \/ StreamEnds \/ BidTimesOut \/ StreamFails \/ ReturnError \/ BidDropped
           \/ \E p \in Provider : SkipCommitment(p)
           \/ BidDone
    PROVE  BidderOK' /\ BidsAreStored'
<1> USE DEF TypeOK, BidderOK, BidderPc, BidsAreStored, Local, GoTo, IdleBidder
<1>1. CASE ReadBlock
    <2>1. block + InclusionWindow \in Nat
        BY InclusionWindowAssumption DEF EnvironmentOK
    <2> QED
        BY <1>1, <2>1 DEF ReadBlock
<1>2. CASE NothingToBid \/ NoBid \/ BidDropped \/ BidDone
    BY <1>2 DEF NothingToBid, NoBid, BidDropped, BidDone
<1>3. CASE Classify
    BY <1>3 DEF Classify, GetTransactionsByStatus, Expired, TransactionStoreOK
<1>4. CASE CreateBid
    <2>1. {txs[h].identity : h \in bidder.hashes} \subseteq Identity
        BY DEF BidsAreStored, TransactionStoreOK, StoredTransaction
    <2> QED
        BY <1>4, <2>1 DEF CreateBid
<1>5. CASE SendBid \/ SendBidFails \/ BidTimesOut \/ StreamFails \/ ReturnError
    BY <1>5 DEF SendBid, SendBidFails, BidTimesOut, StreamFails, ReturnError
<1>6. ASSUME NEW p \in Provider, ReceiveCommitment(p)
      PROVE  BidderOK' /\ BidsAreStored'
    BY <1>6 DEF ReceiveCommitment
<1>7. CASE StreamEnds
    BY <1>7 DEF StreamEnds, ReturnCommitments
<1>8. ASSUME NEW p \in Provider, SkipCommitment(p)
      PROVE  BidderOK' /\ BidsAreStored'
    BY <1>8 DEF SkipCommitment
<1> QED
    BY <1>1, <1>2, <1>3, <1>4, <1>5, <1>6, <1>7, <1>8

LEMMA BidWriteType ==
    ASSUME TypeOK, BidsAreStored, NEW h \in Hash,
           \/ BlockExpired(h) \/ MarkBidSubmitted(h) \/ MarkCommitted(h)
           \/ RemarkInit(h) \/ ResetInit(h)
    PROVE  TransactionStoreOK' /\ BidderOK' /\ BidsAreStored' /\ gossip' = gossip
<1> USE DEF TypeOK
<1>1. Turn(h)
    BY DEF BlockExpired, MarkBidSubmitted, MarkCommitted, RemarkInit, ResetInit, WriteStatus
<1>2. TransactionStoreOK' /\ DOMAIN txs \subseteq DOMAIN txs'
    <2>1. CASE MarkCommitted(h)
        <3>1. bidder.block \in Nat
            BY DEF BidderOK
        <3> QED
            BY <2>1, <3>1, CommitWriteType DEF MarkCommitted
    <2>2. CASE \E s \in TransactionStatus : WriteStatus(h, s)
        BY <2>2, StatusWriteType DEF WriteStatus
    <2> QED
        BY <2>1, <2>2
        DEF BlockExpired, MarkBidSubmitted, RemarkInit, ResetInit, TransactionStatus
<1>3. BidderOK' /\ gossip' = gossip
    BY <1>1 DEF Turn, BidderOK
<1>4. BidsAreStored'
    BY <1>1, <1>2 DEF Turn, BidsAreStored, BidderOK
<1> QED
    BY <1>2, <1>3, <1>4

LEMMA BidType == TypeOK /\ BidsAreStored /\ BidTurn => TypeOK' /\ BidsAreStored'
<1> SUFFICES ASSUME TypeOK, BidsAreStored, BidTurn
             PROVE  TypeOK' /\ BidsAreStored'
    OBVIOUS
<1>1. UNCHANGED <<block, onChain, rpc, keyh, verifier>>
    BY DEF BidTurn
<1>2. SUFFICES TransactionStoreOK' /\ EnvironmentOK' /\ BidderOK' /\ BidsAreStored'
    BY <1>1 DEF TypeOK, RpcOK, KeyHandlerOK, VerifierOK
<1>3. ASSUME NEW h \in Hash,
             \/ BlockExpired(h) \/ MarkBidSubmitted(h) \/ MarkCommitted(h)
             \/ RemarkInit(h) \/ ResetInit(h)
      PROVE  TransactionStoreOK' /\ EnvironmentOK' /\ BidderOK' /\ BidsAreStored'
    BY <1>1, <1>3, BidWriteType DEF TypeOK, EnvironmentOK
<1>4. ASSUME NEW p \in Provider, SendCommitment(p)
      PROVE  TransactionStoreOK' /\ EnvironmentOK' /\ BidderOK' /\ BidsAreStored'
    BY <1>1, <1>4
    DEF SendCommitment, TypeOK, TransactionStoreOK, EnvironmentOK, BidderOK, BidsAreStored
<1>5. CASE Local /\ \/ ReadBlock \/ NothingToBid \/ Classify \/ NoBid \/ CreateBid
                    \/ SendBid \/ SendBidFails
                    \/ \E p \in Provider : ReceiveCommitment(p)
                    \/ StreamEnds \/ BidTimesOut \/ StreamFails \/ ReturnError
                    \/ BidDropped
                    \/ \E p \in Provider : SkipCommitment(p)
                    \/ BidDone
    <2>1. BidderOK' /\ BidsAreStored'
        BY <1>5, BidLocalType
    <2> QED
        BY <1>1, <1>5, <2>1 DEF Local, TypeOK, TransactionStoreOK, EnvironmentOK
<1> QED
    BY <1>3, <1>4, <1>5
    DEF BidTurn, BidStep, BidAround, BidOnStream, ReadBlock, NothingToBid, Classify, NoBid,
        CreateBid,
        SendBid, SendBidFails, ReceiveCommitment, StreamEnds, BidTimesOut,
        StreamFails, ReturnError, BidDropped, SkipCommitment, BidDone

\* No step of another goroutine makes the store forget a transaction.
LEMMA OthersKeepBids ==
    ASSUME TypeOK, BidsAreStored, MineStep \/ RpcTurn \/ KeyTurn \/ VerifierTurn
    PROVE  BidsAreStored'
<1>1. bidder' = bidder
    BY DEF MineStep, RpcTurn, KeyTurn, VerifierTurn
<1>2. DOMAIN txs \subseteq DOMAIN txs'
    <2>1. CASE MineStep
        BY <2>1 DEF MineStep, Mine
    <2>2. CASE RpcTurn
        BY <2>2
        DEF RpcTurn, RpcStep, LookUp, EncryptTransaction, EncryptionFails,
            StoreEncrypted, StoreRefused, StoreTransaction, PutTransaction
    <2>3. CASE KeyTurn
        BY <2>3
        DEF KeyTurn, KeyStep, HandleMessage, ReceiveKeys, SkipUnknown, SetKey,
            MarkDecrypted, SetDecryptionKey, UpdateTransactionStatus
    <2>4. CASE VerifierTurn
        BY <2>4
        DEF VerifierTurn, VerifierStep, GetBlockNumber, ListDecrypted, ReceiptFound,
            NoReceipt, Finalise, EndPass, UpdateTransactionStatus
    <2> QED
        BY <2>1, <2>2, <2>3, <2>4
<1> QED
    BY <1>1, <1>2 DEF BidsAreStored

\* In every state that the sequencer reaches, every variable is of its type.
THEOREM TypeCorrect == Spec => []TypeOK
<1>1. Init => TypeOK /\ BidsAreStored
    BY InitType DEF Init, InitBidder, IdleBidder, BidsAreStored
<1>2. TypeOK /\ BidsAreStored /\ [Next]_vars => TypeOK' /\ BidsAreStored'
    <2> SUFFICES ASSUME TypeOK, BidsAreStored, [Next]_vars
                 PROVE  TypeOK' /\ BidsAreStored'
        OBVIOUS
    <2>1. CASE Next
        BY <2>1, MineType, RpcType, BidType, KeyType, VerifierType, OthersKeepBids DEF Next
    <2>2. CASE UNCHANGED vars
        BY <2>2
        DEF vars, envVars, TypeOK, TransactionStoreOK, EnvironmentOK, RpcOK,
            BidderOK, KeyHandlerOK, VerifierOK, BidsAreStored
    <2> QED
        BY <2>1, <2>2
<1> QED
    BY <1>1, <1>2, PTL DEF Spec

=============================================================================
