---------------------------- MODULE SafetyProofs ---------------------------
(***************************************************************************)
(* The safety properties of Sequencer, for every value of its constants:   *)
(* Inductive holds initially, and the step of each goroutine preserves it. *)
(***************************************************************************)
EXTENDS SequencerProofs

-----------------------------------------------------------------------------
(***************************************************************************)
(* What the writers of the store change, field by field                    *)
(***************************************************************************)

\* The same transactions, with the identities, eons and windows they had.
SameTransactions ==
    /\ DOMAIN txs' = DOMAIN txs
    /\ \A g \in DOMAIN txs :
          /\ txs'[g].identity = txs[g].identity
          /\ txs'[g].eon = txs[g].eon
          /\ txs'[g].maxInclusionWindow = txs[g].maxInclusionWindow

OnlyStatus(h, s) ==
    /\ SameTransactions
    /\ \A g \in DOMAIN txs :
          /\ txs'[g].decryptionKey = txs[g].decryptionKey
          /\ txs'[g].commitedBlock = txs[g].commitedBlock
          /\ txs'[g].status = IF g = h THEN s ELSE txs[g].status

OnlyCommitment(h, b) ==
    /\ SameTransactions
    /\ \A g \in DOMAIN txs :
          /\ txs'[g].decryptionKey = txs[g].decryptionKey
          /\ txs'[g].commitedBlock = IF g = h THEN b ELSE txs[g].commitedBlock
          /\ txs'[g].status = IF g = h THEN "committed" ELSE txs[g].status

OnlyKey(h) ==
    /\ SameTransactions
    /\ \A g \in DOMAIN txs :
          /\ txs'[g].decryptionKey = IF g = h THEN TRUE ELSE txs[g].decryptionKey
          /\ txs'[g].commitedBlock = txs[g].commitedBlock
          /\ txs'[g].status = txs[g].status

OnlyNew(h, i, e, n) ==
    /\ h \notin DOMAIN txs
    /\ DOMAIN txs' = DOMAIN txs \union {h}
    /\ \A g \in DOMAIN txs : txs'[g] = txs[g]
    /\ txs'[h] = NewTransaction(i, e, n)

LEMMA StatusWrite ==
    ASSUME TransactionStoreOK, NEW h \in DOMAIN txs, NEW s \in TransactionStatus,
           UpdateTransactionStatus(h, s)
    PROVE  OnlyStatus(h, s)
BY DEF TransactionStoreOK, StoredTransaction, UpdateTransactionStatus,
       OnlyStatus, SameTransactions

LEMMA CommitWrite ==
    ASSUME TransactionStoreOK, NEW h \in DOMAIN txs, NEW b \in Nat,
           UpdateCommittedTransaction(h, b)
    PROVE  OnlyCommitment(h, b)
BY DEF TransactionStoreOK, StoredTransaction, UpdateCommittedTransaction,
       OnlyCommitment, SameTransactions

LEMMA KeyWrite ==
    ASSUME TransactionStoreOK, NEW h \in DOMAIN txs, SetDecryptionKey(h)
    PROVE  OnlyKey(h)
BY DEF TransactionStoreOK, StoredTransaction, SetDecryptionKey, OnlyKey, SameTransactions

LEMMA NewWrite ==
    ASSUME TransactionStoreOK, NEW h \in Hash, NEW i, NEW e, NEW n,
           StoreTransaction(h, i, e, n)
    PROVE  OnlyNew(h, i, e, n)
BY DEF TransactionStoreOK, StoreTransaction, PutTransaction, IsUnknown, OnlyNew

-----------------------------------------------------------------------------
(***************************************************************************)
(* The initial states, the chain and the RPC server                        *)
(***************************************************************************)

LEMMA InitInductive == Init => Inductive
<1> SUFFICES ASSUME Init PROVE Inductive
    OBVIOUS
<1>1. TypeOK
    BY InitType
<1>2. /\ DOMAIN txs = {}
      /\ gossip = {}
      /\ \A r \in Request : rpc[r].pc = "received"
      /\ \A w \in Worker : keyh[w] = IdleHandler
    BY DEF Init, InitEnvironment, InitRpc, InitKeyHandler
<1>3. bidder = IdleBidder /\ verifier = IdleVerifier /\ block = 0
    BY DEF Init, InitEnvironment, InitBidder, InitVerifier
<1>4. BidsAreStored /\ BidStatuses /\ BidLocals /\ BidUnknown
    BY <1>3
    DEF IdleBidder, BidsAreStored, BidStatuses, BidLocals, BidUnknown, BidOpen
<1>5. VerifierInv /\ VerifierListIsCurrent
    BY <1>3 DEF IdleVerifier, VerifierInv, VerifierListIsCurrent
<1>6. KeyInv
    BY <1>2 DEF KeyInv, IdleHandler
<1>7. ReplyIsKept
    BY <1>2 DEF ReplyIsKept
<1> QED
    BY <1>1, <1>2, <1>4, <1>5, <1>6, <1>7
    DEF Inductive, GossipedFindable, GossipInv, CommittedWithinWindow,
        FinalisedIsOnChain, NoStrandedBid

LEMMA MineKeeps == Inductive /\ MineStep => Inductive'
<1> SUFFICES ASSUME Inductive, MineStep PROVE Inductive'
    OBVIOUS
<1> USE DEF Inductive
<1>1. TypeOK'
    BY MineType
<1>2. UNCHANGED <<txs, gossip, rpc, bidder, keyh, verifier>>
    BY DEF MineStep, Mine
<1>3. block \in Nat /\ block' = block + 1 /\ onChain \subseteq onChain'
    BY DEF MineStep, Mine, TypeOK, EnvironmentOK
<1>4. (BidsAreStored /\ BidStatuses /\ BidLocals /\ BidUnknown /\ NoStrandedBid)'
    BY <1>2
    DEF BidsAreStored, BidStatuses, BidLocals, BidUnknown, NoStrandedBid, StatusOf
<1>5. (ReplyIsKept /\ GossipedFindable /\ GossipInv /\ CommittedWithinWindow)'
    BY <1>2
    DEF ReplyIsKept, GossipedFindable, GetTransactionsByIdentity, GossipInv,
        CommittedWithinWindow
<1>6. (KeyInv /\ VerifierListIsCurrent)'
    BY <1>2 DEF KeyInv, Released, VerifierListIsCurrent
<1>7. FinalisedIsOnChain'
    BY <1>2, <1>3 DEF FinalisedIsOnChain, TypeOK, TransactionStoreOK, StoredTransaction
<1>8. VerifierInv'
    BY <1>2, <1>3
    DEF VerifierInv, VerifierListIsCurrent, TypeOK, VerifierOK, TransactionStoreOK,
        StoredTransaction
<1> QED
    BY <1>1, <1>4, <1>5, <1>6, <1>7, <1>8

\* A request that does not store anything changes the requests only.
LEMMA RequestKeeps ==
    ASSUME Inductive, RpcTurn, UNCHANGED txs, ReplyIsKept'
    PROVE  Inductive'
<1> USE DEF Inductive
<1>1. TypeOK'
    BY RpcType
<1>2. UNCHANGED <<txs, envVars, bidder, keyh, verifier>>
    BY DEF RpcTurn
<1>3. (BidsAreStored /\ BidStatuses /\ BidLocals /\ BidUnknown /\ NoStrandedBid)'
    BY <1>2
    DEF envVars, BidsAreStored, BidStatuses, BidLocals, BidUnknown, NoStrandedBid, StatusOf
<1>4. (GossipedFindable /\ GossipInv /\ CommittedWithinWindow /\ FinalisedIsOnChain)'
    BY <1>2
    DEF envVars, GossipedFindable, GetTransactionsByIdentity, GossipInv,
        CommittedWithinWindow, FinalisedIsOnChain
<1>5. (KeyInv /\ VerifierListIsCurrent /\ VerifierInv)'
    BY <1>2 DEF envVars, KeyInv, Released, VerifierListIsCurrent, VerifierInv
<1> QED
    BY <1>1, <1>3, <1>4, <1>5

\* The request that stores its transaction: the store did not know the hash,
\* so no bid, no key and no verification is about it yet.
LEMMA StoreKeeps ==
    ASSUME Inductive, RpcTurn, NEW r \in Request, StoreEncrypted(r)
    PROVE  Inductive'
<1> DEFINE h == rpc[r].hash
           n == rpc[r].window
<1> USE DEF Inductive
<1>1. TypeOK'
    BY RpcType
<1>2. UNCHANGED <<envVars, bidder, keyh, verifier>>
    BY DEF RpcTurn
<1>3. h \in Hash /\ n \in Nat /\ r \in Identity /\ rpc[r].pc = "store"
    BY DEF TypeOK, RpcOK, Request, StoreEncrypted
<1>4. OnlyNew(h, r, rpc[r].eon, n)
    BY <1>3, NewWrite DEF StoreEncrypted, TypeOK
<1>5. txs'[h].identity = r /\ txs'[h].maxInclusionWindow = n /\ txs'[h].decryptionKey = FALSE
      /\ txs'[h].status = "init" /\ txs'[h].commitedBlock = 0
    BY <1>4 DEF OnlyNew, NewTransaction
<1>6. /\ \A q \in Request : rpc'[q].hash = rpc[q].hash
      /\ \A q \in Request : rpc'[q].pc = IF q = r THEN "stored" ELSE rpc[q].pc
    BY DEF StoreEncrypted, TypeOK, RpcOK
<1>7. ReplyIsKept'
    BY <1>3, <1>4, <1>5, <1>6 DEF ReplyIsKept, OnlyNew, TypeOK, RpcOK
<1>8. r \notin gossip
    BY <1>3 DEF GossipedFindable, GetTransactionsByIdentity, ReplyIsKept
<1>9. (GossipedFindable /\ GossipInv)'
    BY <1>2, <1>4, <1>5, <1>8
    DEF envVars, OnlyNew, GossipedFindable, GetTransactionsByIdentity, GossipInv
<1>10. (CommittedWithinWindow /\ FinalisedIsOnChain)'
    BY <1>2, <1>3, <1>4, <1>5 DEF envVars, OnlyNew, CommittedWithinWindow, FinalisedIsOnChain
<1>11. (BidsAreStored /\ BidLocals /\ BidUnknown)'
    BY <1>2, <1>4 DEF envVars, OnlyNew, BidsAreStored, BidLocals, BidUnknown
<1>12. BidStatuses'
    BY <1>2, <1>4 DEF OnlyNew, BidsAreStored, BidStatuses, StatusOf
<1>13. NoStrandedBid'
    BY <1>2, <1>4, <1>5 DEF OnlyNew, NoStrandedBid
<1>14. KeyInv'
    BY <1>2, <1>4 DEF envVars, OnlyNew, KeyInv, Released
<1>15. (VerifierListIsCurrent /\ VerifierInv)'
    BY <1>2, <1>4 DEF envVars, OnlyNew, VerifierListIsCurrent, VerifierInv
<1> QED
    BY <1>1, <1>7, <1>9, <1>10, <1>11, <1>12, <1>13, <1>14, <1>15

LEMMA RpcKeeps == Inductive /\ RpcTurn => Inductive'
<1> SUFFICES ASSUME Inductive, RpcTurn PROVE Inductive'
    OBVIOUS
<1>1. PICK r \in Request :
          \/ LookUp(r) \/ EncryptTransaction(r) \/ EncryptionFails(r)
          \/ StoreEncrypted(r) \/ StoreRefused(r)
    BY DEF RpcTurn, RpcStep
<1> USE DEF TypeOK, RpcOK
<1>2. CASE LookUp(r)
    <2>1. ReplyIsKept'
        BY <1>2 DEF Inductive, LookUp, ReplyIsKept
    <2> QED
        BY <1>2, <2>1, RequestKeeps DEF LookUp
<1>3. CASE EncryptTransaction(r)
    <2>1. ReplyIsKept'
        BY <1>3 DEF Inductive, EncryptTransaction, ReplyIsKept
    <2> QED
        BY <1>3, <2>1, RequestKeeps DEF EncryptTransaction
<1>4. CASE EncryptionFails(r) \/ StoreRefused(r)
    <2>1. ReplyIsKept'
        BY <1>4 DEF Inductive, EncryptionFails, StoreRefused, ReplyIsKept
    <2> QED
        BY <1>4, <2>1, RequestKeeps DEF EncryptionFails, StoreRefused
<1>5. CASE StoreEncrypted(r)
    BY <1>5, StoreKeeps
<1> QED
    BY <1>1, <1>2, <1>3, <1>4, <1>5

-----------------------------------------------------------------------------
(***************************************************************************)
(* The key handler and the verifier                                        *)
(***************************************************************************)

\* A write to a transaction whose key is out disturbs no bid in the making.
LEMMA KnownWriteKeeps ==
    ASSUME Inductive, NEW h \in DOMAIN txs, txs[h].identity \in gossip,
           SameTransactions,
           \A g \in DOMAIN txs : txs'[g].commitedBlock = txs[g].commitedBlock,
           \A g \in DOMAIN txs : g # h => txs'[g].status = txs[g].status,
           txs'[h].status \in Settled,
           UNCHANGED <<gossip, rpc, bidder>>
    PROVE  (/\ ReplyIsKept /\ GossipedFindable /\ CommittedWithinWindow
            /\ NoStrandedBid /\ BidsAreStored /\ BidStatuses /\ BidLocals /\ BidUnknown)'
<1> USE DEF Inductive, SameTransactions
<1>1. (ReplyIsKept /\ GossipedFindable /\ CommittedWithinWindow)'
    BY DEF ReplyIsKept, GossipedFindable, GetTransactionsByIdentity, CommittedWithinWindow
<1>2. (BidsAreStored /\ BidUnknown)'
    BY DEF BidsAreStored, BidUnknown
<1>3. BidLocals'
    <2>1. {txs[g].identity : g \in bidder.hashes} = {txs'[g].identity : g \in bidder.hashes}
        BY DEF BidsAreStored
    <2> QED
        BY <2>1 DEF BidsAreStored, BidLocals
<1>4. bidder.pc # "gossip" => h \notin bidder.hashes \union bidder.pending
    BY DEF BidUnknown
<1>5. BidStatuses'
    BY <1>4 DEF BidsAreStored, BidStatuses, StatusOf, BidOpen, Settled
<1>6. NoStrandedBid'
    BY DEF NoStrandedBid, Settled
<1> QED
    BY <1>1, <1>2, <1>3, <1>5, <1>6

LEMMA SetKeyKeeps ==
    ASSUME Inductive, KeyTurn, NEW w \in Worker, NEW i \in keyh[w].keys, SetKey(w, i)
    PROVE  Inductive'
<1> USE DEF Inductive
<1>1. TypeOK'
    BY KeyType
<1>2. UNCHANGED <<envVars, rpc, bidder, verifier>>
    BY DEF KeyTurn
<1>3. PICK h \in DOMAIN txs :
          /\ txs[h].identity = i
          /\ SetDecryptionKey(h)
          /\ keyh' = [keyh EXCEPT ![w].keys = @ \ {i}, ![w].found = {h}]
    BY DEF SetKey, GetTransactionsByIdentity
<1>4. OnlyKey(h)
    BY <1>3, KeyWrite DEF TypeOK
<1>5. i \in gossip
    BY <1>3, ForeignAssumption
    DEF KeyInv, Released, TypeOK, TransactionStoreOK, StoredTransaction
<1>6. txs'[h].status \in Settled
    BY <1>3, <1>4, <1>5 DEF OnlyKey, GossipInv
<1>7. (/\ ReplyIsKept /\ GossipedFindable /\ CommittedWithinWindow
       /\ NoStrandedBid /\ BidsAreStored /\ BidStatuses /\ BidLocals /\ BidUnknown)'
    BY <1>2, <1>3, <1>4, <1>5, <1>6, KnownWriteKeeps DEF envVars, OnlyKey
<1>8. GossipInv'
    BY <1>2, <1>3, <1>4, <1>5 DEF envVars, OnlyKey, SameTransactions, GossipInv
<1>9. FinalisedIsOnChain'
    BY <1>2, <1>4 DEF envVars, OnlyKey, SameTransactions, FinalisedIsOnChain
<1>10. KeyInv'
    <2>1. ASSUME NEW v \in Worker
          PROVE  keyh'[v].keys \subseteq keyh[v].keys /\ keyh'[v].found \subseteq keyh[v].found \union {h}
        BY <1>3 DEF TypeOK, KeyHandlerOK
    <2> QED
        BY <1>2, <1>3, <1>4, <2>1 DEF envVars, OnlyKey, SameTransactions, KeyInv, Released
<1>11. (VerifierListIsCurrent /\ VerifierInv)'
    BY <1>2, <1>4 DEF envVars, OnlyKey, SameTransactions, VerifierListIsCurrent, VerifierInv
<1> QED
    BY <1>1, <1>7, <1>8, <1>9, <1>10, <1>11

LEMMA MarkDecryptedKeeps ==
    ASSUME Inductive, KeyTurn, NEW w \in Worker, MarkDecrypted(w)
    PROVE  Inductive'
<1> USE DEF Inductive
<1>1. TypeOK'
    BY KeyType
<1>2. UNCHANGED <<envVars, rpc, bidder, verifier>>
    BY DEF KeyTurn
<1>3. PICK h \in keyh[w].found :
          /\ UpdateTransactionStatus(h, "decrypted")
          /\ keyh' = [keyh EXCEPT ![w].found = {}]
    BY DEF MarkDecrypted
<1>4. h \in DOMAIN txs /\ txs[h].decryptionKey
    BY DEF KeyInv
<1>5. OnlyStatus(h, "decrypted")
    BY <1>3, <1>4, StatusWrite DEF TypeOK, TransactionStatus
<1>6. txs[h].identity \in gossip
    BY <1>4 DEF GossipInv
<1>7. (/\ ReplyIsKept /\ GossipedFindable /\ CommittedWithinWindow
       /\ NoStrandedBid /\ BidsAreStored /\ BidStatuses /\ BidLocals /\ BidUnknown)'
    BY <1>2, <1>4, <1>5, <1>6, KnownWriteKeeps DEF envVars, OnlyStatus, Settled
<1>8. GossipInv'
    BY <1>2, <1>4, <1>5 DEF envVars, OnlyStatus, SameTransactions, GossipInv, Settled
<1>9. FinalisedIsOnChain'
    BY <1>2, <1>5 DEF envVars, OnlyStatus, SameTransactions, FinalisedIsOnChain
<1>10. KeyInv'
    <2>1. ASSUME NEW v \in Worker
          PROVE  keyh'[v].keys \subseteq keyh[v].keys /\ keyh'[v].found \subseteq keyh[v].found
        BY <1>3 DEF TypeOK, KeyHandlerOK
    <2> QED
        BY <1>2, <1>5, <2>1 DEF envVars, OnlyStatus, SameTransactions, KeyInv, Released
<1>11. (VerifierListIsCurrent /\ VerifierInv)'
    BY <1>2, <1>5 DEF envVars, OnlyStatus, SameTransactions, VerifierListIsCurrent, VerifierInv
<1> QED
    BY <1>1, <1>7, <1>8, <1>9, <1>10, <1>11

\* A step that leaves the store alone, and hands no key out that is not.
LEMMA HandlerKeeps ==
    ASSUME Inductive, KeyTurn, UNCHANGED txs, KeyInv'
    PROVE  Inductive'
<1> USE DEF Inductive
<1>1. TypeOK'
    BY KeyType
<1>2. UNCHANGED <<txs, envVars, rpc, bidder, verifier>>
    BY DEF KeyTurn
<1>3. (BidsAreStored /\ BidStatuses /\ BidLocals /\ BidUnknown /\ NoStrandedBid)'
    BY <1>2
    DEF envVars, BidsAreStored, BidStatuses, BidLocals, BidUnknown, NoStrandedBid, StatusOf
<1>4. (/\ ReplyIsKept /\ GossipedFindable /\ GossipInv /\ CommittedWithinWindow
       /\ FinalisedIsOnChain)'
    BY <1>2
    DEF envVars, ReplyIsKept, GossipedFindable, GetTransactionsByIdentity, GossipInv,
        CommittedWithinWindow, FinalisedIsOnChain
<1>5. (VerifierListIsCurrent /\ VerifierInv)'
    BY <1>2 DEF envVars, VerifierListIsCurrent, VerifierInv
<1> QED
    BY <1>1, <1>3, <1>4, <1>5

LEMMA KeyKeeps == Inductive /\ KeyTurn => Inductive'
<1> SUFFICES ASSUME Inductive, KeyTurn PROVE Inductive'
    OBVIOUS
<1>1. PICK w \in Worker :
          \/ \E keys \in SUBSET Released : ReceiveKeys(w, keys)
          \/ \E i \in keyh[w].keys : SkipUnknown(w, i) \/ SetKey(w, i)
          \/ MarkDecrypted(w)
    BY DEF KeyTurn, KeyStep, HandleMessage
<1>2. UNCHANGED envVars
    BY DEF KeyTurn
<1>3. ASSUME NEW keys \in SUBSET Released, ReceiveKeys(w, keys)
      PROVE  Inductive'
    <2>1. KeyInv'
        BY <1>2, <1>3
        DEF Inductive, TypeOK, KeyHandlerOK, ReceiveKeys, KeyInv, Released, envVars
    <2> QED
        BY <1>3, <2>1, HandlerKeeps DEF ReceiveKeys
<1>4. ASSUME NEW i \in keyh[w].keys, SkipUnknown(w, i)
      PROVE  Inductive'
    <2>1. KeyInv'
        BY <1>2, <1>4
        DEF Inductive, TypeOK, KeyHandlerOK, SkipUnknown, KeyInv, Released, envVars
    <2> QED
        BY <1>4, <2>1, HandlerKeeps DEF SkipUnknown
<1>5. ASSUME NEW i \in keyh[w].keys, SetKey(w, i)
      PROVE  Inductive'
    BY <1>5, SetKeyKeeps
<1>6. CASE MarkDecrypted(w)
    BY <1>6, MarkDecryptedKeeps
<1> QED
    BY <1>1, <1>3, <1>4, <1>5, <1>6

LEMMA FinaliseKeeps ==
    ASSUME Inductive, VerifierTurn, Finalise
    PROVE  Inductive'
<1> USE DEF Inductive
<1>1. TypeOK'
    BY VerifierType
<1>2. UNCHANGED <<envVars, rpc, bidder, keyh>>
    BY DEF VerifierTurn
<1>3. PICK h \in verifier.found :
          /\ UpdateTransactionStatus(h, "finalised")
          /\ verifier' = [verifier EXCEPT !.found = {}]
    BY DEF Finalise
<1>4. h \in DOMAIN txs /\ txs[h].status \in {"decrypted", "finalised"}
    BY DEF VerifierListIsCurrent
<1>5. OnlyStatus(h, "finalised")
    BY <1>3, <1>4, StatusWrite DEF TypeOK, TransactionStatus
<1>6. txs[h].identity \in gossip
    BY <1>4 DEF GossipInv
<1>7. (/\ ReplyIsKept /\ GossipedFindable /\ CommittedWithinWindow
       /\ NoStrandedBid /\ BidsAreStored /\ BidStatuses /\ BidLocals /\ BidUnknown)'
    BY <1>2, <1>4, <1>5, <1>6, KnownWriteKeeps DEF envVars, OnlyStatus, Settled
<1>8. (GossipInv /\ KeyInv)'
    BY <1>2, <1>4, <1>5
    DEF envVars, OnlyStatus, SameTransactions, GossipInv, Settled, KeyInv, Released
<1>9. FinalisedIsOnChain'
    BY <1>2, <1>3, <1>5 DEF envVars, OnlyStatus, SameTransactions, FinalisedIsOnChain, VerifierInv
<1>10. verifier'.found = {} /\ verifier'.pending = verifier.pending /\ verifier'.block = verifier.block
    BY <1>3 DEF TypeOK, VerifierOK
<1>11. (VerifierListIsCurrent /\ VerifierInv)'
    BY <1>2, <1>5, <1>10
    DEF envVars, OnlyStatus, SameTransactions, VerifierListIsCurrent, VerifierInv
<1> QED
    BY <1>1, <1>7, <1>8, <1>9, <1>11

LEMMA VerifierKeeps == Inductive /\ VerifierTurn => Inductive'
<1> SUFFICES ASSUME Inductive, VerifierTurn PROVE Inductive'
    OBVIOUS
<1>1. CASE Finalise
    BY <1>1, FinaliseKeeps
<1>2. ASSUME UNCHANGED txs, (VerifierListIsCurrent /\ VerifierInv)'
      PROVE  Inductive'
    <2> USE DEF Inductive
    <2>1. TypeOK'
        BY VerifierType
    <2>2. UNCHANGED <<txs, envVars, rpc, bidder, keyh>>
        BY <1>2 DEF VerifierTurn
    <2>3. (BidsAreStored /\ BidStatuses /\ BidLocals /\ BidUnknown /\ NoStrandedBid)'
        BY <2>2
        DEF envVars, BidsAreStored, BidStatuses, BidLocals, BidUnknown, NoStrandedBid, StatusOf
    <2>4. (/\ ReplyIsKept /\ GossipedFindable /\ GossipInv /\ CommittedWithinWindow
           /\ FinalisedIsOnChain /\ KeyInv)'
        BY <2>2
        DEF envVars, ReplyIsKept, GossipedFindable, GetTransactionsByIdentity, GossipInv,
            CommittedWithinWindow, FinalisedIsOnChain, KeyInv, Released
    <2> QED
        BY <1>2, <2>1, <2>3, <2>4
<1>3. UNCHANGED envVars
    BY DEF VerifierTurn
<1>4. verifier \in [pc : {"idle", "scan", "check"}, block : Nat,
                    pending : SUBSET Hash, found : SUBSET Hash] /\ block \in Nat
    BY DEF Inductive, TypeOK, VerifierOK, EnvironmentOK
<1>5. VerifierListIsCurrent /\ VerifierInv
    BY DEF Inductive
<1> USE DEF VerifierListIsCurrent, VerifierInv
<1>6. CASE GetBlockNumber
    BY <1>2, <1>3, <1>4, <1>5, <1>6 DEF GetBlockNumber, envVars
<1>7. CASE ListDecrypted
    <2>1. /\ verifier'.block = verifier.block
          /\ verifier'.found = verifier.found
          /\ verifier'.pending = GetTransactionsByCommitedBlock(verifier.block)
          /\ txs' = txs
        BY <1>4, <1>7 DEF ListDecrypted
    <2>2. \A h \in GetTransactionsByCommitedBlock(verifier.block) :
              /\ h \in DOMAIN txs
              /\ txs[h].status = "decrypted"
              /\ txs[h].commitedBlock <= block
        <3>1. \A h \in DOMAIN txs : txs[h].commitedBlock \in Nat
            BY DEF Inductive, TypeOK, TransactionStoreOK, StoredTransaction
        <3> QED
            BY <1>4, <1>5, <3>1 DEF GetTransactionsByCommitedBlock
    <2> QED
        BY <1>2, <1>3, <1>5, <2>1, <2>2 DEF envVars
<1>8. ASSUME NEW h \in Hash, ReceiptFound(h)
      PROVE  Inductive'
    BY <1>2, <1>3, <1>4, <1>5, <1>8 DEF ReceiptFound, envVars
<1>9. ASSUME NEW h \in Hash, NoReceipt(h)
      PROVE  Inductive'
    BY <1>2, <1>3, <1>4, <1>5, <1>9 DEF NoReceipt, envVars
<1>10. CASE EndPass
    BY <1>2, <1>3, <1>4, <1>5, <1>10 DEF EndPass, IdleVerifier, envVars
<1> QED
    BY <1>1, <1>6, <1>7, <1>8, <1>9, <1>10 DEF VerifierTurn, VerifierStep

-----------------------------------------------------------------------------
(***************************************************************************)
(* The bid loop                                                            *)
(***************************************************************************)

\* A step that changes the locals only.
LEMMA BidLocalKeeps ==
    ASSUME Inductive, BidTurn, Local, (BidStatuses /\ BidLocals /\ BidUnknown /\ NoStrandedBid)'
    PROVE  Inductive'
<1> USE DEF Inductive
<1>1. TypeOK' /\ BidsAreStored'
    BY BidType
<1>2. UNCHANGED <<txs, envVars, rpc, keyh, verifier>>
    BY DEF BidTurn, Local, envVars
<1>3. (/\ ReplyIsKept /\ GossipedFindable /\ GossipInv /\ CommittedWithinWindow
       /\ FinalisedIsOnChain /\ KeyInv)'
    BY <1>2
    DEF envVars, ReplyIsKept, GossipedFindable, GetTransactionsByIdentity, GossipInv,
        CommittedWithinWindow, FinalisedIsOnChain, KeyInv, Released
<1>4. (VerifierListIsCurrent /\ VerifierInv)'
    BY <1>2 DEF envVars, VerifierListIsCurrent, VerifierInv
<1> QED
    BY <1>1, <1>3, <1>4

\* A write of the status of one transaction of a bid in the making, whose
\* identity the keypers do not know.
LEMMA BidWriteKeeps ==
    ASSUME Inductive, BidTurn, NEW h \in DOMAIN txs, txs[h].identity \notin gossip,
           NEW s \in TransactionStatus \ {"decrypted", "finalised"},
           OnlyStatus(h, s), gossip' = gossip,
           (BidStatuses /\ BidLocals /\ BidUnknown /\ NoStrandedBid)'
    PROVE  Inductive'
<1> USE DEF Inductive, OnlyStatus, SameTransactions
<1>1. TypeOK' /\ BidsAreStored'
    BY BidType
<1>2. UNCHANGED <<envVars, rpc, keyh, verifier>>
    BY DEF BidTurn, envVars
<1>3. txs[h].status \notin {"decrypted", "finalised"}
    BY DEF GossipInv
<1>4. (ReplyIsKept /\ GossipedFindable /\ CommittedWithinWindow)'
    BY <1>2
    DEF envVars, ReplyIsKept, GossipedFindable, GetTransactionsByIdentity, CommittedWithinWindow
<1>5. (GossipInv /\ FinalisedIsOnChain /\ KeyInv)'
    BY <1>2 DEF envVars, GossipInv, FinalisedIsOnChain, KeyInv, Released
<1>6. (VerifierListIsCurrent /\ VerifierInv)'
    BY <1>2, <1>3 DEF envVars, VerifierListIsCurrent, VerifierInv
<1> QED
    BY <1>1, <1>4, <1>5, <1>6

\* The points at which the loop takes up a bid, or drops all it held.
LEMMA CreateBidKeeps ==
    ASSUME Inductive, BidTurn,
           ReadBlock \/ NothingToBid \/ Classify \/ NoBid \/ CreateBid \/ BidDropped \/ BidDone
    PROVE  Inductive'
<1> USE DEF At, LoopEnds
<1>1. bidder \in [pc : BidderPc, block : Nat, hashes : SUBSET Hash,
                  identities : SUBSET Identity, pending : SUBSET Hash,
                  commitments : SUBSET Provider]
    BY DEF Inductive, TypeOK, BidderOK
<1>2. BidsAreStored /\ NoStrandedBid /\ BidStatuses /\ BidLocals /\ BidUnknown
    BY DEF Inductive
<1>3. CASE ReadBlock
    <2>1. /\ bidder'.pc = "classify" /\ bidder'.block = block + InclusionWindow
          /\ bidder'.hashes = bidder.hashes /\ bidder'.pending = bidder.pending
          /\ bidder'.commitments = bidder.commitments /\ bidder.pc = "idle"
          /\ txs' = txs /\ gossip' = gossip
        BY <1>1, <1>3 DEF ReadBlock, Local
    <2>2. bidder'.block # 0
        BY <2>1, InclusionWindowAssumption DEF Inductive, TypeOK, EnvironmentOK
    <2>3. bidder.hashes = {} /\ bidder.pending = {} /\ bidder.commitments = {}
        BY <1>2, <2>1 DEF BidLocals
    <2>4. (BidStatuses /\ BidLocals /\ BidUnknown /\ NoStrandedBid)'
        BY <1>2, <2>1, <2>2, <2>3
        DEF BidStatuses, BidLocals, BidUnknown, NoStrandedBid, BidOpen
    <2> QED
        BY <1>3, <2>4, BidLocalKeeps DEF ReadBlock
<1>4. CASE NothingToBid \/ NoBid \/ BidDropped \/ BidDone
    <2>1. Local /\ bidder' = IdleBidder
        BY <1>4 DEF NothingToBid, NoBid, BidDropped, BidDone
    <2>2. NoStrandedBid'
        <3>1. \A h \in DOMAIN txs : txs[h].status # "bidsubmitted"
            BY <1>2, <1>4
            DEF NothingToBid, NoBid, BidDropped, BidDone, NoStrandedBid, BidStatuses,
                StatusOf, BidOpen
        <3> QED
            BY <2>1, <3>1 DEF Local, NoStrandedBid
    <2>3. (BidStatuses /\ BidLocals /\ BidUnknown)'
        BY <2>1 DEF IdleBidder, BidStatuses, BidLocals, BidUnknown, BidOpen
    <2> QED
        BY <2>1, <2>2, <2>3, BidLocalKeeps
<1>5. CASE Classify
    <2> DEFINE waiting == GetTransactionsByStatus("init")
    <2>1. /\ bidder.pc = "classify" /\ bidder'.pc = "block"
          /\ bidder'.block = bidder.block
          /\ bidder'.hashes = {h \in waiting : IsEligible(h)}
          /\ bidder'.pending = Expired(waiting)
          /\ bidder'.commitments = bidder.commitments
          /\ txs' = txs /\ gossip' = gossip
        BY <1>1, <1>5 DEF Classify, Local
    <2>2. \A h \in bidder'.hashes \union bidder'.pending :
              h \in DOMAIN txs /\ txs[h].status = "init" /\ txs[h].identity \notin gossip
        BY <2>1 DEF GetTransactionsByStatus, Expired, Inductive, GossipInv, Settled
    <2>3. /\ \A h \in bidder'.hashes : bidder.block <= txs[h].maxInclusionWindow
          /\ bidder'.hashes \intersect bidder'.pending = {}
        <3>1. \A h \in DOMAIN txs : txs[h].maxInclusionWindow \in Nat
            BY DEF Inductive, TypeOK, TransactionStoreOK, StoredTransaction
        <3> QED
            BY <1>1, <2>1, <2>2, <3>1 DEF Expired, IsEligible
    <2>4. (BidStatuses /\ BidUnknown /\ NoStrandedBid)'
        BY <1>2, <2>1, <2>2, <2>3
        DEF BidStatuses, BidLocals, BidUnknown, NoStrandedBid, BidOpen, StatusOf
    <2>5. BidLocals'
        BY <1>2, <2>1, <2>3 DEF BidLocals, BidOpen
    <2> QED
        BY <1>5, <2>4, <2>5, BidLocalKeeps DEF Classify
<1>6. CASE CreateBid
    <2>1. /\ bidder.pc = "block" /\ bidder.pending = {}
          /\ bidder'.pc = "mark" /\ bidder'.pending = bidder.hashes
          /\ bidder'.hashes = bidder.hashes /\ bidder'.block = bidder.block
          /\ bidder'.commitments = bidder.commitments
          /\ bidder'.identities = {txs[h].identity : h \in bidder.hashes}
          /\ txs' = txs /\ gossip' = gossip
        BY <1>1, <1>6 DEF CreateBid, Local
    <2>2. (BidStatuses /\ BidUnknown /\ NoStrandedBid)'
        BY <1>2, <2>1 DEF BidStatuses, BidUnknown, NoStrandedBid, BidOpen, StatusOf
    <2>3. BidLocals'
        BY <1>2, <2>1 DEF BidLocals, BidOpen
    <2> QED
        BY <1>6, <2>2, <2>3, BidLocalKeeps DEF CreateBid
<1> QED
    BY <1>3, <1>4, <1>5, <1>6

\* The points of a submitted bid.
LEMMA SubmitBidKeeps ==
    ASSUME Inductive, BidTurn,
           \/ SendBid \/ SendBidFails \/ StreamEnds \/ BidTimesOut \/ StreamFails
           \/ ReturnError
           \/ \E p \in Provider : ReceiveCommitment(p) \/ SkipCommitment(p)
    PROVE  Inductive'
<1> USE DEF At, LoopEnds, GoTo, BidOpen
<1>1. bidder \in [pc : BidderPc, block : Nat, hashes : SUBSET Hash,
                  identities : SUBSET Identity, pending : SUBSET Hash,
                  commitments : SUBSET Provider]
    BY DEF Inductive, TypeOK, BidderOK
<1>2. BidsAreStored /\ NoStrandedBid /\ BidStatuses /\ BidLocals /\ BidUnknown
    BY DEF Inductive
<1>3. ASSUME NEW pc, NEW pending, bidder' = [bidder EXCEPT !.pc = pc, !.pending = pending]
      PROVE  /\ bidder'.pc = pc /\ bidder'.pending = pending
             /\ bidder'.block = bidder.block /\ bidder'.hashes = bidder.hashes
             /\ bidder'.identities = bidder.identities
             /\ bidder'.commitments = bidder.commitments
    BY <1>1, <1>3
<1>4. CASE SendBid
    <2>1. /\ bidder.pc = "mark" /\ bidder.pending = {} /\ Local
          /\ bidder'.pc = "stream" /\ bidder'.pending = {}
          /\ bidder'.block = bidder.block /\ bidder'.hashes = bidder.hashes
          /\ bidder'.identities = bidder.identities
          /\ bidder'.commitments = bidder.commitments
        BY <1>3, <1>4 DEF SendBid
    <2>2. bidder.commitments = {}
        BY <1>2, <2>1 DEF BidLocals
    <2>3. (BidStatuses /\ BidUnknown /\ NoStrandedBid)'
        BY <1>2, <2>1, <2>2
        DEF Local, BidStatuses, BidUnknown, NoStrandedBid, StatusOf
    <2>4. BidLocals'
        BY <1>2, <2>1, <2>2 DEF Local, BidLocals
    <2> QED
        BY <2>1, <2>3, <2>4, BidLocalKeeps
<1>5. ASSUME bidder.pc \in {"mark", "stream", "remark"}, bidder.pending = {}, Local,
             NEW pc \in {"remark", "reset"}, GoTo(pc, bidder.hashes)
      PROVE  Inductive'
    <2>1. /\ bidder'.pc = pc /\ bidder'.pending = bidder.hashes
          /\ bidder'.block = bidder.block /\ bidder'.hashes = bidder.hashes
          /\ bidder'.identities = bidder.identities
          /\ bidder'.commitments = bidder.commitments
        BY <1>3, <1>5
    <2>2. \A h \in bidder.hashes : txs[h].status \in {"init", "bidsubmitted", "committed"}
        BY <1>2, <1>5 DEF BidStatuses, StatusOf
    <2>3. (BidStatuses /\ BidUnknown /\ NoStrandedBid)'
        BY <1>2, <1>5, <2>1, <2>2
        DEF Local, BidStatuses, BidUnknown, NoStrandedBid, StatusOf
    <2>4. BidLocals'
        BY <1>2, <1>5, <2>1 DEF Local, BidLocals
    <2> QED
        BY <1>5, <2>3, <2>4, BidLocalKeeps
<1>6. CASE SendBidFails \/ BidTimesOut \/ StreamFails \/ ReturnError
    BY <1>5, <1>6 DEF SendBidFails, BidTimesOut, StreamFails, ReturnError
<1>7. CASE StreamEnds
    <2>1. CASE bidder.commitments = {}
        BY <1>5, <1>7, <2>1 DEF StreamEnds, ReturnCommitments
    <2>2. CASE bidder.commitments # {}
        <3>1. /\ bidder.pc = "stream" /\ bidder.pending = {} /\ Local
              /\ bidder'.pc = "gossip" /\ bidder'.pending = {}
              /\ bidder'.block = bidder.block /\ bidder'.hashes = bidder.hashes
              /\ bidder'.identities = bidder.identities
              /\ bidder'.commitments = bidder.commitments
            BY <1>3, <1>7, <2>2 DEF StreamEnds, ReturnCommitments
        <3>2. \A h \in bidder.hashes :
                  txs[h].status = "committed" /\ txs[h].commitedBlock = bidder.block
            BY <1>2, <2>2, <3>1 DEF BidStatuses, StatusOf
        <3>3. (BidStatuses /\ BidUnknown /\ NoStrandedBid)'
            BY <1>2, <3>1, <3>2
            DEF Local, BidStatuses, BidUnknown, NoStrandedBid, StatusOf, Settled
        <3>4. BidLocals'
            BY <1>2, <3>1 DEF Local, BidLocals
        <3> QED
            BY <3>1, <3>3, <3>4, BidLocalKeeps
    <2> QED
        BY <2>1, <2>2
<1>8. ASSUME NEW p \in Provider, ReceiveCommitment(p)
      PROVE  Inductive'
    <2>1. /\ bidder.pc = "stream" /\ bidder.pending = {} /\ Local
          /\ bidder'.pc = "stream" /\ bidder'.pending = bidder.hashes
          /\ bidder'.block = bidder.block /\ bidder'.hashes = bidder.hashes
          /\ bidder'.identities = bidder.identities
          /\ bidder'.commitments # {}
        BY <1>1, <1>8 DEF ReceiveCommitment
    <2>2. \A h \in bidder.hashes : txs[h].status \in {"bidsubmitted", "committed"}
        BY <1>2, <2>1 DEF BidStatuses, StatusOf
    <2>3. (BidStatuses /\ BidUnknown /\ NoStrandedBid)'
        BY <1>2, <2>1, <2>2 DEF Local, BidStatuses, BidUnknown, NoStrandedBid, StatusOf
    <2>4. BidLocals'
        BY <1>2, <2>1 DEF Local, BidLocals
    <2> QED
        BY <2>1, <2>3, <2>4, BidLocalKeeps
<1>9. ASSUME NEW p \in Provider, SkipCommitment(p)
      PROVE  Inductive'
    <2>1. /\ bidder.pc = "gossip" /\ Local
          /\ bidder'.pc = bidder.pc /\ bidder'.pending = bidder.pending
          /\ bidder'.block = bidder.block /\ bidder'.hashes = bidder.hashes
          /\ bidder'.identities = bidder.identities
        BY <1>1, <1>9 DEF SkipCommitment
    <2>2. (BidStatuses /\ BidUnknown /\ NoStrandedBid)'
        BY <1>2, <2>1 DEF Local, BidStatuses, BidUnknown, NoStrandedBid, StatusOf
    <2>3. BidLocals'
        BY <1>2, <2>1 DEF Local, BidLocals
    <2> QED
        BY <2>1, <2>2, <2>3, BidLocalKeeps
<1> QED
    BY <1>4, <1>6, <1>7, <1>8, <1>9

\* The keypers are told of transactions that are committed.
LEMMA SendCommitmentKeeps ==
    ASSUME Inductive, BidTurn, NEW p \in Provider, SendCommitment(p)
    PROVE  Inductive'
<1> USE DEF Inductive
<1>1. TypeOK' /\ BidsAreStored'
    BY BidType
<1>2. UNCHANGED <<txs, block, onChain, rpc, keyh, verifier>>
    BY DEF BidTurn, SendCommitment
<1>3. /\ bidder.pc = "gossip" /\ bidder'.pc = bidder.pc
      /\ bidder'.pending = bidder.pending
      /\ bidder'.block = bidder.block /\ bidder'.hashes = bidder.hashes
      /\ bidder'.identities = bidder.identities
      /\ gossip' = gossip \union bidder.identities
    BY DEF SendCommitment, At, TypeOK, BidderOK
<1>4. bidder.identities = {txs[h].identity : h \in bidder.hashes} /\ bidder.block # 0
    BY <1>3 DEF BidLocals
<1>5. \A h \in bidder.hashes :
          /\ h \in DOMAIN txs
          /\ txs[h].status \in Settled
          /\ txs[h].commitedBlock # 0
    BY <1>3, <1>4 DEF BidsAreStored, BidStatuses, StatusOf
<1>6. \A h \in DOMAIN txs : txs[h].identity \in bidder.identities => h \in bidder.hashes
    BY <1>4, <1>5 DEF ReplyIsKept, TypeOK, TransactionStoreOK, StoredTransaction, Request
<1>7. (BidStatuses /\ BidUnknown /\ NoStrandedBid)'
    BY <1>2, <1>3 DEF BidStatuses, BidUnknown, NoStrandedBid, StatusOf, BidOpen
<1>8. BidLocals'
    BY <1>2, <1>3 DEF BidLocals, BidOpen
<1>9. GossipInv'
    BY <1>2, <1>3, <1>5, <1>6 DEF GossipInv
<1>10. GossipedFindable'
    BY <1>2, <1>3, <1>4, <1>5 DEF GossipedFindable, GetTransactionsByIdentity
<1>11. (ReplyIsKept /\ CommittedWithinWindow /\ FinalisedIsOnChain)'
    BY <1>2 DEF ReplyIsKept, CommittedWithinWindow, FinalisedIsOnChain
<1>12. (KeyInv /\ VerifierListIsCurrent /\ VerifierInv)'
    BY <1>2, <1>3 DEF KeyInv, Released, VerifierListIsCurrent, VerifierInv
<1> QED
    BY <1>1, <1>7, <1>8, <1>9, <1>10, <1>11, <1>12

\* A turn of one of the loops that write a status.
LEMMA TurnKeeps ==
    ASSUME Inductive, BidTurn, NEW h \in Hash,
           BlockExpired(h) \/ MarkBidSubmitted(h) \/ RemarkInit(h) \/ ResetInit(h)
    PROVE  Inductive'
<1> USE DEF At
<1>1. PICK s \in {"init", "bidsubmitted", "blocked"} :
          /\ WriteStatus(h, s)
          /\ \/ bidder.pc = "block" /\ s = "blocked"
             \/ bidder.pc = "mark" /\ s = "bidsubmitted"
             \/ bidder.pc \in {"remark", "reset"} /\ s = "init"
    BY DEF BlockExpired, MarkBidSubmitted, RemarkInit, ResetInit
<1>2. BidsAreStored /\ NoStrandedBid /\ BidStatuses /\ BidLocals /\ BidUnknown
    BY DEF Inductive
<1>3. /\ h \in bidder.pending
      /\ bidder'.pending = bidder.pending \ {h} /\ bidder'.pc = bidder.pc
      /\ bidder'.block = bidder.block /\ bidder'.hashes = bidder.hashes
      /\ bidder'.identities = bidder.identities
      /\ bidder'.commitments = bidder.commitments
      /\ gossip' = gossip
    BY <1>1 DEF WriteStatus, Turn, Inductive, TypeOK, BidderOK
<1>4. h \in DOMAIN txs /\ txs[h].identity \notin gossip
    BY <1>1, <1>2, <1>3 DEF BidsAreStored, BidUnknown
<1>5. OnlyStatus(h, s)
    BY <1>1, <1>4, StatusWrite DEF WriteStatus, Inductive, TypeOK, TransactionStatus
<1> USE DEF OnlyStatus, SameTransactions
<1>6. BidStatuses'
    BY <1>1, <1>2, <1>3, <1>4, <1>5 DEF BidStatuses, StatusOf, BidsAreStored, BidLocals, BidOpen
<1>7. BidUnknown'
    BY <1>1, <1>2, <1>3, <1>5 DEF BidUnknown, BidsAreStored
<1>8. BidLocals'
    <2>1. {txs[g].identity : g \in bidder.hashes} = {txs'[g].identity : g \in bidder.hashes}
        BY <1>2, <1>5 DEF BidsAreStored
    <2> QED
        BY <1>1, <1>2, <1>3, <1>5, <2>1 DEF BidLocals, BidsAreStored, BidOpen
<1>9. NoStrandedBid'
    BY <1>1, <1>2, <1>3, <1>5 DEF NoStrandedBid, BidLocals, BidOpen
<1>10. s \in TransactionStatus \ {"decrypted", "finalised"}
    BY <1>1 DEF TransactionStatus
<1> QED
    BY <1>3, <1>4, <1>5, <1>6, <1>7, <1>8, <1>9, <1>10, BidWriteKeeps

\* A turn of the loop that records a commitment.
LEMMA CommitKeeps ==
    ASSUME Inductive, BidTurn, NEW h \in Hash, MarkCommitted(h)
    PROVE  Inductive'
<1>1. TypeOK' /\ BidsAreStored'
    BY BidType DEF Inductive
<1>2. BidsAreStored /\ NoStrandedBid /\ BidStatuses /\ BidLocals /\ BidUnknown
    BY DEF Inductive
<1>3. /\ h \in bidder.pending /\ bidder.pc = "stream"
      /\ bidder'.pending = bidder.pending \ {h} /\ bidder'.pc = bidder.pc
      /\ bidder'.block = bidder.block /\ bidder'.hashes = bidder.hashes
      /\ bidder'.identities = bidder.identities
      /\ bidder'.commitments = bidder.commitments
      /\ bidder.block \in Nat
    BY DEF MarkCommitted, At, Turn, Inductive, TypeOK, BidderOK
<1>4. UNCHANGED <<envVars, rpc, keyh, verifier>>
    BY DEF BidTurn, MarkCommitted, Turn, envVars
<1>5. /\ h \in DOMAIN txs /\ h \in bidder.hashes
      /\ txs[h].identity \notin gossip
      /\ bidder.block <= txs[h].maxInclusionWindow
      /\ bidder.commitments # {}
    BY <1>2, <1>3 DEF BidsAreStored, BidLocals, BidUnknown, BidOpen
<1>6. txs[h].status \notin {"decrypted", "finalised"} /\ txs[h].decryptionKey # TRUE
    BY <1>5 DEF Inductive, GossipInv
<1>7. OnlyCommitment(h, bidder.block)
    BY <1>3, <1>5, CommitWrite DEF MarkCommitted, Inductive, TypeOK
<1> USE DEF OnlyCommitment, SameTransactions
<1>8. BidStatuses'
    BY <1>2, <1>3, <1>5, <1>7 DEF BidStatuses, StatusOf, BidsAreStored
<1>9. BidUnknown'
    BY <1>2, <1>3, <1>4, <1>7 DEF envVars, BidUnknown, BidsAreStored
<1>10. BidLocals'
    <2>1. {txs[g].identity : g \in bidder.hashes} = {txs'[g].identity : g \in bidder.hashes}
        BY <1>2, <1>7 DEF BidsAreStored
    <2> QED
        BY <1>2, <1>3, <1>7, <2>1 DEF BidLocals, BidsAreStored, BidOpen
<1>11. NoStrandedBid'
    BY <1>2, <1>3, <1>7 DEF NoStrandedBid, BidOpen
<1>12. (ReplyIsKept /\ GossipedFindable /\ CommittedWithinWindow)'
    BY <1>4, <1>5, <1>7
    DEF Inductive, envVars, ReplyIsKept, GossipedFindable, GetTransactionsByIdentity,
        CommittedWithinWindow
<1>13. (GossipInv /\ FinalisedIsOnChain /\ KeyInv)'
    BY <1>4, <1>5, <1>6, <1>7
    DEF Inductive, envVars, GossipInv, FinalisedIsOnChain, KeyInv, Released
<1>14. (VerifierListIsCurrent /\ VerifierInv)'
    BY <1>4, <1>6, <1>7 DEF Inductive, envVars, VerifierListIsCurrent, VerifierInv
<1> QED
    BY <1>1, <1>8, <1>9, <1>10, <1>11, <1>12, <1>13, <1>14 DEF Inductive

LEMMA BidKeeps == Inductive /\ BidTurn => Inductive'
BY CreateBidKeeps, SubmitBidKeeps, SendCommitmentKeeps, TurnKeeps, CommitKeeps
DEF BidTurn, BidStep, BidAround, BidOnStream

-----------------------------------------------------------------------------
(***************************************************************************)
(* The theorems                                                            *)
(***************************************************************************)

LEMMA StutterKeeps == Inductive /\ UNCHANGED vars => Inductive'
BY DEF vars, envVars, Inductive, TypeOK, TransactionStoreOK, EnvironmentOK, RpcOK,
       BidderOK, KeyHandlerOK, VerifierOK, BidsAreStored, ReplyIsKept,
       GossipedFindable, GetTransactionsByIdentity, GossipInv, CommittedWithinWindow,
       FinalisedIsOnChain, VerifierListIsCurrent, NoStrandedBid, BidStatuses,
       StatusOf, BidLocals, BidUnknown, KeyInv, Released, VerifierInv

\* The invariant holds in every state that the sequencer reaches.
THEOREM InductiveInvariant == Spec => []Inductive
<1>1. Inductive /\ [Next]_vars => Inductive'
    BY MineKeeps, RpcKeeps, BidKeeps, KeyKeeps, VerifierKeeps, StutterKeeps DEF Next
<1> QED
    BY InitInductive, <1>1, PTL DEF Spec

\* A bid never leaves a transaction behind in the status bidsubmitted.
THEOREM BidsComeBack == Spec => []NoStrandedBid
<1>1. Inductive => NoStrandedBid
    BY DEF Inductive
<1> QED
    BY <1>1, InductiveInvariant, PTL

\* A transaction of which the keypers were told is not bid for again.
THEOREM GossipIsHonoured == Spec => []GossipedNeverRebid
<1>1. Inductive => GossipedNeverRebid
    BY DEF Inductive, GossipInv, GossipedNeverRebid
<1> QED
    BY <1>1, InductiveInvariant, PTL

\* Its key finds it when it comes.
THEOREM KeysAreMatched == Spec => []GossipedFindable
<1>1. Inductive => GossipedFindable
    BY DEF Inductive
<1> QED
    BY <1>1, InductiveInvariant, PTL

\* The verifier sees every transaction that is decrypted.
THEOREM DecryptedAreSeen == Spec => []DecryptedIsVerifiable
<1>1. Inductive => DecryptedIsVerifiable
    BY DEF Inductive, GossipInv, DecryptedIsVerifiable
<1> QED
    BY <1>1, InductiveInvariant, PTL

\* The commitments keep within the windows.
THEOREM WindowsAreKept == Spec => []CommittedWithinWindow
<1>1. Inductive => CommittedWithinWindow
    BY DEF Inductive
<1> QED
    BY <1>1, InductiveInvariant, PTL

\* The replies of the RPC server agree with the store.
THEOREM RepliesAreKept == Spec => []ReplyIsKept
<1>1. Inductive => ReplyIsKept
    BY DEF Inductive
<1> QED
    BY <1>1, InductiveInvariant, PTL

\* What is finalised is on the chain.
THEOREM VerifierIsRight == Spec => []FinalisedIsOnChain
<1>1. Inductive => FinalisedIsOnChain
    BY DEF Inductive
<1> QED
    BY <1>1, InductiveInvariant, PTL

\* The verifier finalises what it read.
THEOREM ListsStayCurrent == Spec => []VerifierListIsCurrent
<1>1. Inductive => VerifierListIsCurrent
    BY DEF Inductive
<1> QED
    BY <1>1, InductiveInvariant, PTL

=============================================================================
