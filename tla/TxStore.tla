------------------------------ MODULE TxStore ------------------------------
(***************************************************************************)
(* The transaction store (sequencer/txstore/store.go): an in-memory map    *)
(* from transaction hash to stored transaction that every other component  *)
(* of the sequencer reads and writes.  Each exported method of the store   *)
(* holds the store's mutex for its whole body, so each is atomic; what a   *)
(* caller does between two methods is not.                                 *)
(*                                                                         *)
(* A hash, an identity and a decryption key are opaque: the payload of a   *)
(* stored transaction is its identity, the eon of the keypers' key it is   *)
(* encrypted with, and the last block it may be bid for; its decryption    *)
(* key is either there or not (the key of an identity is unique).          *)
(***************************************************************************)
EXTENDS Naturals, FiniteSets

CONSTANTS
    Hash,       \* transaction hashes
    Identity    \* identities: hex(keccak(random prefix, bidder address))

VARIABLE txs    \* TransactionStore.transactions, a map: DOMAIN txs is its key set

TransactionStatus ==
    {"init", "bidsubmitted", "committed", "decrypted", "finalised", "blocked"}

StoredTransaction ==
    [identity           : Identity,
     eon                : Nat,
     maxInclusionWindow : Nat,
     decryptionKey      : BOOLEAN,
     status             : TransactionStatus,
     commitedBlock      : Nat]

TransactionStoreOK ==
    /\ DOMAIN txs \subseteq Hash
    /\ txs \in [DOMAIN txs -> StoredTransaction]

-----------------------------------------------------------------------------
(***************************************************************************)
(* Readers.  They return pointers into the map; the fields callers read    *)
(* through them after the mutex is released (hash, window, identity) are   *)
(* never written after the transaction is stored.                          *)
(***************************************************************************)

\* Mutant: committed transactions are taken along.
GetTransactionsUndecided(s) ==
    {h \in DOMAIN txs : txs[h].status \in {s, "committed"}}

GetTransactionsByStatus(s) == {h \in DOMAIN txs : txs[h].status = s}

\* The Go method returns the first match of a map iteration: one of these.
GetTransactionsByIdentity(i) == {h \in DOMAIN txs : txs[h].identity = i}

\* Mutants: the block, the status, or the blocks before b are left out.
GetTransactionsDecrypted(b) ==
    {h \in DOMAIN txs : txs[h].commitedBlock # 0 /\ txs[h].status = "decrypted"}

GetTransactionsUpTo(b) ==
    {h \in DOMAIN txs : txs[h].commitedBlock # 0 /\ txs[h].commitedBlock <= b}

GetTransactionsOfBlock(b) ==
    {h \in DOMAIN txs : txs[h].commitedBlock = b /\ txs[h].status = "decrypted"}

GetTransactionsByCommitedBlock(b) ==
    {h \in DOMAIN txs : /\ txs[h].commitedBlock # 0
                        /\ txs[h].commitedBlock <= b
                        /\ txs[h].status = "decrypted"}

-----------------------------------------------------------------------------
(***************************************************************************)
(* Writers.  A writer that is given a hash the map does not hold returns   *)
(* an error and leaves the map alone, as EXCEPT does.                      *)
(***************************************************************************)

NewTransaction(i, eon, window) ==
    [identity           |-> i,
     eon                |-> eon,
     maxInclusionWindow |-> window,
     decryptionKey      |-> FALSE,
     status             |-> "init",
     commitedBlock      |-> 0]

PutTransaction(h, t) ==
    txs' = [g \in DOMAIN txs \union {h} |-> IF g = h THEN t ELSE txs[g]]

\* Mutant: the key set is not looked at again under the lock.
IsNewHash(h) == TRUE

\* store.go:60: the check that is made under the lock.
IsUnknown(h) == h \notin DOMAIN txs

StoreTransaction(h, i, eon, window) ==
    /\ IsUnknown(h)
    /\ PutTransaction(h, NewTransaction(i, eon, window))

\* The status is written whatever it was.
UpdateTransactionStatus(h, s) == txs' = [txs EXCEPT ![h].status = s]

\* Mutant: the block of the commitment is not recorded.
UpdateCommittedStatus(h, b) == txs' = [txs EXCEPT ![h].status = "committed"]

UpdateCommittedTransaction(h, b) ==
    txs' = [txs EXCEPT ![h].status = "committed", ![h].commitedBlock = b]

\* tx.EncryptedTx.DecryptionKey = key.Key, written through a pointer that
\* GetTransactionsByIdentity returned, outside the mutex.
SetDecryptionKey(h) == txs' = [txs EXCEPT ![h].decryptionKey = TRUE]

=============================================================================
