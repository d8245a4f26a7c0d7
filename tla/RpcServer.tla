----------------------------- MODULE RpcServer -----------------------------
(***************************************************************************)
(* eth_sendRawTransaction (rpc/server.go, shutter/encryptor.go).  Every    *)
(* request runs on a goroutine of its own: it looks the hash up, encrypts  *)
(* the transaction under a fresh identity for a window of blocks counted   *)
(* from the upstream node's latest block, and stores it.  Between the two  *)
(* accesses to the store it waits for three answers of the upstream node,  *)
(* and any other request for the same transaction may run.                 *)
(*                                                                         *)
(* A request is named by the identity it draws: 32 random bytes are taken  *)
(* to be different for every request.  The replies that come before the    *)
(* first lookup (bad parameters, bad hex) and the methods that are only    *)
(* proxied touch no state and are left out.                                *)
(***************************************************************************)
EXTENDS Environment

CONSTANT MaxInclusionWindow     \* main.go: 30

VARIABLE rpc    \* the state of each request

ASSUME MaxInclusionWindowAssumption == MaxInclusionWindow \in Nat

Request == Identity

\* The last three are replies: the hash of a transaction that is known
\* already, the hash of one just stored, or a JSON-RPC error.
RpcState == {"received", "encrypt", "store", "known", "stored", "error"}

RpcOK ==
    rpc \in [Request -> [pc : RpcState, hash : Hash, eon : Nat, window : Nat]]

InitRpc ==
    rpc \in [Request -> [pc : {"received"}, hash : Hash, eon : {0}, window : {0}]]

\* server.go:185: a hash that is known already is answered at once.
LookUp(r) ==
    /\ rpc[r].pc = "received"
    /\ rpc' = [rpc EXCEPT ![r].pc =
                 IF rpc[r].hash \in DOMAIN txs THEN "known" ELSE "encrypt"]
    /\ UNCHANGED txs

\* Mutant: the window is counted backwards.
PastBlock == block - MaxInclusionWindow

\* encryptor.go:45
ScheduledBlock == block + MaxInclusionWindow

\* Mutant: the eon is that of the latest block.
EncryptForLatest(r) ==
    /\ rpc[r].pc = "encrypt"
    /\ rpc' = [rpc EXCEPT ![r].pc = "store",
                          ![r].eon = EonOf(block),
                          ![r].window = ScheduledBlock]
    /\ UNCHANGED txs

\* encryptor.go:40-66: the block number is read first, and the eon, its key
\* and the identity follow from it.
EncryptTransaction(r) ==
    /\ rpc[r].pc = "encrypt"
    /\ rpc' = [rpc EXCEPT ![r].pc = "store",
                          ![r].eon = EonOf(ScheduledBlock),
                          ![r].window = ScheduledBlock]
    /\ UNCHANGED txs

\* One of the calls to the upstream node, or the encryption, fails.
EncryptionFails(r) ==
    /\ rpc[r].pc = "encrypt"
    /\ rpc' = [rpc EXCEPT ![r].pc = "error"]
    /\ UNCHANGED txs

\* server.go:207: the transaction is stored and its hash returned.
StoreEncrypted(r) ==
    /\ rpc[r].pc = "store"
    /\ StoreTransaction(rpc[r].hash, r, rpc[r].eon, rpc[r].window)
    /\ rpc' = [rpc EXCEPT ![r].pc = "stored"]

\* Another request for the same transaction stored it first.
StoreRefused(r) ==
    /\ rpc[r].pc = "store"
    /\ ~ IsUnknown(rpc[r].hash)
    /\ rpc' = [rpc EXCEPT ![r].pc = "error"]
    /\ UNCHANGED txs

RpcStep ==
    \E r \in Request :
        \/ LookUp(r)
        \/ EncryptTransaction(r)
        \/ EncryptionFails(r)
        \/ StoreEncrypted(r)
        \/ StoreRefused(r)

=============================================================================
