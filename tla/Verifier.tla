------------------------------ MODULE Verifier -----------------------------
(***************************************************************************)
(* The transaction verifier (transaction_verifier/verifier.go): a          *)
(* goroutine that, at every tick, reads the latest block number, takes the *)
(* decrypted transactions committed for a block up to it, asks the chain   *)
(* for the receipt of each, and finalises those that have one.  The block  *)
(* number, the list and the receipt are all used after they were read,     *)
(* without a lock.                                                         *)
(***************************************************************************)
EXTENDS Environment

VARIABLE verifier   \* the locals of the goroutine

VerifierOK ==
    verifier \in [pc      : {"idle", "scan", "check"},
                  block   : Nat,
                  pending : SUBSET Hash,    \* left of the list
                  found   : SUBSET Hash]    \* the one whose receipt is there

IdleVerifier == [pc |-> "idle", block |-> 0, pending |-> {}, found |-> {}]

InitVerifier == verifier = IdleVerifier

\* A tick at which the number cannot be read does nothing.
GetBlockNumber ==
    /\ verifier.pc = "idle"
    /\ verifier' = [verifier EXCEPT !.pc = "scan", !.block = block]
    /\ UNCHANGED txs

ListDecrypted ==
    /\ verifier.pc = "scan"
    /\ verifier' = [verifier EXCEPT
                      !.pc = "check",
                      !.pending = GetTransactionsByCommitedBlock(verifier.block)]
    /\ UNCHANGED txs

\* Mutant: the receipt is taken to be there.
ReceiptAssumed(h) ==
    /\ verifier.found = {}
    /\ h \in verifier.pending
    /\ verifier' = [verifier EXCEPT !.pending = @ \ {h}, !.found = {h}]
    /\ UNCHANGED txs

ReceiptFound(h) ==
    /\ verifier.found = {}
    /\ h \in verifier.pending
    /\ h \in onChain
    /\ verifier' = [verifier EXCEPT !.pending = @ \ {h}, !.found = {h}]
    /\ UNCHANGED txs

\* There is no receipt, or the chain cannot be asked: the transaction is
\* left to the next tick.
NoReceipt(h) ==
    /\ verifier.found = {}
    /\ h \in verifier.pending
    /\ verifier' = [verifier EXCEPT !.pending = @ \ {h}]
    /\ UNCHANGED txs

\* Whatever the status has become since the list was made.
Finalise ==
    \E h \in verifier.found :
        /\ UpdateTransactionStatus(h, "finalised")
        /\ verifier' = [verifier EXCEPT !.found = {}]

EndPass ==
    /\ verifier.pc = "check"
    /\ verifier.pending = {}
    /\ verifier.found = {}
    /\ verifier' = IdleVerifier
    /\ UNCHANGED txs

VerifierStep ==
    \/ GetBlockNumber
    \/ ListDecrypted
    \/ \E h \in Hash : ReceiptFound(h) \/ NoReceipt(h)
    \/ Finalise
    \/ EndPass

=============================================================================
