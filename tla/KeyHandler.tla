---------------------------- MODULE KeyHandler -----------------------------
(***************************************************************************)
(* The handler of the DecryptionKeys messages of the keypers               *)
(* (p2p/msg_handler.go).  The p2p library calls it, once for each message, *)
(* from the goroutines of Worker.  The messages a keyper sends may come    *)
(* late, twice, from several keypers, and name transactions of others.     *)
(***************************************************************************)
EXTENDS Environment

CONSTANT Worker

VARIABLE keyh   \* for each worker, what is left of the message it handles

KeyHandlerOK ==
    keyh \in [Worker -> [keys  : SUBSET (Identity \union Foreign),
                         found : SUBSET Hash]]  \* the hash tx points to, if any

IdleHandler == [keys |-> {}, found |-> {}]

InitKeyHandler == keyh = [w \in Worker |-> IdleHandler]

\* A message without keys is rejected before it is handled.  Its eon is looked at
\* only for its size, which is left out, and not used after that.
ValidateMessage(keys) == keys # {}

ReceiveKeys(w, keys) ==
    /\ keyh[w] = IdleHandler
    /\ ValidateMessage(keys)
    /\ keyh' = [keyh EXCEPT ![w].keys = keys]
    /\ UNCHANGED txs

\* The turn of the loop for the key of i begins.
TakeKey(w, i) ==
    /\ keyh[w].found = {}
    /\ i \in keyh[w].keys

\* Mutant: the rest of the message is dropped with the unknown key.
AbandonMessage(w, i) ==
    /\ TakeKey(w, i)
    /\ GetTransactionsByIdentity(i) = {}
    /\ keyh' = [keyh EXCEPT ![w].keys = {}]
    /\ UNCHANGED txs

SkipUnknown(w, i) ==
    /\ TakeKey(w, i)
    /\ GetTransactionsByIdentity(i) = {}
    /\ keyh' = [keyh EXCEPT ![w].keys = @ \ {i}]
    /\ UNCHANGED txs

\* The transaction is looked up under the mutex and its key written outside
\* it; transactions are never removed, so one step stands for both.
SetKey(w, i) ==
    /\ TakeKey(w, i)
    /\ \E h \in GetTransactionsByIdentity(i) :
          /\ SetDecryptionKey(h)
          /\ keyh' = [keyh EXCEPT ![w].keys = @ \ {i}, ![w].found = {h}]

\* Whatever the status has become since.
MarkDecrypted(w) ==
    \E h \in keyh[w].found :
        /\ UpdateTransactionStatus(h, "decrypted")
        /\ keyh' = [keyh EXCEPT ![w].found = {}]

HandleMessage(w) ==
    \/ \E i \in keyh[w].keys : SkipUnknown(w, i) \/ SetKey(w, i)
    \/ MarkDecrypted(w)

KeyStep ==
    \E w \in Worker :
        \/ \E keys \in SUBSET Released : ReceiveKeys(w, keys)
        \/ HandleMessage(w)

=============================================================================
