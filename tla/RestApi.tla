------------------------------ MODULE RestApi ------------------------------
(***************************************************************************)
(* GET /decrypted_tx/{hash} (api/rest.go), by which a builder gets a       *)
(* transaction in plain, and the field it reads while the key handler      *)
(* writes it (p2p/msg_handler.go).  The store returns a pointer to the     *)
(* stored transaction, so neither holds the mutex at the key: a Go slice   *)
(* of several words, written one by one, in an order that is the           *)
(* compiler's.  The replies that come before the lookup (another method,   *)
(* a malformed path) touch no state and are left out.                      *)
(*                                                                         *)
(* The handler stores a key as it comes and does not look at the eon of    *)
(* its message (msg_handler.go:36, 58), so a key that is read whole need   *)
(* not open the transaction: it may be another keyper set's, or no key at  *)
(* all.  The keys of the keypers are taken to be encodings of one length,  *)
(* never empty, so that words of two keys make one of them.                *)
(***************************************************************************)
EXTENDS KeyHandler

CONSTANT Query  \* the requests of builders

VARIABLES
    slice,      \* for each hash, the words of its key that are written
    opens,      \* the hashes whose pointer is to a key that opens the transaction
    writer,     \* for each worker, the key it is writing, and its words so far
    api         \* the state of each query

Word == {"pointer", "length"}

\* Locked and refused are one reply to the builder: 404, without the transaction.
ApiReply == {"notfound", "locked", "refused", "plain", "broken"}

RestApiOK ==
    /\ slice \in [Hash -> SUBSET Word]
    /\ opens \subseteq Hash
    /\ writer \in [Worker -> [hash : SUBSET Hash, words : SUBSET Word]]
    /\ api \in [Query -> [pc   : {"received", "check", "decrypt"} \union ApiReply,
                          hash : Hash]]

IdleWriter == [hash |-> {}, words |-> {}]

InitRestApi ==
    /\ slice = [h \in Hash |-> {}]
    /\ opens = {}
    /\ writer = [w \in Worker |-> IdleWriter]
    /\ api \in [Query -> [pc : {"received"}, hash : Hash]]

-----------------------------------------------------------------------------
(***************************************************************************)
(* KeyHandler, with the key written word by word                           *)
(***************************************************************************)

BeginKey(w, h) == writer' = [writer EXCEPT ![w] = [hash |-> {h}, words |-> {}]]

\* Mutants: the status is updated before the key, or a key that was there is
\* cleared before it is written again.
MarkFirst(w, i) ==
    /\ TakeKey(w, i)
    /\ \E h \in GetTransactionsByIdentity(i) :
          UpdateTransactionStatus(h, "decrypted") /\ BeginKey(w, h)
    /\ UNCHANGED <<keyh, slice, opens>>

ClearKey(w, i) ==
    /\ TakeKey(w, i)
    /\ \E h \in GetTransactionsByIdentity(i) :
          slice' = [slice EXCEPT ![h] = {}] /\ BeginKey(w, h)
    /\ UNCHANGED <<txs, keyh, opens>>

FindTransaction(w, i) ==
    /\ TakeKey(w, i)
    /\ \E h \in GetTransactionsByIdentity(i) : BeginKey(w, h)
    /\ UNCHANGED <<txs, keyh, slice, opens>>

IsLastWord(w, x) == writer[w].words \union {x} = Word

\* A key is read through its pointer: with it comes the key that opens the
\* transaction, or another one.
StoreWord(w, x) ==
    \E h \in writer[w].hash :
        /\ x \notin writer[w].words
        /\ slice' = [slice EXCEPT ![h] = @ \union {x}]
        /\ opens' \in IF x = "pointer" THEN {opens \ {h}, opens \union {h}} ELSE {opens}
        /\ writer' = [writer EXCEPT ![w] =
                        IF IsLastWord(w, x)
                        THEN IdleWriter
                        ELSE [hash |-> {h}, words |-> writer[w].words \union {x}]]
        /\ IF IsLastWord(w, x) THEN SetKey(w, txs[h].identity) ELSE UNCHANGED <<txs, keyh>>

HandleInDetail(w) ==
    \/ /\ writer[w] = IdleWriter
       /\ \/ \E i \in keyh[w].keys : SkipUnknown(w, i)
          \/ MarkDecrypted(w)
       /\ UNCHANGED <<slice, opens, writer>>
    \/ /\ writer[w] = IdleWriter
       /\ \E i \in keyh[w].keys : FindTransaction(w, i)
    \/ \E x \in Word : StoreWord(w, x)

KeyStepInDetail ==
    \E w \in Worker :
        \/ /\ \E keys \in SUBSET Released : ReceiveKeys(w, keys)
           /\ UNCHANGED <<slice, opens, writer>>
        \/ HandleInDetail(w)

-----------------------------------------------------------------------------
(***************************************************************************)
(* GetDecryptedTx                                                          *)
(***************************************************************************)

Proceed(q, pc) == api' = [api EXCEPT ![q].pc = pc]

KeyOf(q) == slice[api[q].hash]

GetTransaction(q) ==
    /\ api[q].pc = "received"
    /\ Proceed(q, IF api[q].hash \in DOMAIN txs THEN "check" ELSE "notfound")

\* len(DecryptionKey), and nothing else of the key.
HasKey(q) == "length" \in KeyOf(q)

CheckKey(q) ==
    /\ api[q].pc = "check"
    /\ Proceed(q, IF HasKey(q) THEN "decrypt" ELSE "locked")

Opens(q) == api[q].hash \in opens

\* Reading through a pointer that is not there yet is a panic, which the HTTP
\* server recovers: the builder gets no answer.  A key that cannot be parsed, or
\* that does not decrypt the message, is refused; the message itself is always
\* parsed, as the encryptor made it.
ReadKey(q) ==
    IF "pointer" \notin KeyOf(q) THEN "broken"
    ELSE IF Opens(q) THEN "plain" ELSE "refused"

Decrypt(q) ==
    /\ api[q].pc = "decrypt"
    /\ Proceed(q, ReadKey(q))

ApiStep == \E q \in Query : GetTransaction(q) \/ CheckKey(q) \/ Decrypt(q)

=============================================================================
