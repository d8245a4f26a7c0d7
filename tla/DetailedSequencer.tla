------------------------- MODULE DetailedSequencer -------------------------
(***************************************************************************)
(* Sequencer with the receivers of the bid streams (BidStream), the key    *)
(* written word by word, and the builders that ask for it (RestApi).       *)
(***************************************************************************)
EXTENDS Sequencer, BidStream, RestApi

detail == <<calls, slice, opens, writer, api>>

detailedVars == <<vars, detail>>

DetailedInit == Init /\ InitCalls /\ InitRestApi

\* The goroutines that are as in Sequencer.
SameTurn == (MineStep \/ RpcTurn \/ VerifierTurn) /\ UNCHANGED detail

BidTurnInDetail ==
    BidStepInDetail
        /\ UNCHANGED <<block, onChain, rpc, keyh, verifier, slice, opens, writer, api>>

ReceiverTurn == ReceiverStep /\ UNCHANGED <<vars, slice, opens, writer, api>>

KeyTurnInDetail ==
    KeyStepInDetail /\ UNCHANGED <<envVars, rpc, bidder, verifier, calls, api>>

ApiTurn == ApiStep /\ UNCHANGED <<vars, calls, slice, opens, writer>>

DetailedNext ==
    \/ SameTurn
    \/ BidTurnInDetail
    \/ ReceiverTurn
    \/ KeyTurnInDetail
    \/ ApiTurn

DetailedSpec == DetailedInit /\ [][DetailedNext]_detailedVars

-----------------------------------------------------------------------------
(***************************************************************************)
(* Fairness.  The loop runs on, the deadline of a call passes, and a       *)
(* receiver closes its channel after its error.  Recv returns an error at  *)
(* some time when the call's context is done, by its deadline or because   *)
(* the call has returned.                                                  *)
(* Nothing is assumed of the providers: a stream may stay silent.          *)
(***************************************************************************)

RecvFails(c) ==
    /\ calls[c].late
    /\ RecvError(c, "failed")
    /\ UNCHANGED <<vars, slice, opens, writer, api>>

ReceiverFairness(c) ==
    /\ WF_detailedVars(DeadlinePasses(c) /\ UNCHANGED <<vars, slice, opens, writer, api>>)
    /\ WF_detailedVars(CloseCommitments(c) /\ UNCHANGED <<vars, slice, opens, writer, api>>)
    /\ WF_detailedVars(RecvFails(c))

StreamFairSpec ==
    /\ DetailedSpec
    /\ WF_detailedVars(BidTurnInDetail)
    /\ \A c \in Call : ReceiverFairness(c)

-----------------------------------------------------------------------------
(***************************************************************************)
(* Properties                                                              *)
(***************************************************************************)

\* Every variable is of its type.
DetailedTypeOK == TypeOK /\ CallsOK /\ RestApiOK

\* All that is proved of Sequencer holds with the goroutines in detail: what
\* the receivers and the builders do in between is not seen by the others.
ImplementsSequencer == Spec

\* bidder.go:179 promises all the commitments of the stream: when a call
\* returns because the stream ended or broke off, whichever channel told it,
\* every commitment that the stream delivered was recorded.
NothingLeftBehind ==
    \A c \in Call :
        calls[c].outcome \in {"ok", "failed"}
            => calls[c].inHand = {} /\ calls[c].receiver \in {"closing", "done"}

\* The commitments of the stream that a call is reading are those that it has
\* recorded and the one its receiver has in hand: none of an earlier call, and
\* none twice (bidder.go:191-210).
StreamIsRecorded ==
    \A c \in Call :
        IsOpen(c) =>
            /\ bidder.pc = "stream"
            /\ calls[c].received = bidder.commitments \union calls[c].inHand
            /\ bidder.commitments \intersect calls[c].inHand = {}

\* A call whose bid is sent returns, whatever the stream does (main.go:200).
CallReturns == \A c \in Call : IsOpen(c) ~> ~ IsOpen(c)

\* The receiver of a call that has returned ends, so that its goroutine and
\* its stream are not kept: errCh has room for the error that nobody reads any
\* more (bidder.go:192).  Only after a timeout it may stay, with a commitment
\* in hand that nobody takes any more.
ReceiverEnds ==
    \A c \in Call :
        HasReturned(c) ~> \/ calls[c].receiver = "done"
                          \/ /\ calls[c].receiver = "handing"
                             /\ calls[c].outcome = "timeout"

\* What bidder.go:220 says of a stream that breaks off: its transactions need
\* to be sent again, so the call ends in an error, also when a commitment came
\* before.
NoErrorIsSwallowed ==
    \A c \in Call :
        calls[c].outcome = "ok" /\ calls[c].received # {} => calls[c].error # "failed"

\* A transaction whose status is decrypted has a whole key: the status is set
\* after the key (msg_handler.go:58-59, rest.go:84).
DecryptedIsReadable ==
    \A h \in DOMAIN txs : txs[h].status \in {"decrypted", "finalised"} => slice[h] = Word

\* No builder is given a transaction in plain that is not committed for a block,
\* or that may be bid for again (main.go:202-249, msg_handler.go:58, rest.go:85).
PlainOnlyIfCommitted ==
    \A q \in Query :
        api[q].pc = "plain" =>
            /\ HasStatus(api[q].hash, Settled)
            /\ txs[api[q].hash].commitedBlock # 0

\* Once a builder got a transaction in plain, no other one is told that it is
\* unknown or has no key, or reads half a key, although keys come again and are
\* written again (rest.go:77-104, msg_handler.go:58).  It may still be refused:
\* a key that does not open the transaction may have been written over.
PlainStays ==
    [][\A p, q \in Query :
           api[p].pc = "plain" /\ api[q].hash = api[p].hash /\ api'[q].pc # api[q].pc
               => api'[q].pc \notin {"notfound", "locked", "broken"}]_detailedVars

\* A builder that asks for a transaction whose status is decrypted is answered by
\* the key: at each of the three points at which its query looks at the store it
\* goes on, until it gets the transaction in plain if the key that is there opens
\* it, and is refused if not.  It is never told that there is no transaction or no
\* key, nor does it read half a key (rest.go:77-158, msg_handler.go:58-59).  That
\* the key opens the transaction is not claimed: nobody has looked at it before.
DecryptedIsAnswered ==
    [][\A q \in Query :
           HasStatus(api[q].hash, {"decrypted", "finalised"}) /\ api'[q].pc # api[q].pc
               => \/ api'[q].pc \in {"check", "decrypt"}
                  \/ api'[q].pc = IF Opens(q) THEN "plain" ELSE "refused"]_detailedVars

\* What src/README.md:60 says of the store: it is thread-safe, so that nobody reads
\* half a key.
NoTornRead == \A q \in Query : api[q].pc # "broken"

=============================================================================
