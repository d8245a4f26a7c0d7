----------------------------- MODULE BidStream -----------------------------
(***************************************************************************)
(* SubmitBidGRPC in detail (bidder/bidder.go): the goroutine that receives *)
(* from the stream, the two channels between it and the bid loop, and the  *)
(* bid's deadline.  The channel of the commitments is unbuffered, so the   *)
(* receiver waits until the loop takes what it has in hand; the channel of *)
(* the error has room for one.  The receiver puts its error and then       *)
(* closes the other channel, and the loop selects among whatever is ready. *)
(* A call returns without waiting for its receiver, which goes on by       *)
(* itself, beside the receivers of later calls.                            *)
(***************************************************************************)
EXTENDS BidLoop

CONSTANT Call   \* bound: how many bids are sent at most

VARIABLE calls  \* what each call of SubmitBidGRPC left behind

CallState ==
    [outcome  : {"none", "open", "ok", "failed", "timeout"},
     receiver : {"none", "receiving", "handing", "closing", "done"},
     inHand   : SUBSET Provider,            \* the commitment to hand over
     received : SUBSET Provider,            \* all the stream delivered
     error    : {"none", "eof", "failed"},  \* in errCh
     closed   : BOOLEAN,                    \* commitmentsCh
     late     : BOOLEAN]                    \* ctx is done

CallsOK == calls \in [Call -> CallState]

NoCall ==
    [outcome |-> "none", receiver |-> "none", inHand |-> {}, received |-> {},
     error |-> "none", closed |-> FALSE, late |-> FALSE]

InitCalls == calls = [c \in Call |-> NoCall]

IsOpen(c) == calls[c].outcome = "open"

HasReturned(c) == calls[c].outcome \in {"ok", "failed", "timeout"}

-----------------------------------------------------------------------------
(***************************************************************************)
(* The receiver                                                            *)
(***************************************************************************)

\* Mutant: the channel has room for a commitment, and the receiver goes on.
RunsAhead(c) == calls[c].receiver \in {"receiving", "handing"}

\* The receiver calls Recv again when its commitment was taken.
IsReceiving(c) == calls[c].receiver = "receiving"

\* A provider commits to a bid once.
RecvCommitment(c, p) ==
    /\ IsReceiving(c)
    /\ p \notin calls[c].received
    /\ calls' = [calls EXCEPT ![c].receiver = "handing",
                              ![c].inHand = {p},
                              ![c].received = @ \union {p}]

\* Mutant: the channel of the error has no room, and waits for a reader.
HasReader(c) == IsOpen(c)

HasRoom(c) == calls[c].error = "none"

RecvError(c, error) ==
    /\ IsReceiving(c)
    /\ HasRoom(c)
    /\ calls' = [calls EXCEPT ![c].receiver = "closing", ![c].error = error]

CloseCommitments(c) ==
    /\ calls[c].receiver = "closing"
    /\ calls' = [calls EXCEPT ![c].receiver = "done", ![c].closed = TRUE]

\* Mutant: the bid is sent without a deadline.
DeadlineIgnored(c) == IsOpen(c) /\ UNCHANGED calls

\* Two minutes after the bid was sent.
DeadlinePasses(c) ==
    /\ IsOpen(c)
    /\ ~ calls[c].late
    /\ calls' = [calls EXCEPT ![c].late = TRUE]

ReceiverStep ==
    \E c \in Call :
        \/ \E p \in Provider : RecvCommitment(c, p)
        \/ \E error \in {"eof", "failed"} : RecvError(c, error)
        \/ CloseCommitments(c)
        \/ DeadlinePasses(c)

-----------------------------------------------------------------------------
(***************************************************************************)
(* The loop: the call, and the cases of its select.  The select is reached *)
(* again when a commitment is recorded for all its transactions.           *)
(***************************************************************************)

OpenStream(c) ==
    /\ calls[c].outcome = "none"
    /\ SendBid
    /\ calls' = [calls EXCEPT ![c].outcome = "open", ![c].receiver = "receiving"]

\* The loop cancels the context of a call that has returned (main.go:201).
Return(c, outcome) == calls' = [calls EXCEPT ![c].outcome = outcome, ![c].late = TRUE]

TakeTimeout(c) ==
    /\ calls[c].late
    /\ BidTimesOut
    /\ Return(c, "timeout")

ErrorOutcome(c) == IF calls[c].error = "eof" THEN "ok" ELSE "failed"

TakeError(c) ==
    /\ calls[c].error # "none"
    /\ IF calls[c].error = "eof" THEN StreamEnds ELSE StreamFails
    /\ calls' = [calls EXCEPT ![c].error = "none",
                              ![c].outcome = ErrorOutcome(c),
                              ![c].late = TRUE]

TakeCommitment(c) ==
    /\ \E p \in calls[c].inHand : ReceiveCommitment(p)
    /\ calls' = [calls EXCEPT ![c].receiver = "receiving", ![c].inHand = {}]

\* The closed channel is taken for the end of the stream.
TakeClosed(c) ==
    /\ calls[c].closed
    /\ StreamEnds
    /\ Return(c, "ok")

Select(c) ==
    /\ IsOpen(c)
    /\ \/ TakeTimeout(c)
       \/ TakeError(c)
       \/ TakeCommitment(c)
       \/ TakeClosed(c)

BidStepInDetail ==
    \/ BidAround /\ UNCHANGED calls
    \/ \E c \in Call : OpenStream(c) \/ Select(c)

=============================================================================
