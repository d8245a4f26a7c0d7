------------------------------ MODULE BidLoop ------------------------------
(***************************************************************************)
(* The bid loop: the sequencer's core goroutine (main.go) and the bid      *)
(* manager it calls (bidder/bidder.go).  Every ten seconds it takes the    *)
(* transactions that wait for a bid, bids for those that may still be      *)
(* included, blocks the others, records the commitments that the providers *)
(* stream back, and sends each commitment to the keypers.  When the bid    *)
(* brings no commitment or ends in an error, its transactions wait again.  *)
(*                                                                         *)
(* The loop holds the store's mutex for one access at a time, so anything  *)
(* may happen between two of its steps.  A tick whose block number cannot  *)
(* be read does nothing.  A commitment is for all the transactions of the  *)
(* bid and for the bid's block.                                            *)
(***************************************************************************)
EXTENDS Environment

CONSTANTS
    Provider,           \* the providers that may commit to a bid
    InclusionWindow     \* main.go: 1

VARIABLE bidder     \* the locals of the goroutine

ASSUME InclusionWindowAssumption == InclusionWindow \in Nat \ {0}

BidderPc ==
    {"idle", "classify", "block", "mark", "stream", "remark", "reset", "gossip"}

BidderOK ==
    bidder \in [pc          : BidderPc,
                block       : Nat,                  \* the block bid for
                hashes      : SUBSET Hash,          \* the transactions bid for
                identities  : SUBSET Identity,      \* the bid's options
                pending     : SUBSET Hash,          \* left to write in a loop
                commitments : SUBSET Provider]

IdleBidder ==
    [pc |-> "idle", block |-> 0, hashes |-> {}, identities |-> {},
     pending |-> {}, commitments |-> {}]

InitBidder == bidder = IdleBidder

-----------------------------------------------------------------------------
(***************************************************************************)
(* Helpers: the next point of the goroutine, and one turn of a loop that   *)
(* writes the status of some transactions one by one.                      *)
(***************************************************************************)

GoTo(pc, pending) == bidder' = [bidder EXCEPT !.pc = pc, !.pending = pending]

Turn(h) ==
    /\ h \in bidder.pending
    /\ bidder' = [bidder EXCEPT !.pending = @ \ {h}]
    /\ UNCHANGED gossip

WriteStatus(h, s) == Turn(h) /\ UpdateTransactionStatus(h, s)

Local == UNCHANGED <<txs, gossip>>

At(pc) == bidder.pc = pc

LoopEnds(pc) == At(pc) /\ bidder.pending = {}

-----------------------------------------------------------------------------
(***************************************************************************)
(* CreateBidFromInitTransactions                                           *)
(***************************************************************************)

\* main.go:177-182
ReadBlock ==
    /\ At("idle")
    /\ bidder' = [bidder EXCEPT !.pc = "classify",
                                !.block = block + InclusionWindow]
    /\ Local

NothingToBid ==
    /\ At("classify")
    /\ GetTransactionsByStatus("init") = {}
    /\ bidder' = IdleBidder
    /\ Local

\* Mutant: the window is compared with the latest block, not the bid's.
IsStillOpen(h) == txs[h].maxInclusionWindow >= bidder.block - InclusionWindow

IsEligible(h) == txs[h].maxInclusionWindow >= bidder.block

\* Mutants: the transactions whose window has passed are left as they are, or
\* those that are bid for are blocked along with them.
LeftOut(waiting) == {}

AllWaiting(waiting) == waiting

Expired(waiting) == {h \in waiting : ~ IsEligible(h)}

\* The status is read once, under the mutex; the windows never change.
Classify ==
    LET waiting == GetTransactionsByStatus("init") IN
    /\ At("classify")
    /\ waiting # {}
    /\ bidder' = [bidder EXCEPT !.pc = "block",
                                !.hashes = {h \in waiting : IsEligible(h)},
                                !.pending = Expired(waiting)]
    /\ Local

BlockExpired(h) ==
    /\ At("block")
    /\ WriteStatus(h, "blocked")

\* bidder.go:108: a bid for no transaction is an error.
NoBid ==
    /\ LoopEnds("block")
    /\ bidder.hashes = {}
    /\ bidder' = IdleBidder
    /\ Local

CreateBid ==
    /\ LoopEnds("block")
    /\ bidder.hashes # {}
    /\ bidder' = [bidder EXCEPT
                    !.pc = "mark",
                    !.pending = bidder.hashes,
                    !.identities = {txs[h].identity : h \in bidder.hashes}]
    /\ Local

MarkBidSubmitted(h) ==
    /\ At("mark")
    /\ WriteStatus(h, "bidsubmitted")

-----------------------------------------------------------------------------
(***************************************************************************)
(* SubmitBidGRPC.  A goroutine passes the commitments of the stream on, in *)
(* order, and then an error: it puts it into a buffered channel and closes *)
(* the channel of the commitments.  The main loop selects any of the two   *)
(* channels and the two-minute timeout that is ready.                      *)
(***************************************************************************)

SendBid ==
    /\ LoopEnds("mark")
    /\ GoTo("stream", {})
    /\ Local

SendBidFails ==
    /\ LoopEnds("mark")
    /\ GoTo("reset", bidder.hashes)
    /\ Local

\* Mutant: the keypers are sent a commitment as soon as it is received.
ForwardCommitment(p) ==
    /\ LoopEnds("stream")
    /\ p \in Provider \ bidder.commitments
    /\ bidder' = [bidder EXCEPT !.commitments = @ \union {p},
                                !.pending = bidder.hashes]
    /\ gossip' = gossip \union bidder.identities
    /\ UNCHANGED txs

ReceiveCommitment(p) ==
    /\ LoopEnds("stream")
    /\ p \in Provider \ bidder.commitments
    /\ bidder' = [bidder EXCEPT !.commitments = @ \union {p},
                                !.pending = bidder.hashes]
    /\ Local

MarkCommitted(h) ==
    /\ At("stream")
    /\ Turn(h)
    /\ UpdateCommittedTransaction(h, bidder.block)

\* Mutant: the number of commitments is not looked at.
AcceptBid == GoTo("gossip", {})

\* main.go:202: a bid without a commitment has failed.
ReturnCommitments ==
    IF bidder.commitments = {} THEN GoTo("reset", bidder.hashes)
                               ELSE GoTo("gossip", {})

\* bidder.go:217 and 232: the end of the stream, or the closed channel,
\* which hides the error that came before it.
StreamEnds ==
    /\ LoopEnds("stream")
    /\ ReturnCommitments
    /\ Local

\* bidder.go:214: the commitments received so far are returned with an
\* error, and main.go:202 drops them.
BidTimesOut ==
    /\ LoopEnds("stream")
    /\ GoTo("reset", bidder.hashes)
    /\ Local

\* bidder.go:216-229
StreamFails ==
    /\ LoopEnds("stream")
    /\ GoTo("remark", bidder.hashes)
    /\ Local

RemarkInit(h) ==
    /\ At("remark")
    /\ WriteStatus(h, "init")

ReturnError ==
    /\ LoopEnds("remark")
    /\ GoTo("reset", bidder.hashes)
    /\ Local

-----------------------------------------------------------------------------
(***************************************************************************)
(* What the loop does with the outcome of the bid: main.go:202-249.        *)
(***************************************************************************)

ResetInit(h) ==
    /\ At("reset")
    /\ WriteStatus(h, "init")

\* Mutant: a bid that failed is sent again at once.
RetryBid ==
    /\ LoopEnds("reset")
    /\ GoTo("mark", bidder.hashes)
    /\ Local

BidDropped ==
    /\ LoopEnds("reset")
    /\ bidder' = IdleBidder
    /\ Local

\* The commitment names the identities (their prefixes) of the whole bid.
SendCommitment(p) ==
    /\ At("gossip")
    /\ p \in bidder.commitments
    /\ bidder' = [bidder EXCEPT !.commitments = @ \ {p}]
    /\ gossip' = gossip \union bidder.identities
    /\ UNCHANGED txs

\* A bid option that is not of this sequencer's kind, or a message that
\* cannot be sent: the commitment is skipped for good.
SkipCommitment(p) ==
    /\ At("gossip")
    /\ p \in bidder.commitments
    /\ bidder' = [bidder EXCEPT !.commitments = @ \ {p}]
    /\ Local

BidDone ==
    /\ At("gossip")
    /\ bidder.commitments = {}
    /\ bidder' = IdleBidder
    /\ Local

BidAround ==
    \/ ReadBlock
    \/ NothingToBid
    \/ Classify
    \/ \E h \in Hash : BlockExpired(h) \/ MarkBidSubmitted(h) \/ MarkCommitted(h)
    \/ NoBid
    \/ CreateBid
    \/ SendBidFails
    \/ ReturnError
    \/ \E h \in Hash : RemarkInit(h) \/ ResetInit(h)
    \/ BidDropped
    \/ \E p \in Provider : SendCommitment(p) \/ SkipCommitment(p)
    \/ BidDone

\* What BidStream says in detail.
BidOnStream ==
    \/ SendBid
    \/ \E p \in Provider : ReceiveCommitment(p)
    \/ StreamEnds
    \/ BidTimesOut
    \/ StreamFails

BidStep == BidAround \/ BidOnStream

=============================================================================
