------------------------ MODULE LifecycleRefinement ------------------------
(***************************************************************************)
(* Sequencer implements TxLifecycle: what a transaction's status, its key  *)
(* and the commitments sent say of it, seen from outside.                  *)
(***************************************************************************)
EXTENDS SequencerInvariant

IsGossiped(h) == txs[h].identity \in gossip

\* The statuses are not enough to tell: a committed transaction is promised
\* only when the keypers know, and its key is there before its status says so.
PhaseOf(h) ==
    IF IsGossiped(h)
    THEN IF txs[h].status = "finalised" THEN "confirmed"
         ELSE IF txs[h].decryptionKey THEN "revealed" ELSE "promised"
    ELSE IF txs[h].status = "blocked" THEN "dropped" ELSE "pending"

LifeOf(h) ==
    IF h \in DOMAIN txs
    THEN [phase    |-> PhaseOf(h),
          identity |-> {txs[h].identity},
          window   |-> txs[h].maxInclusionWindow,
          block    |-> IF IsGossiped(h) THEN txs[h].commitedBlock ELSE 0]
    ELSE [phase |-> "unknown", identity |-> {}, window |-> 0, block |-> 0]

Lives == [h \in Hash |-> LifeOf(h)]

Life == INSTANCE TxLifecycle WITH life <- Lives

\* Every step of a goroutine is a step of the transactions' lives as TxLifecycle
\* allows it, or none: a transaction is dropped only after its window, promised
\* once and for one block of it, revealed only when promised, and confirmed
\* only when it is on the chain (main.go:166-251, server.go:185-207,
\* msg_handler.go:52-59, verifier.go:88-131).
ImplementsTxLifecycle == Life!Spec

\* What TxLifecycle says of a promise is so of the sequencer: when the keypers
\* are told of a transaction, it is for a block of its window, and it is found
\* confirmed only when it is on the chain (bidder.go:62, main.go:222-249).
PromisesHold == Life!PromisesHold

\* And it stays so, although every goroutine overwrites statuses blindly: the
\* promise, its block, the identity and the window are never changed, and a
\* blocked transaction is never bid for (store.go:104-137).
PromisesStand == Life!PromisesStand

\* What the refinement needs beside Inductive: the block numbers in hand were
\* read from the chain, and what is to be blocked has expired.
BlocksInHand ==
    /\ \A r \in Request :
          rpc[r].pc = "store" => rpc[r].window <= block + MaxInclusionWindow
    /\ bidder.block <= block + InclusionWindow
    /\ bidder.pc = "block" =>
          \A h \in bidder.pending : txs[h].maxInclusionWindow < bidder.block

=============================================================================
