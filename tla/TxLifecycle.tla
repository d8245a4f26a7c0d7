---------------------------- MODULE TxLifecycle ----------------------------
(***************************************************************************)
(* What the sequencer promises of a transaction to those who do not see    *)
(* its goroutines: to the client that submitted it, to the keypers that    *)
(* release its key, and to the builder that includes it.                   *)
(*                                                                         *)
(*   unknown -> pending -> promised -> revealed <-> confirmed              *)
(*                 |                                                       *)
(*                 +-----> dropped                                         *)
(*                                                                         *)
(* A pending transaction is bid for, or its bid was won and the keypers    *)
(* are still to be told.  It is promised when they were told that it is    *)
(* committed for a block, revealed when its key is there, and confirmed    *)
(* when it was found on the chain.  A key that comes again reopens it.     *)
(* Nothing else happens: a promise is not taken back, the identity, the    *)
(* window and the block it names stay, and a dropped one stays dropped.    *)
(***************************************************************************)
EXTENDS Naturals

CONSTANTS
    Hash,
    Identity,
    MaxInclusionWindow,     \* how long a transaction may be bid for
    InclusionWindow         \* how far ahead of the chain a bid is

VARIABLES
    life,       \* what can be told of each transaction
    block,      \* the latest block of the chain
    onChain     \* the transactions that are on the chain

vars == <<life, block, onChain>>

Unknown == [phase |-> "unknown", identity |-> {}, window |-> 0, block |-> 0]

Init ==
    /\ life = [h \in Hash |-> Unknown]
    /\ block = 0
    /\ onChain = {}

Move(h, from, to) ==
    /\ life[h].phase = from
    /\ life' = [life EXCEPT ![h].phase = to]
    /\ UNCHANGED <<block, onChain>>

\* A transaction is accepted under an identity no other one has.
Accept(h, i, window) ==
    /\ life[h] = Unknown
    /\ \A g \in Hash : i \notin life[g].identity
    /\ life' = [life EXCEPT ![h] = [phase    |-> "pending",
                                    identity |-> {i},
                                    window   |-> window,
                                    block    |-> 0]]
    /\ UNCHANGED <<block, onChain>>

\* Only what no bid could include any more is dropped.
Drop(h) ==
    /\ life[h].window < block + InclusionWindow
    /\ Move(h, "pending", "dropped")

\* The keypers are told of a bid: of its transactions, for a block that is
\* in the window of each.
Promise(S, b) ==
    /\ \A h \in S : life[h].phase = "pending" /\ b <= life[h].window
    /\ life' = [h \in Hash |->
                  IF h \in S THEN [phase    |-> "promised",
                                   identity |-> life[h].identity,
                                   window   |-> life[h].window,
                                   block    |-> b]
                             ELSE life[h]]
    /\ UNCHANGED <<block, onChain>>

Reveal(h) == Move(h, "promised", "revealed")

Confirm(h) ==
    /\ h \in onChain
    /\ life[h].block <= block
    /\ Move(h, "revealed", "confirmed")

Reopen(h) == Move(h, "confirmed", "revealed")

Grow ==
    /\ block' = block + 1
    /\ \E S \in SUBSET Hash : onChain' = onChain \union S
    /\ UNCHANGED life

Next ==
    \/ \E h \in Hash :
          \/ \E i \in Identity, window \in 0 .. block + MaxInclusionWindow :
                Accept(h, i, window)
          \/ Drop(h)
          \/ Reveal(h)
          \/ Confirm(h)
          \/ Reopen(h)
    \/ \E S \in SUBSET Hash, b \in 1 .. block + InclusionWindow : Promise(S, b)
    \/ Grow

Spec == Init /\ [][Next]_vars

-----------------------------------------------------------------------------
(***************************************************************************)
(* What clients, keypers and builders may rely on                          *)
(***************************************************************************)

Promised == {"promised", "revealed", "confirmed"}

\* A transaction is promised for a block that is in its window, and confirmed
\* only when it is on the chain and that block is reached; no two of them are
\* known under one identity.
PromisesHold ==
    \A h \in Hash :
        /\ life[h].phase \in Promised => life[h].block \in 1 .. life[h].window
        /\ life[h].phase = "confirmed" => h \in onChain /\ life[h].block <= block
        /\ \A g \in Hash \ {h} : life[g].identity \intersect life[h].identity = {}

\* A promise is not taken back, nor is its block changed; a dropped transaction
\* is not taken up again; and an identity and a window are given once.
PromisesStand ==
    [][\A h \in Hash :
           /\ life[h].phase \in Promised =>
                 life'[h].phase \in Promised /\ life'[h].block = life[h].block
           /\ life[h].phase = "dropped" => life'[h].phase = "dropped"
           /\ life[h].phase # "unknown" =>
                 /\ life'[h].identity = life[h].identity
                 /\ life'[h].window = life[h].window]_vars

=============================================================================
