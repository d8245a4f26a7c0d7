------------------------- MODULE TxLifecycleProofs -------------------------
(***************************************************************************)
(* What TxLifecycle promises, for every value of its constants.            *)
(***************************************************************************)
EXTENDS TxLifecycle, TLAPS

-----------------------------------------------------------------------------
(***************************************************************************)
(* Types                                                                   *)
(***************************************************************************)

Phase == {"unknown", "pending", "dropped"} \union Promised

LifeRecord == [phase : Phase, identity : SUBSET Identity, window : Nat, block : Nat]

LifeOK ==
    /\ life \in [Hash -> LifeRecord]
    /\ block \in Nat
    /\ onChain \subseteq Hash

Windows == InclusionWindow \in Nat /\ MaxInclusionWindow \in Nat

\* A step changes one phase, stores one transaction, promises some, or is of the
\* chain; so it looks from each transaction.
LEMMA MoveEffect ==
    ASSUME LifeOK, NEW h \in Hash, NEW from, NEW to \in Phase, Move(h, from, to)
    PROVE  /\ LifeOK'
           /\ life[h].phase = from /\ life'[h].phase = to
           /\ life'[h].identity = life[h].identity
           /\ life'[h].window = life[h].window
           /\ life'[h].block = life[h].block
           /\ \A g \in Hash \ {h} : life'[g] = life[g]
           /\ block' = block /\ onChain' = onChain
<1>1. life' = [life EXCEPT ![h] = [life[h] EXCEPT !.phase = to]]
    BY DEF Move
<1>2. [life[h] EXCEPT !.phase = to] \in LifeRecord
    BY DEF LifeOK, LifeRecord
<1>3. LifeOK'
    BY <1>1, <1>2 DEF LifeOK, Move
<1>4. life[h] \in LifeRecord
    BY DEF LifeOK
<1> QED
    BY <1>1, <1>3, <1>4 DEF LifeOK, LifeRecord, Move

LEMMA AcceptEffect ==
    ASSUME LifeOK, NEW h \in Hash, NEW i \in Identity, NEW window \in Nat,
           Accept(h, i, window)
    PROVE  /\ LifeOK'
           /\ life[h].phase = "unknown" /\ life'[h].phase = "pending"
           /\ life'[h].identity = {i} /\ \A g \in Hash : i \notin life[g].identity
           /\ \A g \in Hash \ {h} : life'[g] = life[g]
           /\ block' = block /\ onChain' = onChain
<1> DEFINE new == [phase |-> "pending", identity |-> {i}, window |-> window, block |-> 0]
<1>1. new \in LifeRecord
    BY DEF LifeRecord, Phase
<1>2. life' = [life EXCEPT ![h] = new]
    BY DEF Accept
<1>3. life[h].phase = "unknown"
    BY DEF Accept, Unknown
<1>4. LifeOK'
    BY <1>1, <1>2 DEF LifeOK, Accept
<1>5. life'[h] = new /\ \A g \in Hash \ {h} : life'[g] = life[g]
    BY <1>2 DEF LifeOK
<1> QED
    BY <1>3, <1>4, <1>5 DEF Accept

LEMMA PromiseEffect ==
    ASSUME LifeOK, NEW S \in SUBSET Hash, NEW b \in Nat, Promise(S, b)
    PROVE  /\ LifeOK'
           /\ \A h \in S :
                 /\ life[h].phase = "pending" /\ life'[h].phase = "promised"
                 /\ life'[h].identity = life[h].identity
                 /\ life'[h].window = life[h].window
                 /\ b <= life[h].window /\ life'[h].block = b
           /\ \A h \in Hash \ S : life'[h] = life[h]
           /\ block' = block /\ onChain' = onChain
<1>1. \A h \in S : life'[h] = [phase    |-> "promised",
                               identity |-> life[h].identity,
                               window   |-> life[h].window,
                               block    |-> b]
    BY DEF Promise
<1>2. \A h \in Hash \ S : life'[h] = life[h]
    BY DEF Promise
<1>3. ASSUME NEW h \in Hash PROVE life'[h] \in LifeRecord
    <2>1. life[h] \in LifeRecord
        BY DEF LifeOK
    <2>2. CASE h \in S
        <3>1. life[h].identity \in SUBSET Identity /\ life[h].window \in Nat
            BY <2>1 DEF LifeRecord
        <3>2. "promised" \in Phase
            BY DEF Phase, Promised
        <3>3. [phase    |-> "promised",
               identity |-> life[h].identity,
               window   |-> life[h].window,
               block    |-> b] \in LifeRecord
            BY <3>1, <3>2 DEF LifeRecord
        <3> QED
            BY <1>1, <2>2, <3>3
    <2> QED
        BY <1>2, <2>1, <2>2
<1>4. LifeOK'
    BY <1>3 DEF LifeOK, Promise
<1> QED
    BY <1>1, <1>2, <1>4 DEF Promise

LEMMA GrowEffect ==
    ASSUME LifeOK, Grow
    PROVE  /\ LifeOK' /\ life' = life
           /\ block' = block + 1 /\ onChain \subseteq onChain'
BY DEF LifeOK, Grow

-----------------------------------------------------------------------------
(***************************************************************************)
(* A step keeps the promises                                               *)
(***************************************************************************)

Moves(h) ==
    \/ Move(h, "pending", "dropped") \/ Move(h, "promised", "revealed")
    \/ h \in onChain /\ life[h].block <= block /\ Move(h, "revealed", "confirmed")
    \/ Move(h, "confirmed", "revealed")

LEMMA StepEffect ==
    ASSUME LifeOK, Windows, [Next]_vars
    PROVE  \/ UNCHANGED vars
           \/ \E h \in Hash, i \in Identity, window \in Nat : Accept(h, i, window)
           \/ \E h \in Hash : Moves(h)
           \/ \E S \in SUBSET Hash, b \in Nat \ {0} : Promise(S, b)
           \/ Grow
<1>1. /\ 0 .. block + MaxInclusionWindow \subseteq Nat
      /\ 1 .. block + InclusionWindow \subseteq Nat \ {0}
    BY DEF LifeOK, Windows
<1> QED
    BY <1>1 DEF Next, Drop, Reveal, Confirm, Reopen, Moves

LEMMA InitPromises == Init => LifeOK /\ PromisesHold
BY DEF Init, Unknown, LifeOK, LifeRecord, Phase, Promised, PromisesHold

LEMMA PromisesKept ==
    ASSUME LifeOK, PromisesHold, Windows, [Next]_vars
    PROVE  LifeOK' /\ PromisesHold'
<1> USE DEF PromisesHold
<1>1. CASE UNCHANGED vars
    BY <1>1 DEF vars, LifeOK
<1>2. ASSUME NEW h \in Hash, NEW i \in Identity, NEW window \in Nat, Accept(h, i, window)
      PROVE  LifeOK' /\ PromisesHold'
    <2>1. LifeOK' /\ "pending" \notin Promised
        BY <1>2, AcceptEffect DEF Promised
    <2> QED
        BY <1>2, <2>1, AcceptEffect
<1>3. ASSUME NEW h \in Hash, Moves(h)
      PROVE  LifeOK' /\ PromisesHold'
    <2>1. PICK from \in Phase, to \in Phase :
              /\ Move(h, from, to)
              /\ to \in Promised => from \in Promised
              /\ to = "confirmed" => h \in onChain /\ life[h].block <= block
        BY <1>3 DEF Moves, Phase, Promised
    <2> QED
        BY <2>1, MoveEffect
<1>4. ASSUME NEW S \in SUBSET Hash, NEW b \in Nat \ {0}, Promise(S, b)
      PROVE  LifeOK' /\ PromisesHold'
    <2>1. /\ LifeOK'
          /\ \A h \in S :
                /\ b <= life[h].window /\ life'[h].phase = "promised"
                /\ life'[h].block = b /\ life'[h].window = life[h].window
                /\ life'[h].identity = life[h].identity
          /\ \A h \in Hash \ S : life'[h] = life[h]
          /\ block' = block /\ onChain' = onChain
        BY <1>4, PromiseEffect
    <2>2. \A h \in S : life'[h].block \in 1 .. life'[h].window
        BY <2>1 DEF LifeOK, LifeRecord
    <2>3. \A h \in Hash : life'[h].identity = life[h].identity
        BY <2>1
    <2> QED
        BY <2>1, <2>2, <2>3
<1>5. CASE Grow
    <2>1. \A h \in Hash : life[h].block <= block => life[h].block <= block + 1
        BY DEF LifeOK, LifeRecord
    <2> QED
        BY <1>5, <2>1, GrowEffect
<1> QED
    BY <1>1, <1>2, <1>3, <1>4, <1>5, StepEffect

LEMMA PromiseStep ==
    ASSUME LifeOK, Windows, [Next]_vars, NEW h \in Hash
    PROVE  /\ life[h].phase \in Promised =>
                 life'[h].phase \in Promised /\ life'[h].block = life[h].block
           /\ life[h].phase = "dropped" => life'[h].phase = "dropped"
           /\ life[h].phase # "unknown" =>
                 /\ life'[h].identity = life[h].identity
                 /\ life'[h].window = life[h].window
<1> USE DEF Promised
<1>1. CASE UNCHANGED vars \/ Grow
    BY <1>1, GrowEffect DEF vars
<1>2. CASE \E g \in Hash, i \in Identity, window \in Nat : Accept(g, i, window)
    BY <1>2, AcceptEffect
<1>3. ASSUME NEW g \in Hash, Moves(g)
      PROVE  life'[h] = life[h]
                \/ /\ life'[h].block = life[h].block
                   /\ life'[h].identity = life[h].identity
                   /\ life'[h].window = life[h].window
                   /\ life[h].phase \notin {"unknown", "dropped"}
                   /\ life[h].phase \in Promised => life'[h].phase \in Promised
    <2>1. PICK from \in Phase, to \in Phase :
              /\ Move(g, from, to)
              /\ from \notin {"unknown", "dropped"}
              /\ from \in Promised => to \in Promised
        BY <1>3 DEF Moves, Phase
    <2> QED
        BY <2>1, MoveEffect
<1>4. CASE \E S \in SUBSET Hash, b \in Nat \ {0} : Promise(S, b)
    BY <1>4, PromiseEffect
<1> QED
    BY <1>1, <1>2, <1>3, <1>4, StepEffect

-----------------------------------------------------------------------------
(***************************************************************************)
(* The theorems                                                            *)
(***************************************************************************)

\* The types, and that promises are for blocks of the window, confirmations for
\* what is on the chain, and identities unique.
THEOREM PromisesAreSound ==
    ASSUME InclusionWindow \in Nat, MaxInclusionWindow \in Nat
    PROVE  Spec => [](LifeOK /\ PromisesHold)
<1>1. LifeOK /\ PromisesHold /\ [Next]_vars => LifeOK' /\ PromisesHold'
    BY PromisesKept DEF Windows
<1> QED
    BY InitPromises, <1>1, PTL DEF Spec

\* A promise is not taken back.
THEOREM PromisesAreFinal ==
    ASSUME InclusionWindow \in Nat, MaxInclusionWindow \in Nat
    PROVE  Spec => PromisesStand
<1>1. LifeOK /\ [Next]_vars =>
        \A h \in Hash :
           /\ life[h].phase \in Promised =>
                 life'[h].phase \in Promised /\ life'[h].block = life[h].block
           /\ life[h].phase = "dropped" => life'[h].phase = "dropped"
           /\ life[h].phase # "unknown" =>
                 /\ life'[h].identity = life[h].identity
                 /\ life'[h].window = life[h].window
    BY PromiseStep DEF Windows
<1> QED
    BY <1>1, PromisesAreSound, PTL DEF Spec, PromisesStand

=============================================================================
