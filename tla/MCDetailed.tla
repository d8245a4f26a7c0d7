----------------------------- MODULE MCDetailed ----------------------------
(***************************************************************************)
(* Instances of DetailedSequencer for TLC.  Calls, queries and the rest    *)
(* are interchangeable; the symmetry is used where no liveness is checked. *)
(***************************************************************************)
EXTENDS DetailedInvariant, TLC

Symmetry ==
    Permutations(Hash) \union Permutations(Identity) \union Permutations(Provider)
        \union Permutations(Worker) \union Permutations(Call) \union Permutations(Query)

=============================================================================
