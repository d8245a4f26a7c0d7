---------------------------- MODULE MCSequencer ----------------------------
(***************************************************************************)
(* Instances of Sequencer for TLC.  Hashes, and identities (requests), are *)
(* interchangeable: nothing compares or orders them.  The symmetry is used *)
(* where no liveness is checked.                                           *)
(***************************************************************************)
EXTENDS LifecycleRefinement, TLC

Symmetry ==
    Permutations(Hash) \union Permutations(Identity)
        \union Permutations(Provider) \union Permutations(Worker)

=============================================================================
