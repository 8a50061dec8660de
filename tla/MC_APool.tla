------------------------------ MODULE MC_APool ------------------------------
(***************************************************************************)
(* Instances of APool and APoolRefinement for TLC.                         *)
(***************************************************************************)
EXTENDS APoolRefinement, TLC

\* The identities of calls and of drivers are interchangeable.
Symmetry == Permutations(Calls) \cup Permutations(Drivers)

=============================================================================
