------------------------- MODULE MC_ADriverThreaded -------------------------
(***************************************************************************)
(* Instances of ADriverThreaded for TLC.                                   *)
(***************************************************************************)
EXTENDS ADriverThreadedRefinement, TLC

\* The identities of calls are interchangeable.
Symmetry == Permutations(Queries) \cup Permutations(Opens)

=============================================================================
