---------------------------- MODULE MC_ADriverPg ----------------------------
(***************************************************************************)
(* Instances of ADriverPg for TLC.                                         *)
(***************************************************************************)
EXTENDS ADriverPg, TLC

\* The identities of calls are interchangeable.
Symmetry == Permutations(Queries) \cup Permutations(Opens)

=============================================================================
