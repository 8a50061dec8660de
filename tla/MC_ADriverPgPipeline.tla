------------------------ MODULE MC_ADriverPgPipeline ------------------------
(***************************************************************************)
(* Instances of ADriverPgPipeline for TLC.                                 *)
(***************************************************************************)
EXTENDS ADriverPgPipeline, TLC

CONSTANTS q1, q2

Symmetry == Permutations(Queries)
=============================================================================
