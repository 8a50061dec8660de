--------------------------- MODULE MC_ATransaction ---------------------------
(***************************************************************************)
(* Instances of ATransaction for TLC.                                      *)
(***************************************************************************)
EXTENDS ATransaction

\* The coroutines that share a transaction are interchangeable.
Symmetry == Permutations(Coroutines)

=============================================================================
