------------------------------ MODULE MC_ACache ------------------------------
(***************************************************************************)
(* Instances of ACache for TLC.                                            *)
(***************************************************************************)
EXTENDS ACache, TLC

\* The identities of calls are interchangeable, and so are the keys.
Symmetry == Permutations(Callers) \cup Permutations(Keys)

=============================================================================
