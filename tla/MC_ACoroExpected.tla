-------------------------- MODULE MC_ACoroExpected --------------------------
(***************************************************************************)
(* Instances of ACoroExpected for TLC.                                     *)
(***************************************************************************)
EXTENDS ACoroExpected

\* Coroutines, objects and the names of awaitables are interchangeable.
Symmetry == Permutations(Coroutines) \cup Permutations(Objects)
              \cup Permutations(Awaitables)

=============================================================================
