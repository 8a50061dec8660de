--------------------------- MODULE MC_AMigrations ---------------------------
(***************************************************************************)
(* Instances of AMigrations for TLC.                                       *)
(***************************************************************************)
EXTENDS AMigrations

Script(v, way) == [version |-> v, way |-> way, noTransaction |-> FALSE]

\* Every version has both ways.
Dense == {Script(1, "up"), Script(1, "down"), Script(2, "up"), Script(2, "down")}

\* Version 2 runs without a transaction, both ways.
Bare == {Script(1, "up"), Script(1, "down")} \cup
  {[version |-> 2, way |-> way, noTransaction |-> TRUE] : way \in {"up", "down"}}

\* Version 2 is left out, and the last header has no text below it.
Sparse == {Script(1, "up"), Script(3, "up"), Script(3, "down"), Script(4, "none")}

Mixed == {Script(1, "up"), Script(2, "down"), Script(3, "down"),
  [version |-> 1, way |-> "down", noTransaction |-> TRUE],
  [version |-> 2, way |-> "up", noTransaction |-> TRUE]}

MCFiles == {{}, Dense, Bare, Sparse, Mixed}

MCFirstVersions == {NoRow, 2}

MCTargets == {-1, 0, 1}

\* Migrators are interchangeable.
Symmetry == Permutations(Migrators)

=============================================================================
