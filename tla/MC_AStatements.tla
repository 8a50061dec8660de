--------------------------- MODULE MC_AStatements ---------------------------
(***************************************************************************)
(* Instances of AStatements for TLC.                                       *)
(***************************************************************************)
EXTENDS AStatements

=============================================================================
