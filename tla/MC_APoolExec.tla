---------------------------- MODULE MC_APoolExec ----------------------------
(***************************************************************************)
(* Instances of APoolExec for TLC.                                         *)
(***************************************************************************)
EXTENDS APoolExec, TLC

=============================================================================
