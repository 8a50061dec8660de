---------------------- MODULE MC_ADriverPgNotifications ----------------------
(***************************************************************************)
(* Instances of ADriverPgNotifications for TLC.                            *)
(***************************************************************************)
EXTENDS ADriverPgNotifications, TLC

CONSTANTS c1, c2, s1, s2, s3, r1, r2

Symmetry ==
  Permutations(Channels) \cup Permutations(Subscriptions) \cup Permutations(Receivers)
=============================================================================
