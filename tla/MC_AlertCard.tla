---------------------------- MODULE MC_AlertCard ----------------------------
(* Model-checking instance of AlertCard: no alerts or two firing. *)
EXTENDS AlertCard, TLC

MCCounts == {0, 2}
=============================================================================
