------------------------- MODULE MC_TableStructure --------------------------
(* Model-checking instance of TableStructure. *)
EXTENDS TableStructure, TLC
=============================================================================
