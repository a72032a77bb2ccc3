------------------------- MODULE MC_RecordAndReplay -------------------------
(* Model-checking instance of RecordAndReplay: task ids are model values. *)
EXTENDS RecordAndReplay, TLC

CONSTANTS i1, i2

MCIds == {i1, i2}

\* Task ids are interchangeable: every action picks them with \E.
IdSymmetry == Permutations(MCIds)
=============================================================================
