-------------------------- MODULE MC_ProfilingList --------------------------
(* Model-checking instance of ProfilingList: two time ranges. *)
EXTENDS ProfilingList, TLC

CONSTANTS r1, r2

MCRanges == {r1, r2}
RangeSymmetry == Permutations(MCRanges)
=============================================================================
