------------------------- MODULE ProfilingList_proofs -------------------------
(***************************************************************************)
(* Proof that every reachable state of ProfilingList is well typed for    *)
(* every request bound: the reload timers onTimeRangeChange starts and    *)
(* the requests refresh, the timers and the settings drawer send never    *)
(* exceed the bound together.                                              *)
(***************************************************************************)
EXTENDS ProfilingList, TLAPS

USE ListAssumption DEF GroupReq, CfgReq

(***************************************************************************)
(* Membership in BOOLEAN spelled out for the SMT backend.                  *)
(***************************************************************************)
LEMMA LBoolIff == \A x : x \in BOOLEAN <=> (x = TRUE \/ x = FALSE)
BY Zenon

(***************************************************************************)
(* Inductive strengthening of TypeOK: every pending timer has a request   *)
(* reserved for it (Budget is never negative).                             *)
(***************************************************************************)
LInv ==
    /\ TypeOK
    /\ n + timers <= MaxReqs

(***************************************************************************)
(* Type correctness of the profiling list: onTimeRangeChange, the reload  *)
(* timer, refresh, the settings drawer and the answers of both queries    *)
(* keep every variable in its type, and the timers and the requests sent  *)
(* stay within MaxReqs together.                                           *)
(***************************************************************************)
THEOREM ListTypeCorrect == LSpec => []TypeOK
<1>1. Init => LInv
  BY LBoolIff DEF Init, LInv, TypeOK
<1>2. LInv /\ [LNext]_lvars => LInv'
  <2> SUFFICES ASSUME LInv, [LNext]_lvars PROVE LInv'
    OBVIOUS
  <2> USE DEF LInv, TypeOK, Budget
  <2>1. ASSUME NEW v \in Ranges, onTimeRangeChange(v) PROVE LInv'
    BY <2>1 DEF onTimeRangeChange, viewVars, cfgVars
  <2>2. CASE Render
    BY <2>2 DEF Render, viewVars, cfgVars
  <2>3. CASE TimerFires
    BY <2>3, LBoolIff DEF TimerFires, SendGroup, cfgVars
  <2>4. CASE refresh
    BY <2>4, LBoolIff DEF refresh, SendGroup, SendConfig
  <2>5. CASE OpenSettings \/ CloseSettings
    BY <2>5, LBoolIff DEF OpenSettings, CloseSettings, viewVars, cfgVars
  <2>6. CASE ConfigSaved
    BY <2>6, LBoolIff DEF ConfigSaved, SendConfig, viewVars
  <2>7. ASSUME NEW q \in reqs, GroupServe(q) PROVE LInv'
    BY <2>7 DEF GroupServe, viewVars, cfgVars
  <2>8. ASSUME NEW q \in reqs, GroupReturn(q) \/ GroupFail(q) PROVE LInv'
    BY <2>8, LBoolIff DEF GroupReturn, GroupFail, cfgVars
  <2>9. ASSUME NEW c \in cfgReqs, ConfigServe(c) PROVE LInv'
    BY <2>9, LBoolIff DEF ConfigServe, viewVars
  <2>10. ASSUME NEW c \in cfgReqs, ConfigReturn(c) \/ ConfigFail(c) PROVE LInv'
    BY <2>10, LBoolIff DEF ConfigReturn, ConfigFail, viewVars
  <2>11. CASE UNCHANGED lvars
    BY <2>11 DEF lvars
  <2>12. QED
    BY <2>1, <2>2, <2>3, <2>4, <2>5, <2>6, <2>7, <2>8, <2>9, <2>10, <2>11 DEF LNext
<1>3. LInv => TypeOK
  BY DEF LInv
<1>4. QED
  BY <1>1, <1>2, <1>3, PTL DEF LSpec

=============================================================================
