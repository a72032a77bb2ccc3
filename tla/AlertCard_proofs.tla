--------------------------- MODULE AlertCard_proofs ---------------------------
(***************************************************************************)
(* Proof that every reachable state of the alert card is well typed for   *)
(* every set of counts: in particular alertCounter always holds a count   *)
(* the alert manager reported (or the initial 0), whichever of the        *)
(* queries fail and however the alerts change.                            *)
(***************************************************************************)
EXTENDS AlertCard, TLAPS

USE AlertAssumption DEF SideAnswers

(***************************************************************************)
(* Type correctness of MonitorAlert: the queries, the effect on [amData], *)
(* fetch() and its continuation keep every variable in its type.          *)
(***************************************************************************)
THEOREM AlertTypeCorrect == ASpec => []TypeOK
<1>1. Init => TypeOK
  BY DEF Init, TypeOK
<1>2. TypeOK /\ [ANext]_avars => TypeOK'
  <2> SUFFICES ASSUME TypeOK, [ANext]_avars PROVE TypeOK'
    OBVIOUS
  <2> USE DEF TypeOK
  <2>1. CASE AmServe \/ AmFail
    BY <2>1 DEF AmServe, AmFail
  <2>2. CASE AlertEffect
    BY <2>2 DEF AlertEffect, EffectDue
  <2>3. CASE CountServe
    BY <2>3 DEF CountServe
  <2>4. CASE CountReturn \/ CountFail
    BY <2>4 DEF CountReturn, CountFail
  <2>5. CASE AlertsChange
    BY <2>5 DEF AlertsChange
  <2>6. ASSUME NEW q \in {"grafana", "info"}, SideServe(q) PROVE TypeOK'
    BY <2>6 DEF SideServe
  <2>7. CASE UNCHANGED avars
    BY <2>7 DEF avars
  <2>8. QED
    BY <2>1, <2>2, <2>3, <2>4, <2>5, <2>6, <2>7 DEF ANext
<1>3. QED
  BY <1>1, <1>2, PTL DEF ASpec

=============================================================================
