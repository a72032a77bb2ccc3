------------------------- MODULE TableStructure_proofs -------------------------
(***************************************************************************)
(* Proof that every reachable state of TableStructure is well typed, for   *)
(* every bound and table kind: the DDL and fetch records the page keeps    *)
(* while handleOk and fetchTableInfo await stay well formed through        *)
(* duplicate submits, lost answers and out-of-order reloads.               *)
(***************************************************************************)
EXTENDS TableStructure, TLAPS

USE TableAssumption DEF Ddl, Fetch, DialogType

(***************************************************************************)
(* Membership in BOOLEAN spelled out for the SMT backend.                  *)
(***************************************************************************)
LEMMA TBoolIff == \A x : x \in BOOLEAN <=> (x = TRUE \/ x = FALSE)
BY Zenon

(***************************************************************************)
(* Inductive strengthening of TypeOK: a fetch the server has answered     *)
(* carries a schema version, so fetchTableInfo never stores Unread.        *)
(***************************************************************************)
TInv ==
    /\ TypeOK
    /\ \A f \in fetches : f.phase = "served" => f.snap \in Nat

(***************************************************************************)
(* Type correctness of the table-structure page: handleOk, showModal,     *)
(* handleCancel, the reload timer and fetchTableInfo keep every variable  *)
(* in its type.                                                            *)
(***************************************************************************)
THEOREM TableTypeCorrect == TSpec => []TypeOK
<1>1. Init => TInv
  BY TBoolIff DEF Init, TInv, TypeOK
<1>2. TInv /\ [TNext]_tvars => TInv'
  <2> SUFFICES ASSUME TInv, [TNext]_tvars PROVE TInv'
    OBVIOUS
  <2> USE DEF TInv
  <2>1. ASSUME NEW t \in DialogType, showModal(t) PROVE TInv'
    BY <2>1, TBoolIff DEF showModal, TypeOK
  <2>2. CASE handleCancel
    BY <2>2, TBoolIff DEF handleCancel, TypeOK
  <2>3. CASE SubmitDdl
    BY <2>3, TBoolIff DEF SubmitDdl, TypeOK
  <2>4. ASSUME NEW d \in ddls, DdlServe(d) PROVE TInv'
    <3>1. PICK applied \in BOOLEAN, seen \in BOOLEAN :
              /\ ver' = IF applied THEN ver + 1 ELSE ver
              /\ ddls' = (ddls \ {d}) \cup {[d EXCEPT !.phase = "done", !.ok = seen]}
      BY <2>4 DEF DdlServe
    <3>2. [d EXCEPT !.phase = "done", !.ok = seen] \in Ddl
      BY <3>1 DEF TypeOK
    <3>3. UNCHANGED <<tableInfo, visible, modalType, dialog, fetches, timers, n>>
      BY <2>4 DEF DdlServe
    <3>4. ver' \in Nat
      BY <3>1 DEF TypeOK
    <3>5. QED
      BY <3>2, <3>3, <3>4, <3>1 DEF TypeOK
  <2>5. ASSUME NEW d \in ddls, DdlReturn(d) PROVE TInv'
    BY <2>5, TBoolIff DEF DdlReturn, TypeOK
  <2>6. CASE TimerFires
    BY <2>6 DEF TimerFires, TypeOK
  <2>7. ASSUME NEW f \in fetches, FetchServe(f) PROVE TInv'
    <3>1. [f EXCEPT !.snap = ver, !.phase = "served"] \in Fetch
      BY DEF TypeOK
    <3>2. QED
      BY <2>7, <3>1 DEF FetchServe, TypeOK
  <2>8. ASSUME NEW f \in fetches, fetchTableInfo(f) PROVE TInv'
    <3>1. f.snap \in Nat
      BY <2>8 DEF fetchTableInfo
    <3>2. QED
      BY <2>8, <3>1 DEF fetchTableInfo, TypeOK
  <2>9. ASSUME NEW f \in fetches, FetchFail(f) PROVE TInv'
    BY <2>9 DEF FetchFail, TypeOK
  <2>10. CASE UNCHANGED tvars
    BY <2>10 DEF tvars, TypeOK
  <2>11. QED
    BY <2>1, <2>2, <2>3, <2>4, <2>5, <2>6, <2>7, <2>8, <2>9, <2>10 DEF TNext
<1>3. TInv => TypeOK
  BY DEF TInv
<1>4. QED
  BY <1>1, <1>2, <1>3, PTL DEF TSpec

=============================================================================
