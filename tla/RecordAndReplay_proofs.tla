------------------------ MODULE RecordAndReplay_proofs ------------------------
(***************************************************************************)
(* Proofs about RecordAndReplay, for every value of the constants:        *)
(*   - TypeCorrect: every reachable state is well typed;                  *)
(*   - ReplayExclusion: while the page is not re-mounted, at most one task *)
(*     replays on the backend, even if the backend enforces nothing.      *)
(***************************************************************************)
EXTENDS RecordAndReplay, TLAPS

USE ConstAssumption DEF srvVars, viewVars, flagVars,
    TaskState, Finished, Active, SrvState, ViewState, Ops, Phases, Request

(***************************************************************************)
(* Membership in BOOLEAN spelled out, for the SMT backend, which does not  *)
(* derive x \in BOOLEAN from x = FALSE by itself.                          *)
(***************************************************************************)
LEMMA BoolIff == \A x : x \in BOOLEAN <=> (x = TRUE \/ x = FALSE)
BY Zenon

(***************************************************************************)
(* Sending a request keeps the request set and the counter well typed.    *)
(***************************************************************************)
LEMMA IssueType ==
    ASSUME TypeOK, NEW op \in Ops, NEW id \in Ids \cup {NoId},
           id = NoId <=> op = "record", Issue(op, id)
    PROVE  /\ reqs' \subseteq Request
           /\ \A r \in reqs' : r.id = NoId <=> r.op = "record"
           /\ issued' \in 0..MaxReqs
BY BoolIff DEF TypeOK, Issue

(***************************************************************************)
(* Answering a request keeps the request set well typed.                  *)
(***************************************************************************)
LEMMA AnswerType ==
    ASSUME TypeOK, NEW r \in reqs, NEW ok \in BOOLEAN, Answer(r, ok)
    PROVE  /\ reqs' \subseteq Request
           /\ \A q \in reqs' : q.id = NoId <=> q.op = "record"
<1> DEFINE a == [r EXCEPT !.phase = "answered", !.ok = ok]
<1>1. r \in Request
  BY DEF TypeOK
<1>2. a \in Request /\ a.id = r.id /\ a.op = r.op
  BY <1>1
<1>3. reqs' = (reqs \ {r}) \cup {a}
  BY DEF Answer
<1>4. QED
  BY <1>2, <1>3 DEF TypeOK

(***************************************************************************)
(* The backend's list is a well-typed view.                                *)
(***************************************************************************)
LEMMA ListedType ==
    ASSUME TypeOK PROVE Listed(tasks) \in [Ids -> ViewState]
BY DEF TypeOK, Listed, ViewState

(***************************************************************************)
(* Type correctness: all variables keep their types in every step.        *)
(***************************************************************************)
THEOREM TypeCorrect == Spec => []TypeOK
<1>1. Init => TypeOK
  BY BoolIff DEF Init, TypeOK
<1>2. TypeOK /\ [Next]_vars => TypeOK'
  <2> SUFFICES ASSUME TypeOK, [Next]_vars PROVE TypeOK'
    OBVIOUS
  <2>1. CASE ClickRecord
    BY <2>1, IssueType DEF ClickRecord, TypeOK, Ops
  <2>2. ASSUME NEW i \in Ids, ClickStopRecord(i) \/ ClickReplay(i) \/ ClickDelete(i)
        PROVE TypeOK'
    BY <2>2, IssueType, BoolIff DEF ClickStopRecord, ClickReplay, ClickDelete, TypeOK, Ops
  <2>3. CASE Remount
    BY <2>3, BoolIff DEF Remount, TypeOK
  <2>4. ASSUME NEW r \in reqs,
               ResolveRecord(r) \/ ResolveStop(r) \/ ResolveReplay(r) \/ ResolveDelete(r)
        PROVE TypeOK'
    BY <2>4, BoolIff DEF ResolveRecord, ResolveStop, ResolveReplay, ResolveDelete, TypeOK
  <2>5. ASSUME NEW r \in reqs, ServeRecord(r) PROVE TypeOK'
    BY <2>5, AnswerType DEF ServeRecord, TypeOK, SrvState, TaskState
  <2>6. ASSUME NEW r \in reqs, ServeStop(r) PROVE TypeOK'
    <3>1. r.id \in Ids
      BY <2>6 DEF ServeStop, TypeOK
    <3>2. QED
      BY <2>6, <3>1, AnswerType DEF ServeStop, TypeOK, SrvState, TaskState
  <2>7. ASSUME NEW r \in reqs, ServeReplay(r) PROVE TypeOK'
    <3>1. r.id \in Ids
      BY <2>7 DEF ServeReplay, TypeOK
    <3>2. CASE /\ tasks[r.id] \in Finished /\ ~ReplayConflict
               /\ tasks' = [tasks EXCEPT ![r.id] = "Replaying"]
               /\ reqs' = (reqs \ {r}) \cup {[r EXCEPT !.phase = "wait"]}
      <4>1. [r EXCEPT !.phase = "wait"] \in Request
        BY DEF TypeOK
      <4>2. QED
        BY <2>7, <3>1, <3>2, <4>1 DEF ServeReplay, TypeOK
    <3>3. CASE /\ tasks[r.id] \notin Finished \/ ReplayConflict
               /\ Answer(r, FALSE)
               /\ UNCHANGED tasks
      BY <2>7, <3>3, AnswerType DEF ServeReplay, TypeOK
    <3>4. QED
      BY <2>7, <3>2, <3>3 DEF ServeReplay
  <2>8. ASSUME NEW r \in reqs, ReplayReturns(r) PROVE TypeOK'
    BY <2>8, AnswerType DEF ReplayReturns, TypeOK
  <2>9. ASSUME NEW r \in reqs, ServeDelete(r) PROVE TypeOK'
    <3>1. r.id \in Ids
      BY <2>9 DEF ServeDelete, TypeOK
    <3>2. QED
      BY <2>9, <3>1, AnswerType DEF ServeDelete, TypeOK, SrvState, TaskState
  <2>10. ASSUME NEW i \in Ids, RecordEnds(i) \/ ReplayEnds(i) PROVE TypeOK'
    BY <2>10 DEF RecordEnds, ReplayEnds, TypeOK, SrvState, TaskState
  <2>11. CASE PollTick \/ PollServe \/ PollDeliver \/ PollFail
    BY <2>11, ListedType, BoolIff DEF PollTick, PollServe, PollDeliver, PollFail, updateTasks, TypeOK
  <2>12. ASSUME NEW r \in reqs, NetFail(r) PROVE TypeOK'
    BY <2>12, AnswerType DEF NetFail, TypeOK
  <2>13. CASE UNCHANGED vars
    BY <2>13 DEF vars, TypeOK
  <2>14. QED
    BY <2>1, <2>2, <2>3, <2>4, <2>5, <2>6, <2>7, <2>8, <2>9, <2>10, <2>11, <2>12, <2>13
    DEF Next, ClientStep, ResolveStep, ServerStep, ExecutorStep
<1>3. QED
  BY <1>1, <1>2, PTL DEF Spec

-----------------------------------------------------------------------------
(***************************************************************************)
(* Replay exclusion.  handleReplay sets isReplaying before it sends its   *)
(* request and clears it only when a successful response arrives, which   *)
(* the backend sends once the replay has ended; the Replay buttons are    *)
(* disabled while it is set.  So within one mount the page never has two  *)
(* replays running.  The argument is the inductive invariant ReplayInv.   *)
(***************************************************************************)

\* No task starts replaying in the step.
ReplayingShrinks ==
    \A j \in Ids : tasks'[j] = "Replaying" => tasks[j] = "Replaying"

(***************************************************************************)
(* A step that starts no replay and leaves the replay requests and the    *)
(* replay lock alone keeps ReplayInv.                                      *)
(***************************************************************************)
LEMMA ShrinkKeepsInv ==
    ASSUME ReplayInv, ReplayingShrinks, ReplayReqs' = ReplayReqs,
           isReplaying' = isReplaying
    PROVE  ReplayInv'
BY DEF ReplayInv, ReplayingShrinks, NoReplaying, AtMostOneReplaying

(***************************************************************************)
(* Answering a request that is not a replay leaves the replay requests.   *)
(***************************************************************************)
LEMMA AnswerOtherReqs ==
    ASSUME TypeOK, NEW r \in reqs, NEW ok, Answer(r, ok), r.op # "replay"
    PROVE  ReplayReqs' = ReplayReqs
BY DEF Answer, ReplayReqs, TypeOK

(***************************************************************************)
(* Sending a request that is not a replay leaves the replay requests.     *)
(***************************************************************************)
LEMMA IssueOtherReqs ==
    ASSUME NEW op, NEW id, Issue(op, id), op # "replay"
    PROVE  ReplayReqs' = ReplayReqs
BY DEF Issue, ReplayReqs

(***************************************************************************)
(* A Replay button is enabled only while isReplaying is FALSE.            *)
(***************************************************************************)
LEMMA ReplayButtonNeedsLock ==
    ASSUME NEW i \in Ids, "replay" \in actionRender(i)
    PROVE  ~isReplaying
BY DEF actionRender

(***************************************************************************)
(* With a single mount every continuation belongs to the current mount.   *)
(***************************************************************************)
LEMMA SingleMount ==
    ASSUME MaxMounts = 0, TypeOK
    PROVE  /\ mount = 0
           /\ \A r \in reqs : r.mount = mount
           /\ ~Remount
BY DEF TypeOK, Remount

THEOREM ReplayExclusion ==
    ASSUME MaxMounts = 0
    PROVE  Spec => []AtMostOneReplaying
<1>1. Init => ReplayInv
  BY DEF Init, ReplayInv, ReplayReqs, NoReplaying, AtMostOneReplaying
<1>2. TypeOK /\ ReplayInv /\ [Next]_vars => ReplayInv'
  <2> SUFFICES ASSUME TypeOK, ReplayInv, [Next]_vars PROVE ReplayInv'
    OBVIOUS
  <2>0. /\ \A r \in reqs : r.mount = mount
        /\ ~Remount
    BY SingleMount
  <2>1. CASE ClickRecord
    BY <2>1, IssueOtherReqs, ShrinkKeepsInv DEF ClickRecord, ReplayingShrinks
  <2>2. ASSUME NEW i \in Ids, ClickStopRecord(i) \/ ClickDelete(i) PROVE ReplayInv'
    BY <2>2, IssueOtherReqs, ShrinkKeepsInv
    DEF ClickStopRecord, ClickDelete, ReplayingShrinks
  <2>3. ASSUME NEW i \in Ids, ClickReplay(i) PROVE ReplayInv'
    <3>1. ~isReplaying /\ NoReplaying /\ ReplayReqs = {}
      BY <2>3, ReplayButtonNeedsLock DEF ClickReplay, ReplayInv
    <3>2. ReplayReqs' = {[no |-> issued + 1, op |-> "replay", id |-> i, mount |-> mount,
                          phase |-> "sent", ok |-> FALSE]}
      BY <2>3, <3>1 DEF ClickReplay, Issue, ReplayReqs
    <3>3. QED
      BY <2>3, <3>1, <3>2 DEF ClickReplay, ReplayInv, NoReplaying, AtMostOneReplaying
  <2>4. ASSUME NEW r \in reqs,
               ResolveRecord(r) \/ ResolveStop(r) \/ ResolveDelete(r)
        PROVE ReplayInv'
    <3>1. ReplayReqs' = ReplayReqs
      BY <2>4 DEF ResolveRecord, ResolveStop, ResolveDelete, ReplayReqs
    <3>2. QED
      BY <2>4, <3>1, ShrinkKeepsInv
      DEF ResolveRecord, ResolveStop, ResolveDelete, ReplayingShrinks
  <2>5. ASSUME NEW r \in reqs, ResolveReplay(r) PROVE ReplayInv'
    <3>1. r \in ReplayReqs /\ ReplayReqs' = {}
      BY <2>5 DEF ResolveReplay, ReplayReqs, ReplayInv
    <3>2. isReplaying
      BY <3>1 DEF ReplayInv
    <3>3. ~isReplaying' => NoReplaying
      BY <2>5, <2>0, <3>1, <3>2 DEF ResolveReplay, ReplayInv
    <3>4. QED
      BY <2>5, <3>1, <3>3 DEF ResolveReplay, ReplayInv, NoReplaying, AtMostOneReplaying
  <2>6. ASSUME NEW r \in reqs, ServeRecord(r) \/ ServeStop(r) \/ ServeDelete(r)
        PROVE ReplayInv'
    <3>1. ReplayReqs' = ReplayReqs
      BY <2>6, AnswerOtherReqs DEF ServeRecord, ServeStop, ServeDelete
    <3>2. ReplayingShrinks
      BY <2>6 DEF ServeRecord, ServeStop, ServeDelete, ReplayingShrinks, TypeOK
    <3>3. QED
      BY <2>6, <3>1, <3>2, ShrinkKeepsInv DEF ServeRecord, ServeStop, ServeDelete
  <2>7. ASSUME NEW r \in reqs, ServeReplay(r) PROVE ReplayInv'
    <3>1. r \in ReplayReqs /\ ReplayReqs = {r} /\ NoReplaying /\ isReplaying
      BY <2>7 DEF ServeReplay, ReplayReqs, ReplayInv
    <3>2. CASE tasks[r.id] \in Finished /\ ~ReplayConflict
               /\ tasks' = [tasks EXCEPT ![r.id] = "Replaying"]
               /\ reqs' = (reqs \ {r}) \cup {[r EXCEPT !.phase = "wait"]}
      <4>1. ReplayReqs' = {[r EXCEPT !.phase = "wait"]}
        BY <3>1, <3>2 DEF ReplayReqs, TypeOK
      <4>2. \A j \in Ids : tasks'[j] = "Replaying" => j = r.id
        BY <3>1, <3>2 DEF NoReplaying, TypeOK
      <4>3. QED
        BY <2>7, <3>1, <4>1, <4>2 DEF ServeReplay, ReplayInv, AtMostOneReplaying
    <3>3. CASE (tasks[r.id] \notin Finished \/ ReplayConflict) /\ Answer(r, FALSE)
               /\ UNCHANGED tasks
      <4>1. ReplayReqs' = {[r EXCEPT !.phase = "answered", !.ok = FALSE]}
        BY <3>1, <3>3 DEF ReplayReqs, Answer, TypeOK
      <4>2. QED
        BY <2>7, <3>1, <3>3, <4>1 DEF ServeReplay, ReplayInv, NoReplaying, AtMostOneReplaying
    <3>4. QED
      BY <2>7, <3>2, <3>3 DEF ServeReplay
  <2>8. ASSUME NEW r \in reqs, ReplayReturns(r) PROVE ReplayInv'
    <3>1. r \in ReplayReqs /\ ReplayReqs = {r} /\ isReplaying /\ NoReplaying
      BY <2>8 DEF ReplayReturns, ReplayReqs, ReplayInv, NoReplaying
    <3>2. ReplayReqs' = {[r EXCEPT !.phase = "answered",
                                   !.ok = (tasks[r.id] = "FinishReplaying")]}
      BY <2>8, <3>1 DEF ReplayReturns, Answer, ReplayReqs, TypeOK
    <3>3. QED
      BY <2>8, <3>1, <3>2 DEF ReplayReturns, ReplayInv, NoReplaying, AtMostOneReplaying
  <2>9. ASSUME NEW i \in Ids, RecordEnds(i) \/ ReplayEnds(i) PROVE ReplayInv'
    <3>1. ReplayingShrinks
      BY <2>9 DEF RecordEnds, ReplayEnds, ReplayingShrinks, TypeOK
    <3>2. QED
      BY <2>9, <3>1, ShrinkKeepsInv DEF RecordEnds, ReplayEnds, ReplayReqs
  <2>10. CASE PollTick \/ PollServe \/ PollDeliver \/ PollFail
    BY <2>10, ShrinkKeepsInv
    DEF PollTick, PollServe, PollDeliver, PollFail, ReplayReqs, ReplayingShrinks
  <2>11. ASSUME NEW r \in reqs, NetFail(r) PROVE ReplayInv'
    <3>1. CASE r.op # "replay"
      BY <2>11, <3>1, AnswerOtherReqs, ShrinkKeepsInv DEF NetFail, ReplayingShrinks
    <3>2. CASE r.op = "replay"
      <4>1. r \in ReplayReqs /\ ReplayReqs = {r} /\ isReplaying
        BY <3>2 DEF ReplayReqs, ReplayInv
      <4>2. ReplayReqs' = {[r EXCEPT !.phase = "answered", !.ok = FALSE]}
        BY <2>11, <4>1 DEF NetFail, Answer, ReplayReqs, TypeOK
      <4>3. QED
        BY <2>11, <4>1, <4>2 DEF NetFail, ReplayInv, NoReplaying, AtMostOneReplaying
    <3>3. QED
      BY <3>1, <3>2
  <2>12. CASE UNCHANGED vars
    BY <2>12, ShrinkKeepsInv DEF vars, ReplayReqs, ReplayingShrinks
  <2>13. QED
    BY <2>0, <2>1, <2>2, <2>3, <2>4, <2>5, <2>6, <2>7, <2>8, <2>9, <2>10, <2>11, <2>12
    DEF Next, ClientStep, ResolveStep, ServerStep, ExecutorStep
<1>3. ReplayInv => AtMostOneReplaying
  BY DEF ReplayInv
<1>4. QED
  BY TypeCorrect, <1>1, <1>2, <1>3, PTL DEF Spec

=============================================================================
