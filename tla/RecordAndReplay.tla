--------------------------- MODULE RecordAndReplay ---------------------------
(***************************************************************************)
(* The Record-and-Replay page (ui/lib/apps/RecordAndReplay/index.tsx) and  *)
(* the backend it drives.                                                  *)
(*                                                                         *)
(* Client side (translated from the source):                               *)
(*   - isRecording / isReplaying: the two useState flags that disable the  *)
(*     Record, Replay and Delete buttons;                                  *)
(*   - data / error: the task list returned by the polling hook, passed    *)
(*     through updateTasks;                                                *)
(*   - the four async handlers, each split at its await into a Click step *)
(*     (the button is enabled, the request is sent) and a Resolve step     *)
(*     (the code after the await runs on the response).                    *)
(* Environment (modelled from the spec, the code is not in this repo):     *)
(*   - the backend task table and its REST handlers, the job executor that *)
(*     ends recordings and replays, the polling hook                       *)
(*     useClientRequestWithPolling, and a network that may fail requests.  *)
(***************************************************************************)
EXTENDS Naturals

CONSTANTS
    Ids,             \* task ids the backend can allocate
    NoId,            \* the id field of a record request (none yet)
    NoData,          \* respData before the first successful poll
    MaxReqs,         \* bound on the command requests the page issues
    MaxMounts,       \* bound on how often the page is left and re-entered
    BackendEnforces, \* does the backend itself refuse a second recording/replay
    NetFaults        \* may requests be lost, time out or lose their response

ASSUME ConstAssumption ==
    /\ NoId \notin Ids
    /\ MaxReqs \in Nat
    /\ MaxMounts \in Nat
    /\ BackendEnforces \in BOOLEAN
    /\ NetFaults \in BOOLEAN

\* enum taskState (index.tsx 10-16)
TaskState == {"Recording", "FinishRecording", "Replaying", "FinishReplaying", "Error"}
Finished  == {"FinishRecording", "FinishReplaying"}
Active    == {"Recording", "Replaying"}
\* Backend slots: "None" never allocated, "Deleted" removed by delete.
SrvState  == TaskState \cup {"None", "Deleted"}
\* A task absent from the polled list.
ViewState == TaskState \cup {"Absent"}

Ops    == {"record", "stop", "replay", "delete"}
Phases == {"sent", "wait", "answered"}
Request == [no : 1..MaxReqs, op : Ops, id : Ids \cup {NoId}, mount : 0..MaxMounts,
            phase : Phases, ok : BOOLEAN]

VARIABLES
    tasks,        \* backend task table
    reqs,         \* command requests in flight
    issued,       \* command requests issued so far
    poll,         \* the polling hook: phase of its one request and its result
    data,         \* respData after updateTasks
    error,        \* the hook's last error
    isRecording,
    isReplaying,
    mount         \* how often the page was mounted again

vars == <<tasks, reqs, issued, poll, data, error, isRecording, isReplaying, mount>>
srvVars  == <<tasks>>
viewVars == <<poll, data, error>>
flagVars == <<isRecording, isReplaying>>

TypeOK ==
    /\ tasks \in [Ids -> SrvState]
    /\ reqs \subseteq Request
    /\ \A r \in reqs : r.id = NoId <=> r.op = "record"
    /\ issued \in 0..MaxReqs
    /\ poll \in [phase : {"idle", "sent", "answered"},
                 snap : {NoData} \cup [Ids -> ViewState]]
    /\ data \in {NoData} \cup [Ids -> ViewState]
    /\ error \in BOOLEAN
    /\ isRecording \in BOOLEAN
    /\ isReplaying \in BOOLEAN
    /\ mount \in 0..MaxMounts

-----------------------------------------------------------------------------
(* Helpers                                                                 *)

\* Mutant: the backend lists deleted and unallocated slots as they are.
ListedRaw(t) == t

\* GET tasks: the list the backend returns, deleted and unallocated slots left out.
Listed(t) == [i \in Ids |-> IF t[i] \in TaskState THEN t[i] ELSE "Absent"]

\* updateTasks only walks the list (its body is commented out) and returns it.
updateTasks(ts) == ts

\* Send a command request; its continuation belongs to the current mount.
Issue(op, id) ==
    /\ issued < MaxReqs
    /\ issued' = issued + 1
    /\ reqs' = reqs \cup {[no |-> issued + 1, op |-> op, id |-> id, mount |-> mount,
                           phase |-> "sent", ok |-> FALSE]}

\* The backend (or the network) answers request r with success ok.
Answer(r, ok) == reqs' = (reqs \ {r}) \cup {[r EXCEPT !.phase = "answered", !.ok = ok]}

\* Mutant: the Replay button without disabled={isReplaying}.
actionRenderNoReplayGuard(i) ==
    IF data = NoData THEN {}
    ELSE IF data[i] = "Recording" THEN {"stop"}
    ELSE IF data[i] \in Finished
         THEN {a \in {"replay", "delete"} : a = "delete" => ~isReplaying /\ ~isRecording}
    ELSE {}

\* The buttons actionRender shows, enabled, for task i of the polled list.
actionRender(i) ==
    IF data = NoData THEN {}
    ELSE IF data[i] = "Recording" THEN {"stop"}
    ELSE IF data[i] \in Finished
         THEN {a \in {"replay", "delete"} :
                  ~isReplaying /\ (a = "delete" => ~isRecording)}
    ELSE {}          \* Replaying, Error, Absent: no button

\* The Record button of the header.
recordDisabled == isRecording \/ isReplaying

-----------------------------------------------------------------------------
(* Initial state: the page is mounted on a fresh backend.                  *)

Init ==
    /\ tasks = [i \in Ids |-> "None"]
    /\ reqs = {}
    /\ issued = 0
    /\ poll = [phase |-> "idle", snap |-> NoData]
    /\ data = NoData
    /\ error = FALSE
    /\ isRecording = FALSE
    /\ isReplaying = FALSE
    /\ mount = 0

-----------------------------------------------------------------------------
(* Client: the four handlers, each a Click and a Resolve step.            *)

\* handleRecord up to its await: POST tasks/record.
ClickRecord ==
    /\ ~recordDisabled
    /\ Issue("record", NoId)
    /\ UNCHANGED <<srvVars, viewVars, flagVars, mount>>

\* handleRecord after the await: setRecording(true) on status 200.
ResolveRecord(r) ==
    /\ r.phase = "answered" /\ r.op = "record"
    /\ reqs' = reqs \ {r}
    /\ isRecording' = IF r.ok /\ r.mount = mount THEN TRUE ELSE isRecording
    /\ UNCHANGED <<srvVars, viewVars, issued, isReplaying, mount>>

\* handleStopRecord up to its await; the Stop button is never disabled.
ClickStopRecord(i) ==
    /\ "stop" \in actionRender(i)
    /\ Issue("stop", i)
    /\ UNCHANGED <<srvVars, viewVars, flagVars, mount>>

\* handleStopRecord after the await: setRecording(false) on status 200.
ResolveStop(r) ==
    /\ r.phase = "answered" /\ r.op = "stop"
    /\ reqs' = reqs \ {r}
    /\ isRecording' = IF r.ok /\ r.mount = mount THEN FALSE ELSE isRecording
    /\ UNCHANGED <<srvVars, viewVars, issued, isReplaying, mount>>

\* handleReplay: setReplaying(true) runs before the await.
ClickReplay(i) ==
    /\ "replay" \in actionRender(i)
    /\ isReplaying' = TRUE
    /\ Issue("replay", i)
    /\ UNCHANGED <<srvVars, viewVars, isRecording, mount>>

\* handleReplay after the await: setReplaying(false) runs only if the
\* awaited promise resolves; a rejected request skips it.
ResolveReplay(r) ==
    /\ r.phase = "answered" /\ r.op = "replay"
    /\ reqs' = reqs \ {r}
    /\ isReplaying' = IF r.ok /\ r.mount = mount THEN FALSE ELSE isReplaying
    /\ UNCHANGED <<srvVars, viewVars, issued, isRecording, mount>>

\* handleDelete up to its await.
ClickDelete(i) ==
    /\ "delete" \in actionRender(i)
    /\ Issue("delete", i)
    /\ UNCHANGED <<srvVars, viewVars, flagVars, mount>>

\* handleDelete after the await: it only logs.
ResolveDelete(r) ==
    /\ r.phase = "answered" /\ r.op = "delete"
    /\ reqs' = reqs \ {r}
    /\ UNCHANGED <<srvVars, viewVars, issued, flagVars, mount>>

\* The user leaves the page and comes back: App mounts again, its useState
\* flags start FALSE, respData is undefined and the old poll is abandoned.
\* Requests of the old mount still complete; their setState is a no-op.
Remount ==
    /\ mount < MaxMounts
    /\ mount' = mount + 1
    /\ isRecording' = FALSE
    /\ isReplaying' = FALSE
    /\ data' = NoData
    /\ error' = FALSE
    /\ poll' = [phase |-> "idle", snap |-> NoData]
    /\ UNCHANGED <<srvVars, reqs, issued>>

-----------------------------------------------------------------------------
(* Polling hook: one request at a time, a failure keeps the old list.     *)

PollTick ==
    /\ poll.phase = "idle"
    /\ poll' = [poll EXCEPT !.phase = "sent"]
    /\ UNCHANGED <<srvVars, reqs, issued, data, error, flagVars, mount>>

PollServe ==
    /\ poll.phase = "sent"
    /\ poll' = [phase |-> "answered", snap |-> Listed(tasks)]
    /\ UNCHANGED <<srvVars, reqs, issued, data, error, flagVars, mount>>

\* Mutant: a one-shot hook (useClientRequest) keeps its first result.
PollDeliverFirstOnly ==
    /\ poll.phase = "answered"
    /\ data' = IF data = NoData THEN updateTasks(poll.snap) ELSE data
    /\ error' = FALSE
    /\ poll' = [phase |-> "idle", snap |-> NoData]
    /\ UNCHANGED <<srvVars, reqs, issued, flagVars, mount>>

\* The list arrives: data = useMemo(() => updateTasks(respData)).
PollDeliver ==
    /\ poll.phase = "answered"
    /\ data' = updateTasks(poll.snap)
    /\ error' = FALSE
    /\ poll' = [phase |-> "idle", snap |-> NoData]
    /\ UNCHANGED <<srvVars, reqs, issued, flagVars, mount>>

PollFail ==
    /\ NetFaults
    /\ poll.phase \in {"sent", "answered"}
    /\ error' = TRUE
    /\ poll' = [phase |-> "idle", snap |-> NoData]
    /\ UNCHANGED <<srvVars, reqs, issued, data, flagVars, mount>>

-----------------------------------------------------------------------------
(* Backend REST handlers and job executor.                                 *)

RecordConflict == BackendEnforces /\ \E j \in Ids : tasks[j] = "Recording"
ReplayConflict == BackendEnforces /\ \E j \in Ids : tasks[j] = "Replaying"

\* POST tasks/record: allocate a fresh id in state Recording.
ServeRecord(r) ==
    /\ r.phase = "sent" /\ r.op = "record"
    /\ \/ /\ ~RecordConflict
          /\ \E i \in Ids : /\ tasks[i] = "None"
                            /\ tasks' = [tasks EXCEPT ![i] = "Recording"]
          /\ Answer(r, TRUE)
       \/ /\ RecordConflict \/ \A i \in Ids : tasks[i] # "None"
          /\ Answer(r, FALSE)
          /\ UNCHANGED tasks
    /\ UNCHANGED <<issued, viewVars, flagVars, mount>>

\* GET tasks/{id}/stop_record.
ServeStop(r) ==
    /\ r.phase = "sent" /\ r.op = "stop"
    /\ tasks' = IF tasks[r.id] = "Recording"
                THEN [tasks EXCEPT ![r.id] = "FinishRecording"] ELSE tasks
    /\ Answer(r, tasks[r.id] = "Recording")
    /\ UNCHANGED <<issued, viewVars, flagVars, mount>>

\* GET tasks/{id}/start_replay: accepted, the request waits for the replay.
ServeReplay(r) ==
    /\ r.phase = "sent" /\ r.op = "replay"
    /\ \/ /\ tasks[r.id] \in Finished /\ ~ReplayConflict
          /\ tasks' = [tasks EXCEPT ![r.id] = "Replaying"]
          /\ reqs' = (reqs \ {r}) \cup {[r EXCEPT !.phase = "wait"]}
       \/ /\ tasks[r.id] \notin Finished \/ ReplayConflict
          /\ Answer(r, FALSE)
          /\ UNCHANGED tasks
    /\ UNCHANGED <<issued, viewVars, flagVars, mount>>

\* The long-lived start_replay request returns once the replay has ended;
\* an Error outcome is an error status.
ReplayReturns(r) ==
    /\ r.phase = "wait" /\ r.op = "replay"
    /\ tasks[r.id] # "Replaying"
    /\ Answer(r, tasks[r.id] = "FinishReplaying")
    /\ UNCHANGED <<srvVars, issued, viewVars, flagVars, mount>>

\* DELETE tasks/{id}.
ServeDelete(r) ==
    /\ r.phase = "sent" /\ r.op = "delete"
    /\ LET ok == tasks[r.id] \in TaskState /\ (BackendEnforces => tasks[r.id] \notin Active)
       IN /\ tasks' = IF ok THEN [tasks EXCEPT ![r.id] = "Deleted"] ELSE tasks
          /\ Answer(r, ok)
    /\ UNCHANGED <<issued, viewVars, flagVars, mount>>

\* The executor ends a recording (completion or failure).
RecordEnds(i) ==
    /\ tasks[i] = "Recording"
    /\ \E s \in {"FinishRecording", "Error"} : tasks' = [tasks EXCEPT ![i] = s]
    /\ UNCHANGED <<reqs, issued, viewVars, flagVars, mount>>

\* The executor ends a replay (completion or failure).
ReplayEnds(i) ==
    /\ tasks[i] = "Replaying"
    /\ \E s \in {"FinishReplaying", "Error"} : tasks' = [tasks EXCEPT ![i] = s]
    /\ UNCHANGED <<reqs, issued, viewVars, flagVars, mount>>

\* A request is lost, times out, or its response is lost: the promise rejects.
NetFail(r) ==
    /\ NetFaults
    /\ \/ r.phase \in {"sent", "wait"}
       \/ r.phase = "answered" /\ r.ok
    /\ Answer(r, FALSE)
    /\ UNCHANGED <<srvVars, issued, viewVars, flagVars, mount>>

-----------------------------------------------------------------------------

ClientStep ==
    \/ ClickRecord
    \/ \E i \in Ids : ClickStopRecord(i) \/ ClickReplay(i) \/ ClickDelete(i)
    \/ Remount

ResolveStep ==
    \E r \in reqs : ResolveRecord(r) \/ ResolveStop(r) \/ ResolveReplay(r) \/ ResolveDelete(r)

ServerStep ==
    \E r \in reqs : ServeRecord(r) \/ ServeStop(r) \/ ServeReplay(r)
                    \/ ReplayReturns(r) \/ ServeDelete(r)

ExecutorStep == \E i \in Ids : RecordEnds(i) \/ ReplayEnds(i)

Next ==
    \/ ClientStep
    \/ ResolveStep
    \/ ServerStep
    \/ ExecutorStep
    \/ PollTick \/ PollServe \/ PollDeliver \/ PollFail
    \/ \E r \in reqs : NetFail(r)

Spec == Init /\ [][Next]_vars

\* The user, the network failures and the end of a recording are not fair.
\* The backend answers, the browser runs continuations, a replay ends, and
\* the polling timer keeps firing; a poll step that can succeed infinitely often
\* eventually does (the network is not down for ever).
Fairness ==
    /\ WF_vars(ServerStep)
    /\ WF_vars(ResolveStep)
    /\ \A i \in Ids : WF_vars(ReplayEnds(i))
    /\ WF_vars(PollTick)
    /\ SF_vars(PollServe)
    /\ SF_vars(PollDeliver)

FairSpec == Spec /\ Fairness

-----------------------------------------------------------------------------
(* Properties                                                              *)

NoReplaying == \A j \in Ids : tasks[j] # "Replaying"

\* I1 (spec 3): at most one task is recording on the backend.  The only
\* client-side protection is the Record button's isRecording flag, which
\* handleRecord sets after its POST returns.
AtMostOneRecording ==
    \A i, j \in Ids : tasks[i] = "Recording" /\ tasks[j] = "Recording" => i = j

\* I2 (spec 3): at most one task is replaying on the backend.  handleReplay
\* sets isReplaying before its request and the Replay buttons are disabled
\* by it.
AtMostOneReplaying ==
    \A i, j \in Ids : tasks[i] = "Replaying" /\ tasks[j] = "Replaying" => i = j

\* Inductive strengthening of AtMostOneReplaying for a single mount: the
\* page holds at most one replay request, and while isReplaying is FALSE
\* nothing replays and no replay request is in flight.
ReplayReqs == {r \in reqs : r.op = "replay"}

ReplayInv ==
    /\ ~isReplaying => NoReplaying /\ ReplayReqs = {}
    /\ \A r1, r2 \in ReplayReqs : r1 = r2
    /\ \A r \in ReplayReqs : r.phase = "sent" => NoReplaying
    /\ \A r \in ReplayReqs : r.phase = "answered" /\ r.ok => NoReplaying
    /\ \A r \in ReplayReqs : r.phase = "wait" =>
           \A j \in Ids : tasks[j] = "Replaying" => j = r.id
    /\ AtMostOneReplaying

\* Delete guard (spec 4.2, 4.4): no step removes a task that is recording or
\* replaying.  The page shows Delete only for a finished task of the polled
\* (possibly stale) list and disables it while isReplaying or isRecording.
NoActiveTaskDeleted ==
    [][\A i \in Ids : tasks[i] \in Active => tasks'[i] \notin {"Deleted"}]_vars

\* Convergence (spec 4.5, 7): once the backend stops changing, the polled
\* list the page shows eventually equals the backend's list for good, even
\* across failed polls and a remount.
Converges ==
    <>[][UNCHANGED tasks]_tasks => <>[](data = Listed(tasks))

\* Recovery (spec 7, 9): once the backend has no recording, the Record
\* button's lock isRecording is eventually released.
RecordLockReleased ==
    (isRecording /\ \A j \in Ids : tasks[j] # "Recording") ~> ~isRecording

\* Recovery (spec 7, 9): the replay lock isReplaying, taken by handleReplay,
\* is eventually released (a replay always ends).
ReplayLockReleased ==
    isReplaying ~> ~isReplaying

=============================================================================
