# Formal models of the dashboard's stateful pages

This directory holds TLA+ models of the stateful parts of the dashboard UI under
`src/ui/lib/apps`, TLC configurations that model-check them, and TLAPS proofs.

## 1. Inventory

| Part | Source | State | Operations | Modelled by |
|---|---|---|---|---|
| Record-and-Replay page | `RecordAndReplay/index.tsx` | `isRecording` and `isReplaying` (useState); the polled task list `data` after `updateTasks` | handleRecord, handleStopRecord, handleReplay, handleDelete, button guards (`actionRender`, Record button), remount | `RecordAndReplay` |
| Backend, job executor, polling hook | not in this repository (spec §4-§7) | the task table, requests in flight, the hook's one poll | the REST handlers, the end of a recording or a replay, poll tick/serve/deliver/fail, network loss | `RecordAndReplay` (spec-modelled) |
| Route metadata | `RecordAndReplay/index.meta.ts` | none | none | not modelled |
| Table structure page | `DataManager/pages/DBTableStructure.tsx` | `tableInfo`, `visible`, `modalInfo`; pending reload timers; DDL and schema calls in flight | showModal, handleCancel, handleOk (7 DDL kinds), fetchTableInfo, the 1 s reload timer | `TableStructure` |
| Continuous profiling list | `ContinuousProfiling/pages/List.tsx` | timeRange (session storage), showSettings, two queries | onTimeRangeChange and its `setTimeout(0)` reload, refresh, settings drawer, config reload | `ProfilingList` |
| Overview alert card | `Overview/components/MonitorAlert.tsx` | three queries, alertCounter | the effect on `[amData]` that fetches the alert count, the three queries | `AlertCard` |

**How the parts interact.** The Record-and-Replay page never sees the backend's
task table directly:
- A polling hook fetches the table, and the buttons are rendered from that
  possibly stale copy.
- Each command is an HTTP request. Its continuation runs after the await, on
  the mount that sent it.
- The only local concurrency control is the two useState flags.

The table-structure page talks to the database through `xcClient`:
- A DDL goes through a dialog.
- After a successful DDL the page schedules a reload 1 s later.
- Reloads are not sequenced.

The profiling list and the alert card read the server through
`useClientRequest`, which is not in this repository. It is modelled from the
spec's fetch API: `sendRequest` sets `isLoading` and sends a request built by
the latest render, and each answer sets `data` (or `error`) in arrival order.
- The list re-sends its query from a `setTimeout(0)` after a range change.
- The card runs a one-shot effect once the alert manager's address arrives.

**What makes them hard.** Every bug found here needs several steps, in an order no test exercises:
- two clicks before the first response arrives;
- two requests on the same row that race at the backend;
- a rejection that skips the rest of an async function;
- a remount that loses the in-memory locks;
- two reloads whose answers arrive out of order;
- a DDL completion that closes a dialog opened after it was sent;
- a timer that must read state from a render that has not happened yet;
- a count request that fails once and leaves a misleading initial value.

PROJECT.json "hazards" lists each of these at its source line.

## 2. Plan

Done:
1. `RecordAndReplay` with `MC_RecordAndReplay` and its runs, and the proofs in `RecordAndReplay_proofs`.
2. `TableStructure` with `MC_TableStructure`, and its type proof in `TableStructure_proofs`.
3. `AlertCard` (`MonitorAlert.tsx`) and `ProfilingList` (`List.tsx`), with liveness under the fairness the browser gives.

Next:
- an abstract specification of the page's guard (spec §4.4: a per-task outstanding-command lock plus global locks), with `RecordAndReplay` checked against it;

## 3. Module `RecordAndReplay`

**Variables.**
- `tasks`: the backend table, `Ids -> TaskState ∪ {None, Deleted}`.
- `reqs`: command requests in flight, as records. Each carries its op, its id, the mount that sent it, its phase (sent / wait / answered) and `ok`.
- `issued`: the number of command requests sent so far.
- `poll`: the polling hook's single outstanding request.
- `data` and `error`: `respData` after `updateTasks`, and the hook's error.
- `isRecording` and `isReplaying`.
- `mount`: counts the remounts.

**Actions.**
- Each handler of `index.tsx` is two actions:
  - `ClickX` is guarded by the button being present and enabled in `actionRender` or `recordDisabled`, and runs the code before the await.
  - `ResolveX` runs the code after the await on the response. Its setState counts only when the request's mount is the current one.
- `handleReplay` sets `isReplaying` before the await. On a rejection it skips `setReplaying(false)`.
- `updateTasks` is the identity: its body is commented out.
- The backend handlers, the executor, the polling hook and `NetFail` are spec-modelled. They are parameterised by:
  - `BackendEnforces`: the backend itself refuses a second recording or replay;
  - `NetFaults`: a request is lost, times out or loses its response.
- `start_replay` is long-lived. It is answered only after the replay ends, and an Error outcome comes back as an error status.

**Fairness** (`FairSpec`) covers only what the code and its environment do on their own:
- the backend answers requests (WF);
- the browser runs continuations (WF);
- a replay ends (WF);
- the polling timer fires (WF).

A poll that can succeed infinitely often eventually does (SF on serve and deliver): the network is not down forever.

The user, network failures and the end of a recording get no fairness.

### Runs (all with two task ids as model values)

| Run | Constants | Result | What it shows |
|---|---|---|---|
| `client_guards` | Enforces=F, Faults=T, MaxReqs=4, no remount, symmetry | pass, about 2.3 M states | `TypeOK`; `AtMostOneReplaying` holds from the client's lock alone |
| `view_converges` | Enforces=T, Faults=T, MaxReqs=2, one remount, FairSpec | pass, about 50 k states | `Converges`: once the backend stops changing, `data` eventually equals it for good, through failed polls, lost command answers and a remount |
| `record_double_start` | Enforces=F, MaxReqs=2, one remount | violation | `AtMostOneRecording`: Record clicked twice before the POST returns; the remount, which clears `isRecording` while the recording goes on, is a second way in |
| `delete_replay_race` | Enforces=F, MaxReqs=3 | violation | `NoActiveTaskDeleted`: Delete, then Replay on the same row; the backend serves the replay, then the delete |
| `replay_lock_stuck` | Enforces=T, FairSpec | violation | `ReplayLockReleased`: the replay ends in Error, the await rejects and `isReplaying` stays TRUE |
| `record_lock_stuck` | Enforces=T, Faults=T, FairSpec | violation | `RecordLockReleased`: the executor ends the recording (or the stop answer is lost) and nothing clears `isRecording` |

**Why these bounds are enough.**
- Two ids suffice for every two-task property: I1, I2, and the delete/replay race on one row while another exists.
- Four requests allow a replay, its answer, a second replay attempt and a delete.

Each violation run is the smallest instance that exposes its trace. The violation runs leave the backend unenforcing (or lossless) so that the client's own guard is what is tested. A backend that enforces I1/I2 (`BackendEnforces = TRUE`) hides the first two findings.

## 4. Module `TableStructure`

**Variables.**
- `ver` is the database's schema version. An applied DDL increments it.
- `tableInfo` is the version the page shows, or `NoInfo`.
- `visible`, `modalType` and `dialog` describe the dialog. `dialog` counts the dialogs opened.
- `ddls` and `fetches` are the calls in flight.
- `timers` counts the pending `setTimeout(fetchTableInfo, 1000)` calls.

**Actions.**
- `showModal(t)` is enabled only when `tableInfo` is loaded, the table is a TABLE, no dialog is open and the button for `t` is offered (`Offered`): the per-index delete needs an index with `isDeleteble`, the per-partition delete a RANGE partitioning. These two facts of the schema's shape are the constants `IndexDeletable` and `RangePartition`; the runs set both TRUE so that every dialog can open.
- `handleCancel` closes the dialog.
- `SubmitDdl` is handleOk up to its await. The dialog stays open.
- `DdlServe` models the database: it applies the DDL or refuses it. With faults, an applied DDL can still reach the page as an error.
- `DdlReturn` is handleOk after the await:
  - on an error it shows `Modal.error` and returns, so there is no reload and the dialog stays open;
  - on success it schedules a reload and calls `handleCancel`.
- `TimerFires`, `FetchServe`, `fetchTableInfo` and `FetchFail` model the reload.

There is no fairness: only safety is checked. Deadlock is not checked (`CHECK_DEADLOCK FALSE`). The page really stops once the user stops acting, and it stays blank forever when the first fetch fails.

| Run | Constants | Result | What it shows |
|---|---|---|---|
| `table_types` | MaxReqs=4, faults | pass, 1.4 M states | `TypeOK` across duplicate submits, lost DDL responses and failed reloads |
| `stale_table_info` | MaxReqs=5, no faults | violation | `ShowsLatestWhenSettled`: two reloads answer out of order and the page settles on the older schema |
| `late_ddl_closes_dialog` | MaxReqs=4, no faults | violation | `OnlyOwnDdlClosesDialog`: a cancelled dialog's DDL succeeds and closes the next dialog |

### Proof

`TableStructure_proofs` proves `TableTypeCorrect: TSpec => []TypeOK` for every
bound and table kind. `TypeOK` alone is not inductive:
- `fetchTableInfo` stores the answer's `snap`;
- `TypeOK` allows `snap = Unread` for any fetch.

The strengthening `TInv` adds that a fetch in phase "served" carries a
version. The empty initial `modalInfo.type` is named `NoType`, so the proof
never expands the string literal.

## 5. Module `AlertCard`

**Variables.**
- `amReq` and `amData`: the topology query and its data (`AM` or `NoData`).
- `effDeps`: the `amData` the effect last ran with (`NotRun` before mount).
- `countReq`: the count request (`idle`, `sent`, `served`) and the count the alert manager read.
- `alertCounter`: the `useState(0)`.
- `alerts`: the alert manager's firing alerts.
- `side`: the Grafana and info queries.

**Actions.**
- `AlertEffect` runs when the deps changed (`EffectDue`). It returns at once without `amData`, otherwise it sends the count request.
- `CountReturn` is `setAlertCounter(resp.data)`.
- `CountFail` is a rejection: `fetch()` throws before the setState, and nothing retries.
- `AmServe`, `AmFail`, `SideServe`, `CountServe` and `AlertsChange` are the server and the alert manager.

**Fairness** (`AFairSpec`): WF on the answers (`AmServe`, `CountServe`,
`SideServe`), on the effect and on the continuation. React runs an effect
after the commit, and the browser runs an await's continuation once the
answer is in. Failures and changes of the alert count get none.

The card really stops once its queries are answered, so deadlock is not
checked.

| Run | Constants | Result | What it shows |
|---|---|---|---|
| `alert_card` | faults, changing alerts, `AFairSpec` | pass, 384 states | `TypeOK`: `alertCounter` is always a count; `CountFetchSettles`: once the address arrives the effect runs for it and its count request ends |
| `alert_zero_claim` | faults, fixed alerts | violation | `ZeroClaimResolves`: the count request fails and the card says zero alerts for good |

The count is fetched once per address, by the effect's deps. A property
that the counter follows changing alerts fails at once and is not given a
run.

`Counts = {0, 2}`: one zero and one non-zero count are all the properties
tell apart.

## 6. Module `ProfilingList`

**Variables.**
- `range` is the stored `timeRange`; `rendered` is the `timeRange` of the last committed render.
- `timers` counts the pending `setTimeout(reloadGroupProfiles, 0)` calls.
- `reqs`, `history`, `loading`, `hError` and `lastSent` describe the group-profile query.
- `cfgReqs`, `config` and `enabled` describe the config query and the server's flag.
- `showSettings` is the drawer.
- `n` counts the requests sent, bounded by `MaxReqs`.

**Actions.**
- `onTimeRangeChange` stores the range and starts a timer.
- `Render` commits the new range.
- `TimerFires` sends a request built from the rendered range. The browser runs a 0 ms timer after the commit that the handler's setState scheduled.
- `refresh` needs the reload icon, which is shown only while the list is not loading. It sends both queries.
- `OpenSettings`, `CloseSettings` and `ConfigSaved` model the drawer and `onConfigUpdated`.

**Fairness** (`LFairSpec`): WF on render, the timer, the server and the
delivery of answers. The user and the network get none.

| Run | Constants | Result | What it shows |
|---|---|---|---|
| `list_range_reload` | two ranges, MaxReqs=5, faults | pass, about 282 k states | `SelectedRangeRequested` and `TypeOK` |

Five requests let the two mount queries, a range change, a refresh and a
settings save overlap.

Answers are applied in arrival order, so the defect `stale_table_info` shows
for the table page is present here too. While modelling, TLC found a refresh
for the old range answered after the reload for the new one. It has no run
of its own.

## 7. Mutants

Each property of a passing run is broken by a mutant. Seven mutate a handler, a hook call or a render of the pages. Two (`Listed`, the backend's GET tasks, and `GroupReturn`, the `useClientRequest` answer) mutate spec-modelled environment definitions: they show the property depends on what the environment hands the page, not on a bug in the page:
- `Listed` → `ListedRaw`: the list keeps deleted and never-allocated slots.
- `actionRender` → `actionRenderNoReplayGuard`: Replay loses `disabled={isReplaying}`.
- `PollDeliver` → `PollDeliverFirstOnly`: a one-shot query instead of a polling one.
- `fetchTableInfo` → `fetchTableInfoNoAwait`: the `await` is dropped.
- `CountReturn` → `CountReturnWrongField`: the counter is set from a missing response field.
- `EffectDue` → `RunsEffectOnMountOnly`: the effect is declared with `[]`.
- `GroupReturn` → `GroupReturnWholeResponse`: the whole response is stored.
- `onTimeRangeChange` → `onTimeRangeChangeSync`: the reload is called at once, from the stale render.

## 8. Proofs (checked by tlapm)

- **`TypeCorrect`**: `Spec => []TypeOK` for all constants satisfying `ConstAssumption`. The proof has one step per action. Lemmas `IssueType`, `AnswerType` and `ListedType` cover the helpers, and `BoolIff` lets SMT handle Boolean assignments.
- **`ReplayExclusion`**: `MaxMounts = 0 => (Spec => []AtMostOneReplaying)` for any ids, any request bound, any backend and any network.
- **`TableTypeCorrect`** (`TableStructure_proofs`): see §4.
- **`AlertTypeCorrect`** (`AlertCard_proofs`): `ASpec => []TypeOK`. `TypeOK` is inductive as it stands.
- **`ListTypeCorrect`** (`ProfilingList_proofs`): `LSpec => []TypeOK` for every `MaxReqs`. The strengthening `LInv` adds `n + timers <= MaxReqs`. Each pending `setTimeout(0)` reload has a request reserved for it, which is what the `Budget` guards of the handlers keep.

`AtMostOneReplaying` is not inductive. A step that starts a replay must know that no other replay runs. The strengthening `ReplayInv` says:
- while `isReplaying` is FALSE, nothing replays and no replay request exists;
- at most one replay request exists;
- a replay request that is still unserved, or that was answered successfully, implies nothing replays;
- a replay request in its "wait" phase owns the only replaying task.

`ReplayInv` was checked as a TLC invariant of `client_guards` before it was proved. The proof shows `Init => ReplayInv` and `TypeOK /\ ReplayInv /\ [Next]_vars => ReplayInv'`, one case per action, then `ReplayInv => AtMostOneReplaying`.

The hypothesis `MaxMounts = 0` is essential. `isReplaying` starts FALSE on every mount, so a remount during a replay lets a second replay start unless the backend refuses it. TLC finds that trace with `MaxMounts = 1` and `BackendEnforces = FALSE`.

**What only TLC checks.**
- Liveness: `Converges`, the lock-release properties, `CountFetchSettles`, `ZeroClaimResolves` and `SelectedRangeRequested`. They depend on fairness and ENABLED, which TLAPS cannot reason about here.
- The safety violations: every violation run shows its property failing on a trace, which is not a theorem.

Every invariant of a passing run is stated by a theorem: `TypeOK` of each component and `AtMostOneReplaying`. No theorem is stated about an enforcing backend: with `BackendEnforces` the backend's own checks (spec-modelled) keep I1, I2 and the delete guard whatever the page does, so such a theorem would say nothing about the page.

## 9. Not modelled

- Text formatting: `endTimeRender`, `stateRender`, the columns, the i18n strings.
- The dead helper `isFinished`. It compares a task object with an enum value, so it is always false, but nothing calls it.
- Form field parsing (`parseColumnRelatedValues`) and the column, index and partition names in `TableStructure`.
- Which index or partition a dialog acts on: only whether a deletable index and a RANGE partitioning exist.
- `index.meta.ts`: a static route and icon registration with no state.
- In `List.tsx`: the table columns, row clicks (`openLink`), and the disabled-config banners. These only format or navigate.
- In `MonitorAlert.tsx`: the links and warnings chosen from the Grafana and info answers (their answers are modelled; the markup is not).
- `ConProfSettingForm`: not in this repository. Only its `onConfigUpdated` callback and the saved flag are modelled.
