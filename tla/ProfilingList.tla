---------------------------- MODULE ProfilingList ----------------------------
(***************************************************************************)
(* The continuous-profiling list page (ui/lib/apps/ContinuousProfiling/   *)
(* pages/List.tsx).  Two useClientRequest queries run on mount: the group *)
(* profiles of the selected time range and the profiling config.  Picking *)
(* a time range stores it (useSessionStorageState) and reloads the        *)
(* profiles from a setTimeout(0); the refresh icon, hidden while the list *)
(* loads, reloads both; the settings drawer saves the config and reloads  *)
(* it.                                                                     *)
(*                                                                         *)
(* useClientRequest is not in this repository; it is modelled as the      *)
(* fetch API the spec describes: sendRequest sets isLoading, sends a new  *)
(* request built by the latest render's request function, and each answer *)
(* sets data (or error) and clears isLoading, in arrival order.  A time    *)
(* range is a model value; a profile list is the range it was fetched    *)
(* for.                                                                    *)
(***************************************************************************)
EXTENDS Naturals

CONSTANTS
    Ranges,     \* time ranges the selector can produce
    NoData,     \* a query's data before its first answer
    MaxReqs,    \* bound on the requests the page sends
    NetFaults   \* may a request fail

ASSUME ListAssumption ==
    /\ NoData \notin Ranges /\ NoData \notin BOOLEAN
    /\ MaxReqs \in Nat
    /\ NetFaults \in BOOLEAN

VARIABLES
    range,        \* timeRange (session storage)
    rendered,     \* timeRange as seen by the last committed render
    timers,       \* pending setTimeout(() => reloadGroupProfiles(), 0)
    reqs,         \* group-profile requests in flight: [no, range, phase]
    history,      \* historyTable: NoData or the range it was fetched for
    loading,      \* listLoading
    hError,       \* historyError is set
    lastSent,     \* range of the last group-profile request sent (history)
    cfgReqs,      \* config requests in flight: [no, phase, snap]
    config,       \* ngMonitoringConfig's enable flag, or NoData
    enabled,      \* continuous profiling enabled on the server
    showSettings, \* the settings drawer is open
    n             \* requests sent so far

lvars == <<range, rendered, timers, reqs, history, loading, hError, lastSent,
           cfgReqs, config, enabled, showSettings, n>>
viewVars == <<history, loading, hError>>
cfgVars == <<cfgReqs, config, enabled>>

GroupReq == [no : 1..MaxReqs, range : Ranges, phase : {"sent", "served"}]
CfgReq == [no : 1..MaxReqs, phase : {"sent", "served"}, snap : BOOLEAN]

TypeOK ==
    /\ range \in Ranges /\ rendered \in Ranges /\ lastSent \in Ranges
    /\ timers \in 0..MaxReqs
    /\ reqs \subseteq GroupReq
    /\ history \in {NoData} \cup Ranges
    /\ loading \in BOOLEAN /\ hError \in BOOLEAN
    /\ cfgReqs \subseteq CfgReq
    /\ config \in {NoData} \cup BOOLEAN
    /\ enabled \in BOOLEAN /\ showSettings \in BOOLEAN
    /\ n \in 0..MaxReqs

-----------------------------------------------------------------------------
(* useClientRequest                                                        *)

\* Requests the page may still send: pending timers will each send one.
Budget == MaxReqs - n - timers

\* sendRequest of the group-profile query: the request function of the
\* last render reads its timeRange (calcTimeRange(timeRange)).
SendGroup(r, k) ==
    /\ reqs' = reqs \cup {[no |-> k, range |-> r, phase |-> "sent"]}
    /\ lastSent' = r
    /\ loading' = TRUE
    /\ hError' = FALSE

\* sendRequest of the config query.
SendConfig(k) ==
    cfgReqs' = cfgReqs \cup {[no |-> k, phase |-> "sent", snap |-> FALSE]}

\* Mount: the session's stored range (or the default) and both queries sent.
Init ==
    /\ range \in Ranges
    /\ rendered = range
    /\ timers = 0
    /\ reqs = {[no |-> 1, range |-> range, phase |-> "sent"]}
    /\ history = NoData
    /\ loading = TRUE
    /\ hError = FALSE
    /\ lastSent = range
    /\ cfgReqs = {[no |-> 2, phase |-> "sent", snap |-> FALSE]}
    /\ config = NoData
    /\ enabled \in BOOLEAN
    /\ showSettings = FALSE
    /\ n = 2

-----------------------------------------------------------------------------
(* Page handlers                                                           *)

\* Mutant: reloadGroupProfiles() called at once, from the handler's render.
onTimeRangeChangeSync(v) ==
    /\ Budget > 0
    /\ range' = v
    /\ n' = n + 1
    /\ SendGroup(rendered, n + 1)
    /\ UNCHANGED <<rendered, timers, history, cfgVars, showSettings>>

\* onTimeRangeChange: setTimeRange(v); setTimeout(reloadGroupProfiles, 0).
onTimeRangeChange(v) ==
    /\ Budget > 0
    /\ range' = v
    /\ timers' = timers + 1
    /\ UNCHANGED <<rendered, reqs, viewVars, lastSent, cfgVars, showSettings, n>>

\* React commits the render for the new timeRange.
Render ==
    /\ rendered # range
    /\ rendered' = range
    /\ UNCHANGED <<range, timers, reqs, viewVars, lastSent, cfgVars, showSettings, n>>

\* The timer fires; the commit of the handler's setState came first.
TimerFires ==
    /\ timers > 0 /\ rendered = range
    /\ timers' = timers - 1
    /\ n' = n + 1
    /\ SendGroup(rendered, n + 1)
    /\ UNCHANGED <<range, rendered, history, cfgVars, showSettings>>

\* refresh(): reloadConfig(); reloadGroupProfiles().  The ReloadOutlined
\* icon is rendered only while the list is not loading.
refresh ==
    /\ ~loading /\ Budget > 1
    /\ n' = n + 2
    /\ SendConfig(n + 1)
    /\ SendGroup(rendered, n + 2)
    /\ UNCHANGED <<range, rendered, timers, history, config, enabled, showSettings>>

\* setShowSettings(true) from the gear icon (or the Result's button).
OpenSettings ==
    /\ ~showSettings
    /\ showSettings' = TRUE
    /\ UNCHANGED <<range, rendered, timers, reqs, viewVars, lastSent, cfgVars, n>>

\* The drawer's onClose.
CloseSettings ==
    /\ showSettings
    /\ showSettings' = FALSE
    /\ UNCHANGED <<range, rendered, timers, reqs, viewVars, lastSent, cfgVars, n>>

\* ConProfSettingForm saves the enable flag, then onConfigUpdated =
\* reloadConfig.
ConfigSaved ==
    /\ showSettings /\ Budget > 0
    /\ \E e \in BOOLEAN : enabled' = e
    /\ n' = n + 1
    /\ SendConfig(n + 1)
    /\ UNCHANGED <<range, rendered, timers, reqs, viewVars, lastSent, config, showSettings>>

-----------------------------------------------------------------------------
(* Server and network                                                      *)

GroupServe(q) ==
    /\ q.phase = "sent"
    /\ reqs' = (reqs \ {q}) \cup {[q EXCEPT !.phase = "served"]}
    /\ UNCHANGED <<range, rendered, timers, viewVars, lastSent, cfgVars, showSettings, n>>

\* Mutant: the hook stores the whole response, not response.data.
GroupReturnWholeResponse(q) ==
    /\ q.phase = "served"
    /\ reqs' = reqs \ {q}
    /\ history' = q
    /\ loading' = FALSE
    /\ UNCHANGED <<range, rendered, timers, hError, lastSent, cfgVars, showSettings, n>>

\* The answer arrives: setState({data, isLoading: false}).
GroupReturn(q) ==
    /\ q.phase = "served"
    /\ reqs' = reqs \ {q}
    /\ history' = q.range
    /\ loading' = FALSE
    /\ UNCHANGED <<range, rendered, timers, hError, lastSent, cfgVars, showSettings, n>>

\* The request fails: setState({error, isLoading: false}); data is kept.
GroupFail(q) ==
    /\ NetFaults
    /\ reqs' = reqs \ {q}
    /\ hError' = TRUE
    /\ loading' = FALSE
    /\ UNCHANGED <<range, rendered, timers, history, lastSent, cfgVars, showSettings, n>>

ConfigServe(c) ==
    /\ c.phase = "sent"
    /\ cfgReqs' = (cfgReqs \ {c}) \cup {[c EXCEPT !.phase = "served", !.snap = enabled]}
    /\ UNCHANGED <<range, rendered, timers, reqs, viewVars, lastSent, config, enabled, showSettings, n>>

ConfigReturn(c) ==
    /\ c.phase = "served"
    /\ cfgReqs' = cfgReqs \ {c}
    /\ config' = c.snap
    /\ UNCHANGED <<range, rendered, timers, reqs, viewVars, lastSent, enabled, showSettings, n>>

ConfigFail(c) ==
    /\ NetFaults
    /\ cfgReqs' = cfgReqs \ {c}
    /\ UNCHANGED <<range, rendered, timers, reqs, viewVars, lastSent, config, enabled, showSettings, n>>

LNext ==
    \/ \E v \in Ranges : onTimeRangeChange(v)
    \/ Render \/ TimerFires \/ refresh
    \/ OpenSettings \/ CloseSettings \/ ConfigSaved
    \/ \E q \in reqs : GroupServe(q) \/ GroupReturn(q) \/ GroupFail(q)
    \/ \E c \in cfgReqs : ConfigServe(c) \/ ConfigReturn(c) \/ ConfigFail(c)

LSpec == Init /\ [][LNext]_lvars

\* React commits renders and runs timers; the server answers and the
\* browser delivers answers; the user and the network are unconstrained.
LFairSpec ==
    /\ LSpec
    /\ WF_lvars(Render) /\ WF_lvars(TimerFires)
    /\ WF_lvars(\E q \in reqs : GroupServe(q) \/ GroupReturn(q))
    /\ WF_lvars(\E c \in cfgReqs : ConfigServe(c) \/ ConfigReturn(c))

-----------------------------------------------------------------------------
(* Properties                                                              *)

\* Reload after a range change (onTimeRangeChange): whenever the selected
\* time range differs from the range of the last profile request, a
\* request for the selected range is eventually sent; the setTimeout(0)
\* makes the reload read the re-rendered timeRange.
SelectedRangeRequested ==
    range # lastSent ~> range = lastSent

=============================================================================
