------------------------------ MODULE AlertCard ------------------------------
(***************************************************************************)
(* The monitor/alert card of the overview page (ui/lib/apps/Overview/     *)
(* components/MonitorAlert.tsx).  On mount a one-shot query fetches the   *)
(* alert manager's address (amData); an effect on [amData] then fetches   *)
(* the number of firing alerts once and stores it in alertCounter, which  *)
(* starts at 0.  The card shows a warning while amData is missing and the *)
(* counter otherwise ("zero alerts" when it is 0).                        *)
(*                                                                         *)
(* The Grafana and info queries choose the card's links; their answers  *)
(* are kept as the values the render tests.  The address is one model    *)
(* value (AM): the topology query returns it or nothing.                  *)
(***************************************************************************)
EXTENDS Naturals

CONSTANTS
    Counts,           \* alert counts the alert manager may report
    AM,               \* the alert manager's address
    NoData,           \* amData before (or without) a topology answer
    NotRun,           \* the effect's deps before its first run
    NetFaults,        \* may a request fail
    AlertsMayChange   \* may the number of firing alerts change

ASSUME AlertAssumption ==
    /\ Counts \subseteq Nat /\ 0 \in Counts
    /\ AM # NoData /\ NotRun \notin {AM, NoData}
    /\ NetFaults \in BOOLEAN /\ AlertsMayChange \in BOOLEAN

VARIABLES
    alerts,        \* firing alerts in the alert manager
    amReq,         \* the topology query: "sent" or "done"
    amData,        \* useClientRequest's data: AM or NoData
    effDeps,       \* the amData the effect last ran with
    countReq,      \* the count request: [phase, snap]
    alertCounter,  \* useState(0)
    side           \* the Grafana and info queries: "sent" or their answer

avars == <<alerts, amReq, amData, effDeps, countReq, alertCounter, side>>

\* Answers of the two other queries: no Grafana deployed, a Grafana
\* address; info with enable_experimental off or on; "failed" leaves the
\* data undefined.
SideAnswers == [grafana |-> {"absent", "present", "failed"},
                info |-> {"plain", "experimental", "failed"}]

TypeOK ==
    /\ alerts \in Counts
    /\ amReq \in {"sent", "done"}
    /\ amData \in {AM, NoData}
    /\ effDeps \in {NotRun, AM, NoData}
    /\ countReq \in [phase : {"idle", "sent", "served"}, snap : Counts]
    /\ alertCounter \in Counts
    /\ side \in [grafana : {"sent"} \cup SideAnswers.grafana,
                info : {"sent"} \cup SideAnswers.info]

-----------------------------------------------------------------------------

\* Mount: useState(0) and the topology query is sent.
Init ==
    /\ alerts \in Counts
    /\ amReq = "sent"
    /\ amData = NoData
    /\ effDeps = NotRun
    /\ countReq = [phase |-> "idle", snap |-> 0]
    /\ alertCounter = 0
    /\ side = [grafana |-> "sent", info |-> "sent"]

\* getAlertManagerTopology answers: the address, or null when no alert
\* manager is deployed.
AmServe ==
    /\ amReq = "sent"
    /\ amReq' = "done"
    /\ amData' \in {AM, NoData}
    /\ UNCHANGED <<alerts, effDeps, countReq, alertCounter, side>>

\* The topology query fails: data stays undefined.
AmFail ==
    /\ NetFaults /\ amReq = "sent"
    /\ amReq' = "done"
    /\ UNCHANGED <<alerts, amData, effDeps, countReq, alertCounter, side>>

\* Mutant: the effect declared with [] instead of [amData].
RunsEffectOnMountOnly == effDeps = NotRun

\* React runs the effect after a render whose deps [amData] changed.
EffectDue == effDeps # amData

\* useEffect(..., [amData]): return at once without amData, otherwise
\* start fetch(), whose getAlertManagerCounts request is sent.
AlertEffect ==
    /\ EffectDue
    /\ effDeps' = amData
    /\ countReq' = IF amData = NoData THEN countReq
                   ELSE [countReq EXCEPT !.phase = "sent"]
    /\ UNCHANGED <<alerts, amReq, amData, alertCounter, side>>

\* The alert manager counts its firing alerts.
CountServe ==
    /\ countReq.phase = "sent"
    /\ countReq' = [phase |-> "served", snap |-> alerts]
    /\ UNCHANGED <<alerts, amReq, amData, effDeps, alertCounter, side>>

\* Mutant: setAlertCounter(resp.count), a field the response does not
\* have, so the counter becomes undefined (NoData).
CountReturnWrongField ==
    /\ countReq.phase = "served"
    /\ alertCounter' = NoData
    /\ countReq' = [countReq EXCEPT !.phase = "idle"]
    /\ UNCHANGED <<alerts, amReq, amData, effDeps, side>>

\* fetch() after its await: setAlertCounter(resp.data).
CountReturn ==
    /\ countReq.phase = "served"
    /\ alertCounter' = countReq.snap
    /\ countReq' = [countReq EXCEPT !.phase = "idle"]
    /\ UNCHANGED <<alerts, amReq, amData, effDeps, side>>

\* The count request rejects: fetch() throws before setAlertCounter and
\* nothing retries it.
CountFail ==
    /\ NetFaults /\ countReq.phase \in {"sent", "served"}
    /\ countReq' = [countReq EXCEPT !.phase = "idle"]
    /\ UNCHANGED <<alerts, amReq, amData, effDeps, alertCounter, side>>

\* Alerts fire or resolve in the alert manager.
AlertsChange ==
    /\ AlertsMayChange
    /\ alerts' \in Counts \ {alerts}
    /\ UNCHANGED <<amReq, amData, effDeps, countReq, alertCounter, side>>

\* getGrafanaTopology or getInfo answers (or fails, with faults).
SideServe(q) ==
    /\ side[q] = "sent"
    /\ \E a \in SideAnswers[q] :
          /\ NetFaults \/ a # "failed"
          /\ side' = [side EXCEPT ![q] = a]
    /\ UNCHANGED <<alerts, amReq, amData, effDeps, countReq, alertCounter>>

ANext ==
    \/ AmServe \/ AmFail \/ AlertEffect
    \/ CountServe \/ CountReturn \/ CountFail \/ AlertsChange
    \/ \E q \in {"grafana", "info"} : SideServe(q)

ASpec == Init /\ [][ANext]_avars

\* The browser answers and runs effects and continuations; the network
\* and the alert manager are not otherwise constrained.
AFairSpec ==
    /\ ASpec
    /\ WF_avars(AmServe) /\ WF_avars(AlertEffect)
    /\ WF_avars(CountServe) /\ WF_avars(CountReturn)
    /\ \A q \in {"grafana", "info"} : WF_avars(SideServe(q))

-----------------------------------------------------------------------------
(* Properties                                                              *)

\* The card shows alertCounter (alertInner prints "zero alerts" for 0)
\* once amData is there, and a warning before.
ShowsCounter == amData # NoData

\* Count fetch settles: once the card has the alert manager's address,
\* the effect on [amData] eventually runs for that address and its count
\* request ends, answered into alertCounter or rejected, whatever the
\* network and the alert manager do meanwhile.
CountFetchSettles ==
    ShowsCounter ~> (effDeps = amData /\ countReq.phase = "idle")

\* No false all-clear: a card that says "zero alerts" while alerts fire
\* eventually stops saying so (alertCounter starts at 0 and only a
\* successful count request changes it).
ZeroClaimResolves ==
    (ShowsCounter /\ alertCounter = 0 /\ alerts > 0) ~> (alertCounter # 0 \/ alerts = 0)

=============================================================================
