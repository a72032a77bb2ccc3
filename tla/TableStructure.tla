---------------------------- MODULE TableStructure ----------------------------
(***************************************************************************)
(* The table-structure page (ui/lib/apps/DataManager/pages/               *)
(* DBTableStructure.tsx): it loads the table's schema, opens a dialog for *)
(* one DDL operation, runs the DDL through handleOk and reloads the schema *)
(* one second after a success.                                             *)
(*                                                                         *)
(* The schema is abstracted to its version: every applied DDL makes a new  *)
(* one.  Column, index and partition names are left out: each dialog acts  *)
(* on one target.  Form values are left out except what handleOk tests    *)
(* (an addIndex form without columns).  Of the schema's shape only what    *)
(* enables a button is kept, as constants: a deletable index, a RANGE      *)
(* partitioning.                                                           *)
(***************************************************************************)
EXTENDS Naturals

CONSTANTS
    MaxReqs,    \* bound on schema fetches plus DDL calls
    TableKind,  \* tableInfo.info.type: "TABLE" or "VIEW"
    NoInfo,     \* tableInfo before the first fetch returns
    Unread,     \* the result of a fetch the server has not answered yet
    NetFaults,  \* may a call fail after the server applied it
    IndexDeletable, \* some index row has isDeleteble
    RangePartition  \* tableInfo.partition.type is RANGE

ASSUME TableAssumption ==
    /\ MaxReqs \in Nat \ {0}
    /\ TableKind \in {"TABLE", "VIEW"}
    /\ NoInfo \notin Nat /\ Unread \notin Nat
    /\ NetFaults \in BOOLEAN
    /\ IndexDeletable \in BOOLEAN /\ RangePartition \in BOOLEAN

\* modalInfo.type values set by showModal and its callers.
DialogType == {"insertColumnAtHead", "insertColumnAtTail", "addColumnAfter",
               "deleteColumn", "addIndex", "deleteIndex", "deletePartition"}

\* modalInfo.type before the first showModal (useState({type: ''})).
NoType == ""

VARIABLES
    ver,        \* schema version in the database
    tableInfo,  \* the page's tableInfo state
    visible,    \* the dialog is open
    modalType,  \* modalInfo.type
    dialog,     \* how many dialogs were opened (names the open one)
    ddls,       \* handleOk calls awaiting their xcClient DDL
    fetches,    \* fetchTableInfo calls awaiting getTableInfo
    timers,     \* pending setTimeout(fetchTableInfo, 1000)
    n           \* calls issued so far

tvars == <<ver, tableInfo, visible, modalType, dialog, ddls, fetches, timers, n>>

Ddl   == [no : 1..MaxReqs, type : DialogType, dialog : 0..MaxReqs,
          phase : {"sent", "done"}, ok : BOOLEAN]
Fetch == [no : 1..MaxReqs, snap : {Unread} \cup Nat, phase : {"sent", "served"}]

TypeOK ==
    /\ ver \in Nat
    /\ tableInfo \in {NoInfo} \cup Nat
    /\ visible \in BOOLEAN
    /\ modalType \in {NoType} \cup DialogType
    /\ dialog \in 0..MaxReqs
    /\ ddls \subseteq Ddl
    /\ fetches \subseteq Fetch
    /\ timers \in Nat
    /\ n \in 0..MaxReqs

-----------------------------------------------------------------------------

\* The useEffect on mount calls fetchTableInfo once.
Init ==
    /\ ver = 0
    /\ tableInfo = NoInfo
    /\ visible = FALSE
    /\ modalType = NoType
    /\ dialog = 0
    /\ ddls = {}
    /\ fetches = {[no |-> 1, snap |-> Unread, phase |-> "sent"]}
    /\ timers = 0
    /\ n = 1

\* The render offers a dialog's button only once tableInfo is loaded and
\* the table is a TABLE (the indexes card is hidden for a VIEW); the
\* per-index delete button is disabled unless the index isDeleteble, the
\* per-partition delete exists only for a RANGE partitioning.  The
\* dialog's mask hides every button while it is open.
Offered(t) ==
    CASE t = "deleteIndex"     -> IndexDeletable
      [] t = "deletePartition" -> RangePartition
      [] OTHER                 -> TRUE

CanOpen(t) == tableInfo # NoInfo /\ TableKind = "TABLE" /\ Offered(t) /\ ~visible

\* showModal(info)(): setModalInfo(info); setVisible(true).
showModal(t) ==
    /\ CanOpen(t)
    /\ modalType' = t
    /\ visible' = TRUE
    /\ dialog' = dialog + 1
    /\ dialog < MaxReqs
    /\ UNCHANGED <<ver, tableInfo, ddls, fetches, timers, n>>

\* handleCancel: setVisible(false); form.resetFields().
handleCancel ==
    /\ visible
    /\ visible' = FALSE
    /\ UNCHANGED <<ver, tableInfo, modalType, dialog, ddls, fetches, timers, n>>

\* handleOk up to its await: the form's OK button submits the open dialog;
\* the dialog stays open while the DDL runs.  (An addIndex form without
\* columns shows Modal.error and returns: no state changes.)
SubmitDdl ==
    /\ visible
    /\ n < MaxReqs
    /\ n' = n + 1
    /\ ddls' = ddls \cup {[no |-> n + 1, type |-> modalType, dialog |-> dialog,
                          phase |-> "sent", ok |-> FALSE]}
    /\ UNCHANGED <<ver, tableInfo, visible, modalType, dialog, fetches, timers>>

\* The database runs the DDL: it applies it or refuses it; with network
\* faults an applied DDL may still reach the page as an error.
DdlServe(d) ==
    /\ d.phase = "sent"
    /\ \E applied \in BOOLEAN, seen \in BOOLEAN :
          /\ seen = applied \/ (NetFaults /\ applied)
          /\ ver' = IF applied THEN ver + 1 ELSE ver
          /\ ddls' = (ddls \ {d}) \cup {[d EXCEPT !.phase = "done", !.ok = seen]}
    /\ UNCHANGED <<tableInfo, visible, modalType, dialog, fetches, timers, n>>

\* handleOk after the await: on an error Modal.error and return (dialog
\* stays open, no reload); on success Modal.success, setTimeout(
\* fetchTableInfo, 1000) and handleCancel, which closes whatever dialog is
\* open now.
DdlReturn(d) ==
    /\ d.phase = "done"
    /\ ddls' = ddls \ {d}
    /\ timers' = IF d.ok THEN timers + 1 ELSE timers
    /\ visible' = IF d.ok THEN FALSE ELSE visible
    /\ UNCHANGED <<ver, tableInfo, modalType, dialog, fetches, n>>

\* The timer fires: fetchTableInfo sends getTableInfo.
TimerFires ==
    /\ timers > 0
    /\ n < MaxReqs
    /\ timers' = timers - 1
    /\ n' = n + 1
    /\ fetches' = fetches \cup {[no |-> n + 1, snap |-> Unread, phase |-> "sent"]}
    /\ UNCHANGED <<ver, tableInfo, visible, modalType, dialog, ddls>>

\* The server reads the schema for a fetch.
FetchServe(f) ==
    /\ f.phase = "sent"
    /\ fetches' = (fetches \ {f}) \cup {[f EXCEPT !.snap = ver, !.phase = "served"]}
    /\ UNCHANGED <<ver, tableInfo, visible, modalType, dialog, ddls, timers, n>>

\* Mutant: setTableInfo(xcClient.getTableInfo(db, table)) without await.
fetchTableInfoNoAwait(f) ==
    /\ fetches' = fetches \ {f}
    /\ tableInfo' = f.snap
    /\ UNCHANGED <<ver, visible, modalType, dialog, ddls, timers, n>>

\* fetchTableInfo after the await: setTableInfo(result), in arrival order.
fetchTableInfo(f) ==
    /\ f.phase = "served"
    /\ fetches' = fetches \ {f}
    /\ tableInfo' = f.snap
    /\ UNCHANGED <<ver, visible, modalType, dialog, ddls, timers, n>>

\* getTableInfo rejects: the await throws and tableInfo is left alone.
FetchFail(f) ==
    /\ NetFaults
    /\ fetches' = fetches \ {f}
    /\ UNCHANGED <<ver, tableInfo, visible, modalType, dialog, ddls, timers, n>>

TNext ==
    \/ \E t \in DialogType : showModal(t)
    \/ handleCancel
    \/ SubmitDdl
    \/ \E d \in ddls : DdlServe(d) \/ DdlReturn(d)
    \/ TimerFires
    \/ \E f \in fetches : FetchServe(f) \/ fetchTableInfo(f) \/ FetchFail(f)

TSpec == Init /\ [][TNext]_tvars

-----------------------------------------------------------------------------
(* Properties                                                              *)

Settled == ddls = {} /\ fetches = {} /\ timers = 0

\* Freshness: once no DDL, timer or fetch is outstanding, the page shows
\* the schema the database has; this is what the reload one second after
\* each successful DDL (handleOk) is for.
ShowsLatestWhenSettled == Settled => tableInfo = ver

\* Dialog ownership: the completion of a DDL closes the dialog only if the
\* DDL was submitted from that dialog (handleOk calls handleCancel after
\* its await, whatever dialog is open by then).
OnlyOwnDdlClosesDialog ==
    [][\A d \in ddls : d \notin ddls' /\ visible /\ ~visible' => d.dialog = dialog]_tvars

=============================================================================
