---------------------------- MODULE VersionPage -----------------------------
(***************************************************************************)
(* The admin page of TB_VERSION (web/admin/src/pages/VersionPage.tsx) and  *)
(* the handlers it calls (registerVersionAdmin in router/admin.go): the    *)
(* list with its selection, the form that adds a row, the deletion of the  *)
(* selected rows and the button that reloads the catalogs.                 *)
(*                                                                         *)
(* Of a row the model keeps what the page sends and the table decides on;  *)
(* what Trigger does on the server is DesignSync's.  A state update of the *)
(* page and its rendering are one step; the line that shows an error is    *)
(* left out.                                                               *)
(***************************************************************************)
EXTENDS AdminApi, DataTable, Integers, FiniteSetsExt

CONSTANTS
    AppId,          \* APP_IDS
    Client,         \* what may be typed for client_version
    FirstRows,      \* rows of TB_VERSION to begin with
    MaxIdx,         \* bound on AUTO_INCREMENT
    ListLimit       \* rows of GET /admin/versions

VARIABLES
    table,          \* TB_VERSION
    lastIdx,        \* the last value of AUTO_INCREMENT
    ver             \* the state of the page

Row == [idx : 1 .. MaxIdx, app : AppId, client : Client]
Input == [app : AppId, client : Client]

ASSUME VersionAssumption ==
    /\ MaxIdx \in Nat /\ ListLimit \in Nat \ {0}
    /\ FirstRows \subseteq Row /\ IsFiniteSet(FirstRows)
    /\ \A r, s \in FirstRows : r.idx = s.idx => r = s
    /\ \A r \in FirstRows : r.idx <= Cardinality(FirstRows)

NoInfo == [is |-> "nothing"]

\* info: what the page says of rows.  due: the state of the table when the last job was
\* reported done, which the list has to reach, 0 when it has; sure: the last list came, and
\* came alone (history).
VersionFresh ==
    [rows |-> {}, loading |-> TRUE, selection |-> {},
     busy |-> FALSE, info |-> NoInfo, due |-> 0, sure |-> TRUE]

VersionInit ==
    /\ table = FirstRows /\ lastIdx = Cardinality(FirstRows)
    /\ ver = VersionFresh

version == <<table, lastIdx, ver>>

IdxOf(rows) == {r.idx : r \in rows}

\* The table only changes by the next idx or by a row that leaves it for good.
Edition == 2 * lastIdx - Cardinality(table)

-----------------------------------------------------------------------------
(* The handlers of the server *)

\* FindAll: idx DESC LIMIT 200.
FindAll == {r \in table : Cardinality({s \in table : s.idx > r.idx}) < ListLimit}

ServeList(i) ==
    /\ Unserved(i, "list")
    /\ calls' = Answering(i, [is |-> "rows", rows |-> FindAll, at |-> Edition])
    /\ UNCHANGED <<table, lastIdx>>

\* UNIQUE (app_id, client_version); at the bound the insert fails.
Refuses(input) ==
    \/ lastIdx = MaxIdx
    \/ \E r \in table : r.app = input.app /\ r.client = input.client

\* Mutant of NextIdx: an idx is used again when the newest row was deleted.
NextIdxReused == Max({0} \cup IdxOf(table)) + 1

\* AUTO_INCREMENT.
NextIdx == lastIdx + 1

NewRow(input) == [idx |-> NextIdx, app |-> input.app, client |-> input.client]

ServeCreate(i) ==
    /\ Unserved(i, "create")
    /\ LET input == calls[i].arg.input IN
       IF Refuses(input)
       THEN /\ calls' = Answering(i, Failed)
            /\ UNCHANGED <<table, lastIdx>>
       ELSE /\ table' = table \cup {NewRow(input)}
            /\ lastIdx' = lastIdx + 1
            /\ calls' = Answering(i, [is |-> "row", row |-> NewRow(input)])

\* "not found" when no row is affected.
ServeDelete(i) ==
    /\ Unserved(i, "delete")
    /\ LET gone == {r \in table : r.idx = calls[i].arg.row.idx} IN
       /\ table' = table \ gone
       /\ calls' = Answering(i, IF gone = {} THEN Failed ELSE [is |-> "deleted"])
    /\ UNCHANGED lastIdx

ServeReload(i) ==
    /\ Unserved(i, "reload")
    /\ calls' = Answering(i, [is |-> "reloaded"])
    /\ UNCHANGED <<table, lastIdx>>

VersionServes(i) ==
    (ServeList(i) \/ ServeCreate(i) \/ ServeDelete(i) \/ ServeReload(i)) /\ UNCHANGED ver

-----------------------------------------------------------------------------
(* What the operator does *)

OnVersionPage == route = "version"
VersionIdle == OnVersionPage /\ ~ver.busy

\* The page is mounted: refresh() from useEffect.
VersionMount(cs) ==
    /\ ver' = VersionFresh
    /\ calls' = Sending(cs, Request("list", [ends |-> FALSE, alone |-> TRUE]))

\* refresh, which does not make the page busy.
ClickRefresh ==
    /\ VersionIdle /\ HasRoom(1)
    /\ calls' = SendingRead("list")
    /\ UNCHANGED version

\* A job starts: setBusy(true).
Started == [ver EXCEPT !.busy = TRUE]

\* onCreate, with what the fields of the form hold when it is submitted; with a blank
\* version it sends nothing.
ClickCreate(input) ==
    /\ VersionIdle /\ HasRoom(1)
    /\ ver' = Started
    /\ calls' = Sending(calls, Request("create", [input |-> input]))
    /\ UNCHANGED <<table, lastIdx>>

\* Mutant of ClickReload: without setBusy(true).
ClickReloadIdle ==
    /\ VersionIdle /\ HasRoom(1)
    /\ calls' = Sending(calls, Request("reload", NoArg))
    /\ UNCHANGED version

\* onReload.
ClickReload ==
    /\ VersionIdle /\ HasRoom(1)
    /\ ver' = Started
    /\ calls' = Sending(calls, Request("reload", NoArg))
    /\ UNCHANGED <<table, lastIdx>>

ToggleRow(r) ==
    /\ OnVersionPage /\ r \in ShownRows(ver.loading, ver.rows)
    /\ ver' = [ver EXCEPT !.selection = Toggled(@, r.idx)]
    /\ UNCHANGED <<table, lastIdx, calls>>

ToggleAll ==
    /\ OnVersionPage
    /\ ver' = [ver EXCEPT !.selection = AllToggled(@, IdxOf(ver.rows))]
    /\ UNCHANGED <<table, lastIdx, calls>>

\* The rows whose deletion the operator is asked to confirm.
Targets == {r \in ver.rows : r.idx \in ver.selection}

\* onDeleteSelected, confirmed: one call for each target, awaited together.
ClickDelete ==
    /\ VersionIdle /\ ver.selection # {} /\ HasRoom(Cardinality(Targets))
    /\ ver' = Started
    /\ LET slot == CHOOSE f \in [Targets -> Unused(calls)] : IsInjective(f)
           Call(r) == Request("delete", [row |-> r, batch |-> Targets]) IN
       calls' = [i \in Slot |-> IF \E r \in Targets : slot[r] = i
                                  THEN Call(CHOOSE r \in Targets : slot[r] = i) ELSE calls[i]]
    /\ UNCHANGED <<table, lastIdx>>

-----------------------------------------------------------------------------
(* The answers *)

\* setRows and setSelection, unless it failed; the last line of a job clears busy.  A list
\* without rows arrives as null, which is what rows is while the page loads.
ListReturns(i) ==
    /\ Returns(i, "list")
    /\ LET reply == calls[i].reply
           arg == calls[i].arg
           shown == [ver EXCEPT !.rows = reply.rows, !.loading = (reply.rows = {}),
                                !.selection = {},
                                !.due = IF reply.at >= @ THEN 0 ELSE @, !.sure = arg.alone]
           read == IF reply = Failed THEN [ver EXCEPT !.sure = FALSE]
                   ELSE shown IN
       ver' = IF arg.ends THEN [read EXCEPT !.busy = FALSE] ELSE read
    /\ calls' = Done(i)
    /\ UNCHANGED <<table, lastIdx>>

\* A job ends by an exception.
JobThrows == ver' = [ver EXCEPT !.busy = FALSE]

\* Mutant of CreateSucceeds: the list is not read again.
CreateSucceedsUnread(i) ==
    /\ Succeeds(i, "create")
    /\ ver' = [ver EXCEPT !.info = [is |-> "created", row |-> calls[i].reply.row],
                          !.due = Edition, !.busy = FALSE]
    /\ calls' = Done(i)
    /\ UNCHANGED <<table, lastIdx>>

CreateSucceeds(i) ==
    /\ Succeeds(i, "create")
    /\ ver' = [ver EXCEPT !.info = [is |-> "created", row |-> calls[i].reply.row],
                          !.due = Edition]
    /\ calls' = ReadingNext(i, "list")
    /\ UNCHANGED <<table, lastIdx>>

\* Mutant of CreateThrows: busy is cleared by the last line of the try, not by finally.
CreateThrowsBusy(i) ==
    /\ Throws(i, "create")
    /\ calls' = Done(i)
    /\ UNCHANGED version

CreateThrows(i) ==
    /\ Throws(i, "create")
    /\ JobThrows
    /\ calls' = Done(i)
    /\ UNCHANGED <<table, lastIdx>>

ReloadReturns(i) ==
    /\ Returns(i, "reload")
    /\ IF calls[i].reply = Failed THEN JobThrows
       ELSE ver' = [ver EXCEPT !.info = NoInfo, !.busy = FALSE]
    /\ calls' = Done(i)
    /\ UNCHANGED <<table, lastIdx>>

\* Promise.all is fulfilled by the last of its calls.
DeleteSucceeds(i) ==
    /\ Succeeds(i, "delete")
    /\ IF Awaited("delete") = {i}
       THEN /\ ver' = [ver EXCEPT !.info = [is |-> "deleted", rows |-> calls[i].arg.batch],
                                  !.due = Edition]
            /\ calls' = ReadingNext(i, "list")
       ELSE /\ UNCHANGED ver
            /\ calls' = Done(i)
    /\ UNCHANGED <<table, lastIdx>>

\* Mutant of DeleteThrows: Promise.allSettled.
DeleteThrowsSettled(i) ==
    /\ Throws(i, "delete")
    /\ IF Awaited("delete") = {i}
       THEN /\ ver' = [ver EXCEPT !.info = [is |-> "deleted", rows |-> calls[i].arg.batch]]
            /\ calls' = ReadingNext(i, "list")
       ELSE /\ UNCHANGED ver
            /\ calls' = Done(i)
    /\ UNCHANGED <<table, lastIdx>>

\* It is rejected by the first that throws: nobody waits for the others any more, and the
\* list is not read again.
DeleteThrows(i) ==
    /\ Throws(i, "delete")
    /\ JobThrows
    /\ LET others == Awaited("delete") \ {i} IN
       calls' = [j \in Slot |-> IF j = i \/ (j \in others /\ calls[j].reply # NotYet) THEN Free
                               ELSE IF j \in others THEN [calls[j] EXCEPT !.live = FALSE]
                               ELSE calls[j]]
    /\ UNCHANGED <<table, lastIdx>>

VersionReturns(i) ==
    \/ ListReturns(i) \/ CreateSucceeds(i) \/ CreateThrows(i) \/ ReloadReturns(i)
    \/ DeleteSucceeds(i) \/ DeleteThrows(i)

-----------------------------------------------------------------------------
\* Other operators add and delete rows they know of.
VersionElsewhere ==
    /\ \/ \E input \in Input : ~Refuses(input) /\ FromElsewhere("create", [input |-> input])
       \/ \E r \in table : FromElsewhere("delete", [row |-> r, batch |-> {r}])
    /\ UNCHANGED version

VersionActs ==
    \/ ClickRefresh \/ ClickReload \/ ClickDelete \/ ToggleAll
    \/ \E input \in Input : ClickCreate(input)
    \/ \E r \in ver.rows : ToggleRow(r)
    \/ VersionElsewhere

-----------------------------------------------------------------------------
(* Properties *)

\* A row leaves TB_VERSION by a DELETE of somebody who had that very row before his eyes
\* when he confirmed it (VersionPage.tsx:91-102), however old his list was: a request
\* that names an idx (admin.go:248) cannot hit a row that was added later.
DeletesWhatWasConfirmed ==
    [][\A r \in table \ table' :
          \E i \in Slot : Unserved(i, "delete") /\ calls[i].arg.row = r]_<<table, calls>>

\* What the page reports is so: every row of a batch it says is deleted is gone and stays
\* so (VersionPage.tsx:107-108), and under the idx of the row it says was added (:57) there
\* is that row or, when somebody deleted it, none.
ReportsAreTrue ==
    /\ ver.info.is = "deleted" => IdxOf(ver.info.rows) \cap IdxOf(table) = {}
    /\ ver.info.is = "created" => \A r \in table : r.idx = ver.info.row.idx => r = ver.info.row

\* Once a job is over that was reported done, the list shows its effect: no older list stays
\* on the page (VersionPage.tsx:59, 109), unless lists of the page overlapped, which its
\* refresh button and its first list allow, or the last list failed.
ShowsOwnVersions == VersionIdle /\ ver.sure => ver.due = 0

\* A list that has come takes the place of the loading line, when it is empty by the text
\* for that (VersionPage.tsx:315-316, client.ts:129).
ListEndsLoading ==
    [][\A i \in Slot : ListReturns(i) /\ calls[i].reply # Failed => ~ver'.loading]_<<ver, calls>>
=============================================================================
