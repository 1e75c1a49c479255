--------------------------- MODULE MigrationsPage ---------------------------
(***************************************************************************)
(* The admin page of the schema migrations (web/admin/src/pages/           *)
(* MigrationsPage.tsx) and the handlers it calls (registerMigrationsAdmin  *)
(* in router/admin.go): the status of every database in tabs, a viewer for *)
(* the files in the server's binary, and a form that writes a new file to  *)
(* the disk, where the stage is local.                                     *)
(*                                                                         *)
(* A file stands for its content.  Migrator has what mig-up makes of the   *)
(* files; here a run of it is only that the status changes.  The lines that *)
(* show an error are left out, but the viewer's.                           *)
(***************************************************************************)
EXTENDS AdminApi, DataTable

CONSTANTS
    Db, GameDb,     \* the registered databases
    FileOf,         \* the files in the binary for a database
    Local,          \* the server's stage is local
    MaxRuns         \* bound on the runs of mig-up

ASSUME MigrationsAssumption ==
    /\ GameDb \in Db /\ Local \in BOOLEAN /\ MaxRuns \in Nat

VARIABLES
    runs,           \* number of runs of mig-up, the state of the databases
    mig,            \* the state of the page
    form            \* the state of CreateMigrationModal

NoStatus == [is |-> "nothing"]
NoFile == "no file"
NoDb == "no tab"
NoStage == "unknown"

\* alone: no other file was on its way when the viewer was opened (history).
MigrationsFresh ==
    [status |-> NoStatus, busy |-> FALSE, tab |-> NoDb, stage |-> NoStage,
     viewing |-> NoFile, content |-> NoFile, loading |-> FALSE, viewError |-> FALSE,
     alone |-> TRUE, creating |-> FALSE, created |-> FALSE]

FormFresh == [submitting |-> FALSE]

MigrationsInit ==
    /\ runs = 0 /\ mig = MigrationsFresh /\ form = FormFresh

migrations == <<runs, mig, form>>

-----------------------------------------------------------------------------
(* The handlers of the server *)

\* Every database that fails has its error, beside the rows of the others.
ServeStatus(i) ==
    /\ Unserved(i, "status")
    /\ \E bad \in SUBSET Db :
          calls' = Answering(i, [is |-> "status", at |-> runs, bad |-> bad])
    /\ UNCHANGED runs

Stage == IF Local THEN "local" ELSE "dev"

ServeInfo(i) ==
    /\ Unserved(i, "info")
    /\ calls' = Answering(i, [is |-> "info", stage |-> Stage])
    /\ UNCHANGED runs

ServeFile(i) ==
    /\ Unserved(i, "file")
    /\ calls' = Answering(i, [is |-> "file", content |-> calls[i].arg.file])
    /\ UNCHANGED runs

\* CreateMigrationFile, which Migrator has as AddFile.
ServeWrite(i) ==
    /\ Unserved(i, "write")
    /\ calls' = Answering(i, IF Local THEN [is |-> "path"] ELSE Failed)
    /\ UNCHANGED runs

MigrationsServes(i) ==
    /\ ServeStatus(i) \/ ServeInfo(i) \/ ServeFile(i) \/ ServeWrite(i)
    /\ UNCHANGED <<mig, form>>

\* make mig-up.
MigUp ==
    /\ runs < MaxRuns
    /\ runs' = runs + 1
    /\ UNCHANGED <<mig, form, calls>>

-----------------------------------------------------------------------------
(* What the operator does; a dialog covers the page under it *)

OnMigrationsPage == route = "migrations"
Uncovered == OnMigrationsPage /\ mig.viewing = NoFile /\ ~mig.creating

\* The page is mounted: refresh() and info() from useEffect.
MigrationsMount(cs) ==
    /\ mig' = [MigrationsFresh EXCEPT !.busy = TRUE] /\ form' = FormFresh
    /\ calls' = Sending(Sending(cs, Request("status", NoArg)), Request("info", NoArg))

\* Mutant of ClickStatus: the button is not disabled.
ClickStatusTwice ==
    /\ Uncovered /\ HasRoom(1)
    /\ mig' = [mig EXCEPT !.busy = TRUE]
    /\ calls' = Sending(calls, Request("status", NoArg))
    /\ UNCHANGED <<runs, form>>

\* refresh; its button is disabled while one is on its way.
ClickStatus ==
    /\ Uncovered /\ ~mig.busy /\ HasRoom(1)
    /\ mig' = [mig EXCEPT !.busy = TRUE]
    /\ calls' = Sending(calls, Request("status", NoArg))
    /\ UNCHANGED <<runs, form>>

SelectTab(db) ==
    /\ Uncovered /\ mig.status # NoStatus
    /\ mig' = [mig EXCEPT !.tab = db]
    /\ UNCHANGED <<runs, form, calls>>

\* The files of the tab, unless its database has an error.
TabFiles ==
    IF mig.tab = NoDb \/ mig.status = NoStatus THEN {}
    ELSE IF mig.tab \in mig.status.bad THEN {}
    ELSE ShownRows(mig.status = NoStatus, FileOf[mig.tab])

\* Mutant of OpenFile: the effect does not set loading.
OpenFileShown(file) ==
    /\ Uncovered /\ file \in TabFiles /\ HasRoom(1)
    /\ mig' = [mig EXCEPT !.viewing = file, !.viewError = FALSE,
                          !.alone = (Awaited("file") = {})]
    /\ calls' = Sending(calls, Request("file", [file |-> file]))
    /\ UNCHANGED <<runs, form>>

\* A double click: openFile and the effect that asks for the content.
OpenFile(file) ==
    /\ Uncovered /\ file \in TabFiles /\ HasRoom(1)
    /\ mig' = [mig EXCEPT !.viewing = file, !.loading = TRUE, !.viewError = FALSE,
                          !.alone = (Awaited("file") = {})]
    /\ calls' = Sending(calls, Request("file", [file |-> file]))
    /\ UNCHANGED <<runs, form>>

\* Esc, a click outside or the X; the request goes on.
CloseFile ==
    /\ OnMigrationsPage /\ mig.viewing # NoFile
    /\ mig' = [mig EXCEPT !.viewing = NoFile, !.content = NoFile, !.viewError = FALSE]
    /\ UNCHANGED <<runs, form, calls>>

ClickNew ==
    /\ Uncovered /\ mig.stage = "local"
    /\ mig' = [mig EXCEPT !.creating = TRUE, !.created = FALSE]
    /\ form' = FormFresh
    /\ UNCHANGED <<runs, calls>>

\* onSubmit, with fields that are as they have to be, without which it sends nothing;
\* "own" is that the form is still the one that sent the request.
Submit ==
    /\ OnMigrationsPage /\ mig.creating /\ ~form.submitting /\ HasRoom(1)
    /\ form' = [submitting |-> TRUE]
    /\ calls' = Sending(calls, Request("write", [own |-> TRUE]))
    /\ UNCHANGED <<runs, mig>>

\* The form is gone, its request is not.
Disowned ==
    [i \in Slot |-> IF i \in Awaited("write") THEN [calls[i] EXCEPT !.arg.own = FALSE]
                    ELSE calls[i]]

\* Esc, a click outside or the X, while submitting too.
CloseForm ==
    /\ OnMigrationsPage /\ mig.creating
    /\ mig' = [mig EXCEPT !.creating = FALSE]
    /\ form' = FormFresh
    /\ calls' = Disowned
    /\ UNCHANGED runs

CloseToast ==
    /\ OnMigrationsPage /\ mig.created
    /\ mig' = [mig EXCEPT !.created = FALSE]
    /\ UNCHANGED <<runs, form, calls>>

-----------------------------------------------------------------------------
(* The answers *)

\* The first status selects the game database; later ones leave the tab alone.
StatusReturns(i) ==
    /\ Returns(i, "status")
    /\ mig' = IF calls[i].reply = Failed THEN [mig EXCEPT !.busy = FALSE]
              ELSE [mig EXCEPT !.status = calls[i].reply, !.busy = FALSE,
                               !.tab = IF @ = NoDb THEN GameDb ELSE @]
    /\ calls' = Done(i)
    /\ UNCHANGED <<runs, form>>

InfoReturns(i) ==
    /\ Returns(i, "info")
    /\ mig' = [mig EXCEPT !.stage = IF calls[i].reply = Failed THEN NoStage
                                    ELSE calls[i].reply.stage]
    /\ calls' = Done(i)
    /\ UNCHANGED <<runs, form>>

\* Whatever the viewer shows by now.
FileReturns(i) ==
    /\ Returns(i, "file")
    /\ mig' = IF calls[i].reply = Failed THEN [mig EXCEPT !.viewError = TRUE, !.loading = FALSE]
              ELSE [mig EXCEPT !.content = calls[i].reply.content, !.loading = FALSE]
    /\ calls' = Done(i)
    /\ UNCHANGED <<runs, form>>

\* onSuccess closes the form that is open by now.
WriteSucceeds(i) ==
    /\ Succeeds(i, "write")
    /\ mig' = [mig EXCEPT !.created = TRUE, !.creating = FALSE]
    /\ form' = FormFresh
    /\ calls' = [Disowned EXCEPT ![i] = Free]
    /\ UNCHANGED runs

\* A form that was closed tells nothing.
WriteThrows(i) ==
    /\ Throws(i, "write")
    /\ form' = IF calls[i].arg.own THEN FormFresh ELSE form
    /\ calls' = Done(i)
    /\ UNCHANGED <<runs, mig>>

MigrationsReturns(i) ==
    \/ StatusReturns(i) \/ InfoReturns(i) \/ FileReturns(i)
    \/ WriteSucceeds(i) \/ WriteThrows(i)

-----------------------------------------------------------------------------
MigrationsActs ==
    \/ ClickStatus \/ CloseFile \/ ClickNew \/ Submit \/ CloseForm \/ CloseToast
    \/ \E db \in Db : SelectTab(db)
    \/ \E file \in TabFiles : OpenFile(file)
    \/ MigUp

-----------------------------------------------------------------------------
(* Properties *)

\* The viewer shows the file whose name is above it (MigrationsPage.tsx:334-361), or that
\* it failed, if no other file was on its way when it was opened.
ViewerShowsFile ==
    mig.viewing # NoFile /\ ~mig.loading /\ mig.alone =>
        mig.viewError \/ mig.content = mig.viewing

\* The same of every opening (:135, "double-click to see the content").
ViewerShowsItsFile ==
    mig.viewing # NoFile /\ ~mig.loading /\ ~mig.viewError => mig.content = mig.viewing

\* The status on the page is never replaced by an older one (:39-49, 190-193): its
\* readings do not overlap.
StatusNeverOlder ==
    [][mig.status # NoStatus /\ mig'.status # NoStatus => mig'.status.at >= mig.status.at]_mig
=============================================================================
