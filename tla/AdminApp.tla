------------------------------ MODULE AdminApp ------------------------------
(***************************************************************************)
(* The admin client (web/admin/src/App.tsx, main.tsx): one page is mounted *)
(* at a time, and what a page has is lost when the operator goes to        *)
(* another or loads the application again, while what it has asked of the  *)
(* server is done all the same.                                            *)
(***************************************************************************)
EXTENDS VersionPage, ClockPage, MigrationsPage

CONSTANTS
    Tours           \* bound: the sets of pages that one operator visits

Routes == {"clock", "version", "migrations", "not found"}

ASSUME TourAssumption == Tours \subseteq SUBSET Routes

VARIABLES
    tour            \* the pages the operator visits

vars == <<route, calls, tour, version, now, server, clk, migrations>>

\* Routes: a page that is not there is "Not Found" and asks nothing.
Mount(page, cs) ==
    IF page = "version" THEN VersionMount(cs)
    ELSE IF page = "clock" THEN ClockMount(cs)
    ELSE IF page = "migrations" THEN MigrationsMount(cs)
    ELSE calls' = cs
    
\* The other pages' state is gone.
Unmounted(page) ==
    /\ page # "version" => ver' = VersionFresh
    /\ page # "clock" => clk' = ClockFresh
    /\ page # "migrations" => mig' = MigrationsFresh /\ form' = FormFresh

\* A NavItem or an address of the page; to load a page again leads by no page.
Navigate(page) ==
    /\ page \in tour \ {route}
    /\ Cardinality(Unused(Abandoned)) >= IF page = "migrations" THEN 2 ELSE 1
    /\ route' = page
    /\ Mount(page, Abandoned) /\ Unmounted(page)
    /\ UNCHANGED <<tour, table, lastIdx, now, server, runs>>

\* createRoot: nothing is shown before the first route is.
Init ==
    /\ route = "not found" /\ calls = [i \in Slot |-> Free]
    /\ tour \in Tours
    /\ VersionInit /\ ClockInit /\ MigrationsInit

OnlyVersion == "version" \in tour /\ UNCHANGED <<route, tour, now, server, clk, migrations>>
OnlyClock == "clock" \in tour /\ UNCHANGED <<route, tour, version, migrations>>
OnlyMigrations ==
    "migrations" \in tour /\ UNCHANGED <<route, tour, version, now, server, clk>>

\* What the operators do beside that.
Acts ==
    \/ VersionActs /\ OnlyVersion
    \/ ClockActs /\ OnlyClock
    \/ MigrationsActs /\ OnlyMigrations

\* A call makes progress on the server or on the way.
Proceeds(i) ==
    \/ VersionServes(i) /\ OnlyVersion
    \/ ClockServes(i) /\ OnlyClock
    \/ MigrationsServes(i) /\ OnlyMigrations
    \/ (Lose(i) \/ LoseContact(i)) /\ UNCHANGED <<route, tour, version, now, server, clk, migrations>>

\* Its answer is handled by the page.
Handled(i) ==
    \/ VersionReturns(i) /\ OnlyVersion
    \/ ClockReturns(i) /\ OnlyClock
    \/ MigrationsReturns(i) /\ OnlyMigrations

Next ==
    \/ \E page \in Routes : Navigate(page)
    \/ Acts
    \/ \E i \in Slot : Proceeds(i) \/ Handled(i)

\* The server answers every request or the connection breaks, and the browser's event loop
\* comes to every answer.
Spec ==
    /\ Init /\ [][Next]_vars
    /\ \A i \in Slot : WF_vars(Proceeds(i)) /\ WF_vars(Handled(i))

-----------------------------------------------------------------------------
(* Properties *)

\* The calls that a page is busy with: its writes and the read that a job ends with.
Job(ops, read) ==
    {i \in Slot : calls[i].live /\ (\/ calls[i].op \in ops
                                    \/ calls[i].op = read /\ calls[i].arg.ends)}

\* A page is busy, and its buttons are disabled, exactly while the one job it has started
\* is not over (VersionPage.tsx:53-113, ClockPage.tsx:54-65, MigrationsPage.tsx:40-48 and
\* 420-437): a second click starts nothing beside it and no way out leaves it busy.
BusyIsOneJob ==
    /\ LET job == Job({"create", "reload", "delete"}, "list") IN
       /\ ver.busy <=> job # {}
       /\ \A i, j \in job : i = j \/ {calls[i].op, calls[j].op} = {"delete"}
    /\ Cardinality(Job({"jump"}, "clock")) = IF clk.busy THEN 1 ELSE 0
    /\ Cardinality(Awaited("status")) = IF mig.busy THEN 1 ELSE 0
    /\ Cardinality({i \in Awaited("write") : calls[i].arg.own}) = IF form.submitting THEN 1 ELSE 0

\* Once a job is over, its page shows the effect: the list of versions (VersionPage.tsx:59,
\* 109), and the offset to which the presets add (ClockPage.tsx:61, 174).
PagesShowOwnWork == ShowsOwnVersions /\ ShowsOwnJump

\* A page does not stay busy: the job that disabled its buttons ends with its result or an
\* error (VersionPage.tsx:62, 75, 112, ClockPage.tsx:64, MigrationsPage.tsx:47).
EveryJobEnds ==
    LET busy == ver.busy \/ clk.busy \/ mig.busy IN busy ~> ~busy
=============================================================================
