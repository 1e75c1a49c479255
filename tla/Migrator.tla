------------------------------ MODULE Migrator ------------------------------
(***************************************************************************)
(* The schema migrator: cmd/migrator, which goes through the databases of  *)
(* the fleet one by one, and sql/migrations, which applies the files of a  *)
(* category directory by directory, takes them back or marks them.         *)
(*                                                                         *)
(* A file is its category, its directory and the version id that is the    *)
(* timestamp in its name; directories are numbered in the order of         *)
(* sort.Strings, 0 being the root with the init files.  goose applies the  *)
(* files of one directory; its own table goose_db_version is the journal.  *)
(* MySQL commits DDL at once, so the SQL of a file and its row in the      *)
(* journal are two steps, and SQL that has been executed cannot be         *)
(* executed again.                                                         *)
(*                                                                         *)
(* A list that the code sorts and goes through from the front is the set   *)
(* of what is left of it, and the next one is its first.                   *)
(***************************************************************************)
EXTENDS Integers, Sequences, SequencesExt, FiniteSets

CONSTANTS
    ShardIds,       \* the shard_id of every configured database
    File,           \* the migration files that come to exist
    InitFiles,      \* those that exist from the start
    MayShareIds,    \* TRUE when two directories may have files of one timestamp
    MayFail         \* TRUE when statements may fail and the tool may be killed

ASSUME MigratorAssumption ==
    /\ ShardIds \subseteq Int /\ IsFiniteSet(ShardIds)
    /\ File \subseteq [cat : {"game", "shard"}, dir : Nat, id : Nat \ {0}]
    /\ InitFiles \subseteq File
    /\ MayShareIds \in BOOLEAN /\ MayFail \in BOOLEAN

VARIABLES
    tree,       \* the files of the repository, which `go run' embeds
    journal,    \* journal[db]: the version ids of goose_db_version, oldest row first
    schema,     \* schema[db]: the files whose SQL is in effect
    excused,    \* excused[db]: files there before, marked, or cut off (history)
    run         \* the current or last invocation of the command line tool

vars == <<tree, journal, schema, excused, run>>
databases == <<journal, schema, excused>>

GameDBShardID == 1
Category(db) == IF db = GameDBShardID THEN "game" ELSE "shard"
Cmd == {"up", "up-by-one", "down", "baseline"}
Flag == {"game", "shard", "all"}
Stage == {"open", "dirs", "plan", "record", "erase", "done", "failed"}

Invocation ==
    [cmd : Cmd, flag : Flag, stage : Stage, tree : SUBSET File, todo : SUBSET ShardIds,
     db : Int, dirs : SUBSET {f.dir : f \in File}, plan : SUBSET File, begun : SUBSET File]

TypeOK ==
    /\ tree \subseteq File
    /\ journal \in [ShardIds -> Seq({f.id : f \in File})]
    /\ schema \in [ShardIds -> SUBSET File]
    /\ excused \in [ShardIds -> SUBSET File]
    /\ run \in Invocation

-----------------------------------------------------------------------------
(* The files *)

\* The files of a database's category, all of them or those of one directory.
Files(t, db) == {f \in t : f.cat = Category(db)}
FilesIn(t, db, dir) == {f \in Files(t, db) : f.dir = dir}

\* Mutant of Dirs: the version directories only.
DirsWithoutRoot(t, db) == {f.dir : f \in Files(t, db)} \ {0}

\* The root and the version directories: hasRootSQL, listVersionDirs.
Dirs(t, db) == {f.dir : f \in Files(t, db)}

\* Mutant of FirstDir: the directory with the oldest file.
FirstDirByTime(d, dirs) ==
    d \in dirs /\ \A e \in dirs \ {d} :
        \E f \in FilesIn(run.tree, run.db, d) :
            \A g \in FilesIn(run.tree, run.db, e) : f.id < g.id

\* sort.Strings.
FirstDir(d, dirs) == d \in dirs /\ \A e \in dirs \ {d} : d < e

\* WalkMigrationFiles and collectSQLFiles.
Before(f, g) == f.dir < g.dir \/ (f.dir = g.dir /\ f.id < g.id)
FirstFile(f, files) == f \in files /\ \A g \in files \ {f} : Before(f, g)

Recorded(db, f) == f.id \in Range(journal[db])

\* Status, CountPending.
Pending(t, db) == {f \in Files(t, db) : ~Recorded(db, f)}

\* dbTargetsFor: the game database first, then the shards by shard_id.
Targets(flag) == {db \in ShardIds : flag \in {"all", Category(db)}}
FirstTarget(db, dbs) ==
    /\ db \in dbs
    /\ db = GameDBShardID \/ (GameDBShardID \notin dbs /\ \A e \in dbs : db <= e)

\* Databases are new, or have the schema of the first files without a journal.
Init ==
    /\ tree = InitFiles
    /\ journal = [db \in ShardIds |-> <<>>]
    /\ schema \in [ShardIds -> SUBSET InitFiles]
    /\ \A db \in ShardIds : schema[db] \in {{}, Files(InitFiles, db)}
    /\ excused = schema
    /\ run = [cmd |-> "up", flag |-> "all", stage |-> "done", tree |-> {}, todo |-> {},
              db |-> GameDBShardID, dirs |-> {}, plan |-> {}, begun |-> {}]

\* CreateMigrationFile, and the merge that brings the file here later: timestamps
\* arrive in any order.  Only the path is looked at, so that two files created in
\* the same second for two versions have one id.
AddFile(f) ==
    /\ f \notin tree
    /\ MayShareIds \/ \A g \in tree : g.cat = f.cat => g.id # f.id
    /\ tree' = tree \cup {f}
    /\ UNCHANGED <<databases, run>>

-----------------------------------------------------------------------------
(* The command line tool: withDBs *)

\* The next of the databases dbs, if any.
Turn(r, dbs) ==
    IF dbs = {} THEN run' = [r EXCEPT !.todo = {}, !.stage = "done"]
    ELSE \E db \in dbs : /\ FirstTarget(db, dbs)
                         /\ run' = [r EXCEPT !.todo = dbs, !.db = db, !.stage = "open"]

Start(cmd, flag) ==
    /\ run.stage \in {"done", "failed"}
    /\ Targets(flag) # {}
    /\ Turn([run EXCEPT !.cmd = cmd, !.flag = flag, !.tree = tree, !.dirs = {},
                        !.plan = {}, !.begun = {}],
            Targets(flag))
    /\ UNCHANGED <<tree, databases>>

\* The handler of a database returns nil.
NextDatabase ==
    Turn([run EXCEPT !.dirs = {}, !.plan = {}, !.begun = {}], run.todo \ {run.db})

\* Mutant of Exit: the tool goes on with the next database.
ExitContinuing == NextDatabase

\* fail: the databases that are still to do are not touched.
Exit == run' = [run EXCEPT !.stage = "failed", !.begun = {}]

\* The handler of up-by-one prints an error of MigrateUpByOne and returns nil.
Forgiving == run.cmd = "up-by-one"

\* open, ping, a query or a statement fails, or the tool is killed.
Fails ==
    /\ MayFail
    /\ run.stage \in {"open", "dirs", "plan"}
    /\ \/ Exit
       \/ Forgiving /\ NextDatabase
    /\ UNCHANGED <<tree, databases>>

-----------------------------------------------------------------------------
(* up, up-by-one: MigrateUp, MigrateUpByOne *)

\* upHandler looks for pending files first, upByOneHandler does not.
Open ==
    /\ run.stage = "open" /\ run.cmd \in {"up", "up-by-one"}
    /\ IF run.cmd = "up" /\ Pending(run.tree, run.db) = {} THEN NextDatabase
       ELSE run' = [run EXCEPT !.stage = "dirs", !.dirs = Dirs(run.tree, run.db)]
    /\ UNCHANGED <<tree, databases>>

\* What goose applies in a directory: the files that are not in its journal, by id,
\* older than the newest row or not (WithAllowMissing).
Plan(dir) == Pending(run.tree, run.db) \cap FilesIn(run.tree, run.db, dir)

PlanDir ==
    /\ run.stage = "dirs"
    /\ \E dir \in run.dirs :
           /\ FirstDir(dir, run.dirs)
           /\ run' = [run EXCEPT !.plan = Plan(dir), !.dirs = @ \ {dir},
                                 !.stage = IF Plan(dir) = {} THEN "dirs" ELSE "plan"]
    /\ UNCHANGED <<tree, databases>>

\* up is done with the database; up-by-one has found nothing, which its handler
\* prints and does not report.
LastDir ==
    /\ run.stage = "dirs" /\ run.dirs = {}
    /\ NextDatabase
    /\ UNCHANGED <<tree, databases>>

\* The SQL of the next file is executed.
Execute ==
    /\ run.stage = "plan" /\ run.cmd # "baseline"
    /\ \E f \in run.plan \ schema[run.db] :
           /\ FirstFile(f, run.plan)
           /\ schema' = [schema EXCEPT ![run.db] = @ \cup {f}]
           /\ run' = [run EXCEPT !.stage = "record", !.begun = {f}]
    /\ UNCHANGED <<tree, journal, excused>>

\* What the SQL creates is there already.
ExecuteRefused ==
    /\ run.stage = "plan" /\ run.cmd # "baseline"
    /\ \E f \in run.plan \cap schema[run.db] : FirstFile(f, run.plan)
    /\ IF Forgiving THEN NextDatabase ELSE Exit
    /\ UNCHANGED <<tree, databases>>

\* The next file of the plan; up-by-one is done with the database after its first.
NextFile ==
    IF run.cmd = "up-by-one" THEN NextDatabase
    ELSE run' = [run EXCEPT !.plan = @ \ run.begun, !.begun = {},
                            !.stage = IF run.plan \subseteq run.begun THEN "dirs" ELSE "plan"]

\* Mutant of Record: the row of the file is not written.
RecordNothing ==
    /\ run.stage = "record"
    /\ NextFile
    /\ UNCHANGED <<tree, databases>>

Record ==
    /\ run.stage = "record"
    /\ \E f \in run.begun : journal' = [journal EXCEPT ![run.db] = Append(@, f.id)]
    /\ NextFile
    /\ UNCHANGED <<tree, schema, excused>>

\* The statement on the row fails, or the tool ends before it.
CutOff ==
    /\ MayFail
    /\ run.stage \in {"record", "erase"}
    /\ excused' = [excused EXCEPT ![run.db] = @ \cup run.begun]
    /\ \/ Exit
       \/ Forgiving /\ NextDatabase
    /\ UNCHANGED <<tree, journal, schema>>

-----------------------------------------------------------------------------
(* down: MigrateDown *)

\* currentVersion.
Highest(ids) == CHOOSE id \in ids : \A other \in ids : other <= id

\* Mutant of DownFiles: the file with the highest id.
DownFilesHighest ==
    {f \in Files(run.tree, run.db) :
        Recorded(run.db, f) /\ f.id = Highest(Range(journal[run.db]))}

\* The file to take back, if there is one.  The directory is the first one with
\* the highest recorded id; in it goose takes back the last row of its journal,
\* or fails when that id is of another directory.
DownFiles ==
    LET current == {f \in Files(run.tree, run.db) :
                       Recorded(run.db, f) /\ f.id = Highest(Range(journal[run.db]))}
    IN  {f \in Files(run.tree, run.db) :
            /\ Recorded(run.db, f) /\ f.id = Last(journal[run.db])
            /\ \E g \in current : g.dir = f.dir /\ \A h \in current : g.dir <= h.dir}

\* DROP TABLE IF EXISTS succeeds even when the SQL of the file never ran.
Undo ==
    /\ run.stage = "open" /\ run.cmd = "down"
    /\ \E f \in DownFiles :
           /\ schema' = [schema EXCEPT ![run.db] = @ \ {f}]
           /\ run' = [run EXCEPT !.stage = "erase", !.begun = {f}]
    /\ UNCHANGED <<tree, journal, excused>>

\* Nothing is recorded, the file is elsewhere or gone, or there is nothing to DROP.
UndoRefused ==
    /\ run.stage = "open" /\ run.cmd = "down"
    /\ DownFiles \subseteq File \ schema[run.db]
    /\ Exit
    /\ UNCHANGED <<tree, databases>>

\* The rows without those of one version, in their order.
Without(ids, id) ==
    LET kept == {i \in DOMAIN ids : ids[i] # id}
    IN  [k \in 1 .. Cardinality(kept) |->
            ids[CHOOSE i \in kept : Cardinality({j \in kept : j <= i}) = k]]

Erase ==
    /\ run.stage = "erase"
    /\ \E f \in run.begun :
           journal' = [journal EXCEPT ![run.db] = Without(@, f.id)]
    /\ NextDatabase
    /\ UNCHANGED <<tree, schema, excused>>

-----------------------------------------------------------------------------
(* baseline: Baseline *)

OpenBaseline ==
    /\ run.stage = "open" /\ run.cmd = "baseline"
    /\ LET todo == Pending(run.tree, run.db) IN
       IF todo = {} THEN NextDatabase
       ELSE run' = [run EXCEPT !.stage = "plan", !.plan = todo]
    /\ UNCHANGED <<tree, databases>>

\* One INSERT per file; the SQL is not run.
Mark ==
    /\ run.stage = "plan" /\ run.cmd = "baseline"
    /\ \E f \in run.plan :
           /\ FirstFile(f, run.plan)
           /\ journal' = [journal EXCEPT ![run.db] = Append(@, f.id)]
           /\ excused' = [excused EXCEPT ![run.db] = @ \cup {f}]
           /\ IF run.plan = {f} THEN NextDatabase
              ELSE run' = [run EXCEPT !.plan = @ \ {f}]
    /\ UNCHANGED <<tree, schema>>

-----------------------------------------------------------------------------
Work ==
    \/ Open \/ PlanDir \/ LastDir \/ Execute \/ ExecuteRefused \/ Record
    \/ Undo \/ UndoRefused \/ Erase \/ OpenBaseline \/ Mark

Next ==
    \/ \E f \in File : AddFile(f)
    \/ \E cmd \in Cmd, flag \in Flag : Start(cmd, flag)
    \/ Work \/ Fails \/ CutOff

Spec == Init /\ [][Next]_vars

-----------------------------------------------------------------------------
(* Properties *)

\* The file whose SQL has run and whose row has not been written yet.
InFlight(db) == IF run.db = db THEN run.begun ELSE {}

\* What Status and CountPending (migrator.go:216) tell of a file is true of the
\* schema: it is recorded exactly when its SQL is in effect, but for the file that
\* is being applied and for those that were marked by baseline or cut off.
JournalMatchesSchema ==
    \A db \in ShardIds :
        \A f \in Files(tree, db) \ (excused[db] \cup InFlight(db)) :
            Recorded(db, f) <=> f \in schema[db]

\* README.md:901 says that goose fails for two files with one timestamp, so that it
\* is not noticed late: an `up' without an error has executed every file it embeds
\* (but for those marked by baseline or there before).
SameSecondIsNoticed ==
    run.cmd = "up" /\ run.stage = "done" =>
        \A db \in Targets(run.flag) :
            Files(run.tree, db) \ excused[db] \subseteq schema[db]

\* MigrateUp (migrator.go:38) applies the root files, then directory by directory
\* and by timestamp, although timestamps are inverted between directories, runs
\* failed half-way before and files were merged late.
RunsInOrder ==
    [][\A db \in ShardIds : \A f \in schema'[db] \ schema[db] :
          \A g \in Files(run.tree, db) : Before(g, f) => Recorded(db, g)]_vars

\* withDBs (main.go:195-208) goes on only after a handler without error, so that no
\* shard gets a change while the game database still lacks one of the same release.
GameFirst ==
    [][\A db \in ShardIds \ {GameDBShardID} :
          /\ run.cmd = "up" /\ run.flag = "all" /\ GameDBShardID \in ShardIds
          /\ schema'[db] # schema[db]
          => Pending(run.tree, GameDBShardID) = {}]_vars

\* When `up' leaves a database without an error (main.go:212-231), nothing that was
\* in the tree at its start is pending there.
UpSettles ==
    [][/\ run.cmd = "up" /\ run.stage \notin {"done", "failed"}
       /\ run'.todo # run.todo
       => Pending(run.tree, run.db) = {}]_vars

\* MigrateDown (migrator.go:85) takes back the migration applied last or none, in
\* the journal and before in the schema, although it looks for the highest id.
DownTakesLast ==
    [][\A db \in ShardIds :
          /\ Len(journal'[db]) < Len(journal[db]) => journal'[db] = Front(journal[db])
          /\ \A f \in schema[db] \ schema'[db] : f.id = Last(journal[db])]_vars
=============================================================================
