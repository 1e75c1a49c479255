-------------------------- MODULE Migrator_proofs --------------------------
(***************************************************************************)
(* Proofs about the schema migrator, for any databases, any files and any  *)
(* order of their timestamps, with failures at every statement.            *)
(***************************************************************************)
EXTENDS Migrator, FiniteSetTheorems, TLAPS

Active == run.stage \notin {"done", "failed"}
Here == Files(run.tree, run.db)

\* What a run is busy with fits its command and the files it has embedded.
Cursor ==
    /\ run.tree \subseteq tree
    /\ Active => run.db \in run.todo
    /\ run.stage \in {"dirs", "record"} => run.cmd \in {"up", "up-by-one"}
    /\ run.stage = "plan" => run.cmd # "down"
    /\ run.stage = "erase" => run.cmd = "down"
    /\ run.stage \notin {"record", "erase"} => run.begun = {}
    /\ run.stage = "erase" => \E f \in Here : run.begun = {f}
    /\ run.stage = "record" => \E f \in run.plan : run.begun = {f}
    /\ run.stage \in {"open", "dirs"} => run.plan = {}
    /\ run.stage \in {"plan", "record"} => run.plan \subseteq Here

\* up and up-by-one: what is not recorded is in the plan, which is of one directory, or
\* in a directory that comes later.
Order ==
    run.cmd # "baseline" /\ run.stage \in {"dirs", "plan", "record"} =>
        /\ \A g \in Here : Recorded(run.db, g) \/ g \in run.plan \/ g.dir \in run.dirs
        /\ \A g \in run.plan : /\ \A f \in run.plan : f.dir = g.dir
                               /\ \A d \in run.dirs : g.dir < d

\* up on the whole fleet is at the game database, or has been there and settled it.
GameSettled ==
    Active /\ run.cmd = "up" /\ run.flag = "all" /\ GameDBShardID \in ShardIds =>
        \/ run.db = GameDBShardID
        \/ GameDBShardID \notin run.todo /\ Pending(run.tree, GameDBShardID) = {}

OrderInv == TypeOK /\ Cursor /\ Order /\ GameSettled

\* No two files of a category have one timestamp.
Unshared(files) == \A f, g \in files : f.cat = g.cat /\ f.id = g.id => f = g
Distinct(ids) == \A i, j \in DOMAIN ids : ids[i] = ids[j] => i = j

\* Rows and schemas are of files in the tree, and no version has two rows.
Known ==
    \A db \in ShardIds :
        /\ \A id \in Range(journal[db]) : \E f \in Files(tree, db) : f.id = id
        /\ Distinct(journal[db])
        /\ schema[db] \subseteq Files(tree, db)

\* A file is planned because it has no row; its SQL runs before the row is written,
\* and is undone before the row, which is the last one, is erased.
Halves ==
    /\ run.stage \in {"plan", "record"} => \A f \in run.plan : ~Recorded(run.db, f)
    /\ run.stage = "record" => run.begun \subseteq schema[run.db]
    /\ run.stage = "erase" => \A f \in run.begun :
           /\ f \notin schema[run.db] /\ journal[run.db] # <<>>
           /\ f.id = Last(journal[run.db])

JournalInv == Unshared(tree) /\ Known /\ Halves /\ JournalMatchesSchema

-----------------------------------------------------------------------------
(* Runs and rows *)

\* Invocations are records.
LEMMA Fields ==
    ASSUME NEW r \in Invocation
    PROVE  /\ r.cmd \in Cmd /\ r.flag \in Flag /\ r.stage \in Stage /\ r.tree \subseteq File
           /\ r.todo \subseteq ShardIds /\ r.db \in Int /\ r.plan \subseteq File
           /\ r.begun \subseteq File /\ r.dirs \subseteq {f.dir : f \in File}
BY DEF Invocation

\* The next database is one of those that are left, the game database before any shard.
LEMMA TurnTakes ==
    ASSUME NEW r \in Invocation, NEW dbs \in SUBSET ShardIds, Turn(r, dbs)
    PROVE  /\ run' \in Invocation /\ run'.cmd = r.cmd /\ run'.flag = r.flag /\ run'.tree = r.tree
           /\ run'.dirs = r.dirs /\ run'.plan = r.plan /\ run'.begun = r.begun
           /\ run'.todo = dbs
           /\ \/ run'.stage = "done"
              \/ /\ run'.stage = "open" /\ run'.db \in dbs
                 /\ run'.db = GameDBShardID \/ GameDBShardID \notin dbs
<1>1. CASE dbs = {}
  <2>1. run' = [r EXCEPT !.todo = {}, !.stage = "done"]
    BY <1>1 DEF Turn
  <2>. QED  BY <1>1, <2>1 DEF Invocation, Stage
<1>2. CASE dbs # {}
  <2>1. PICK db \in dbs : /\ FirstTarget(db, dbs)
                          /\ run' = [r EXCEPT !.todo = dbs, !.db = db, !.stage = "open"]
    BY <1>2 DEF Turn
  <2>2. db \in Int
    BY MigratorAssumption
  <2>. QED  BY <2>1, <2>2 DEF Invocation, Stage, FirstTarget
<1>. QED  BY <1>1, <1>2

\* The next database of a run starts with nothing begun.
LEMMA NextDatabaseTakes ==
    ASSUME TypeOK, NextDatabase
    PROVE  /\ run' \in Invocation /\ run'.cmd = run.cmd /\ run'.flag = run.flag
           /\ run'.tree = run.tree /\ run'.dirs = {} /\ run'.plan = {} /\ run'.begun = {}
           /\ run'.todo = run.todo \ {run.db}
           /\ \/ run'.stage = "done"
              \/ /\ run'.stage = "open" /\ run'.db \in run.todo \ {run.db}
                 /\ run'.db = GameDBShardID \/ GameDBShardID \notin run.todo \ {run.db}
<1> DEFINE r == [run EXCEPT !.dirs = {}, !.plan = {}, !.begun = {}]
<1>1. r \in Invocation /\ run.todo \ {run.db} \subseteq ShardIds
      /\ r.cmd = run.cmd /\ r.flag = run.flag /\ r.tree = run.tree
      /\ r.dirs = {} /\ r.plan = {} /\ r.begun = {}
  BY DEF TypeOK, Invocation
<1>2. Turn(r, run.todo \ {run.db})
  BY DEF NextDatabase
<1> HIDE DEF r
<1>. QED  BY <1>1, <1>2, TurnTakes

\* A run that ends with an error keeps nothing but its list.
LEMMA ExitTakes ==
    ASSUME TypeOK, Exit
    PROVE  run' \in Invocation /\ run'.stage = "failed" /\ run'.begun = {}
           /\ run'.tree = run.tree /\ run'.todo = run.todo /\ run'.cmd = run.cmd
BY DEF TypeOK, Exit, Invocation, Stage

\* A row that is appended adds its version.
LEMMA AppendRow ==
    ASSUME NEW S, NEW ids \in Seq(S), NEW id \in S
    PROVE  /\ Append(ids, id) \in Seq(S)
           /\ Range(Append(ids, id)) = Range(ids) \cup {id}
           /\ id \notin Range(ids) /\ Distinct(ids) => Distinct(Append(ids, id))
<1>1. /\ Append(ids, id) \in Seq(S) /\ Len(ids) \in Nat
      /\ DOMAIN ids = 1 .. Len(ids) /\ DOMAIN Append(ids, id) = 1 .. (Len(ids) + 1)
      /\ \A i \in 1 .. Len(ids) : Append(ids, id)[i] = ids[i]
      /\ Append(ids, id)[Len(ids) + 1] = id
  OBVIOUS
<1>2. Range(Append(ids, id)) = Range(ids) \cup {id}
  BY <1>1 DEF Range
<1>3. ASSUME id \notin Range(ids), Distinct(ids) PROVE Distinct(Append(ids, id))
  BY <1>1, <1>3 DEF Distinct, Range
<1>. QED  BY <1>1, <1>2, <1>3

\* Without the last row, where no version has two, is all but the last row.
LEMMA WithoutLast ==
    ASSUME NEW S, NEW ids \in Seq(S), ids # <<>>, Distinct(ids)
    PROVE  /\ Without(ids, Last(ids)) = Front(ids) /\ Front(ids) \in Seq(S)
           /\ Range(Front(ids)) = Range(ids) \ {Last(ids)} /\ Distinct(Front(ids))
<1> DEFINE n == Len(ids) - 1
           kept == {i \in DOMAIN ids : ids[i] # Last(ids)}
<1>1. /\ n \in Nat /\ Len(ids) = n + 1 /\ DOMAIN ids = 1 .. (n + 1)
      /\ Last(ids) = ids[n + 1] /\ \A i \in 1 .. (n + 1) : ids[i] \in S
  BY DEF Last
<1>2. /\ Front(ids) = [i \in 1 .. n |-> ids[i]] /\ Front(ids) \in Seq(S)
      /\ DOMAIN Front(ids) = 1 .. n
  <2>1. Front(ids) = SubSeq(ids, 1, n)
    BY <1>1 DEF Front
  <2>2. SubSeq(ids, 1, n) = [i \in 1 .. n |-> ids[i]]
    BY <1>1
  <2>. QED  BY <1>1, <2>1, <2>2
<1> HIDE DEF n
<1>3. kept = 1 .. n
  BY <1>1 DEF Distinct
<1>4. ASSUME NEW k \in 1 .. n
      PROVE  {j \in kept : j <= k} = 1 .. k /\ Cardinality({j \in kept : j <= k}) = k
  <2>1. {j \in kept : j <= k} = 1 .. k
    BY <1>1, <1>3
  <2>2. Cardinality(1 .. k) = k
    BY FS_Interval
  <2>. QED  BY <2>1, <2>2
<1>5. ASSUME NEW k \in 1 .. n
      PROVE  (CHOOSE i \in kept : Cardinality({j \in kept : j <= i}) = k) = k
  BY <1>3, <1>4
<1>6. Cardinality(kept) = n
  <2>1. Cardinality(1 .. n) = n
    BY <1>1, FS_Interval
  <2>. QED  BY <1>3, <2>1
<1>7. Without(ids, Last(ids)) = [k \in 1 .. n |-> ids[k]]
  <2>1. Without(ids, Last(ids)) =
            [k \in 1 .. Cardinality(kept) |->
                ids[CHOOSE i \in kept : Cardinality({j \in kept : j <= i}) = k]]
    BY DEF Without
  <2> HIDE DEF kept
  <2>. QED  BY <1>5, <1>6, <2>1
<1>8. Range(Front(ids)) = Range(ids) \ {Last(ids)} /\ Distinct(Front(ids))
  BY <1>1, <1>2 DEF Range, Distinct
<1>. QED  BY <1>2, <1>7, <1>8

\* The rows that are left are rows, in whatever order the rows without a version are.
LEMMA WithoutIsRows ==
    ASSUME NEW S, NEW ids \in Seq(S), NEW id
    PROVE  Without(ids, id) \in Seq(S)
<1> DEFINE kept == {i \in DOMAIN ids : ids[i] # id}
           Upto(i) == {j \in kept : j <= i}
           n == Cardinality(kept)
           rank == [i \in kept |-> Cardinality(Upto(i))]
<1>1. kept \subseteq 1 .. Len(ids) /\ \A i \in kept : i \in Int /\ ids[i] \in S
  OBVIOUS
<1>2. IsFiniteSet(kept) /\ n \in Nat
  <2>1. IsFiniteSet(1 .. Len(ids))
    BY FS_Interval
  <2>2. IsFiniteSet(kept)
    BY <1>1, <2>1, FS_Subset
  <2>. QED  BY <2>2, FS_CardinalityType
<1>3. Without(ids, id) = [k \in 1 .. n |-> ids[CHOOSE i \in kept : Cardinality(Upto(i)) = k]]
  BY DEF Without
<1> HIDE DEF kept, n
<1>4. ASSUME NEW i \in kept PROVE IsFiniteSet(Upto(i)) /\ rank[i] \in 1 .. n
  <2>1. Upto(i) \subseteq kept /\ i \in Upto(i)
    BY <1>1
  <2>2. IsFiniteSet(Upto(i)) /\ Cardinality(Upto(i)) <= n /\ Cardinality(Upto(i)) \in Nat
    BY <1>2, <2>1, FS_Subset, FS_CardinalityType DEF n
  <2>3. Cardinality(Upto(i)) # 0
    BY <2>1, <2>2, FS_EmptySet
  <2>. QED  BY <1>2, <2>2, <2>3
<1>5. ASSUME NEW i \in kept, NEW j \in kept, i < j PROVE rank[i] # rank[j]
  <2>1. i \in Int /\ j \in Int /\ \A k \in kept : k \in Int
    BY <1>1
  <2>2. ASSUME NEW k \in kept, k <= i PROVE k <= j
    BY <1>5, <2>1, <2>2
  <2>3. j \in Upto(j) /\ j \notin Upto(i)
    BY <1>5, <2>1
  <2>4. Upto(i) \subseteq Upto(j)
    BY <2>2
  <2>. QED  BY <1>4, <2>3, <2>4, FS_Subset
<1>6. rank \in Injection(kept, 1 .. n)
  <2>1. \A i, j \in kept : rank[i] = rank[j] => i = j
    BY <1>1, <1>5
  <2>. QED  BY <1>4, <2>1 DEF Injection, IsInjective
<1>7. rank \in Surjection(kept, 1 .. n)
  <2>1. IsFiniteSet(1 .. n) /\ Cardinality(1 .. n) = n
    BY <1>2, FS_Interval
  <2>. QED  BY <1>6, <2>1, FS_Injection DEF n
<1>8. ASSUME NEW k \in 1 .. n
      PROVE  ids[CHOOSE i \in kept : Cardinality(Upto(i)) = k] \in S
  <2>1. PICK i \in kept : Cardinality(Upto(i)) = k
    BY <1>7 DEF Surjection
  <2>. QED  BY <1>1, <2>1
<1> HIDE DEF Upto
<1>. QED  BY <1>2, <1>3, <1>8

-----------------------------------------------------------------------------
(* The order of files and databases *)

\* Databases are new or have the schema of the first files, and nothing runs.
LEMMA InitOrder == Init => OrderInv
<1> SUFFICES ASSUME Init PROVE OrderInv
  OBVIOUS
<1>1. run \in Invocation
  BY DEF Init, Invocation, Cmd, Flag, Stage, GameDBShardID
<1>2. TypeOK
  <2>1. schema \in [ShardIds -> SUBSET File] /\ excused = schema /\ tree \subseteq File
    BY MigratorAssumption DEF Init
  <2>2. journal \in [ShardIds -> Seq({f.id : f \in File})]
    BY DEF Init
  <2>. QED  BY <1>1, <2>1, <2>2 DEF TypeOK
<1>3. Cursor /\ Order /\ GameSettled
  BY DEF Init, Cursor, Order, GameSettled, Active
<1>. QED  BY <1>2, <1>3 DEF OrderInv

\* Rows are only added; Settles says that the present database has got all of them.
Grows == \A db \in ShardIds : Range(journal[db]) \subseteq Range(journal'[db])
Settles == \A g \in Here : g.id \in Range(journal'[run.db])

\* A run that goes on to the next database or ends has a plan to make.
LEMMA Leaves ==
    ASSUME OrderInv, Active, TypeOK', UNCHANGED tree, run.cmd = "up" => Grows,
           Exit \/ (NextDatabase /\ (run.cmd = "up" => Settles))
    PROVE  OrderInv'
<1> USE DEF OrderInv
<1>1. CASE Exit
  <2>1. run'.stage = "failed" /\ run'.begun = {} /\ run'.tree = run.tree
    BY <1>1, ExitTakes
  <2>. QED  BY <2>1 DEF Cursor, Order, GameSettled, Active
<1>2. CASE NextDatabase /\ (run.cmd = "up" => Settles)
  <2>1. /\ run'.cmd = run.cmd /\ run'.flag = run.flag /\ run'.tree = run.tree
        /\ run'.plan = {} /\ run'.begun = {} /\ run'.todo = run.todo \ {run.db}
        /\ run'.stage = "done" \/ (run'.stage = "open" /\ run'.db \in run'.todo)
    BY <1>2, NextDatabaseTakes
  <2>2. Cursor' /\ Order'
    BY <2>1 DEF Cursor, Order, Active
  <2>3. ASSUME run.cmd = "up", run.flag = "all", GameDBShardID \in ShardIds
        PROVE  GameDBShardID \notin run'.todo /\ Pending(run.tree, GameDBShardID)' = {}
    <3>1. CASE run.db = GameDBShardID
      BY <1>2, <2>1, <2>3, <3>1 DEF Settles, Here, Pending, Recorded
    <3>2. CASE run.db # GameDBShardID
      <4>1. GameDBShardID \notin run.todo /\ Pending(run.tree, GameDBShardID) = {}
        BY <2>3, <3>2 DEF GameSettled
      <4>. QED  BY <2>1, <2>3, <4>1 DEF Grows, Pending, Recorded
    <3>. QED  BY <3>1, <3>2
  <2>. QED  BY <2>1, <2>2, <2>3 DEF GameSettled
<1>. QED  BY <1>1, <1>2

\* A step of the run at one database leaves the game database settled.
LEMMA Stays ==
    ASSUME OrderInv, Active, Grows \/ run.cmd # "up",
           run'.cmd = run.cmd, run'.flag = run.flag, run'.tree = run.tree,
           run'.todo = run.todo, run'.db = run.db
    PROVE  GameSettled'
BY DEF OrderInv, GameSettled, Grows, Pending, Recorded, Active

\* A file that is merged is for later runs.
LEMMA AddFileOrders == ASSUME OrderInv, NEW f \in File, AddFile(f) PROVE OrderInv'
<1> USE DEF OrderInv, AddFile, databases
<1>1. tree' = tree \cup {f} /\ UNCHANGED <<run, journal>>
  OBVIOUS
<1>2. TypeOK'
  BY DEF TypeOK
<1>3. Cursor' /\ Order' /\ GameSettled'
  BY <1>1 DEF Cursor, Order, GameSettled, Active, Here, Pending, Recorded
<1>. QED  BY <1>2, <1>3

\* A run starts at the game database, if it is for it.
LEMMA StartOrders ==
    ASSUME OrderInv, NEW cmd \in Cmd, NEW flag \in Flag, Start(cmd, flag)
    PROVE  OrderInv'
<1> DEFINE r == [run EXCEPT !.cmd = cmd, !.flag = flag, !.tree = tree, !.dirs = {},
                            !.plan = {}, !.begun = {}]
<1>1. /\ Turn(r, Targets(flag)) /\ UNCHANGED <<tree, journal, schema, excused>>
      /\ Targets(flag) \in SUBSET ShardIds
  BY DEF Start, Targets, databases
<1>2. /\ r \in Invocation /\ r.cmd = cmd /\ r.flag = flag /\ r.tree = tree
      /\ r.dirs = {} /\ r.plan = {} /\ r.begun = {}
  BY DEF OrderInv, TypeOK, Invocation
<1> HIDE DEF r
<1>3. /\ run' \in Invocation /\ run'.tree = tree /\ run'.flag = flag /\ run'.plan = {}
      /\ run'.begun = {} /\ run'.todo = Targets(flag)
      /\ \/ run'.stage = "done"
         \/ /\ run'.stage = "open" /\ run'.db \in Targets(flag)
            /\ run'.db = GameDBShardID \/ GameDBShardID \notin Targets(flag)
  BY <1>1, <1>2, TurnTakes
<1>4. TypeOK'
  BY <1>1, <1>3 DEF OrderInv, TypeOK
<1>5. Cursor' /\ Order'
  BY <1>1, <1>3 DEF Cursor, Order, Active
<1>6. GameSettled'
  BY <1>3 DEF GameSettled, Active, Targets
<1>. QED  BY <1>4, <1>5, <1>6 DEF OrderInv

\* A run that goes on to the next database is well-formed.
LEMMA LeavesTyped ==
    ASSUME TypeOK, NextDatabase \/ Exit, UNCHANGED <<tree, schema>>,
           journal' \in [ShardIds -> Seq({f.id : f \in File})],
           excused' \in [ShardIds -> SUBSET File]
    PROVE  TypeOK'
<1>1. run' \in Invocation
  BY NextDatabaseTakes, ExitTakes
<1>. QED  BY <1>1 DEF TypeOK

\* up looks at every directory of a database that has something pending.
LEMMA OpenOrders == ASSUME OrderInv, Open PROVE OrderInv'
<1> USE DEF OrderInv
<1>1. /\ run.stage = "open" /\ run.cmd \in {"up", "up-by-one"}
      /\ UNCHANGED <<tree, journal, schema, excused>>
  BY DEF Open, databases
<1>2. Active /\ Grows
  BY <1>1 DEF Active, Grows
<1>3. CASE run.cmd = "up" /\ Pending(run.tree, run.db) = {}
  <2>1. NextDatabase
    BY <1>3 DEF Open
  <2>2. TypeOK'
    BY <1>1, <2>1, LeavesTyped DEF TypeOK
  <2>3. Settles
    BY <1>1, <1>3 DEF Settles, Here, Pending, Recorded
  <2>. QED  BY <1>1, <1>2, <2>1, <2>2, <2>3, Leaves
<1>4. CASE ~(run.cmd = "up" /\ Pending(run.tree, run.db) = {})
  <2>1. run' = [run EXCEPT !.stage = "dirs", !.dirs = Dirs(run.tree, run.db)]
    BY <1>4 DEF Open
  <2>2. run \in Invocation /\ run.tree \subseteq File /\ run.plan = {} /\ run.begun = {}
        /\ run.db \in run.todo
    BY <1>1, <1>2 DEF TypeOK, Cursor, Invocation
  <2>3. Dirs(run.tree, run.db) \subseteq {f.dir : f \in File}
    BY <2>2 DEF Dirs, Files
  <2>4. /\ run' \in Invocation /\ run'.stage = "dirs" /\ run'.dirs = Dirs(run.tree, run.db)
        /\ run'.cmd = run.cmd /\ run'.flag = run.flag /\ run'.tree = run.tree
        /\ run'.todo = run.todo /\ run'.db = run.db /\ run'.plan = {} /\ run'.begun = {}
    BY <2>1, <2>2, <2>3 DEF Invocation, Stage
  <2>5. TypeOK'
    BY <1>1, <2>4 DEF TypeOK
  <2>6. Cursor'
    BY <1>1, <2>2, <2>4 DEF Cursor, Active
  <2>7. Order'
    BY <2>4 DEF Order, Here, Dirs
  <2>8. GameSettled'
    BY <1>2, <2>4, Stays
  <2>. QED  BY <2>5, <2>6, <2>7, <2>8
<1>. QED  BY <1>3, <1>4

\* Directories are numbers, so that two of them are in an order.
LEMMA Numbers ==
    /\ \A f \in File : f.dir \in Nat /\ f.id \in Nat
    /\ {f.dir : f \in File} \subseteq Nat
BY MigratorAssumption

\* The plan of the first directory comes before all directories that are left.
LEMMA PlanDirOrders == ASSUME OrderInv, PlanDir PROVE OrderInv'
<1> USE DEF OrderInv
<1>1. PICK dir \in run.dirs :
          /\ FirstDir(dir, run.dirs)
          /\ run' = [run EXCEPT !.plan = Plan(dir), !.dirs = @ \ {dir},
                                !.stage = IF Plan(dir) = {} THEN "dirs" ELSE "plan"]
  BY DEF PlanDir
<1>2. /\ run.stage = "dirs" /\ UNCHANGED <<tree, journal, schema, excused>>
      /\ Active /\ Grows
  BY DEF PlanDir, databases, Active, Grows
<1>3. /\ run \in Invocation /\ run.tree \subseteq File /\ run.plan = {} /\ run.begun = {}
      /\ run.cmd \in {"up", "up-by-one"} /\ run.dirs \subseteq {f.dir : f \in File}
      /\ run.db \in run.todo
  BY <1>2 DEF TypeOK, Cursor, Invocation
<1>4. Plan(dir) \subseteq Here /\ Plan(dir) \subseteq File
  BY <1>3 DEF Plan, Pending, Here, FilesIn, Files
<1>5. /\ run' \in Invocation /\ run'.plan = Plan(dir) /\ run'.dirs = run.dirs \ {dir}
      /\ run'.stage = (IF Plan(dir) = {} THEN "dirs" ELSE "plan")
      /\ run'.cmd = run.cmd /\ run'.flag = run.flag /\ run'.tree = run.tree
      /\ run'.todo = run.todo /\ run'.db = run.db /\ run'.begun = {}
  BY <1>1, <1>3, <1>4 DEF Invocation, Stage
<1>6. TypeOK'
  BY <1>2, <1>5 DEF TypeOK
<1>7. Cursor'
  BY <1>2, <1>3, <1>4, <1>5 DEF Cursor, Active, Here
<1>8. Order'
  <2>1. \A g \in Here : Recorded(run.db, g) \/ g \in Plan(dir) \/ g.dir \in run.dirs \ {dir}
    BY <1>2, <1>3 DEF Order, Plan, Pending, Here, FilesIn
  <2>2. \A g \in Plan(dir) : g.dir = dir /\ \A d \in run.dirs \ {dir} : dir < d
    BY <1>1 DEF Plan, FilesIn, FirstDir
  <2>. QED  BY <1>2, <1>5, <2>1, <2>2 DEF Order, Here, Recorded
<1>9. GameSettled'
  BY <1>2, <1>5, Stays
<1>. QED  BY <1>6, <1>7, <1>8, <1>9

\* After its last directory everything is recorded.
LEMMA LastDirSettles == ASSUME OrderInv, LastDir PROVE Settles
BY DEF OrderInv, LastDir, Cursor, Order, Settles, Here, Recorded, databases

LEMMA LastDirOrders == ASSUME OrderInv, LastDir PROVE OrderInv'
<1>1. Active /\ Grows /\ NextDatabase /\ UNCHANGED <<tree, journal, schema, excused>>
  BY DEF LastDir, Active, Grows, databases
<1>2. TypeOK'
  BY <1>1, LeavesTyped DEF OrderInv, TypeOK
<1>. QED  BY <1>1, <1>2, LastDirSettles, Leaves

\* Executing the SQL of a file leaves the plan as it is.
LEMMA ExecuteOrders == ASSUME OrderInv, Execute PROVE OrderInv'
<1> USE DEF OrderInv
<1>1. PICK f \in run.plan \ schema[run.db] :
          /\ FirstFile(f, run.plan)
          /\ schema' = [schema EXCEPT ![run.db] = @ \cup {f}]
          /\ run' = [run EXCEPT !.stage = "record", !.begun = {f}]
  BY DEF Execute
<1>2. /\ run.stage = "plan" /\ run.cmd # "baseline" /\ UNCHANGED <<tree, journal, excused>>
      /\ Active /\ Grows
  BY DEF Execute, Active, Grows
<1>3. /\ run \in Invocation /\ run.plan \subseteq File /\ run.cmd \in {"up", "up-by-one"}
      /\ run.db \in run.todo /\ run.plan \subseteq Here
  BY <1>2 DEF TypeOK, Cursor, Invocation, Cmd
<1>4. /\ run' \in Invocation /\ run'.stage = "record" /\ run'.begun = {f}
      /\ run'.plan = run.plan /\ run'.dirs = run.dirs
      /\ run'.cmd = run.cmd /\ run'.flag = run.flag /\ run'.tree = run.tree
      /\ run'.todo = run.todo /\ run'.db = run.db
  BY <1>1, <1>3 DEF Invocation, Stage
<1>5. TypeOK'
  BY <1>1, <1>2, <1>3, <1>4 DEF TypeOK
<1>6. Cursor'
  BY <1>2, <1>3, <1>4 DEF Cursor, Active, Here
<1>7. Order'
  BY <1>2, <1>4 DEF Order, Here, Recorded
<1>8. GameSettled'
  BY <1>2, <1>4, Stays
<1>. QED  BY <1>5, <1>6, <1>7, <1>8

\* SQL that is refused ends up; up-by-one goes on with the next database.
LEMMA ExecuteRefusedOrders == ASSUME OrderInv, ExecuteRefused PROVE OrderInv'
<1>1. /\ run.stage = "plan" /\ Active /\ Grows /\ UNCHANGED <<tree, journal, schema, excused>>
      /\ Exit \/ (NextDatabase /\ run.cmd # "up")
  BY DEF ExecuteRefused, Active, Grows, databases, Forgiving
<1>2. TypeOK'
  BY <1>1, LeavesTyped DEF OrderInv, TypeOK
<1>. QED  BY <1>1, <1>2, Leaves

LEMMA FailsOrders == ASSUME OrderInv, Fails PROVE OrderInv'
<1>1. /\ Active /\ Grows /\ UNCHANGED <<tree, journal, schema, excused>>
      /\ Exit \/ (NextDatabase /\ run.cmd # "up")
  BY DEF Fails, Active, Grows, databases, Forgiving
<1>2. TypeOK'
  BY <1>1, LeavesTyped DEF OrderInv, TypeOK
<1>. QED  BY <1>1, <1>2, Leaves

LEMMA CutOffOrders == ASSUME OrderInv, CutOff PROVE OrderInv'
<1>1. /\ Active /\ Grows /\ UNCHANGED <<tree, journal, schema>>
      /\ Exit \/ (NextDatabase /\ run.cmd # "up")
      /\ excused' = [excused EXCEPT ![run.db] = @ \cup run.begun]
  BY DEF CutOff, Active, Grows, Forgiving
<1>2. excused' \in [ShardIds -> SUBSET File]
  <2>1. run.begun \subseteq File
    BY DEF OrderInv, TypeOK, Invocation
  <2>. QED  BY <1>1, <2>1 DEF OrderInv, TypeOK
<1>3. TypeOK'
  BY <1>1, <1>2, LeavesTyped DEF OrderInv, TypeOK
<1>. QED  BY <1>1, <1>3, Leaves

\* The journal of the present database with one row more.
LEMMA RowAdded ==
    ASSUME TypeOK, run.db \in ShardIds, NEW f \in File,
           journal' = [journal EXCEPT ![run.db] = Append(@, f.id)]
    PROVE  /\ journal' \in [ShardIds -> Seq({g.id : g \in File})]
           /\ Range(journal'[run.db]) = Range(journal[run.db]) \cup {f.id}
           /\ \A db \in ShardIds \ {run.db} : journal'[db] = journal[db]
           /\ Grows
<1>1. /\ journal[run.db] \in Seq({g.id : g \in File}) /\ f.id \in {g.id : g \in File}
      /\ journal'[run.db] = Append(journal[run.db], f.id)
      /\ \A db \in ShardIds \ {run.db} : journal'[db] = journal[db]
  BY DEF TypeOK
<1>2. /\ Append(journal[run.db], f.id) \in Seq({g.id : g \in File})
      /\ Range(Append(journal[run.db], f.id)) = Range(journal[run.db]) \cup {f.id}
  BY <1>1, AppendRow
<1>3. journal' \in [ShardIds -> Seq({g.id : g \in File})]
  BY <1>1, <1>2 DEF TypeOK
<1>. QED  BY <1>1, <1>2, <1>3 DEF Grows

\* A file that is recorded leaves the plan.
LEMMA RecordOrders == ASSUME OrderInv, Record PROVE OrderInv'
<1> USE DEF OrderInv
<1>1. /\ run.stage = "record" /\ UNCHANGED <<tree, schema, excused>> /\ Active
      /\ run.cmd \in {"up", "up-by-one"} /\ run.db \in run.todo /\ run.todo \subseteq ShardIds
      /\ run \in Invocation /\ run.plan \subseteq Here /\ run.plan \subseteq File
  BY DEF Record, Active, TypeOK, Cursor, Invocation
<1>2. PICK f \in run.plan : run.begun = {f}
  BY <1>1 DEF Cursor
<1>3. f \in File /\ journal' = [journal EXCEPT ![run.db] = Append(@, f.id)]
  BY <1>1, <1>2 DEF Record
<1>4. /\ journal' \in [ShardIds -> Seq({g.id : g \in File})]
      /\ Range(journal'[run.db]) = Range(journal[run.db]) \cup {f.id}
      /\ Grows
  BY <1>1, <1>3, RowAdded
<1>5. CASE run.cmd = "up-by-one"
  <2>1. NextDatabase
    BY <1>5 DEF Record, NextFile
  <2>2. TypeOK'
    BY <1>1, <1>4, <2>1, LeavesTyped DEF TypeOK
  <2>. QED  BY <1>1, <1>4, <1>5, <2>1, <2>2, Leaves
<1>6. CASE run.cmd # "up-by-one"
  <2>1. run' = [run EXCEPT !.plan = @ \ run.begun, !.begun = {},
                           !.stage = IF run.plan \subseteq run.begun THEN "dirs" ELSE "plan"]
    BY <1>6 DEF Record, NextFile
  <2>2. /\ run' \in Invocation /\ run'.plan = run.plan \ {f} /\ run'.dirs = run.dirs
        /\ run'.begun = {}
        /\ run'.stage = (IF run.plan \subseteq {f} THEN "dirs" ELSE "plan")
        /\ run'.cmd = run.cmd /\ run'.flag = run.flag /\ run'.tree = run.tree
        /\ run'.todo = run.todo /\ run'.db = run.db
    BY <1>1, <1>2, <2>1 DEF Invocation, Stage
  <2>3. TypeOK'
    BY <1>1, <1>4, <2>2 DEF TypeOK
  <2>4. Cursor'
    BY <1>1, <2>2 DEF Cursor, Active, Here
  <2>5. Order'
    <3>1. /\ \A g \in Here : Recorded(run.db, g) \/ g \in run.plan \/ g.dir \in run.dirs
          /\ \A g \in run.plan : /\ \A h \in run.plan : h.dir = g.dir
                                 /\ \A d \in run.dirs : g.dir < d
      BY <1>1 DEF Order
    <3>2. \A g \in Here : Recorded(run.db, g)' \/ g \in run.plan \ {f} \/ g.dir \in run.dirs
      BY <1>4, <2>2, <3>1 DEF Recorded
    <3>. QED  BY <2>2, <3>1, <3>2 DEF Order, Here, Recorded
  <2>6. GameSettled'
    BY <1>1, <1>4, <2>2, Stays
  <2>. QED  BY <2>3, <2>4, <2>5, <2>6
<1>. QED  BY <1>5, <1>6

\* down and baseline leave the order of up alone.
LEMMA UndoOrders == ASSUME OrderInv, Undo PROVE OrderInv'
<1> USE DEF OrderInv
<1>1. PICK f \in DownFiles :
          /\ schema' = [schema EXCEPT ![run.db] = @ \ {f}]
          /\ run' = [run EXCEPT !.stage = "erase", !.begun = {f}]
  BY DEF Undo
<1>2. /\ run.stage = "open" /\ run.cmd = "down" /\ UNCHANGED <<tree, journal, excused>>
      /\ run \in Invocation /\ run.tree \subseteq File /\ run.db \in run.todo
  BY DEF Undo, TypeOK, Invocation, Cursor, Active
<1>3. f \in Here /\ f \in File
  BY <1>2 DEF DownFiles, Here, Files
<1>4. /\ run' \in Invocation /\ run'.stage = "erase" /\ run'.begun = {f}
      /\ run'.cmd = run.cmd /\ run'.tree = run.tree
      /\ run'.todo = run.todo /\ run'.db = run.db
  BY <1>1, <1>2, <1>3 DEF Invocation, Stage
<1>5. TypeOK'
  BY <1>1, <1>2, <1>4 DEF TypeOK
<1>6. Cursor' /\ Order' /\ GameSettled'
  BY <1>2, <1>3, <1>4 DEF Cursor, Order, GameSettled, Active, Here
<1>. QED  BY <1>5, <1>6

LEMMA UndoRefusedOrders == ASSUME OrderInv, UndoRefused PROVE OrderInv'
<1>1. Active /\ Grows /\ Exit /\ UNCHANGED <<tree, journal, schema, excused>>
  BY DEF UndoRefused, Active, Grows, databases
<1>2. TypeOK'
  BY <1>1, LeavesTyped DEF OrderInv, TypeOK
<1>. QED  BY <1>1, <1>2, Leaves

LEMMA EraseOrders == ASSUME OrderInv, Erase PROVE OrderInv'
<1> USE DEF OrderInv
<1>1. /\ run.stage = "erase" /\ run.cmd = "down" /\ Active /\ NextDatabase
      /\ UNCHANGED <<tree, schema, excused>>
  BY DEF Erase, Active, Cursor
<1>2. PICK f \in run.begun : journal' = [journal EXCEPT ![run.db] = Without(@, f.id)]
  BY DEF Erase
<1>3. journal' \in [ShardIds -> Seq({g.id : g \in File})]
  <2>1. ASSUME run.db \in ShardIds
        PROVE  Without(journal[run.db], f.id) \in Seq({g.id : g \in File})
    <3>1. journal[run.db] \in Seq({g.id : g \in File})
      BY <2>1 DEF TypeOK
    <3>. QED  BY <3>1, WithoutIsRows
  <2>. QED  BY <1>2, <2>1 DEF TypeOK
<1>4. TypeOK'
  BY <1>1, <1>3, LeavesTyped DEF TypeOK
<1>. QED  BY <1>1, <1>4, Leaves

LEMMA OpenBaselineOrders == ASSUME OrderInv, OpenBaseline PROVE OrderInv'
<1> USE DEF OrderInv
<1>1. /\ run.stage = "open" /\ run.cmd = "baseline" /\ Active
      /\ UNCHANGED <<tree, journal, schema, excused>>
  BY DEF OpenBaseline, databases, Active
<1>2. CASE Pending(run.tree, run.db) = {}
  <2>1. NextDatabase
    BY <1>2 DEF OpenBaseline
  <2>2. TypeOK'
    BY <1>1, <2>1, LeavesTyped DEF TypeOK
  <2>. QED  BY <1>1, <2>1, <2>2, Leaves
<1>3. CASE Pending(run.tree, run.db) # {}
  <2>1. run' = [run EXCEPT !.stage = "plan", !.plan = Pending(run.tree, run.db)]
    BY <1>3 DEF OpenBaseline
  <2>2. /\ run \in Invocation /\ run.db \in run.todo /\ run.begun = {}
        /\ Pending(run.tree, run.db) \subseteq Here /\ Pending(run.tree, run.db) \subseteq File
    BY <1>1 DEF TypeOK, Cursor, Invocation, Pending, Here, Files
  <2>3. /\ run' \in Invocation /\ run'.stage = "plan" /\ run'.begun = {}
        /\ run'.plan = Pending(run.tree, run.db)
        /\ run'.cmd = run.cmd /\ run'.tree = run.tree
        /\ run'.todo = run.todo /\ run'.db = run.db
    BY <2>1, <2>2 DEF Invocation, Stage
  <2>4. TypeOK'
    BY <1>1, <2>3 DEF TypeOK
  <2>5. Cursor' /\ Order' /\ GameSettled'
    BY <1>1, <2>2, <2>3 DEF Cursor, Order, GameSettled, Active, Here
  <2>. QED  BY <2>4, <2>5
<1>. QED  BY <1>2, <1>3

LEMMA MarkOrders == ASSUME OrderInv, Mark PROVE OrderInv'
<1> USE DEF OrderInv
<1>1. PICK f \in run.plan :
          /\ journal' = [journal EXCEPT ![run.db] = Append(@, f.id)]
          /\ excused' = [excused EXCEPT ![run.db] = @ \cup {f}]
          /\ IF run.plan = {f} THEN NextDatabase ELSE run' = [run EXCEPT !.plan = @ \ {f}]
  BY DEF Mark
<1>2. /\ run.stage = "plan" /\ run.cmd = "baseline" /\ Active /\ UNCHANGED <<tree, schema>>
      /\ run \in Invocation /\ run.plan \subseteq File /\ run.plan \subseteq Here
      /\ run.db \in run.todo /\ run.todo \subseteq ShardIds /\ run.begun = {}
  BY DEF Mark, Active, TypeOK, Cursor, Invocation
<1>3. f \in File
  BY <1>2
<1>4. journal' \in [ShardIds -> Seq({g.id : g \in File})]
  BY <1>1, <1>2, <1>3, RowAdded
<1>5. excused' \in [ShardIds -> SUBSET File]
  BY <1>1, <1>3 DEF TypeOK
<1>6. CASE run.plan = {f}
  <2>1. NextDatabase
    BY <1>1, <1>6
  <2>2. TypeOK'
    BY <1>2, <1>4, <1>5, <2>1, LeavesTyped
  <2>. QED  BY <1>2, <2>1, <2>2, Leaves
<1>7. CASE run.plan # {f}
  <2>1. run' = [run EXCEPT !.plan = @ \ {f}]
    BY <1>1, <1>7
  <2>2. /\ run' \in Invocation /\ run'.stage = "plan" /\ run'.plan = run.plan \ {f}
        /\ run'.cmd = run.cmd /\ run'.tree = run.tree
        /\ run'.todo = run.todo /\ run'.db = run.db /\ run'.begun = {}
    BY <1>2, <2>1 DEF Invocation
  <2>3. TypeOK'
    BY <1>2, <1>4, <1>5, <2>2 DEF TypeOK
  <2>4. Cursor' /\ Order' /\ GameSettled'
    BY <1>2, <2>2 DEF Cursor, Order, GameSettled, Active, Here
  <2>. QED  BY <2>3, <2>4
<1>. QED  BY <1>6, <1>7

\* Every step of a run, a failure or a merge keeps the order.
LEMMA StepOrders == OrderInv /\ [Next]_vars => OrderInv'
<1> SUFFICES ASSUME OrderInv, [Next]_vars PROVE OrderInv'
  OBVIOUS
<1>1. CASE UNCHANGED vars
  BY <1>1 DEF vars, databases, OrderInv, TypeOK, Cursor, Order, GameSettled, Active, Here,
              Pending, Recorded
<1>2. ASSUME NEW f \in File, AddFile(f) PROVE OrderInv'
  BY <1>2, AddFileOrders
<1>3. ASSUME NEW cmd \in Cmd, NEW flag \in Flag, Start(cmd, flag) PROVE OrderInv'
  BY <1>3, StartOrders
<1>4. CASE Work
  BY <1>4, OpenOrders, PlanDirOrders, LastDirOrders, ExecuteOrders, ExecuteRefusedOrders,
     RecordOrders, UndoOrders, UndoRefusedOrders, EraseOrders, OpenBaselineOrders, MarkOrders
  DEF Work
<1>5. CASE Fails \/ CutOff
  BY <1>5, FailsOrders, CutOffOrders
<1>. QED  BY <1>1, <1>2, <1>3, <1>4, <1>5 DEF Next

LEMMA Ordered == Spec => []OrderInv
<1>. QED  BY InitOrder, StepOrders, PTL DEF Spec

-----------------------------------------------------------------------------
(* What holds of the order *)

\* The tool, its embedded files and the databases have their types.
THEOREM TypeCorrect == Spec => []TypeOK
<1>1. OrderInv => TypeOK
  BY DEF OrderInv
<1>. QED  BY <1>1, Ordered, PTL

\* Only Execute puts the SQL of a file into effect, that of the first file of the plan
\* in the database the run is at; only Undo takes one out.
LEMMA SchemaSteps ==
    ASSUME OrderInv, [Next]_vars, schema' # schema
    PROVE  \/ /\ Execute
              /\ \A db \in ShardIds \ {run.db} : schema'[db] = schema[db]
              /\ \A f \in schema'[run.db] \ schema[run.db] : FirstFile(f, run.plan)
              /\ schema[run.db] \subseteq schema'[run.db]
           \/ Undo /\ \A db \in ShardIds : schema'[db] \subseteq schema[db]
<1> USE DEF OrderInv, TypeOK
<1>1. Execute \/ Undo
  BY DEF Next, vars, databases, Work, AddFile, Start, Open, PlanDir, LastDir, ExecuteRefused,
         Record, UndoRefused, Erase, OpenBaseline, Mark, Fails, CutOff
<1>2. CASE Execute
  <2>1. PICK f \in run.plan \ schema[run.db] :
            FirstFile(f, run.plan) /\ schema' = [schema EXCEPT ![run.db] = @ \cup {f}]
    BY <1>2 DEF Execute
  <2>2. run.db \in run.todo /\ run.todo \subseteq ShardIds
    BY <1>2 DEF Execute, Cursor, Active, Invocation
  <2>3. schema'[run.db] = schema[run.db] \cup {f}
    BY <2>1, <2>2
  <2>4. \A db \in ShardIds \ {run.db} : schema'[db] = schema[db]
    BY <2>1
  <2>. QED  BY <1>2, <2>1, <2>3, <2>4
<1>3. CASE Undo
  BY <1>3 DEF Undo
<1>. QED  BY <1>1, <1>2, <1>3

\* Root first, then directory by directory and by timestamp: whatever comes before a file
\* whose SQL is executed has been recorded, however late either was merged.
THEOREM OrderOfFiles == Spec => RunsInOrder
<1> DEFINE A == \A db \in ShardIds : \A f \in schema'[db] \ schema[db] :
                   \A g \in Files(run.tree, db) : Before(g, f) => Recorded(db, g)
<1>1. ASSUME OrderInv, [Next]_vars PROVE A
  <2> SUFFICES ASSUME NEW db \in ShardIds, NEW f \in schema'[db] \ schema[db],
                      NEW g \in Files(run.tree, db), Before(g, f), ~Recorded(db, g)
               PROVE  FALSE
    OBVIOUS
  <2>1. Execute /\ db = run.db /\ FirstFile(f, run.plan)
    BY <1>1, SchemaSteps
  <2>2. /\ run.stage = "plan" /\ run.cmd # "baseline" /\ run.plan \subseteq File
        /\ run.dirs \subseteq Nat /\ g \in File
    BY <1>1, <2>1, Numbers DEF Execute, OrderInv, TypeOK, Invocation, Files
  <2>3. /\ f \in run.plan /\ \A d \in run.dirs : f.dir < d
        /\ g \in run.plan \/ g.dir \in run.dirs
    BY <1>1, <2>1, <2>2 DEF OrderInv, Order, Here, FirstFile
  <2>4. /\ f.dir \in Nat /\ f.id \in Nat /\ g.dir \in Nat /\ g.id \in Nat
    BY <2>2, <2>3, Numbers
  <2>5. ~Before(f, g)
    BY <2>4 DEF Before
  <2>6. g = f
    BY <2>1, <2>3, <2>4, <2>5 DEF FirstFile, Before
  <2>. QED  BY <2>4, <2>6 DEF Before
<1>2. Spec => [][A]_vars
  <2>1. OrderInv /\ [Next]_vars => [A]_vars
    BY <1>1
  <2>. QED  BY <2>1, Ordered, PTL DEF Spec
<1>. QED  BY <1>2 DEF RunsInOrder

\* No shard gets a change of a release that the game database lacks.
THEOREM GameBeforeShards == Spec => GameFirst
<1> DEFINE A == \A db \in ShardIds \ {GameDBShardID} :
                   /\ run.cmd = "up" /\ run.flag = "all" /\ GameDBShardID \in ShardIds
                   /\ schema'[db] # schema[db]
                   => Pending(run.tree, GameDBShardID) = {}
<1>1. ASSUME OrderInv, [Next]_vars PROVE A
  <2> SUFFICES ASSUME NEW db \in ShardIds \ {GameDBShardID},
                      run.cmd = "up", run.flag = "all", GameDBShardID \in ShardIds,
                      schema'[db] # schema[db]
               PROVE  Pending(run.tree, GameDBShardID) = {}
    OBVIOUS
  <2>1. Execute /\ db = run.db
    BY <1>1, SchemaSteps DEF Undo
  <2>. QED  BY <1>1, <2>1 DEF Execute, OrderInv, GameSettled, Active
<1>2. Spec => [][A]_vars
  <2>1. OrderInv /\ [Next]_vars => [A]_vars
    BY <1>1
  <2>. QED  BY <2>1, Ordered, PTL DEF Spec
<1>. QED  BY <1>2 DEF GameFirst

\* up leaves a database without an error only when nothing is pending there.
THEOREM NothingLeftPending == Spec => UpSettles
<1> DEFINE A == /\ run.cmd = "up" /\ run.stage \notin {"done", "failed"}
                /\ run'.todo # run.todo
                => Pending(run.tree, run.db) = {}
<1>1. ASSUME OrderInv, [Next]_vars PROVE A
  <2> SUFFICES ASSUME run.cmd = "up", run.stage \notin {"done", "failed"},
                      run'.todo # run.todo
               PROVE  Pending(run.tree, run.db) = {}
    OBVIOUS
  <2>1. ~Exit
    BY <1>1, ExitTakes DEF OrderInv
  <2>2. Open \/ LastDir
    <3>1. ~PlanDir /\ ~Execute /\ ~Undo /\ ~OpenBaseline /\ ~Mark
      BY <1>1 DEF PlanDir, Execute, Undo, OpenBaseline, Mark, OrderInv, TypeOK, Invocation
    <3>2. ~ExecuteRefused /\ ~UndoRefused /\ ~Fails /\ ~CutOff
      BY <2>1 DEF ExecuteRefused, UndoRefused, Fails, CutOff, Forgiving
    <3>3. ~Record
      BY <1>1 DEF Record, NextFile, OrderInv, TypeOK, Invocation
    <3>4. ~Erase
      BY <1>1 DEF Erase, OrderInv, Cursor
    <3>. QED  BY <1>1, <3>1, <3>2, <3>3, <3>4 DEF Next, Work, vars, AddFile, Start
  <2>3. CASE Open
    BY <1>1, <2>3 DEF Open, OrderInv, TypeOK, Invocation
  <2>4. CASE LastDir
    BY <1>1, <2>4, LastDirSettles DEF LastDir, databases, Settles, Here, Pending, Recorded
  <2>. QED  BY <2>2, <2>3, <2>4
<1>2. Spec => [][A]_vars
  <2>1. OrderInv /\ [Next]_vars => [A]_vars
    BY <1>1
  <2>. QED  BY <2>1, Ordered, PTL DEF Spec
<1>. QED  BY <1>2 DEF UpSettles

-----------------------------------------------------------------------------
(* The journal and the schema, where no two files of a category have one timestamp *)

LEMMA InitJournal == ASSUME Unshared(InitFiles), Init PROVE JournalInv
<1>1. Unshared(tree) /\ Halves
  BY DEF Init, Halves
<1>2. Known
  <2>1. \A db \in ShardIds : /\ journal[db] = <<>> /\ schema[db] \in {{}, Files(tree, db)}
    BY DEF Init
  <2>. QED  BY <2>1 DEF Known, Range, Distinct, Files
<1>3. JournalMatchesSchema
  BY DEF Init, JournalMatchesSchema, Recorded, Range, Files
<1>. QED  BY <1>1, <1>2, <1>3 DEF JournalInv

\* A new file has neither a row nor an effect yet.
LEMMA AddFileMatches ==
    ASSUME ~MayShareIds, OrderInv, JournalInv, NEW f \in File, AddFile(f)
    PROVE  JournalInv'
<1> USE DEF JournalInv
<1>1. /\ tree' = tree \cup {f} /\ f \notin tree /\ UNCHANGED <<journal, schema, excused, run>>
      /\ \A g \in tree : g.cat = f.cat => g.id # f.id
  BY DEF AddFile, databases
<1>2. Unshared(tree)'
  BY <1>1 DEF Unshared
<1>3. Known'
  BY <1>1 DEF Known, Files
<1>4. Halves'
  BY <1>1 DEF Halves, Recorded
<1>5. JournalMatchesSchema'
  <2> SUFFICES ASSUME NEW db \in ShardIds, NEW g \in Files(tree', db) \ (excused[db] \cup InFlight(db))
               PROVE  Recorded(db, g) <=> g \in schema[db]
    BY <1>1 DEF JournalMatchesSchema, Recorded, InFlight
  <2>1. CASE g \in tree
    BY <2>1 DEF JournalMatchesSchema, Files
  <2>2. CASE g = f
    BY <1>1, <2>2 DEF Known, Files, Recorded
  <2>. QED  BY <1>1, <2>1, <2>2 DEF Files
<1>. QED  BY <1>2, <1>3, <1>4, <1>5

\* A step that touches no database, between two files.
LEMMA Quiet ==
    ASSUME JournalInv, UNCHANGED <<tree, journal, schema, excused>>,
           run.begun = {}, run'.begun = {}, run'.stage # "record", run'.stage # "erase",
           run'.stage = "plan" => \A f \in run'.plan : ~Recorded(run'.db, f)
    PROVE  JournalInv'
<1> USE DEF JournalInv
<1>1. Known'
  BY DEF Known, Files
<1>2. Halves'
  BY DEF Halves, Recorded
<1>3. JournalMatchesSchema'
  BY DEF JournalMatchesSchema, Recorded, InFlight, Files
<1>. QED  BY <1>1, <1>2, <1>3 DEF Unshared

\* The steps on the files and databases to work on.
LEMMA StartMatches ==
    ASSUME OrderInv, JournalInv, NEW cmd \in Cmd, NEW flag \in Flag, Start(cmd, flag)
    PROVE  JournalInv'
<1> DEFINE r == [run EXCEPT !.cmd = cmd, !.flag = flag, !.tree = tree, !.dirs = {},
                            !.plan = {}, !.begun = {}]
<1>1. /\ Turn(r, Targets(flag)) /\ UNCHANGED <<tree, journal, schema, excused>>
      /\ Targets(flag) \in SUBSET ShardIds /\ run.begun = {}
  BY DEF Start, Targets, databases, OrderInv, Cursor
<1>2. r \in Invocation /\ r.begun = {}
  BY DEF OrderInv, TypeOK, Invocation
<1> HIDE DEF r
<1>3. run'.begun = {} /\ run'.stage \in {"done", "open"}
  BY <1>1, <1>2, TurnTakes
<1>. QED  BY <1>1, <1>3, Quiet

LEMMA PlansMatch ==
    ASSUME OrderInv, JournalInv, \/ Open \/ PlanDir \/ LastDir \/ ExecuteRefused
                                 \/ UndoRefused \/ OpenBaseline \/ Fails
    PROVE  JournalInv'
<1>1. UNCHANGED <<tree, journal, schema, excused>> /\ run.begun = {}
  BY DEF Open, PlanDir, LastDir, ExecuteRefused, UndoRefused, OpenBaseline, Fails, databases,
         OrderInv, Cursor
<1>2. CASE NextDatabase \/ Exit
  <2>1. run'.begun = {} /\ run'.stage \in {"done", "open", "failed"}
    BY <1>2, NextDatabaseTakes, ExitTakes DEF OrderInv
  <2>. QED  BY <1>1, <2>1, Quiet
<1>3. CASE run' = [run EXCEPT !.stage = "dirs", !.dirs = Dirs(run.tree, run.db)]
  <2>1. run'.begun = {} /\ run'.stage = "dirs"
    BY <1>1, <1>3 DEF OrderInv, TypeOK, Invocation
  <2>. QED  BY <1>1, <2>1, Quiet
<1>4. CASE PlanDir
  <2>1. PICK dir \in run.dirs :
            run' = [run EXCEPT !.plan = Plan(dir), !.dirs = @ \ {dir},
                               !.stage = IF Plan(dir) = {} THEN "dirs" ELSE "plan"]
    BY <1>4 DEF PlanDir
  <2>2. /\ run'.begun = {} /\ run'.stage \in {"dirs", "plan"} /\ run'.plan = Plan(dir)
        /\ run'.db = run.db
    BY <1>1, <2>1 DEF OrderInv, TypeOK, Invocation
  <2>3. \A f \in Plan(dir) : ~Recorded(run.db, f)
    BY DEF Plan, Pending
  <2>. QED  BY <1>1, <2>2, <2>3, Quiet
<1>5. CASE run' = [run EXCEPT !.stage = "plan", !.plan = Pending(run.tree, run.db)]
  <2>1. /\ run'.begun = {} /\ run'.stage = "plan" /\ run'.plan = Pending(run.tree, run.db)
        /\ run'.db = run.db
    BY <1>1, <1>5 DEF OrderInv, TypeOK, Invocation
  <2>2. \A f \in Pending(run.tree, run.db) : ~Recorded(run.db, f)
    BY DEF Pending
  <2>. QED  BY <1>1, <2>1, <2>2, Quiet
<1>6. Open => NextDatabase \/ run' = [run EXCEPT !.stage = "dirs", !.dirs = Dirs(run.tree, run.db)]
  BY DEF Open
<1>7. OpenBaseline =>
          NextDatabase \/ run' = [run EXCEPT !.stage = "plan", !.plan = Pending(run.tree, run.db)]
  BY DEF OpenBaseline
<1>8. LastDir \/ ExecuteRefused \/ UndoRefused \/ Fails => NextDatabase \/ Exit
  BY DEF LastDir, ExecuteRefused, UndoRefused, Fails
<1>. QED  BY <1>2, <1>3, <1>4, <1>5, <1>6, <1>7, <1>8

\* What is here is in the tree.
LEMMA HereIsThere ==
    ASSUME OrderInv PROVE Here \subseteq Files(tree, run.db) /\ Files(tree, run.db) \subseteq File
BY DEF OrderInv, TypeOK, Cursor, Here, Files

\* Files of one database with one timestamp are one file.
LEMMA OneFile ==
    ASSUME Unshared(tree), NEW db, NEW f \in Files(tree, db), NEW g \in Files(tree, db), f.id = g.id
    PROVE  f = g
BY DEF Unshared, Files

LEMMA ExecuteMatches == ASSUME OrderInv, JournalInv, Execute PROVE JournalInv'
<1> USE DEF JournalInv
<1>1. PICK f \in run.plan \ schema[run.db] :
          /\ schema' = [schema EXCEPT ![run.db] = @ \cup {f}]
          /\ run' = [run EXCEPT !.stage = "record", !.begun = {f}]
  BY DEF Execute
<1>2. /\ run.stage = "plan" /\ UNCHANGED <<tree, journal, excused>> /\ run \in Invocation
      /\ run.db \in ShardIds /\ f \in Here /\ f \in Files(tree, run.db) /\ run.begun = {}
  BY HereIsThere DEF Execute, OrderInv, TypeOK, Cursor, Active, Invocation
<1>3. /\ run'.stage = "record" /\ run'.begun = {f} /\ run'.plan = run.plan /\ run'.db = run.db
      /\ schema'[run.db] = schema[run.db] \cup {f}
      /\ \A db \in ShardIds \ {run.db} : schema'[db] = schema[db]
  BY <1>1, <1>2 DEF OrderInv, TypeOK, Invocation
<1>4. Known'
  BY <1>2, <1>3 DEF Known, Files
<1>5. Halves'
  BY <1>2, <1>3 DEF Halves, Recorded
<1>6. JournalMatchesSchema'
  BY <1>2, <1>3 DEF JournalMatchesSchema, Recorded, InFlight, Files
<1>. QED  BY <1>2, <1>4, <1>5, <1>6 DEF Unshared

\* A row is written for a file that had none.
LEMMA RowAddedKnown ==
    ASSUME OrderInv, JournalInv, Active, NEW f \in Here, ~Recorded(run.db, f),
           journal' = [journal EXCEPT ![run.db] = Append(@, f.id)], UNCHANGED <<tree, schema>>
    PROVE  /\ Known'
           /\ \A db \in ShardIds : \A g \in Files(tree, db) :
                  Recorded(db, g)' <=> Recorded(db, g) \/ (db = run.db /\ g = f)
<1> USE DEF JournalInv
<1>1. run.db \in ShardIds /\ f \in Files(tree, run.db) /\ f \in File
  BY HereIsThere DEF OrderInv, TypeOK, Cursor, Invocation
<1>2. /\ Range(journal'[run.db]) = Range(journal[run.db]) \cup {f.id}
      /\ \A db \in ShardIds \ {run.db} : journal'[db] = journal[db]
  BY <1>1, RowAdded DEF OrderInv
<1>3. Distinct(journal'[run.db])
  <2>1. /\ journal[run.db] \in Seq({g.id : g \in File}) /\ f.id \in {g.id : g \in File}
        /\ journal'[run.db] = Append(journal[run.db], f.id)
    BY <1>1 DEF OrderInv, TypeOK
  <2>2. f.id \notin Range(journal[run.db]) /\ Distinct(journal[run.db])
    BY <1>1 DEF Known, Recorded
  <2>. QED  BY <2>1, <2>2, AppendRow
<1>4. ASSUME NEW db \in ShardIds
      PROVE  /\ \A id \in Range(journal'[db]) : \E g \in Files(tree, db) : g.id = id
             /\ Distinct(journal'[db]) /\ schema[db] \subseteq Files(tree, db)
  <2>1. CASE db = run.db
    BY <1>1, <1>2, <1>3, <2>1 DEF Known
  <2>2. CASE db # run.db
    BY <1>2, <2>2 DEF Known
  <2>. QED  BY <2>1, <2>2
<1>5. Known'
  BY <1>4 DEF Known, Files
<1>6. ASSUME NEW db \in ShardIds, NEW g \in Files(tree, db)
      PROVE  Recorded(db, g)' <=> Recorded(db, g) \/ (db = run.db /\ g = f)
  <2>1. CASE db = run.db
    <3>1. g.id = f.id <=> g = f
      BY <1>1, <2>1, OneFile
    <3>. QED  BY <1>2, <2>1, <3>1 DEF Recorded
  <2>2. CASE db # run.db
    BY <1>2, <2>2 DEF Recorded
  <2>. QED  BY <2>1, <2>2
<1>. QED  BY <1>5, <1>6

LEMMA RecordMatches == ASSUME OrderInv, JournalInv, Record PROVE JournalInv'
<1> USE DEF JournalInv
<1>1. /\ run.stage = "record" /\ UNCHANGED <<tree, schema, excused>> /\ Active
      /\ run \in Invocation /\ run.plan \subseteq Here /\ run.db \in ShardIds
  BY DEF Record, Active, OrderInv, TypeOK, Cursor, Invocation
<1>2. PICK f \in run.plan : run.begun = {f}
  BY <1>1 DEF OrderInv, Cursor
<1>3. /\ journal' = [journal EXCEPT ![run.db] = Append(@, f.id)] /\ NextFile
      /\ f \in Here /\ ~Recorded(run.db, f) /\ f \in schema[run.db]
  BY <1>1, <1>2 DEF Record, Halves
<1>4. /\ Known'
      /\ \A db \in ShardIds : \A g \in Files(tree, db) :
             Recorded(db, g)' <=> Recorded(db, g) \/ (db = run.db /\ g = f)
  BY <1>1, <1>3, RowAddedKnown
<1>5. /\ run'.begun = {}
      /\ \/ run'.stage \in {"open", "done", "dirs"}
         \/ run'.stage = "plan" /\ run'.db = run.db /\ run'.plan = run.plan \ {f}
  <2>1. CASE NextDatabase
    BY <2>1, NextDatabaseTakes DEF OrderInv
  <2>2. CASE run' = [run EXCEPT !.plan = @ \ run.begun, !.begun = {},
                            !.stage = IF run.plan \subseteq run.begun THEN "dirs" ELSE "plan"]
    BY <1>1, <1>2, <2>2 DEF Invocation
  <2>. QED  BY <1>3, <2>1, <2>2 DEF NextFile
<1>6. Halves'
  <2>1. \A g \in run.plan \ {f} : g.id \notin Range(journal'[run.db])
    <3>1. \A g \in run.plan \ {f} : ~Recorded(run.db, g) /\ g \in Files(tree, run.db)
      BY <1>1, HereIsThere DEF Halves
    <3>. QED  BY <1>1, <1>4, <3>1 DEF Recorded
  <2>. QED  BY <1>5, <2>1 DEF Halves, Recorded
<1>7. JournalMatchesSchema'
  <2> SUFFICES ASSUME NEW db \in ShardIds, NEW g \in Files(tree, db) \ excused[db]
               PROVE  Recorded(db, g)' <=> g \in schema[db]
    BY <1>1, <1>5 DEF JournalMatchesSchema, InFlight, Files
  <2>1. CASE db = run.db /\ g = f
    BY <1>3, <1>4, <2>1
  <2>2. CASE ~(db = run.db /\ g = f)
    BY <1>2, <1>4, <2>2 DEF JournalMatchesSchema, InFlight
  <2>. QED  BY <2>1, <2>2
<1>. QED  BY <1>1, <1>4, <1>6, <1>7 DEF Unshared

LEMMA MarkMatches == ASSUME OrderInv, JournalInv, Mark PROVE JournalInv'
<1> USE DEF JournalInv
<1>1. /\ run.stage = "plan" /\ UNCHANGED <<tree, schema>> /\ Active /\ run.begun = {}
      /\ run \in Invocation /\ run.plan \subseteq Here /\ run.db \in ShardIds
  BY DEF Mark, Active, OrderInv, TypeOK, Cursor, Invocation
<1>2. PICK f \in run.plan :
          /\ journal' = [journal EXCEPT ![run.db] = Append(@, f.id)]
          /\ excused' = [excused EXCEPT ![run.db] = @ \cup {f}]
          /\ IF run.plan = {f} THEN NextDatabase ELSE run' = [run EXCEPT !.plan = @ \ {f}]
  BY DEF Mark
<1>3. f \in Here /\ ~Recorded(run.db, f)
  BY <1>1 DEF Halves
<1>4. /\ Known'
      /\ \A db \in ShardIds : \A g \in Files(tree, db) :
             Recorded(db, g)' <=> Recorded(db, g) \/ (db = run.db /\ g = f)
  BY <1>1, <1>2, <1>3, RowAddedKnown
<1>5. /\ run'.begun = {}
      /\ \/ run'.stage \in {"open", "done"}
         \/ run'.stage = "plan" /\ run'.db = run.db /\ run'.plan = run.plan \ {f}
  <2>1. CASE NextDatabase
    BY <2>1, NextDatabaseTakes DEF OrderInv
  <2>2. CASE run' = [run EXCEPT !.plan = @ \ {f}]
    BY <1>1, <2>2 DEF Invocation
  <2>. QED  BY <1>2, <2>1, <2>2
<1>6. Halves'
  <2>1. \A g \in run.plan \ {f} : g.id \notin Range(journal'[run.db])
    <3>1. \A g \in run.plan \ {f} : ~Recorded(run.db, g) /\ g \in Files(tree, run.db)
      BY <1>1, HereIsThere DEF Halves
    <3>. QED  BY <1>1, <1>4, <3>1 DEF Recorded
  <2>. QED  BY <1>5, <2>1 DEF Halves, Recorded
<1>7. /\ excused'[run.db] = excused[run.db] \cup {f}
      /\ \A db \in ShardIds \ {run.db} : excused'[db] = excused[db]
  BY <1>1, <1>2 DEF OrderInv, TypeOK
<1>8. JournalMatchesSchema'
  <2> SUFFICES ASSUME NEW db \in ShardIds, NEW g \in Files(tree, db) \ excused'[db]
               PROVE  Recorded(db, g)' <=> g \in schema[db]
    BY <1>1, <1>5 DEF JournalMatchesSchema, InFlight, Files
  <2>1. g \notin excused[db] /\ ~(db = run.db /\ g = f)
    BY <1>7
  <2>. QED  BY <1>1, <1>4, <2>1 DEF JournalMatchesSchema, InFlight
<1>. QED  BY <1>1, <1>4, <1>6, <1>8 DEF Unshared

\* A file whose row was not written or erased is excused for good.
LEMMA CutOffMatches == ASSUME OrderInv, JournalInv, CutOff PROVE JournalInv'
<1> USE DEF JournalInv
<1>1. /\ run.stage \in {"record", "erase"} /\ UNCHANGED <<tree, journal, schema>>
      /\ Exit \/ NextDatabase
      /\ excused' = [excused EXCEPT ![run.db] = @ \cup run.begun]
  BY DEF CutOff
<1>2. run.db \in ShardIds
  BY <1>1 DEF OrderInv, TypeOK, Cursor, Active, Invocation
<1>3. run'.begun = {} /\ run'.stage \in {"open", "done", "failed"}
  BY <1>1, NextDatabaseTakes, ExitTakes DEF OrderInv
<1>4. /\ excused'[run.db] = excused[run.db] \cup run.begun
      /\ \A db \in ShardIds \ {run.db} : excused'[db] = excused[db]
  BY <1>1, <1>2 DEF OrderInv, TypeOK
<1>5. Known' /\ Halves'
  BY <1>1, <1>3 DEF Known, Halves, Files
<1>6. JournalMatchesSchema'
  BY <1>1, <1>3, <1>4 DEF JournalMatchesSchema, InFlight, Files, Recorded
<1>. QED  BY <1>1, <1>5, <1>6 DEF Unshared

LEMMA UndoMatches == ASSUME OrderInv, JournalInv, Undo PROVE JournalInv'
<1> USE DEF JournalInv
<1>1. PICK f \in DownFiles :
          /\ schema' = [schema EXCEPT ![run.db] = @ \ {f}]
          /\ run' = [run EXCEPT !.stage = "erase", !.begun = {f}]
  BY DEF Undo
<1>2. /\ run.stage = "open" /\ UNCHANGED <<tree, journal, excused>> /\ run \in Invocation
      /\ run.db \in ShardIds /\ run.begun = {}
  BY DEF Undo, OrderInv, TypeOK, Cursor, Active, Invocation
<1>3. Recorded(run.db, f) /\ f.id = Last(journal[run.db]) /\ f \in Files(tree, run.db)
  BY HereIsThere DEF DownFiles, Here
<1>4. /\ run'.stage = "erase" /\ run'.begun = {f} /\ run'.db = run.db
      /\ schema'[run.db] = schema[run.db] \ {f}
      /\ \A db \in ShardIds \ {run.db} : schema'[db] = schema[db]
  BY <1>1, <1>2 DEF OrderInv, TypeOK, Invocation
<1>5. Known'
  BY <1>2, <1>4 DEF Known, Files
<1>6. Halves'
  <2>1. journal[run.db] # <<>>
    BY <1>3 DEF Recorded, Range
  <2>. QED  BY <1>2, <1>3, <1>4, <2>1 DEF Halves
<1>7. JournalMatchesSchema'
  BY <1>2, <1>4 DEF JournalMatchesSchema, Recorded, InFlight, Files
<1>. QED  BY <1>2, <1>5, <1>6, <1>7 DEF Unshared

\* down erases the last row.
LEMMA EraseTakesLast ==
    ASSUME OrderInv, JournalInv, Erase
    PROVE  /\ run.db \in ShardIds /\ journal'[run.db] = Front(journal[run.db])
           /\ \A db \in ShardIds \ {run.db} : journal'[db] = journal[db]
           /\ Distinct(journal'[run.db])
           /\ \A f \in run.begun : Range(journal'[run.db]) = Range(journal[run.db]) \ {f.id}
<1> USE DEF JournalInv
<1>1. run.stage = "erase" /\ run.db \in ShardIds
  BY DEF Erase, OrderInv, TypeOK, Cursor, Active, Invocation
<1>2. PICK f : run.begun = {f}
  BY <1>1 DEF OrderInv, Cursor
<1>3. /\ journal' = [journal EXCEPT ![run.db] = Without(@, f.id)]
      /\ journal[run.db] # <<>> /\ f.id = Last(journal[run.db])
  BY <1>1, <1>2 DEF Erase, Halves
<1>4. journal[run.db] \in Seq({g.id : g \in File}) /\ Distinct(journal[run.db])
  BY <1>1 DEF OrderInv, TypeOK, Known
<1>5. /\ journal'[run.db] = Without(journal[run.db], Last(journal[run.db]))
      /\ \A db \in ShardIds \ {run.db} : journal'[db] = journal[db]
  BY <1>1, <1>3 DEF OrderInv, TypeOK
<1>. QED  BY <1>1, <1>2, <1>3, <1>4, <1>5, WithoutLast

LEMMA EraseMatches == ASSUME OrderInv, JournalInv, Erase PROVE JournalInv'
<1> USE DEF JournalInv
<1>1. /\ run.stage = "erase" /\ NextDatabase /\ UNCHANGED <<tree, schema, excused>>
  BY DEF Erase
<1>2. PICK f \in Here : run.begun = {f}
  BY <1>1 DEF OrderInv, Cursor
<1>3. f \in Files(tree, run.db) /\ f \notin schema[run.db]
  BY <1>1, <1>2, HereIsThere DEF Halves
<1>4. /\ run.db \in ShardIds /\ Distinct(journal'[run.db])
      /\ \A db \in ShardIds \ {run.db} : journal'[db] = journal[db]
      /\ Range(journal'[run.db]) = Range(journal[run.db]) \ {f.id}
  BY <1>2, EraseTakesLast
<1>5. run'.begun = {} /\ run'.stage \in {"open", "done"}
  BY <1>1, NextDatabaseTakes DEF OrderInv
<1>6. Known'
  <2>1. ASSUME NEW db \in ShardIds
        PROVE  /\ \A id \in Range(journal'[db]) : \E g \in Files(tree, db) : g.id = id
               /\ Distinct(journal'[db]) /\ schema[db] \subseteq Files(tree, db)
    BY <1>4 DEF Known
  <2>. QED  BY <1>1, <2>1 DEF Known, Files
<1>7. Halves'
  BY <1>5 DEF Halves
<1>8. JournalMatchesSchema'
  <2> SUFFICES ASSUME NEW db \in ShardIds, NEW g \in Files(tree, db) \ excused[db]
               PROVE  Recorded(db, g)' <=> g \in schema[db]
    BY <1>1, <1>5 DEF JournalMatchesSchema, InFlight, Files
  <2>1. CASE db # run.db
    BY <1>4, <2>1 DEF JournalMatchesSchema, InFlight, Recorded
  <2>2. CASE db = run.db /\ g = f
    BY <1>3, <1>4, <2>2 DEF Recorded
  <2>3. CASE db = run.db /\ g # f
    <3>1. g.id # f.id
      BY <1>3, <2>3, OneFile
    <3>2. Recorded(db, g) <=> g \in schema[db]
      BY <1>2, <2>3 DEF JournalMatchesSchema, InFlight
    <3>. QED  BY <1>4, <2>3, <3>1, <3>2 DEF Recorded
  <2>. QED  BY <2>1, <2>2, <2>3
<1>. QED  BY <1>1, <1>6, <1>7, <1>8 DEF Unshared

LEMMA StepMatches ==
    ASSUME ~MayShareIds PROVE OrderInv /\ JournalInv /\ [Next]_vars => JournalInv'
<1> SUFFICES ASSUME OrderInv, JournalInv, [Next]_vars PROVE JournalInv'
  OBVIOUS
<1>1. CASE UNCHANGED vars
  BY <1>1 DEF vars, databases, JournalInv, Unshared, Known, Halves, JournalMatchesSchema,
              Files, Recorded, InFlight
<1>2. ASSUME NEW f \in File, AddFile(f) PROVE JournalInv'
  BY <1>2, AddFileMatches
<1>3. ASSUME NEW cmd \in Cmd, NEW flag \in Flag, Start(cmd, flag) PROVE JournalInv'
  BY <1>3, StartMatches
<1>4. CASE Work
  BY <1>4, PlansMatch, ExecuteMatches, RecordMatches, UndoMatches, EraseMatches, MarkMatches
  DEF Work
<1>5. CASE Fails \/ CutOff
  BY <1>5, PlansMatch, CutOffMatches
<1>. QED  BY <1>1, <1>2, <1>3, <1>4, <1>5 DEF Next

LEMMA Matched ==
    ASSUME ~MayShareIds, Unshared(InitFiles) PROVE Spec => [](OrderInv /\ JournalInv)
<1>1. Init => OrderInv /\ JournalInv
  BY InitOrder, InitJournal
<1>2. OrderInv /\ JournalInv /\ [Next]_vars => (OrderInv /\ JournalInv)'
  BY StepOrders, StepMatches
<1>. QED  BY <1>1, <1>2, PTL DEF Spec

\* Status and CountPending tell the truth of every file, but for the one in flight and
\* those that were there before, marked or cut off.
THEOREM JournalIsTrue ==
    ASSUME ~MayShareIds, Unshared(InitFiles) PROVE Spec => []JournalMatchesSchema
<1>1. OrderInv /\ JournalInv => JournalMatchesSchema
  BY DEF JournalInv
<1>. QED  BY <1>1, Matched, PTL

\* down takes back the migration applied last, although it looks for the highest id.
THEOREM LastOneDown ==
    ASSUME ~MayShareIds, Unshared(InitFiles) PROVE Spec => DownTakesLast
<1> DEFINE A == \A db \in ShardIds :
                   /\ Len(journal'[db]) < Len(journal[db]) => journal'[db] = Front(journal[db])
                   /\ \A f \in schema[db] \ schema'[db] : f.id = Last(journal[db])
<1>1. ASSUME OrderInv, JournalInv, [Next]_vars PROVE A
  <2>1. ASSUME NEW db \in ShardIds, Len(journal'[db]) < Len(journal[db])
        PROVE  journal'[db] = Front(journal[db])
    <3>1. CASE Erase
      BY <2>1, <3>1, <1>1, EraseTakesLast
    <3>2. CASE Record \/ Mark
      <4>1. PICK f : journal' = [journal EXCEPT ![run.db] = Append(@, f.id)]
        BY <3>2 DEF Record, Mark
      <4>2. journal[db] \in Seq({g.id : g \in File})
        BY <1>1 DEF OrderInv, TypeOK
      <4>3. \/ journal'[db] = journal[db]
            \/ journal'[db] = Append(journal[db], f.id)
        BY <1>1, <4>1 DEF OrderInv, TypeOK
      <4>4. Len(Append(journal[db], f.id)) = Len(journal[db]) + 1 /\ Len(journal[db]) \in Nat
        BY <4>2
      <4>. QED  BY <2>1, <4>3, <4>4
    <3>3. CASE UNCHANGED journal
      BY <2>1, <3>3, <1>1 DEF OrderInv, TypeOK
    <3>4. Erase \/ Record \/ Mark \/ UNCHANGED journal
      BY <1>1 DEF Next, vars, databases, Work, AddFile, Start, Open, PlanDir, LastDir, Execute,
             ExecuteRefused, Undo, UndoRefused, OpenBaseline, Fails, CutOff
    <3>. QED  BY <3>1, <3>2, <3>3, <3>4
  <2>2. ASSUME NEW db \in ShardIds, NEW f \in schema[db] \ schema'[db]
        PROVE  f.id = Last(journal[db])
    <3>1. Undo
      BY <1>1, <2>2, SchemaSteps
    <3>2. PICK g \in DownFiles : schema' = [schema EXCEPT ![run.db] = @ \ {g}]
      BY <3>1 DEF Undo
    <3>3. db = run.db /\ f = g
      BY <1>1, <2>2, <3>2 DEF OrderInv, TypeOK
    <3>. QED  BY <3>2, <3>3 DEF DownFiles
  <2>. QED  BY <2>1, <2>2
<1>2. OrderInv /\ JournalInv /\ [Next]_vars => [A]_vars
  BY <1>1
<1>3. Spec => [][A]_vars
  BY <1>2, Matched, PTL DEF Spec
<1>. QED  BY <1>3 DEF DownTakesLast
=============================================================================
