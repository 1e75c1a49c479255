----------------------------- MODULE UnitOfWork -----------------------------
(***************************************************************************)
(* The bookkeeping of a unit of work (internal/uow): what is loaded into   *)
(* its store, the INSERTs and UPDATEs it queues, their execution in one    *)
(* transaction per database, and the cache and the sync field afterwards.  *)
(*                                                                         *)
(* Units of one user run one after the other, as the user lock makes them; *)
(* Dispatch has their interleavings.  A handler is any sequence of calls   *)
(* of the services (service/item_service.go and asset_service.go, which    *)
(* are alike, and account_service.go).  A row is its amount; a model, the  *)
(* object behind a pointer in the store, also knows whether its primary    *)
(* key has been set, because an UPDATE finds its row by that key.          *)
(***************************************************************************)
EXTENDS Integers, Sequences

CONSTANTS
    Lists,          \* the list entities of the shard: items, assets
    Account,        \* the account, in the game database
    Key,            \* item and asset ids
    Self,           \* the key of the one account row
    Registered,     \* the entities known to RegisterModelEntity
    Miss,           \* not in the store, not in the cache, not known to the client
    Absent,         \* no such row
    MaxAmount,      \* bound on the amount of a row
    MaxCalls        \* bound on the writes that one unit queues

ASSUME EntitiesAssumption ==
    /\ Account \notin Lists
    /\ Registered \subseteq Lists \cup {Account}
ASSUME UnitBoundsAssumption == MaxAmount \in Nat /\ MaxCalls \in Nat
\* What is not there is neither a row nor a model, nor rows or models by key.
ASSUME MissingAssumption ==
    /\ Absent \notin Nat /\ Absent \notin [amount : Nat, keyed : BOOLEAN]
    /\ \A keys \in {{Self}, Key} :
          /\ Miss \notin [keys -> {Absent} \cup 0 .. MaxAmount]
          /\ Miss \notin [keys -> {Absent} \cup [amount : 0 .. MaxAmount, keyed : BOOLEAN]]

VARIABLES
    table,      \* table[e][k]: the row of k in the database
    cache,      \* cache[e]: the field e of the hash user:{id}
    store,      \* store[e]: UnitOfWork.store
    queue,      \* UnitOfWork.dbOps
    groups,     \* the databases whose transaction is still to run
    step,       \* how far dispatch is with the unit
    net,        \* net[e][k]: what the unit's calls add to the row (history)
    touched,    \* the rows that the unit created or updated
    mirror,     \* mirror[e]: the copy of a client that applies the sync field
    stale,      \* a DeleteAll was lost, and what it left has not expired (history)
    misled      \* the copies that were answered meanwhile (history)

vars == <<table, cache, store, queue, groups, step, net, touched, mirror, stale, misled>>
doubts == <<stale, misled>>

Entity == Lists \cup {Account}
Keys(e) == IF e = Account THEN {Self} ELSE Key
Database(e) == IF e = Account THEN "game" ELSE "shard"
Amount == 0 .. MaxAmount
Model == [amount : Amount, keyed : BOOLEAN]
Models(e) == [Keys(e) -> {Absent} \cup Model]
Op == [op : {"insert", "update"}, e : Entity, k : Key \cup {Self}]
Step == {"idle", "handling", "committing", "publishing", "invalidating", "reply"}

TypeOK ==
    /\ \A e \in Entity :
           /\ table[e] \in [Keys(e) -> {Absent} \cup Amount]
           /\ cache[e] \in {Miss} \cup Models(e)
           /\ store[e] \in {Miss} \cup Models(e)
           /\ net[e] \in [Keys(e) -> Int]
           /\ mirror[e] \in {Miss} \cup [Keys(e) -> {Absent} \cup Amount]
    /\ queue \in Seq(Op) /\ Len(queue) <= MaxCalls
    /\ groups \subseteq {"game", "shard"}
    /\ step \in Step
    /\ touched \subseteq Entity \X (Key \cup {Self})
    /\ stale \in BOOLEAN /\ misled \subseteq Entity

Nothing == [e \in Entity |-> Miss]
NoChange == [e \in Entity |-> [k \in Keys(e) |-> 0]]

\* The models of rows, and the rows of models.
ModelsOf(e) ==
    [k \in Keys(e) |-> IF table[e][k] = Absent THEN Absent
                       ELSE [amount |-> table[e][k], keyed |-> TRUE]]
RowsOf(e, models) ==
    [k \in Keys(e) |-> IF models[k] = Absent THEN Absent ELSE models[k].amount]

Init ==
    /\ table = [e \in Entity |-> [k \in Keys(e) |-> Absent]]
    /\ cache = Nothing
    /\ store = Nothing
    /\ queue = <<>>
    /\ groups = {}
    /\ step = "idle"
    /\ net = NoChange
    /\ touched = {}
    /\ mirror = Nothing
    /\ stale = FALSE
    /\ misled = {}

-----------------------------------------------------------------------------
(* A unit and its loads *)

\* With a new store, and an empty cache, nothing old is left.
Begin ==
    /\ step = "idle"
    /\ step' = "handling"
    /\ store' = Nothing
    /\ queue' = <<>>
    /\ net' = NoChange
    /\ touched' = {}
    /\ stale' = (stale /\ cache # Nothing)
    /\ UNCHANGED <<table, cache, groups, mirror, misled>>

\* The account of the user is there, and ShardDB() has loaded it.
KnowsShard(e) ==
    IF e = Account THEN table[Account][Self] # Absent ELSE store[Account] # Miss

LoadCached(e) ==
    /\ step = "handling"
    /\ store[e] = Miss /\ cache[e] # Miss
    /\ store' = [store EXCEPT ![e] = cache[e]]
    /\ UNCHANGED <<table, cache, queue, groups, step, net, touched, mirror, doubts>>

\* Cache miss, or any error of the cache: SELECT, and Set, whose error is ignored.
LoadRows(e) ==
    /\ step = "handling"
    /\ store[e] = Miss /\ KnowsShard(e)
    /\ store' = [store EXCEPT ![e] = ModelsOf(e)]
    /\ \/ cache' = [cache EXCEPT ![e] = ModelsOf(e)]
       \/ UNCHANGED cache
    /\ UNCHANGED <<table, queue, groups, step, net, touched, mirror, doubts>>

-----------------------------------------------------------------------------
(* Writes *)

\* queueOp on the database of e, and markDirty, which remembers a model once however
\* often it changes.
Enqueue(op, e, k) ==
    /\ Len(queue) < MaxCalls /\ KnowsShard(e)
    /\ queue' = Append(queue, [op |-> op, e |-> e, k |-> k])
    /\ touched' = touched \cup {<<e, k>>}

\* Mutant of AddNew: Create without looking for the row first.
AddNewUnchecked(e, k, n) ==
    /\ step = "handling"
    /\ store[e] # Miss
    /\ store' = [store EXCEPT ![e][k] = [amount |-> n, keyed |-> FALSE]]
    /\ net' = [net EXCEPT ![e][k] = n]
    /\ Enqueue("insert", e, k)
    /\ UNCHANGED <<table, cache, groups, step, mirror, doubts>>

\* Mutant of AddNew: Create without markDirty.
AddNewUnmarked(e, k, n) ==
    /\ step = "handling"
    /\ store[e] # Miss /\ store[e][k] = Absent
    /\ store' = [store EXCEPT ![e][k] = [amount |-> n, keyed |-> FALSE]]
    /\ net' = [net EXCEPT ![e][k] = n]
    /\ Len(queue) < MaxCalls /\ KnowsShard(e)
    /\ queue' = Append(queue, [op |-> "insert", e |-> e, k |-> k])
    /\ UNCHANGED <<table, cache, groups, step, touched, mirror, doubts>>

\* AddItem or AddAsset of something the user does not have: Create.
AddNew(e, k, n) ==
    /\ step = "handling"
    /\ store[e] # Miss /\ store[e][k] = Absent
    /\ store' = [store EXCEPT ![e][k] = [amount |-> n, keyed |-> FALSE]]
    /\ net' = [net EXCEPT ![e][k] = n]
    /\ Enqueue("insert", e, k)
    /\ UNCHANGED <<table, cache, groups, step, mirror, doubts>>

\* The model in the store is changed, and Update queues the writing of it.
Change(e, k, n) ==
    /\ step = "handling"
    /\ store[e] # Miss /\ store[e][k] # Absent
    /\ store' = [store EXCEPT ![e][k].amount = @ + n]
    /\ net' = [net EXCEPT ![e][k] = @ + n]
    /\ Enqueue("update", e, k)
    /\ UNCHANGED <<table, cache, groups, step, mirror, doubts>>

\* AddItem or AddAsset of something the user has.
AddMore(e, k, n) ==
    /\ Change(e, k, n)
    /\ store[e][k].amount + n <= MaxAmount

\* ConsumeItem or ConsumeAsset.
Consume(e, k, n) ==
    /\ Change(e, k, -n)
    /\ n <= store[e][k].amount

\* AccountService.Login of a known user: the account gets the device d.
SetDevice(d) ==
    \E n \in -MaxAmount .. MaxAmount :
        /\ Change(Account, Self, n)
        /\ store[Account][Self].amount + n = d

\* AccountService.Login of a new user: CreateNow inserts at once, and no failure
\* that follows takes the row back.
CreateNow ==
    /\ step = "handling"
    /\ table[Account][Self] = Absent
    /\ table' = [table EXCEPT ![Account][Self] = 0]
    /\ store' = [store EXCEPT ![Account] =
                    [k \in {Self} |-> [amount |-> 0, keyed |-> TRUE]]]
    /\ touched' = touched \cup {<<Account, Self>>}
    /\ UNCHANGED <<cache, queue, groups, step, net, mirror, doubts>>

\* A load, a call or the handler fails: the unit is dropped.
Abandon ==
    /\ step = "handling"
    /\ step' = "idle"
    /\ UNCHANGED <<table, cache, store, queue, groups, net, touched, mirror, doubts>>

-----------------------------------------------------------------------------
(* Commit and CommitOrRollback *)

StartCommit ==
    /\ step = "handling"
    /\ groups' = {Database(queue[i].e) : i \in DOMAIN queue}
    /\ step' = IF queue = <<>> THEN "publishing" ELSE "committing"
    /\ UNCHANGED <<table, cache, store, queue, net, touched, mirror, doubts>>

\* Mutant of Insert: no SetPrimaryKey.
InsertUnkeyed(s, o) ==
    [tbl |-> [s.tbl EXCEPT ![o.e][o.k] = s.str[o.e][o.k].amount], str |-> s.str]

\* An operation runs on the rows and models s.  It writes the model as it is now,
\* not as it was when the operation was queued.  CreateTx, then SetPrimaryKey:
Insert(s, o) ==
    [tbl |-> [s.tbl EXCEPT ![o.e][o.k] = s.str[o.e][o.k].amount],
     str |-> [s.str EXCEPT ![o.e][o.k].keyed = TRUE]]

\* SaveTx finds the row by the primary key; finding none is no error.
Save(s, o) ==
    IF s.str[o.e][o.k].keyed
      THEN [s EXCEPT !.tbl[o.e][o.k] = s.str[o.e][o.k].amount] ELSE s

\* The databases take their turns in the order of their first operations.
Ahead == {i \in DOMAIN queue : Database(queue[i].e) \in groups}
Turn == Database(queue[CHOOSE i \in Ahead : \A j \in Ahead : i <= j].e)

Perform(s, o) ==
    IF Database(o.e) # Turn THEN s
    ELSE IF o.op = "insert" THEN Insert(s, o) ELSE Save(s, o)

\* Rows and models after the first i operations of the queue.
Run[i \in 0 .. Len(queue)] ==
    IF i = 0 THEN [tbl |-> table, str |-> store] ELSE Perform(Run[i - 1], queue[i])
Done == Run[Len(queue)]

\* An INSERT meets a row, which the UNIQUE keys of TB_ITEM and TB_ASSET refuse.
Collides ==
    \E i \in DOMAIN queue :
        /\ queue[i].op = "insert" /\ Database(queue[i].e) = Turn
        /\ table[queue[i].e][queue[i].k] # Absent

\* The transaction of the next database.
CommitGroup ==
    /\ step = "committing" /\ ~Collides
    /\ table' = Done.tbl
    /\ store' = Done.str
    /\ groups' = groups \ {Turn}
    /\ step' = IF groups' = {} THEN "publishing" ELSE "committing"
    /\ UNCHANGED <<cache, queue, net, touched, mirror, doubts>>

\* It is rolled back, or it commits and the confirmation is lost; the databases
\* before it have committed.
CommitGroupFails ==
    /\ step = "committing"
    /\ table' = table \/ (~Collides /\ table' = Done.tbl)
    /\ groups' = {}
    /\ step' = "invalidating"
    /\ UNCHANGED <<cache, store, queue, net, touched, mirror, doubts>>

\* SetMulti of the whole store.
SetMulti == cache' = [e \in Entity |-> IF store[e] = Miss THEN cache[e] ELSE store[e]]

Publish ==
    /\ step = "publishing"
    /\ SetMulti
    /\ step' = "reply"
    /\ UNCHANGED <<table, store, queue, groups, net, touched, mirror, doubts>>

PublishFails ==
    /\ step = "publishing"
    /\ SetMulti \/ UNCHANGED cache
    /\ step' = "invalidating"
    /\ UNCHANGED <<table, store, queue, groups, net, touched, mirror, doubts>>

\* Mutant of Invalidate: no DeleteAll.
InvalidateNothing ==
    /\ step = "invalidating"
    /\ mirror' = Nothing
    /\ misled' = {}
    /\ step' = "idle"
    /\ UNCHANGED <<table, cache, store, queue, groups, net, touched, stale>>

\* DeleteAll, whose error is ignored, and "commit failed": the client can no longer trust
\* its copy.  A server that dies after the transaction leaves the cache as it is, too.
Invalidate ==
    /\ step = "invalidating"
    /\ \/ cache' = Nothing /\ UNCHANGED stale
       \/ stale' = TRUE /\ UNCHANGED cache
    /\ mirror' = Nothing
    /\ misled' = {}
    /\ step' = "idle"
    /\ UNCHANGED <<table, store, queue, groups, net, touched>>

-----------------------------------------------------------------------------
(* The answer *)

\* The client's copy of e after the sync field: the registered models among the
\* changed ones.
Synced(e) ==
    IF mirror[e] = Miss \/ e \notin Registered THEN mirror[e]
    ELSE [k \in Keys(e) |-> IF <<e, k>> \in touched THEN store[e][k].amount
                                                    ELSE mirror[e][k]]

\* The body answers some of the lists that were loaded, as GetItems does.
Reply ==
    /\ step = "reply"
    /\ \E fetched \in SUBSET {e \in Lists : store[e] # Miss} :
           /\ mirror' = [e \in Entity |-> IF e \in fetched THEN RowsOf(e, store[e])
                                                           ELSE Synced(e)]
           /\ misled' = IF stale THEN Entity ELSE misled \ fetched
    /\ step' = "idle"
    /\ UNCHANGED <<table, cache, store, queue, groups, net, touched, stale>>

\* The hash user:{id} reaches its time to live.
CacheExpires ==
    /\ cache' = Nothing
    /\ UNCHANGED <<table, store, queue, groups, step, net, touched, mirror, doubts>>

Next ==
    \/ Begin \/ CreateNow \/ Abandon
    \/ \E e \in Entity : LoadCached(e) \/ LoadRows(e)
    \/ \E e \in Lists, k \in Key, n \in 1 .. MaxAmount :
           AddNew(e, k, n) \/ AddMore(e, k, n) \/ Consume(e, k, n)
    \/ \E d \in Amount : SetDevice(d)
    \/ StartCommit \/ CommitGroup \/ CommitGroupFails
    \/ Publish \/ PublishFails \/ Invalidate \/ Reply
    \/ CacheExpires

Spec == Init /\ [][Next]_vars

-----------------------------------------------------------------------------
(* Properties *)

\* uow.go:273-275: between units the cache holds what the database holds, primary keys
\* included, whichever load, handler, transaction or cache write failed; where a DeleteAll
\* was lost (uow_helper.go:13), from the expiry of what it left behind on.
CacheIsTable ==
    step = "idle" /\ ~stale => \A e \in Entity : cache[e] \in {Miss, ModelsOf(e)}

\* uow.go:175-253: a committed transaction adds to each row of its database what
\* the calls of the unit amount to, however they were mixed, and creates the rows
\* they created, unless it started from what a lost DeleteAll left; the other database
\* is left alone.
Value(v) == IF v = Absent THEN 0 ELSE v
TransactionAppliesCalls ==
    [][CommitGroup => \A e \in Entity : \A k \in Keys(e) :
          IF Database(e) # Turn THEN table'[e][k] = table[e][k]
          ELSE ~stale => /\ Value(table'[e][k]) = Value(table[e][k]) + net[e][k]
                         /\ <<e, k>> \in touched => table'[e][k] # Absent]_vars

\* item_service.go:38-67, asset_service.go:39-55: the services look a row up before
\* they create it, so no INSERT meets a row of the same user and id, be it in the
\* table or earlier in the queue; in the table it may when the list is one that a lost
\* DeleteAll left.
InsertsAreNew ==
    \A i \in DOMAIN queue :
        step = "handling" /\ queue[i].op = "insert" =>
            /\ ~stale => table[queue[i].e][queue[i].k] = Absent
            /\ \A j \in DOMAIN queue \ {i} :
                   queue[j].op = "insert" =>
                       <<queue[i].e, queue[i].k>> # <<queue[j].e, queue[j].k>>

\* dispatch.go:139-142: a client that fetched a list once and then applies the sync
\* fields of its answers has the rows of the database between its requests, unless the
\* list was answered, or added to, from what a lost DeleteAll left.
SyncKeepsClientCurrent ==
    step = "idle" =>
        \A e \in Registered \ misled : mirror[e] # Miss => mirror[e] = table[e]
=============================================================================
