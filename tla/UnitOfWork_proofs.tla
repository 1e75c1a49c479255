------------------------- MODULE UnitOfWork_proofs --------------------------
(***************************************************************************)
(* Proofs about UnitOfWork: that the cache, the client's copy and the rows *)
(* agree between units, for every set of lists, ids and amounts.           *)
(***************************************************************************)
EXTENDS UnitOfWork, WellFoundedInduction, TLAPS

-----------------------------------------------------------------------------
(* The invariant *)

Rows(e) == [Keys(e) -> {Absent} \cup Amount]
Cell(v) == IF v = Absent THEN Absent ELSE [amount |-> v, keyed |-> TRUE]
Modeled(e, t) == [k \in Keys(e) |-> Cell(t[k])]

Queued(q, e, k) == \E i \in DOMAIN q : q[i].e = e /\ q[i].k = k
Inserting(q, e, k) == \E i \in DOMAIN q : q[i].op = "insert" /\ q[i].e = e /\ q[i].k = k

\* The transaction of e's database is still to come, or is over.
Pending(e) == step = "handling" \/ (step = "committing" /\ Database(e) \in groups)
Settled(e) == step \in {"committing", "publishing", "reply"} /\ ~Pending(e)

\* Every variable is a function on the entities.
Arrays ==
    /\ table = [e \in Entity |-> table[e]] /\ cache = [e \in Entity |-> cache[e]]
    /\ store = [e \in Entity |-> store[e]] /\ mirror = [e \in Entity |-> mirror[e]]
    /\ net = [e \in Entity |-> net[e]]

\* The queue is about rows that were touched, and no row is inserted twice.
QueueFits ==
    /\ \A i \in DOMAIN queue :
          /\ queue[i].e \in Entity /\ queue[i].k \in Keys(queue[i].e)
          /\ <<queue[i].e, queue[i].k>> \in touched
    /\ \A i, j \in DOMAIN queue :
          /\ queue[i].op = "insert" /\ queue[j].op = "insert"
          /\ queue[i].e = queue[j].e /\ queue[i].k = queue[j].k
          => i = j

\* Databases are left as long as the unit commits, and each has an operation.
GroupsFit ==
    IF step = "committing"
      THEN groups # {} /\ groups \subseteq {Database(queue[i].e) : i \in DOMAIN queue}
      ELSE groups = {}

TouchedFits ==
    \A e \in Entity : \A k \in Keys(e) :
        <<e, k>> \in touched => store[e] # Miss /\ store[e][k] # Absent

\* A model m, its row v, and what the queue q adds: neither is there; the model is the row
\* and what was added to it; or the model is new.
Fits(m, v, n, q, e, k) ==
    \/ m = Absent /\ v = Absent /\ n = 0 /\ ~Queued(q, e, k)
    \/ /\ m \in Model /\ m.keyed = TRUE /\ v \in Amount /\ m.amount = v + n
       /\ ~Inserting(q, e, k) /\ (Queued(q, e, k) \/ n = 0)
    \/ /\ m \in Model /\ m.keyed = FALSE /\ v = Absent /\ m.amount = n
       /\ Inserting(q, e, k)
PendingFits ==
    ~stale => \A e \in Entity : Pending(e) =>
        \A k \in Keys(e) : IF store[e] = Miss THEN net[e][k] = 0
                           ELSE Fits(store[e][k], table[e][k], net[e][k], queue, e, k)

SettledFits ==
    ~stale => \A e \in Entity :
        Settled(e) /\ store[e] # Miss => store[e] = Modeled(e, table[e])

\* The cache holds the rows, but where the unit has written and not yet published.
CacheFits ==
    ~stale => \A e \in Entity :
        \/ step = "invalidating"
        \/ Settled(e) /\ step # "reply" /\ store[e] # Miss
        \/ cache[e] \in {Miss, Modeled(e, table[e])}

AccountFits ==
    cache[Account] # Miss \/ store[Account] # Miss => table[Account][Self] # Absent

\* Whatever a client was answered while the cache was stale is doubtful.
StaleFits == stale => \A e \in Entity : mirror[e] # Miss => e \in misled

\* The client's other copies lack at most what the unit touched.
MirrorFits ==
    /\ mirror[Account] = Miss
    /\ \A e \in Registered \ misled : mirror[e] # Miss =>
          /\ step \in {"idle", "handling"} => mirror[e] = table[e]
          /\ step # "invalidating" =>
                \A k \in Keys(e) : <<e, k>> \notin touched => mirror[e][k] = table[e][k]

IInv ==
    /\ TypeOK /\ Arrays /\ QueueFits /\ GroupsFit /\ TouchedFits
    /\ PendingFits /\ SettledFits /\ CacheFits /\ AccountFits /\ StaleFits /\ MirrorFits

-----------------------------------------------------------------------------
(* Facts about the data *)

LEMMA Basics ==
    /\ Absent \notin Amount /\ Absent \notin Model /\ Amount \subseteq Nat
    /\ 0 \in Amount /\ Account \in Entity
    /\ \A e \in Entity : /\ Miss \notin Rows(e) /\ Miss \notin Models(e)
                         /\ Database(e) \in {"game", "shard"}
    /\ Keys(Account) = {Self} /\ \A e \in Lists : e # Account /\ e \in Entity /\ Keys(e) = Key
    /\ Registered \subseteq Entity
<1>1. Absent \notin Amount /\ Absent \notin Model /\ Amount \subseteq Nat /\ 0 \in Amount
  BY MissingAssumption, UnitBoundsAssumption DEF Amount, Model
<1>2. \A e \in Entity : Miss \notin Rows(e) /\ Miss \notin Models(e)
  <2> SUFFICES ASSUME NEW e \in Entity PROVE Miss \notin Rows(e) /\ Miss \notin Models(e)
    OBVIOUS
  <2>1. Keys(e) \in {{Self}, Key}
    BY DEF Keys
  <2>. QED  BY <2>1, MissingAssumption DEF Rows, Models, Amount, Model
<1>3. \A e \in Lists : e # Account
  BY EntitiesAssumption
<1>. QED  BY <1>1, <1>2, <1>3, EntitiesAssumption DEF Entity, Keys, Database

\* Rows and the models of them.
LEMMA ModeledIs ==
    ASSUME NEW e \in Entity, NEW t \in Rows(e)
    PROVE  /\ Modeled(e, t) \in Models(e) /\ Modeled(e, t) # Miss
           /\ \A k \in Keys(e) : Modeled(e, t)[k] = Cell(t[k])
           /\ RowsOf(e, Modeled(e, t)) = t
<1>1. \A k \in Keys(e) : t[k] \in {Absent} \cup Amount /\ Cell(t[k]) \in {Absent} \cup Model
  BY DEF Rows, Cell, Model
<1>2. Modeled(e, t) \in Models(e) /\ \A k \in Keys(e) : Modeled(e, t)[k] = Cell(t[k])
  BY <1>1 DEF Modeled, Models
<1>3. RowsOf(e, Modeled(e, t)) = t
  <2>1. \A k \in Keys(e) : (IF Cell(t[k]) = Absent THEN Absent ELSE Cell(t[k]).amount) = t[k]
    <3> SUFFICES ASSUME NEW k \in Keys(e)
                 PROVE  (IF Cell(t[k]) = Absent THEN Absent ELSE Cell(t[k]).amount) = t[k]
      OBVIOUS
    <3>1. CASE t[k] = Absent
      BY <3>1 DEF Cell
    <3>2. CASE t[k] # Absent
      <4>1. Cell(t[k]) = [amount |-> t[k], keyed |-> TRUE]
        BY <3>2 DEF Cell
      <4>2. [amount |-> t[k], keyed |-> TRUE] \in Model
        BY <1>1, <3>2 DEF Model
      <4>3. Cell(t[k]) # Absent
        BY <4>1, <4>2, Basics
      <4>. QED  BY <4>1, <4>3
    <3>. QED  BY <3>1, <3>2
  <2>2. RowsOf(e, Modeled(e, t)) = [k \in Keys(e) |-> t[k]]
    BY <1>2, <2>1 DEF RowsOf
  <2>3. t = [k \in Keys(e) |-> t[k]]
    BY DEF Rows
  <2>. QED  BY <2>2, <2>3
<1>. QED  BY <1>2, <1>3, Basics

\* Models that are the rows key by key are the rows.
LEMMA ModeledBy ==
    ASSUME NEW e \in Entity, NEW t \in Rows(e), NEW m \in Models(e),
           \A k \in Keys(e) : m[k] = Cell(t[k])
    PROVE  m = Modeled(e, t)
<1>1. m = [k \in Keys(e) |-> m[k]]
  BY DEF Models
<1>. QED  BY <1>1 DEF Modeled

\* SetPrimaryKey.
LEMMA Keyed ==
    ASSUME NEW m \in Model
    PROVE  /\ [m EXCEPT !.keyed = TRUE] \in Model
           /\ [m EXCEPT !.keyed = TRUE] = [amount |-> m.amount, keyed |-> TRUE]
<1> DEFINE r == [m EXCEPT !.keyed = TRUE]
<1>1. r \in Model /\ r.keyed = TRUE /\ r.amount = m.amount
  BY DEF Model
<1>2. r = [amount |-> r.amount, keyed |-> r.keyed]
  <2> HIDE DEF r
  <2>. QED  BY <1>1 DEF Model
<1> HIDE DEF r
<1>3. r = [amount |-> m.amount, keyed |-> TRUE]
  BY <1>1, <1>2
<1>. QED  BY <1>1, <1>3 DEF r

\* One entry of an array of arrays is replaced.
LEMMA Put ==
    ASSUME NEW S, NEW f, f = [x \in S |-> f[x]], NEW e \in S, NEW g
    PROVE  /\ [f EXCEPT ![e] = g] = [x \in S |-> [f EXCEPT ![e] = g][x]]
           /\ [f EXCEPT ![e] = g][e] = g
           /\ \A x \in S : x # e => [f EXCEPT ![e] = g][x] = f[x]
OBVIOUS

-----------------------------------------------------------------------------
(* The invariant holds at the start, and a unit begins *)

\* A unit that has called nothing adds nothing to its rows (NoChange).
LEMMA Unchanging == \A S : [k \in S |-> 0] \in [S -> Int]
<1>1. 0 \in Int
  OBVIOUS
<1>. QED  BY <1>1, Zenon

LEMMA InitIInv == Init => IInv
<1> SUFFICES ASSUME Init PROVE IInv
  OBVIOUS
<1>1. /\ step = "idle" /\ groups = {} /\ touched = {} /\ queue = <<>>
      /\ stale = FALSE /\ misled = {}
      /\ \A e \in Entity : /\ cache[e] = Miss /\ store[e] = Miss /\ mirror[e] = Miss
                           /\ table[e] = [k \in Keys(e) |-> Absent]
                           /\ net[e] = [k \in Keys(e) |-> 0]
  BY DEF Init, Nothing, NoChange
<1>2. Arrays
  BY DEF Init, Nothing, NoChange, Arrays
<1>3. TypeOK
  <2>1. queue \in Seq(Op) /\ Len(queue) <= MaxCalls
    BY <1>1, UnitBoundsAssumption
  <2>2. \A e \in Entity : net[e] \in [Keys(e) -> Int]
    <3> SUFFICES ASSUME NEW e \in Entity PROVE net[e] \in [Keys(e) -> Int]
      OBVIOUS
    <3>1. net[e] = [k \in Keys(e) |-> 0]
      BY <1>1
    <3>2. [k \in Keys(e) |-> 0] \in [Keys(e) -> Int]
      BY Unchanging, Zenon
    <3>. QED  BY <3>1, <3>2
  <2>. QED  BY <1>1, <2>1, <2>2 DEF TypeOK, Step
<1>4. QueueFits /\ GroupsFit /\ TouchedFits
  BY <1>1 DEF QueueFits, GroupsFit, TouchedFits
<1>5. PendingFits /\ SettledFits /\ CacheFits /\ AccountFits /\ StaleFits /\ MirrorFits
  BY <1>1, Basics DEF PendingFits, Pending, SettledFits, Settled, CacheFits, AccountFits,
     StaleFits, MirrorFits
<1>. QED  BY <1>2, <1>3, <1>4, <1>5 DEF IInv

LEMMA BeginKeeps == IInv /\ Begin => IInv'
<1> SUFFICES ASSUME IInv, Begin PROVE IInv'
  OBVIOUS
<1>1. /\ step = "idle" /\ step' = "handling" /\ groups' = groups /\ groups = {}
      /\ touched' = {} /\ queue' = <<>> /\ stale' = (stale /\ cache # Nothing)
      /\ table' = table /\ cache' = cache /\ mirror' = mirror /\ misled' = misled
  BY DEF Begin, IInv, GroupsFit
<1>2. /\ store' = [e \in Entity |-> Miss] /\ net' = [e \in Entity |-> [k \in Keys(e) |-> 0]]
  BY DEF Begin, Nothing, NoChange
<1>3. \A e \in Entity : store'[e] = Miss /\ net'[e] = [k \in Keys(e) |-> 0]
  BY <1>2
<1>4. Arrays'
  BY <1>1, <1>2 DEF IInv, Arrays
<1>5. TypeOK'
  <2>1. queue' \in Seq(Op) /\ Len(queue') <= MaxCalls
    BY <1>1, UnitBoundsAssumption
  <2>2. \A e \in Entity : net'[e] \in [Keys(e) -> Int]
    <3> SUFFICES ASSUME NEW e \in Entity PROVE net'[e] \in [Keys(e) -> Int]
      OBVIOUS
    <3>1. net'[e] = [k \in Keys(e) |-> 0]
      BY <1>3
    <3>2. [k \in Keys(e) |-> 0] \in [Keys(e) -> Int]
      BY Unchanging, Zenon
    <3>. QED  BY <3>1, <3>2
  <2>3. stale' \in BOOLEAN
    BY <1>1
  <2>. QED  BY <1>1, <1>3, <2>1, <2>2, <2>3 DEF IInv, TypeOK, Step
<1>6. QueueFits' /\ GroupsFit' /\ TouchedFits'
  BY <1>1 DEF QueueFits, GroupsFit, TouchedFits
<1>7. PendingFits' /\ SettledFits'
  BY <1>1, <1>3 DEF PendingFits, Pending, SettledFits, Settled
<1>8. CacheFits'
  <2>1. ~stale => \A e \in Entity : cache[e] \in {Miss, Modeled(e, table[e])}
    BY <1>1 DEF IInv, CacheFits, Settled
  <2>2. cache = Nothing => \A e \in Entity : cache[e] = Miss
    BY DEF Nothing
  <2>. QED  BY <1>1, <2>1, <2>2 DEF CacheFits
<1>9. AccountFits' /\ StaleFits'
  BY <1>1, <1>3, Basics DEF IInv, AccountFits, StaleFits
<1>10. MirrorFits'
  <2>1. mirror[Account] = Miss
        /\ \A e \in Registered \ misled : mirror[e] # Miss => mirror[e] = table[e]
    BY <1>1 DEF IInv, MirrorFits
  <2>. QED  BY <1>1, <2>1 DEF MirrorFits
<1>. QED  BY <1>4, <1>5, <1>6, <1>7, <1>8, <1>9, <1>10 DEF IInv

-----------------------------------------------------------------------------
(* Loads *)

\* From the cache or from the database, the store gets the rows.
LEMMA LoadKeeps ==
    ASSUME IInv, NEW e \in Entity, LoadCached(e) \/ LoadRows(e)
    PROVE  IInv'
<1> DEFINE new == Modeled(e, table[e])
<1>1. /\ step = "handling" /\ store[e] = Miss
      /\ e = Account => table[Account][Self] # Absent
      /\ UNCHANGED <<table, queue, groups, step, net, touched, mirror, stale, misled>>
  <2>1. cache[Account] # Miss => table[Account][Self] # Absent
    BY DEF IInv, AccountFits
  <2>. QED  BY <2>1 DEF LoadCached, LoadRows, KnowsShard, doubts
<1>2. /\ table[e] \in Rows(e) /\ new \in Models(e) /\ new # Miss
      /\ \A k \in Keys(e) : new[k] = Cell(table[e][k])
  <2>1. table[e] \in Rows(e)
    BY DEF IInv, TypeOK, Rows
  <2>. QED  BY <2>1, ModeledIs
<1>3. ModelsOf(e) = new
  BY DEF ModelsOf, Modeled, Cell
<1> HIDE DEF new
<1>4. PICK got \in Models(e) :
          /\ store' = [store EXCEPT ![e] = got] /\ (~stale => got = new)
          /\ cache' = cache \/ (cache' = [cache EXCEPT ![e] = new] /\ got = new)
  <2>1. cache[e] \in {Miss} \cup Models(e)
    BY DEF IInv, TypeOK
  <2>2. ~stale => cache[e] \in {Miss, new}
    BY <1>1 DEF IInv, CacheFits, Settled, new
  <2>3. CASE LoadCached(e)
    BY <2>1, <2>2, <2>3 DEF LoadCached
  <2>4. CASE LoadRows(e)
    BY <1>2, <1>3, <2>4 DEF LoadRows
  <2>. QED  BY <2>3, <2>4
<1>5. /\ store' = [x \in Entity |-> store'[x]] /\ store'[e] = got
      /\ store'[e] \in Models(e) /\ store'[e] # Miss /\ (~stale => store'[e] = new)
      /\ \A x \in Entity : x # e => store'[x] = store[x]
  BY <1>4, Basics, Put DEF IInv, Arrays
<1>6. /\ cache' = [x \in Entity |-> cache'[x]] /\ cache'[e] \in {cache[e], new}
      /\ \A x \in Entity : x # e => cache'[x] = cache[x]
  BY <1>4, Put DEF IInv, Arrays
<1>7. TypeOK' /\ Arrays'
  BY <1>1, <1>2, <1>5, <1>6 DEF IInv, TypeOK, Arrays
<1>8. QueueFits' /\ GroupsFit'
  BY <1>1 DEF IInv, QueueFits, GroupsFit
<1>9. TouchedFits' /\ \A k \in Keys(e) : <<e, k>> \notin touched
  BY <1>1, <1>5 DEF IInv, TouchedFits
<1>10. PendingFits'
  <2> SUFFICES ASSUME ~stale PROVE PendingFits'
    BY <1>1 DEF PendingFits
  <2>1. \A k \in Keys(e) : ~Queued(queue, e, k) /\ ~Inserting(queue, e, k)
    BY <1>9 DEF Queued, Inserting, IInv, QueueFits
  <2>2. \A k \in Keys(e) : net[e][k] = 0
    BY <1>1 DEF IInv, PendingFits, Pending
  <2>3. \A k \in Keys(e) : Fits(new[k], table[e][k], net[e][k], queue, e, k)
    <3> SUFFICES ASSUME NEW k \in Keys(e)
                 PROVE  Fits(new[k], table[e][k], net[e][k], queue, e, k)
      OBVIOUS
    <3>1. CASE table[e][k] = Absent
      BY <1>2, <2>1, <2>2, <3>1 DEF Fits, Cell
    <3>2. CASE table[e][k] # Absent
      <4>1. table[e][k] \in Amount
        BY <1>2, <3>2 DEF Rows
      <4>2. new[k] = [amount |-> table[e][k], keyed |-> TRUE]
        BY <1>2, <3>2 DEF Cell
      <4>3. /\ new[k] \in Model /\ new[k].keyed = TRUE
            /\ new[k].amount = table[e][k] + net[e][k]
        <5>1. net[e][k] = 0 /\ table[e][k] \in Nat
          BY <2>2, <4>1, Basics
        <5>2. new[k].amount = table[e][k] /\ new[k].keyed = TRUE
          BY <4>2
        <5>3. [amount |-> table[e][k], keyed |-> TRUE] \in Model
          BY <4>1 DEF Model
        <5>. QED  BY <4>2, <5>1, <5>2, <5>3
      <4>. QED  BY <2>1, <2>2, <4>1, <4>3 DEF Fits
    <3>. QED  BY <3>1, <3>2
  <2>4. \A x \in Entity : x # e =>
            \A k \in Keys(x) : IF store[x] = Miss THEN net[x][k] = 0
                               ELSE Fits(store[x][k], table[x][k], net[x][k], queue, x, k)
    BY <1>1 DEF IInv, PendingFits, Pending
  <2>. QED  BY <1>1, <1>2, <1>5, <2>3, <2>4 DEF PendingFits
<1>11. SettledFits'
  BY <1>1 DEF SettledFits, Settled
<1>12. CacheFits'
  <2> SUFFICES ASSUME ~stale PROVE CacheFits'
    BY <1>1 DEF CacheFits
  <2>1. \A x \in Entity : cache[x] \in {Miss, Modeled(x, table[x])}
    BY <1>1 DEF IInv, CacheFits, Settled
  <2>2. \A x \in Entity : cache'[x] \in {Miss, Modeled(x, table[x])}
    BY <1>6, <2>1 DEF new
  <2>. QED  BY <1>1, <2>2 DEF CacheFits
<1>13. AccountFits'
  BY <1>1, <1>5, <1>6, Basics DEF IInv, AccountFits
<1>14. StaleFits' /\ MirrorFits'
  BY <1>1 DEF IInv, StaleFits, MirrorFits
<1>. QED  BY <1>7, <1>8, <1>9, <1>10, <1>11, <1>12, <1>13, <1>14 DEF IInv

-----------------------------------------------------------------------------
(* Writes *)

\* What the queue is about after one more operation.
LEMMA Appended ==
    ASSUME NEW q \in Seq(Op), NEW o \in Op
    PROVE  LET q2 == Append(q, o) IN
           /\ q2 \in Seq(Op) /\ Len(q2) = Len(q) + 1 /\ Len(q) \in Nat
           /\ DOMAIN q2 = DOMAIN q \cup {Len(q) + 1} /\ DOMAIN q = 1 .. Len(q)
           /\ q2[Len(q) + 1] = o /\ \A i \in DOMAIN q : q2[i] = q[i]
           /\ \A x, y : Queued(q2, x, y) <=> Queued(q, x, y) \/ (o.e = x /\ o.k = y)
           /\ \A x, y : Inserting(q2, x, y)
                           <=> Inserting(q, x, y) \/ (o.op = "insert" /\ o.e = x /\ o.k = y)
<1> DEFINE q2 == Append(q, o)
<1>1. /\ q2 \in Seq(Op) /\ Len(q2) = Len(q) + 1 /\ Len(q) \in Nat
      /\ DOMAIN q2 = DOMAIN q \cup {Len(q) + 1} /\ DOMAIN q = 1 .. Len(q)
      /\ q2[Len(q) + 1] = o /\ \A i \in DOMAIN q : q2[i] = q[i]
  OBVIOUS
<1> HIDE DEF q2
<1>2. \A x, y : Queued(q2, x, y) <=> Queued(q, x, y) \/ (o.e = x /\ o.k = y)
  BY <1>1 DEF Queued
<1>3. \A x, y : Inserting(q2, x, y)
                   <=> Inserting(q, x, y) \/ (o.op = "insert" /\ o.e = x /\ o.k = y)
  BY <1>1 DEF Inserting
<1>. QED  BY <1>1, <1>2, <1>3 DEF q2

\* A call of a service: a model of the store becomes m, the unit now adds d to its row,
\* and the operation is queued.
LEMMA WriteKeeps ==
    ASSUME IInv, step = "handling", NEW e \in Entity, NEW k \in Keys(e), store[e] # Miss,
           NEW m \in Model, NEW d \in Int, NEW op \in {"insert", "update"},
           store' = [store EXCEPT ![e][k] = m], net' = [net EXCEPT ![e][k] = d],
           Enqueue(op, e, k), UNCHANGED <<table, cache, groups, step, mirror, stale, misled>>,
           op = "insert" => store[e][k] = Absent,
           ~stale => Fits(m, table[e][k], d, queue', e, k)
    PROVE  IInv'
<1> DEFINE o == [op |-> op, e |-> e, k |-> k]
<1>1. o \in Op /\ o.op = op /\ o.e = e /\ o.k = k
  BY DEF Op, Keys, Entity
<1>2. queue' = Append(queue, o) /\ touched' = touched \cup {<<e, k>>} /\ Len(queue) < MaxCalls
  BY DEF Enqueue
<1> HIDE DEF o
<1>3. queue \in Seq(Op) /\ MaxCalls \in Nat
  BY UnitBoundsAssumption DEF IInv, TypeOK
<1>4. /\ queue' \in Seq(Op) /\ Len(queue') <= MaxCalls
      /\ DOMAIN queue' = DOMAIN queue \cup {Len(queue) + 1} /\ DOMAIN queue = 1 .. Len(queue)
      /\ Len(queue) \in Nat
      /\ queue'[Len(queue) + 1] = o /\ \A i \in DOMAIN queue : queue'[i] = queue[i]
  BY <1>1, <1>2, <1>3, Appended
<1>5. /\ \A x, y : Queued(queue', x, y) <=> Queued(queue, x, y) \/ (e = x /\ k = y)
      /\ \A x, y : Inserting(queue', x, y)
                      <=> Inserting(queue, x, y) \/ (op = "insert" /\ e = x /\ k = y)
  BY <1>1, <1>2, <1>3, Appended
<1>6. /\ store[e] \in Models(e) /\ net[e] \in [Keys(e) -> Int]
  BY DEF IInv, TypeOK
<1>7. /\ store' = [x \in Entity |-> store'[x]] /\ store'[e] = [store[e] EXCEPT ![k] = m]
      /\ \A x \in Entity : x # e => store'[x] = store[x]
  BY Put DEF IInv, Arrays
<1>8. /\ store'[e] \in Models(e) /\ store'[e] # Miss /\ store'[e][k] = m
      /\ \A y \in Keys(e) : y # k => store'[e][y] = store[e][y]
  BY <1>6, <1>7, Basics DEF Models
<1>9. /\ net' = [x \in Entity |-> net'[x]] /\ net'[e] = [net[e] EXCEPT ![k] = d]
      /\ \A x \in Entity : x # e => net'[x] = net[x]
  BY Put DEF IInv, Arrays
<1>10. /\ net'[e] \in [Keys(e) -> Int] /\ net'[e][k] = d
       /\ \A y \in Keys(e) : y # k => net'[e][y] = net[e][y]
  BY <1>6, <1>9
<1>11. Arrays'
  BY <1>7, <1>9 DEF IInv, Arrays
<1>12. TypeOK'
  <2>1. touched' \subseteq Entity \X (Key \cup {Self})
    BY <1>2 DEF IInv, TypeOK, Keys
  <2>. QED  BY <1>4, <1>7, <1>8, <1>9, <1>10, <2>1 DEF IInv, TypeOK
<1>13. QueueFits'
  <2>1. \A i \in DOMAIN queue' : /\ queue'[i].e \in Entity /\ queue'[i].k \in Keys(queue'[i].e)
                                 /\ <<queue'[i].e, queue'[i].k>> \in touched'
    BY <1>1, <1>2, <1>4 DEF IInv, QueueFits
  <2>2. op = "insert" => ~Queued(queue, e, k)
    <3>1. store[e][k] = Absent => <<e, k>> \notin touched
      BY DEF IInv, TouchedFits
    <3>. QED  BY <3>1 DEF Queued, IInv, QueueFits
  <2>3. \A i, j \in DOMAIN queue' :
            /\ queue'[i].op = "insert" /\ queue'[j].op = "insert"
            /\ queue'[i].e = queue'[j].e /\ queue'[i].k = queue'[j].k
            => i = j
    BY <1>1, <1>4, <2>2 DEF IInv, QueueFits, Queued
  <2>. QED  BY <2>1, <2>3 DEF QueueFits
<1>14. GroupsFit' /\ SettledFits'
  BY DEF IInv, GroupsFit, SettledFits, Settled, Pending
<1>15. TouchedFits'
  <2>1. m # Absent
    BY Basics
  <2>. QED  BY <1>2, <1>7, <1>8, <2>1 DEF IInv, TouchedFits
<1>16. PendingFits'
  <2> SUFFICES ASSUME ~stale, NEW x \in Entity, NEW y \in Keys(x)
               PROVE  IF store'[x] = Miss THEN net'[x][y] = 0
                      ELSE Fits(store'[x][y], table[x][y], net'[x][y], queue', x, y)
    BY DEF PendingFits
  <2>1. IF store[x] = Miss THEN net[x][y] = 0
        ELSE Fits(store[x][y], table[x][y], net[x][y], queue, x, y)
    BY DEF IInv, PendingFits, Pending
  <2>2. CASE x = e /\ y = k
    BY <1>8, <1>10, <2>2
  <2>3. CASE ~(x = e /\ y = k)
    <3>1. /\ store'[x] = Miss <=> store[x] = Miss
          /\ store[x] # Miss => store'[x][y] = store[x][y]
          /\ net'[x][y] = net[x][y]
      BY <1>7, <1>8, <1>9, <1>10, <2>3
    <3>2. /\ Queued(queue', x, y) <=> Queued(queue, x, y)
          /\ Inserting(queue', x, y) <=> Inserting(queue, x, y)
      BY <1>5, <2>3
    <3>. QED  BY <2>1, <3>1, <3>2 DEF Fits
  <2>. QED  BY <2>2, <2>3
<1>17. CacheFits' /\ AccountFits'
  <2>1. ~stale => \A x \in Entity : cache[x] \in {Miss, Modeled(x, table[x])}
    BY DEF IInv, CacheFits, Settled
  <2>2. store'[Account] # Miss => store[Account] # Miss
    BY <1>7, Basics
  <2>. QED  BY <2>1, <2>2 DEF IInv, CacheFits, AccountFits
<1>18. StaleFits' /\ MirrorFits'
  <2>1. touched \subseteq touched'
    BY <1>2
  <2>. QED  BY <2>1 DEF IInv, StaleFits, MirrorFits
<1>. QED  BY <1>11, <1>12, <1>13, <1>14, <1>15, <1>16, <1>17, <1>18 DEF IInv

\* Something the user does not have: its model is new.
LEMMA AddNewKeeps ==
    ASSUME IInv, NEW e \in Lists, NEW k \in Key, NEW n \in 1 .. MaxAmount, AddNew(e, k, n)
    PROVE  IInv'
<1> DEFINE m == [amount |-> n, keyed |-> FALSE]
<1>1. /\ step = "handling" /\ store[e] # Miss /\ store[e][k] = Absent
      /\ store' = [store EXCEPT ![e][k] = m] /\ net' = [net EXCEPT ![e][k] = n]
      /\ Enqueue("insert", e, k)
      /\ UNCHANGED <<table, cache, groups, step, mirror, stale, misled>>
  BY DEF AddNew, doubts
<1>2. n \in Amount /\ n \in Int
  BY UnitBoundsAssumption DEF Amount
<1>3. m \in Model /\ m.keyed = FALSE /\ m.amount = n
  BY <1>2 DEF Model
<1> HIDE DEF m
<1>4. e \in Entity /\ k \in Keys(e)
  BY Basics
<1>5. ~stale => table[e][k] = Absent
  <2>1. ~stale => Fits(store[e][k], table[e][k], net[e][k], queue, e, k)
    BY <1>1, <1>4 DEF IInv, PendingFits, Pending
  <2>. QED  BY <1>1, <2>1, Basics DEF Fits
<1>6. Inserting(queue', e, k)
  <2> DEFINE o == [op |-> "insert", e |-> e, k |-> k]
  <2>1. o \in Op /\ o.op = "insert" /\ o.e = e /\ o.k = k
    BY <1>4 DEF Op
  <2>2. queue' = Append(queue, o)
    BY <1>1 DEF Enqueue
  <2> HIDE DEF o
  <2>3. queue \in Seq(Op)
    BY DEF IInv, TypeOK
  <2>. QED  BY <2>1, <2>2, <2>3, Appended
<1>7. ~stale => Fits(m, table[e][k], n, queue', e, k)
  BY <1>3, <1>5, <1>6 DEF Fits
<1>. QED  BY <1>1, <1>2, <1>3, <1>4, <1>7, WriteKeeps

\* Something the user has: its model stays keyed or new.
LEMMA ChangeKeeps ==
    ASSUME IInv, NEW e \in Entity, NEW k \in Keys(e), NEW n \in -MaxAmount .. MaxAmount,
           Change(e, k, n), store[e][k].amount + n \in Amount
    PROVE  IInv'
<1> DEFINE m == [store[e][k] EXCEPT !.amount = @ + n]
           d == net[e][k] + n
<1>1. /\ step = "handling" /\ store[e] # Miss /\ store[e][k] # Absent
      /\ store' = [store EXCEPT ![e][k] = m] /\ net' = [net EXCEPT ![e][k] = d]
      /\ Enqueue("update", e, k)
      /\ UNCHANGED <<table, cache, groups, step, mirror, stale, misled>>
  BY DEF Change, doubts
<1>2. /\ store[e][k] \in Model /\ net[e][k] \in Int /\ n \in Int
  BY <1>1, UnitBoundsAssumption DEF IInv, TypeOK, Models
<1>3. m \in Model /\ m.keyed = store[e][k].keyed /\ m.amount = store[e][k].amount + n
  BY <1>2 DEF Model
<1>4. d = net[e][k] + n /\ d \in Int
  BY <1>2
<1> HIDE DEF m, d
<1>5. ASSUME ~stale PROVE Fits(m, table[e][k], d, queue', e, k)
  <2>1. Fits(store[e][k], table[e][k], net[e][k], queue, e, k)
    BY <1>1, <1>5 DEF IInv, PendingFits, Pending
  <2>2. /\ Queued(queue', e, k)
        /\ Inserting(queue', e, k) <=> Inserting(queue, e, k)
    <3> DEFINE o == [op |-> "update", e |-> e, k |-> k]
    <3>1. o \in Op /\ o.op = "update" /\ o.e = e /\ o.k = k
      BY DEF Op, Keys, Entity
    <3>2. queue' = Append(queue, o)
      BY <1>1 DEF Enqueue
    <3> HIDE DEF o
    <3>3. queue \in Seq(Op)
      BY DEF IInv, TypeOK
    <3>. QED  BY <3>1, <3>2, <3>3, Appended
  <2>3. CASE /\ store[e][k].keyed = TRUE /\ table[e][k] \in Amount
             /\ store[e][k].amount = table[e][k] + net[e][k] /\ ~Inserting(queue, e, k)
    <3>1. table[e][k] \in Int
      BY <2>3, UnitBoundsAssumption DEF Amount
    <3>2. m.amount = table[e][k] + d
      BY <1>2, <1>3, <1>4, <2>3, <3>1
    <3>. QED  BY <1>3, <2>2, <2>3, <3>2 DEF Fits
  <2>4. CASE /\ store[e][k].keyed = FALSE /\ table[e][k] = Absent
             /\ store[e][k].amount = net[e][k] /\ Inserting(queue, e, k)
    <3>1. m.amount = d
      BY <1>3, <1>4, <2>4
    <3>. QED  BY <1>3, <2>2, <2>4, <3>1 DEF Fits
  <2>. QED  BY <1>1, <2>1, <2>3, <2>4 DEF Fits
<1>. QED  BY <1>1, <1>3, <1>4, <1>5, WriteKeeps

LEMMA CallKeeps ==
    ASSUME IInv,
           \/ \E e \in Lists, k \in Key, n \in 1 .. MaxAmount :
                 AddNew(e, k, n) \/ AddMore(e, k, n) \/ Consume(e, k, n)
           \/ \E d \in Amount : SetDevice(d)
    PROVE  IInv'
<1> USE UnitBoundsAssumption
<1>1. ASSUME NEW e \in Lists, NEW k \in Key, NEW n \in 1 .. MaxAmount, AddNew(e, k, n)
      PROVE  IInv'
  BY <1>1, AddNewKeeps
<1>2. ASSUME NEW e \in Lists, NEW k \in Key, NEW n \in 1 .. MaxAmount,
             AddMore(e, k, n) \/ Consume(e, k, n)
      PROVE  IInv'
  <2>1. PICK z \in {n, -n} : Change(e, k, z) /\ (z = n => AddMore(e, k, n))
                                             /\ (z = -n => Consume(e, k, n))
    <3>1. n # -n
      OBVIOUS
    <3>. QED  BY <1>2, <3>1 DEF AddMore, Consume
  <2>2. e \in Entity /\ k \in Keys(e) /\ z \in -MaxAmount .. MaxAmount
    BY Basics
  <2>3. store[e][k].amount \in 0 .. MaxAmount
    BY <2>1, <2>2 DEF Change, IInv, TypeOK, Models, Model, Amount
  <2>4. store[e][k].amount + z \in Amount
    BY <2>1, <2>3 DEF AddMore, Consume, Amount
  <2>. QED  BY <2>1, <2>2, <2>4, ChangeKeeps
<1>3. ASSUME NEW d \in Amount, SetDevice(d) PROVE IInv'
  <2>1. PICK n \in -MaxAmount .. MaxAmount : Change(Account, Self, n)
                                             /\ store[Account][Self].amount + n = d
    BY <1>3 DEF SetDevice
  <2>. QED  BY <2>1, Basics, ChangeKeeps
<1>. QED  BY <1>1, <1>2, <1>3

\* The account of a new user: nobody can have known it.
LEMMA CreateNowKeeps == IInv /\ CreateNow => IInv'
<1> SUFFICES ASSUME IInv, CreateNow PROVE IInv'
  OBVIOUS
<1> DEFINE m == [amount |-> 0, keyed |-> TRUE]
           new == [k \in {Self} |-> m]
           row == [table[Account] EXCEPT ![Self] = 0]
<1>1. /\ step = "handling" /\ table[Account][Self] = Absent
      /\ table' = [table EXCEPT ![Account] = row] /\ store' = [store EXCEPT ![Account] = new]
      /\ touched' = touched \cup {<<Account, Self>>}
      /\ UNCHANGED <<cache, queue, groups, step, net, mirror, stale, misled>>
  BY DEF CreateNow, doubts
<1>2. cache[Account] = Miss /\ store[Account] = Miss /\ mirror[Account] = Miss
  BY <1>1 DEF IInv, AccountFits, MirrorFits
<1>3. /\ m \in Model /\ m.amount = 0 /\ m.keyed = TRUE /\ m # Absent /\ new[Self] = m
      /\ new \in Models(Account) /\ new # Miss
  <2>1. m \in Model
    BY Basics DEF Model
  <2>2. new \in Models(Account) /\ new[Self] = m
    BY <2>1, Basics DEF Models
  <2>. QED  BY <2>1, <2>2, Basics
<1>4. row \in Rows(Account) /\ row[Self] = 0 /\ 0 # Absent
  <2>1. table[Account] \in Rows(Account)
    BY Basics DEF IInv, TypeOK, Rows
  <2>. QED  BY <2>1, Basics DEF Rows
<1> HIDE DEF m, new, row
<1>5. /\ store' = [x \in Entity |-> store'[x]] /\ store'[Account] = new
      /\ \A x \in Entity : x # Account => store'[x] = store[x]
  BY <1>1, Basics, Put DEF IInv, Arrays
<1>6. /\ table' = [x \in Entity |-> table'[x]] /\ table'[Account] = row
      /\ \A x \in Entity : x # Account => table'[x] = table[x]
  BY <1>1, Basics, Put DEF IInv, Arrays
<1>7. Arrays'
  BY <1>1, <1>5, <1>6 DEF IInv, Arrays
<1>8. TypeOK'
  <2>1. touched' \subseteq Entity \X (Key \cup {Self})
    BY <1>1, Basics DEF IInv, TypeOK
  <2>. QED  BY <1>1, <1>3, <1>4, <1>5, <1>6, <2>1 DEF IInv, TypeOK, Rows
<1>9. QueueFits' /\ GroupsFit' /\ SettledFits'
  BY <1>1 DEF IInv, QueueFits, GroupsFit, SettledFits, Settled, Pending
<1>10. TouchedFits'
  <2>1. \A k \in Keys(Account) : k = Self
    BY Basics
  <2>. QED  BY <1>1, <1>3, <1>5, <2>1 DEF IInv, TouchedFits
<1>11. PendingFits'
  <2> SUFFICES ASSUME ~stale PROVE PendingFits'
    BY <1>1 DEF PendingFits
  <2>1. ~Queued(queue, Account, Self) /\ ~Inserting(queue, Account, Self)
    <3>1. <<Account, Self>> \notin touched
      BY <1>2, Basics DEF IInv, TouchedFits
    <3>. QED  BY <3>1 DEF IInv, QueueFits, Queued, Inserting
  <2>2. net[Account][Self] = 0
    BY <1>1, <1>2, Basics DEF IInv, PendingFits, Pending
  <2>3. Fits(new[Self], row[Self], net[Account][Self], queue, Account, Self)
    BY <1>3, <1>4, <2>1, <2>2, Basics DEF Fits
  <2>4. \A x \in Entity : x # Account =>
            \A k \in Keys(x) : IF store[x] = Miss THEN net[x][k] = 0
                               ELSE Fits(store[x][k], table[x][k], net[x][k], queue, x, k)
    BY <1>1 DEF IInv, PendingFits, Pending
  <2>5. \A k \in Keys(Account) : Fits(new[k], row[k], net[Account][k], queue, Account, k)
    BY <2>3, Basics
  <2>. QED  BY <1>1, <1>3, <1>5, <1>6, <2>4, <2>5 DEF PendingFits
<1>12. CacheFits'
  <2> SUFFICES ASSUME ~stale PROVE CacheFits'
    BY <1>1 DEF CacheFits
  <2>1. \A x \in Entity : cache[x] \in {Miss, Modeled(x, table[x])}
    BY <1>1 DEF IInv, CacheFits, Settled
  <2>2. \A x \in Entity : cache[x] \in {Miss, Modeled(x, table'[x])}
    BY <1>2, <1>6, <2>1
  <2>. QED  BY <1>1, <2>2 DEF CacheFits
<1>13. AccountFits' /\ StaleFits'
  BY <1>1, <1>4, <1>6 DEF IInv, AccountFits, StaleFits
<1>14. MirrorFits'
  <2>1. \A x \in Registered : mirror[x] # Miss => x # Account /\ x \in Entity
    BY <1>2, Basics
  <2>. QED  BY <1>1, <1>2, <1>6, <2>1 DEF IInv, MirrorFits
<1>. QED  BY <1>7, <1>8, <1>9, <1>10, <1>11, <1>12, <1>13, <1>14 DEF IInv

LEMMA AbandonKeeps == IInv /\ Abandon => IInv'
<1> SUFFICES ASSUME IInv, Abandon PROVE IInv'
  OBVIOUS
<1>1. /\ step = "handling" /\ step' = "idle"
      /\ UNCHANGED <<table, cache, store, queue, groups, net, touched, mirror, stale, misled>>
  BY DEF Abandon, doubts
<1>2. TypeOK' /\ Arrays' /\ QueueFits' /\ GroupsFit' /\ TouchedFits'
  BY <1>1 DEF IInv, TypeOK, Step, Arrays, QueueFits, GroupsFit, TouchedFits
<1>3. PendingFits' /\ SettledFits' /\ AccountFits'
  BY <1>1 DEF IInv, PendingFits, Pending, SettledFits, Settled, AccountFits
<1>4. CacheFits'
  BY <1>1 DEF IInv, CacheFits, Settled
<1>5. StaleFits' /\ MirrorFits'
  BY <1>1 DEF IInv, StaleFits, MirrorFits
<1>. QED  BY <1>2, <1>3, <1>4, <1>5 DEF IInv

-----------------------------------------------------------------------------
(* The commit begins *)

\* What has no queued operation is as it was loaded.
LEMMA Unqueued ==
    ASSUME IInv, ~stale, NEW e \in Entity, Pending(e), store[e] # Miss,
           \A k \in Keys(e) : ~Queued(queue, e, k)
    PROVE  store[e] = Modeled(e, table[e])
<1>1. table[e] \in Rows(e) /\ store[e] \in Models(e)
  BY DEF IInv, TypeOK, Rows
<1>2. ASSUME NEW k \in Keys(e) PROVE store[e][k] = Cell(table[e][k])
  <2>1. Fits(store[e][k], table[e][k], net[e][k], queue, e, k) /\ ~Queued(queue, e, k)
    BY DEF IInv, PendingFits
  <2>2. ~Inserting(queue, e, k)
    BY <2>1 DEF Queued, Inserting
  <2>3. CASE store[e][k] = Absent /\ table[e][k] = Absent
    BY <2>3 DEF Cell
  <2>4. CASE /\ store[e][k] \in Model /\ store[e][k].keyed = TRUE /\ table[e][k] \in Amount
             /\ store[e][k].amount = table[e][k] + net[e][k] /\ net[e][k] = 0
    <3>1. store[e][k].amount = table[e][k] /\ table[e][k] # Absent
      <4>1. table[e][k] \in Nat /\ table[e][k] # Absent
        BY <2>4, Basics
      <4>2. table[e][k] + 0 = table[e][k]
        BY <4>1
      <4>. QED  BY <2>4, <4>1, <4>2
    <3>2. store[e][k] = [amount |-> table[e][k], keyed |-> TRUE]
      BY <2>4, <3>1 DEF Model
    <3>. QED  BY <3>1, <3>2 DEF Cell
  <2>. QED  BY <2>1, <2>2, <2>3, <2>4 DEF Fits
<1>. QED  BY <1>1, <1>2, ModeledBy

LEMMA StartKeeps == IInv /\ StartCommit => IInv'
<1> SUFFICES ASSUME IInv, StartCommit PROVE IInv'
  OBVIOUS
<1>1. /\ step = "handling" /\ groups' = {Database(queue[i].e) : i \in DOMAIN queue}
      /\ step' = IF queue = <<>> THEN "publishing" ELSE "committing"
      /\ UNCHANGED <<table, cache, store, queue, net, touched, mirror, stale, misled>>
  BY DEF StartCommit, doubts
<1>2. TypeOK'
  <2>1. groups' \subseteq {"game", "shard"}
    BY <1>1, Basics DEF IInv, QueueFits
  <2>2. step' \in Step
    BY <1>1 DEF Step
  <2>. QED  BY <1>1, <2>1, <2>2 DEF IInv, TypeOK
<1>3. Arrays' /\ QueueFits' /\ TouchedFits' /\ AccountFits'
  BY <1>1 DEF IInv, Arrays, QueueFits, TouchedFits, AccountFits
<1>4. GroupsFit'
  <2>1. queue \in Seq(Op)
    BY DEF IInv, TypeOK
  <2>2. CASE queue = <<>>
    BY <1>1, <2>2 DEF GroupsFit
  <2>3. CASE queue # <<>>
    <3>1. 1 \in DOMAIN queue
      BY <2>1, <2>3
    <3>. QED  BY <1>1, <2>3, <3>1 DEF GroupsFit
  <2>. QED  BY <2>2, <2>3
<1>5. PendingFits'
  BY <1>1 DEF IInv, PendingFits, Pending
<1>6. SettledFits'
  <2> SUFFICES ASSUME ~stale, NEW e \in Entity, Settled(e)', store[e] # Miss
               PROVE  store[e] = Modeled(e, table[e])
    BY <1>1 DEF SettledFits
  <2>1. Database(e) \notin groups'
    <3>1. CASE queue = <<>>
      BY <1>1, <3>1
    <3>2. CASE queue # <<>>
      BY <1>1, <3>2 DEF Settled, Pending
    <3>. QED  BY <3>1, <3>2
  <2>2. \A k \in Keys(e) : ~Queued(queue, e, k)
    BY <1>1, <2>1 DEF Queued
  <2>. QED  BY <1>1, <2>2, Unqueued DEF Pending
<1>7. CacheFits'
  <2>1. ~stale => \A x \in Entity : cache[x] \in {Miss, Modeled(x, table[x])}
    BY <1>1 DEF IInv, CacheFits, Settled
  <2>. QED  BY <1>1, <2>1 DEF CacheFits
<1>8. StaleFits' /\ MirrorFits'
  BY <1>1 DEF IInv, StaleFits, MirrorFits
<1>. QED  BY <1>2, <1>3, <1>4, <1>5, <1>6, <1>7, <1>8 DEF IInv

-----------------------------------------------------------------------------
(* After the transactions *)

\* SetMulti, whole or not at all; Publish goes on to the answer.
LEMMA PublishKeeps == IInv /\ (Publish \/ PublishFails) => IInv'
<1> SUFFICES ASSUME IInv, Publish \/ PublishFails PROVE IInv'
  OBVIOUS
<1>1. /\ step = "publishing"
      /\ SetMulti \/ (cache' = cache /\ step' = "invalidating")
      /\ step' \in {"reply", "invalidating"}
      /\ UNCHANGED <<table, store, queue, groups, net, touched, mirror, stale, misled>>
  BY DEF Publish, PublishFails, doubts
<1>2. /\ cache' = [e \in Entity |-> cache'[e]]
      /\ \A e \in Entity : cache'[e] = cache[e] \/ (store[e] # Miss /\ cache'[e] = store[e])
  BY <1>1 DEF SetMulti, IInv, Arrays
<1>3. TypeOK' /\ Arrays'
  BY <1>1, <1>2 DEF IInv, TypeOK, Step, Arrays
<1>4. QueueFits' /\ GroupsFit' /\ TouchedFits'
  BY <1>1 DEF IInv, QueueFits, GroupsFit, TouchedFits
<1>5. PendingFits' /\ SettledFits'
  BY <1>1 DEF IInv, PendingFits, Pending, SettledFits, Settled
<1>6. CacheFits'
  <2>1. CASE step' = "invalidating"
    BY <2>1 DEF CacheFits
  <2>2. CASE step' = "reply"
    <3> SUFFICES ASSUME ~stale, NEW e \in Entity
                 PROVE  cache'[e] \in {Miss, Modeled(e, table[e])}
      BY <1>1 DEF CacheFits
    <3>1. CASE store[e] = Miss
      <4>1. cache'[e] = cache[e]
        BY <1>2, <3>1
      <4>. QED  BY <1>1, <3>1, <4>1 DEF IInv, CacheFits
    <3>2. CASE store[e] # Miss
      <4>1. cache'[e] = store[e]
        BY <1>1, <2>2, <3>2 DEF SetMulti
      <4>2. store[e] = Modeled(e, table[e])
        BY <1>1, <3>2 DEF IInv, SettledFits, Settled, Pending
      <4>. QED  BY <4>1, <4>2
    <3>. QED  BY <3>1, <3>2
  <2>. QED  BY <1>1, <2>1, <2>2
<1>7. AccountFits'
  <2>1. cache'[Account] # Miss => cache[Account] # Miss \/ store[Account] # Miss
    BY <1>2, Basics
  <2>. QED  BY <1>1, <2>1 DEF IInv, AccountFits
<1>8. StaleFits' /\ MirrorFits'
  BY <1>1 DEF IInv, StaleFits, MirrorFits
<1>. QED  BY <1>3, <1>4, <1>5, <1>6, <1>7, <1>8 DEF IInv

\* DeleteAll: nothing is cached, or what is cached is doubtful, and the client fetches anew.
LEMMA InvalidateKeeps == IInv /\ (Invalidate \/ CacheExpires) => IInv'
<1> SUFFICES ASSUME IInv, Invalidate \/ CacheExpires PROVE IInv'
  OBVIOUS
<1>1. /\ \/ cache' = [e \in Entity |-> Miss] /\ stale' = stale
         \/ cache' = cache /\ stale' = TRUE
      /\ \/ /\ mirror' = [e \in Entity |-> Miss] /\ misled' = {}
            /\ step = "invalidating" /\ step' = "idle"
         \/ UNCHANGED <<mirror, misled, step, stale>> /\ cache' = [e \in Entity |-> Miss]
      /\ UNCHANGED <<table, store, queue, groups, net, touched>>
  BY DEF Invalidate, CacheExpires, Nothing, doubts
<1>2. \A e \in Entity : /\ cache'[e] \in {Miss, cache[e]} /\ (~stale' => cache'[e] = Miss)
                        /\ mirror'[e] \in {Miss, mirror[e]}
  BY <1>1
<1>3. Arrays'
  BY <1>1 DEF IInv, Arrays
<1>4. TypeOK'
  <2>1. stale' \in BOOLEAN /\ misled' \subseteq Entity /\ step' \in Step
    BY <1>1 DEF IInv, TypeOK, Step
  <2>. QED  BY <1>1, <1>2, <2>1 DEF IInv, TypeOK
<1>5. QueueFits' /\ GroupsFit' /\ TouchedFits' /\ CacheFits'
  BY <1>1, <1>2 DEF IInv, QueueFits, GroupsFit, TouchedFits, CacheFits
<1>6. PendingFits' /\ SettledFits'
  BY <1>1 DEF IInv, PendingFits, Pending, SettledFits, Settled
<1>7. AccountFits'
  BY <1>1, <1>2, Basics DEF IInv, AccountFits
<1>8. StaleFits' /\ MirrorFits'
  <2>1. CASE mirror' = [e \in Entity |-> Miss]
    BY <2>1, Basics DEF StaleFits, MirrorFits
  <2>2. CASE UNCHANGED <<mirror, misled, step, stale>>
    BY <1>1, <2>2 DEF IInv, StaleFits, MirrorFits
  <2>. QED  BY <1>1, <2>1, <2>2
<1>. QED  BY <1>3, <1>4, <1>5, <1>6, <1>7, <1>8 DEF IInv

\* The answer: lists, and the changed models among the registered ones.
LEMMA ReplyKeeps == IInv /\ Reply => IInv'
<1> SUFFICES ASSUME IInv, Reply PROVE IInv'
  OBVIOUS
<1>1. PICK fetched \in SUBSET {e \in Lists : store[e] # Miss} :
          /\ mirror' = [e \in Entity |-> IF e \in fetched THEN RowsOf(e, store[e])
                                                          ELSE Synced(e)]
          /\ misled' = IF stale THEN Entity ELSE misled \ fetched
  BY DEF Reply
<1>2. /\ step = "reply" /\ step' = "idle"
      /\ UNCHANGED <<table, cache, store, queue, groups, net, touched, stale>>
  BY DEF Reply
<1>3. ~stale => \A e \in Entity : store[e] # Miss => store[e] = Modeled(e, table[e])
  BY <1>2 DEF IInv, SettledFits, Settled, Pending
<1>4. \A e \in Entity : e \in fetched => store[e] # Miss /\ e # Account
  BY Basics
<1>5. \A e \in Entity : e \notin fetched => mirror'[e] = Synced(e)
  BY <1>1
<1>6. ASSUME NEW e \in Entity
      PROVE  mirror'[e] \in {Miss} \cup Rows(e) /\ (e = Account => mirror'[e] = Miss)
  <2>1. table[e] \in Rows(e) /\ mirror[e] \in {Miss} \cup Rows(e) /\ mirror[Account] = Miss
    BY DEF IInv, TypeOK, Rows, MirrorFits
  <2>2. CASE e \in fetched
    <3>1. mirror'[e] = RowsOf(e, store[e]) /\ store[e] \in Models(e) /\ e # Account
      BY <1>1, <1>4, <2>2 DEF IInv, TypeOK
    <3>2. RowsOf(e, store[e]) \in Rows(e)
      BY <3>1 DEF RowsOf, Rows, Models, Model
    <3>. QED  BY <3>1, <3>2
  <2>3. CASE e \notin fetched /\ (mirror[e] = Miss \/ e \notin Registered)
    BY <1>5, <2>1, <2>3 DEF Synced
  <2>4. CASE e \notin fetched /\ mirror[e] # Miss /\ e \in Registered
    <3>1. mirror'[e] = [k \in Keys(e) |-> IF <<e, k>> \in touched THEN store[e][k].amount
                                                                  ELSE mirror[e][k]]
      BY <1>5, <2>4 DEF Synced
    <3>2. ASSUME NEW k \in Keys(e), <<e, k>> \in touched PROVE store[e][k].amount \in Amount
      <4>1. store[e] # Miss /\ store[e][k] # Absent
        BY <3>2 DEF IInv, TouchedFits
      <4>2. store[e][k] \in Model
        BY <4>1 DEF IInv, TypeOK, Models
      <4>. QED  BY <4>2 DEF Model
    <3>3. \A k \in Keys(e) : mirror[e][k] \in {Absent} \cup Amount
      BY <2>1, <2>4 DEF Rows
    <3>. QED  BY <2>1, <2>4, <3>1, <3>2, <3>3 DEF Rows
  <2>. QED  BY <2>2, <2>3, <2>4
<1>7. ASSUME ~stale, NEW e \in Registered \ misled', mirror'[e] # Miss
      PROVE  mirror'[e] = table[e]
  <2>1. e \in Entity /\ table[e] \in Rows(e)
    BY Basics DEF IInv, TypeOK, Rows
  <2>2. CASE e \in fetched
    <3>1. mirror'[e] = RowsOf(e, store[e]) /\ store[e] = Modeled(e, table[e])
      BY <1>1, <1>3, <1>4, <1>7, <2>1, <2>2
    <3>. QED  BY <2>1, <3>1, ModeledIs
  <2>3. CASE e \notin fetched
    <3>1. /\ mirror'[e] = Synced(e) /\ e \in Registered \ misled /\ mirror[e] # Miss
      BY <1>1, <1>5, <1>7, <2>1, <2>3 DEF Synced
    <3>2. mirror'[e] = [k \in Keys(e) |-> IF <<e, k>> \in touched THEN store[e][k].amount
                                                                  ELSE mirror[e][k]]
      BY <3>1 DEF Synced
    <3>3. ASSUME NEW k \in Keys(e)
          PROVE  (IF <<e, k>> \in touched THEN store[e][k].amount ELSE mirror[e][k])
                     = table[e][k]
      <4>1. CASE <<e, k>> \notin touched
        BY <1>2, <3>1, <4>1 DEF IInv, MirrorFits
      <4>2. CASE <<e, k>> \in touched
        <5>1. store[e] # Miss /\ store[e][k] # Absent
          BY <2>1, <4>2 DEF IInv, TouchedFits
        <5>2. store[e][k] = Cell(table[e][k])
          BY <1>3, <1>7, <2>1, <5>1, ModeledIs
        <5>. QED  BY <4>2, <5>1, <5>2 DEF Cell
      <4>. QED  BY <4>1, <4>2
    <3>4. table[e] = [k \in Keys(e) |-> table[e][k]]
      BY <2>1 DEF Rows
    <3>. QED  BY <3>2, <3>3, <3>4
  <2>. QED  BY <2>2, <2>3
<1>8. Arrays'
  BY <1>1, <1>2 DEF IInv, Arrays
<1>9. TypeOK'
  <2>1. misled' \subseteq Entity
    BY <1>1 DEF IInv, TypeOK
  <2>. QED  BY <1>2, <1>6, <2>1 DEF IInv, TypeOK, Step, Rows
<1>10. QueueFits' /\ GroupsFit' /\ TouchedFits' /\ AccountFits'
  BY <1>2 DEF IInv, QueueFits, GroupsFit, TouchedFits, AccountFits
<1>11. PendingFits' /\ SettledFits'
  BY <1>2 DEF IInv, PendingFits, Pending, SettledFits, Settled
<1>12. CacheFits' /\ StaleFits'
  BY <1>1, <1>2 DEF IInv, CacheFits, Settled, Pending, StaleFits
<1>13. MirrorFits'
  <2>1. \A e \in Registered \ misled' : mirror'[e] # Miss => mirror'[e] = table[e]
    <3>1. stale => Registered \ misled' = {}
      BY <1>1, Basics
    <3>. QED  BY <1>7, <3>1
  <2>. QED  BY <1>2, <1>6, <2>1, Basics DEF MirrorFits
<1>. QED  BY <1>8, <1>9, <1>10, <1>11, <1>12, <1>13 DEF IInv

-----------------------------------------------------------------------------
(* What a transaction does: the operations of the queue one after the other *)

\* The least counterexample stands for induction.
LEMMA Least ==
    ASSUME NEW S, S \subseteq Nat, S # {}
    PROVE  \E m \in S : \A n \in S : m <= n
<1>1. PICK m \in S : \A n \in S : <<n, m>> \notin OpToRel(<, Nat)
  BY WFMin, NatLessThanWellFounded, Zenon
<1>2. \A n \in S : ~(n < m)
  BY <1>1, Zenon DEF OpToRel
<1>. QED  BY <1>2

\* The definition of Run has a solution.
LEMMA RunIs ==
    ASSUME queue \in Seq(Op)
    PROVE  /\ Run[0] = [tbl |-> table, str |-> store]
           /\ \A i \in 1 .. Len(queue) : Run[i] = Perform(Run[i - 1], queue[i])
<1> DEFINE n == Len(queue)
           base == [tbl |-> table, str |-> store]
           Next1(s, i) == Perform(s, queue[i])
           Solves(f, m) == f = [i \in 0 .. m |-> IF i = 0 THEN base ELSE Next1(f[i - 1], i)]
           Bad == {m \in 0 .. n : ~\E f : Solves(f, m)}
<1>1. n \in Nat
  OBVIOUS
<1>2. Run = CHOOSE f : Solves(f, n)
  BY DEF Run
<1> HIDE DEF n, base, Next1
<1>3. ASSUME Bad # {} PROVE FALSE
  <2>1. PICK m \in Bad : \A j \in Bad : m <= j
    <3>1. Bad \subseteq Nat
      BY <1>1
    <3> HIDE DEF Bad
    <3>. QED  BY <1>3, <3>1, Least
  <2>2. CASE m = 0
    <3> DEFINE f == [i \in 0 .. 0 |-> base]
    <3>1. Solves(f, m)
      BY <2>2
    <3>. QED  BY <2>1, <3>1
  <2>3. CASE m # 0
    <3>1. m \in 0 .. n /\ m - 1 \in 0 .. n /\ m - 1 \notin Bad
      <4>1. Bad \subseteq 0 .. n
        OBVIOUS
      <4> HIDE DEF Bad
      <4>2. m \in 0 .. n /\ m - 1 \in 0 .. n /\ ~(m <= m - 1)
        BY <1>1, <2>1, <2>3, <4>1
      <4>. QED  BY <2>1, <4>2
    <3>2. PICK f : Solves(f, m - 1)
      BY <3>1
    <3> DEFINE g == [i \in 0 .. m |-> IF i = m THEN Next1(f[m - 1], m) ELSE f[i]]
    <3>3. ASSUME NEW i \in 0 .. m
          PROVE  g[i] = IF i = 0 THEN base ELSE Next1(g[i - 1], i)
      <4>1. CASE i = 0
        <5>1. 0 \in 0 .. (m - 1) /\ i # m
          BY <1>1, <2>3, <3>1, <4>1
        <5>2. f[0] = base
          BY <3>2, <5>1
        <5>. QED  BY <4>1, <5>1, <5>2
      <4>2. CASE i # 0 /\ i # m
        <5>1. i \in 0 .. (m - 1) /\ i - 1 \in 0 .. m /\ i - 1 # m
          BY <1>1, <3>1, <4>2
        <5>2. f[i] = Next1(f[i - 1], i)
          BY <3>2, <4>2, <5>1
        <5>3. g[i] = f[i] /\ g[i - 1] = f[i - 1]
          BY <4>2, <5>1
        <5>. QED  BY <4>2, <5>2, <5>3
      <4>3. CASE i = m
        <5>1. m - 1 \in 0 .. m /\ m - 1 # m /\ m \in 0 .. m
          BY <1>1, <2>3, <3>1
        <5>2. g[m] = Next1(f[m - 1], m) /\ g[m - 1] = f[m - 1]
          BY <5>1
        <5>. QED  BY <2>3, <4>3, <5>2
      <4>. QED  BY <4>1, <4>2, <4>3
    <3>4. g = [i \in 0 .. m |-> g[i]]
      OBVIOUS
    <3> HIDE DEF g
    <3>5. Solves(g, m)
      BY <3>3, <3>4
    <3>. QED  BY <2>1, <3>5
  <2>. QED  BY <2>2, <2>3
<1>4. \E f : Solves(f, n)
  BY <1>1, <1>3
<1>5. Solves(Run, n)
  <2> HIDE DEF Solves
  <2>. QED  BY <1>2, <1>4, Zenon
<1>6. \A i \in 0 .. n : Run[i] = IF i = 0 THEN base ELSE Next1(Run[i - 1], i)
  <2>1. PICK r : r = Run
    OBVIOUS
  <2>2. r = [i \in 0 .. n |-> IF i = 0 THEN base ELSE Next1(r[i - 1], i)]
    BY <1>5, <2>1
  <2>3. \A i \in 0 .. n : r[i] = IF i = 0 THEN base ELSE Next1(r[i - 1], i)
    BY <2>2
  <2>. QED  BY <2>1, <2>3
<1>7. 0 \in 0 .. n /\ \A i \in 1 .. n : i \in 0 .. n /\ i # 0
  BY <1>1
<1>. QED  BY <1>6, <1>7 DEF n, base, Next1

\* The first i operations of the transaction insert the row, or are about it.
InsBy(i, e, k) ==
    /\ Database(e) = Turn
    /\ \E j \in 1 .. i : queue[j].op = "insert" /\ queue[j].e = e /\ queue[j].k = k
QueBy(i, e, k) ==
    Database(e) = Turn /\ \E j \in 1 .. i : queue[j].e = e /\ queue[j].k = k

\* What i operations make of the model m and its row v: m2 and v2.
CellRan(m, v, m2, v2, i, e, k) ==
    IF m = Absent THEN m2 = m /\ v2 = v
    ELSE /\ m2 = IF InsBy(i, e, k) THEN [m EXCEPT !.keyed = TRUE] ELSE m
         /\ v2 = IF InsBy(i, e, k) \/ (QueBy(i, e, k) /\ m.keyed = TRUE) THEN m.amount ELSE v
EntityRan(t, s, i, e) ==
    IF store[e] = Miss THEN t = table[e] /\ s = Miss
    ELSE /\ t \in Rows(e) /\ s \in Models(e)
         /\ \A k \in Keys(e) : CellRan(store[e][k], table[e][k], s[k], t[k], i, e, k)
Ran(t, s, i) ==
    /\ t = [e \in Entity |-> t[e]] /\ s = [e \in Entity |-> s[e]]
    /\ \A e \in Entity : EntityRan(t[e], s[e], i, e)

\* One operation more.
LEMMA MoreRan ==
    ASSUME IInv, NEW i \in 1 .. Len(queue)
    PROVE  /\ queue[i] \in Op /\ queue[i].e \in Entity /\ queue[i].k \in Keys(queue[i].e)
           /\ store[queue[i].e] # Miss /\ store[queue[i].e] \in Models(queue[i].e)
           /\ store[queue[i].e][queue[i].k] \in Model
           /\ \A e, k : InsBy(i, e, k) <=>
                  \/ InsBy(i - 1, e, k)
                  \/ /\ Database(e) = Turn /\ queue[i].op = "insert"
                     /\ queue[i].e = e /\ queue[i].k = k
           /\ \A e, k : QueBy(i, e, k) <=>
                  \/ QueBy(i - 1, e, k)
                  \/ Database(e) = Turn /\ queue[i].e = e /\ queue[i].k = k
<1>1. queue \in Seq(Op) /\ Len(queue) \in Nat /\ DOMAIN queue = 1 .. Len(queue)
  BY DEF IInv, TypeOK
<1>2. /\ queue[i] \in Op /\ queue[i].e \in Entity /\ queue[i].k \in Keys(queue[i].e)
      /\ <<queue[i].e, queue[i].k>> \in touched
  BY <1>1 DEF IInv, QueueFits
<1>3. store[queue[i].e] # Miss /\ store[queue[i].e][queue[i].k] # Absent
  BY <1>2 DEF IInv, TouchedFits
<1>4. store[queue[i].e] \in Models(queue[i].e)
  BY <1>2, <1>3 DEF IInv, TypeOK
<1>5. store[queue[i].e][queue[i].k] \in Model
  BY <1>2, <1>3, <1>4 DEF Models
<1>6. 1 .. i = (1 .. (i - 1)) \cup {i}
  BY <1>1
<1>7. \A e, k : InsBy(i, e, k) <=>
                  \/ InsBy(i - 1, e, k)
                  \/ /\ Database(e) = Turn /\ queue[i].op = "insert"
                     /\ queue[i].e = e /\ queue[i].k = k
  BY <1>6 DEF InsBy
<1>8. \A e, k : QueBy(i, e, k) <=>
                  \/ QueBy(i - 1, e, k)
                  \/ Database(e) = Turn /\ queue[i].e = e /\ queue[i].k = k
  BY <1>6 DEF QueBy
<1>. QED  BY <1>2, <1>3, <1>4, <1>5, <1>7, <1>8

\* The rows and models of other entities and other keys stay.
OnlyAt(e0, k0, t, s, t2, s2) ==
    /\ t2 = [e \in Entity |-> t2[e]] /\ s2 = [e \in Entity |-> s2[e]]
    /\ \A e \in Entity \ {e0} : t2[e] = t[e] /\ s2[e] = s[e]
    /\ t2[e0] \in Rows(e0) /\ s2[e0] \in Models(e0)
    /\ \A k \in Keys(e0) \ {k0} : t2[e0][k] = t[e0][k] /\ s2[e0][k] = s[e0][k]

LEMMA OthersRan ==
    ASSUME IInv, NEW i \in 1 .. Len(queue), NEW h, h = i - 1, NEW t, NEW s, Ran(t, s, h),
           NEW t2, NEW s2, NEW e0, NEW k0, e0 = queue[i].e, k0 = queue[i].k,
           OnlyAt(e0, k0, t, s, t2, s2),
           CellRan(store[e0][k0], table[e0][k0], s2[e0][k0], t2[e0][k0], i, e0, k0)
    PROVE  Ran(t2, s2, i)
<1>1. e0 \in Entity /\ k0 \in Keys(e0) /\ store[e0] # Miss
  BY MoreRan
<1>2. ASSUME NEW e, NEW k, e # e0 \/ k # k0
      PROVE  (InsBy(i, e, k) <=> InsBy(h, e, k)) /\ (QueBy(i, e, k) <=> QueBy(h, e, k))
  <2>1. ~(queue[i].e = e /\ queue[i].k = k)
    BY <1>2
  <2>2. InsBy(i, e, k) <=> InsBy(i - 1, e, k)
    BY <2>1, MoreRan
  <2>3. QueBy(i, e, k) <=> QueBy(i - 1, e, k)
    BY <2>1, MoreRan
  <2>. QED  BY <2>2, <2>3
<1>3. ASSUME NEW e \in Entity, NEW k, e # e0 \/ k # k0, NEW m, NEW v, NEW m2, NEW v2,
             CellRan(m, v, m2, v2, h, e, k)
      PROVE  CellRan(m, v, m2, v2, i, e, k)
  <2>1. (InsBy(i, e, k) <=> InsBy(h, e, k)) /\ (QueBy(i, e, k) <=> QueBy(h, e, k))
    BY <1>2, <1>3
  <2>. QED  BY <1>3, <2>1 DEF CellRan
<1>4. ASSUME NEW e \in Entity, e # e0 PROVE EntityRan(t2[e], s2[e], i, e)
  <2>1. t2[e] = t[e] /\ s2[e] = s[e] /\ EntityRan(t[e], s[e], h, e)
    BY <1>4 DEF Ran, OnlyAt
  <2>2. \A k \in Keys(e) : CellRan(store[e][k], table[e][k], s[e][k], t[e][k], h, e, k)
                        => CellRan(store[e][k], table[e][k], s[e][k], t[e][k], i, e, k)
    BY <1>3, <1>4
  <2>. QED  BY <2>1, <2>2 DEF EntityRan
<1>5. EntityRan(t2[e0], s2[e0], i, e0)
  <2>1. EntityRan(t[e0], s[e0], h, e0)
    BY <1>1 DEF Ran
  <2>2. ASSUME NEW k \in Keys(e0), k # k0
        PROVE  CellRan(store[e0][k], table[e0][k], s2[e0][k], t2[e0][k], i, e0, k)
    <3>1. t2[e0][k] = t[e0][k] /\ s2[e0][k] = s[e0][k]
      BY <2>2 DEF OnlyAt
    <3>2. CellRan(store[e0][k], table[e0][k], s[e0][k], t[e0][k], h, e0, k)
      BY <1>1, <2>1, <2>2 DEF EntityRan
    <3>3. CellRan(store[e0][k], table[e0][k], s[e0][k], t[e0][k], i, e0, k)
      BY <1>1, <1>3, <2>2, <3>2
    <3>. QED  BY <3>1, <3>3
  <2>3. t2[e0] \in Rows(e0) /\ s2[e0] \in Models(e0)
    BY DEF OnlyAt
  <2>4. ASSUME NEW k \in Keys(e0)
        PROVE  CellRan(store[e0][k], table[e0][k], s2[e0][k], t2[e0][k], i, e0, k)
    BY <2>2, <2>4
  <2>. QED  BY <1>1, <2>3, <2>4 DEF EntityRan
<1>. QED  BY <1>1, <1>4, <1>5 DEF Ran, OnlyAt

LEMMA StepRan ==
    ASSUME IInv, NEW i \in 1 .. Len(queue), NEW t, NEW s, Ran(t, s, i - 1)
    PROVE  \E t2, s2 : /\ Perform([tbl |-> t, str |-> s], queue[i]) = [tbl |-> t2, str |-> s2]
                       /\ Ran(t2, s2, i)
<1> DEFINE o == queue[i]
           r == [tbl |-> t, str |-> s]
<1>1. PICK e0 \in Entity : e0 = o.e /\ store[e0] # Miss /\ store[e0] \in Models(e0)
  BY MoreRan
<1>2. PICK k0 \in Keys(e0) : k0 = o.k
  BY <1>1, MoreRan
<1>3. PICK m \in Model : m = store[e0][k0]
  BY <1>1, <1>2, MoreRan
<1>4. o \in Op /\ \E h : h = i - 1 /\ Ran(t, s, h)
  BY MoreRan
<1>5. /\ t[e0] \in Rows(e0) /\ s[e0] \in Models(e0) /\ m # Absent
      /\ CellRan(m, table[e0][k0], s[e0][k0], t[e0][k0], i - 1, e0, k0)
      /\ t = [e \in Entity |-> t[e]] /\ s = [e \in Entity |-> s[e]]
  BY <1>1, <1>2, <1>3, Basics DEF Ran, EntityRan
<1>6. /\ s[e0][k0] \in Model /\ s[e0][k0].amount = m.amount /\ m.amount \in Amount
      /\ s[e0][k0].keyed = IF InsBy(i - 1, e0, k0) THEN TRUE ELSE m.keyed
  BY <1>3, <1>5 DEF CellRan, Model
<1>7. /\ InsBy(i, e0, k0) <=> InsBy(i - 1, e0, k0) \/ (Database(e0) = Turn /\ o.op = "insert")
      /\ QueBy(i, e0, k0) <=> QueBy(i - 1, e0, k0) \/ Database(e0) = Turn
  BY <1>1, <1>2, MoreRan
<1> DEFINE t2 == [t EXCEPT ![e0][k0] = s[e0][k0].amount]
           s2 == [s EXCEPT ![e0][k0].keyed = TRUE]
           m2 == [s[e0][k0] EXCEPT !.keyed = TRUE]
           row == [t[e0] EXCEPT ![k0] = s[e0][k0].amount]
           models == [s[e0] EXCEPT ![k0] = m2]
<1>8. /\ t2 = [e \in Entity |-> t2[e]] /\ t2[e0] = row
      /\ \A e \in Entity \ {e0} : t2[e] = t[e]
  BY <1>5, Put
<1>9. /\ s2 = [e \in Entity |-> s2[e]] /\ s2[e0] = models
      /\ \A e \in Entity \ {e0} : s2[e] = s[e]
  <2>1. s2 = [s EXCEPT ![e0] = models]
    OBVIOUS
  <2> HIDE DEF s2, models
  <2>. QED  BY <1>5, <2>1, Put
<1>10. m2 \in Model /\ m2 = [m EXCEPT !.keyed = TRUE]
  <2>1. s[e0][k0] = IF InsBy(i - 1, e0, k0) THEN [m EXCEPT !.keyed = TRUE] ELSE m
    BY <1>5 DEF CellRan
  <2>. QED  BY <2>1 DEF Model
<1>11. /\ row \in Rows(e0) /\ row[k0] = m.amount
       /\ \A k \in Keys(e0) \ {k0} : row[k] = t[e0][k]
  BY <1>5, <1>6 DEF Rows
<1>12. /\ models \in Models(e0) /\ models[k0] = m2
       /\ \A k \in Keys(e0) \ {k0} : models[k] = s[e0][k]
  <2> HIDE DEF m2
  <2>. QED  BY <1>5, <1>10 DEF Models
<1>13. CASE Database(e0) # Turn
  <2>1. Perform(r, o) = r
    BY <1>1, <1>13 DEF Perform
  <2>2. CellRan(m, table[e0][k0], s[e0][k0], t[e0][k0], i, e0, k0)
    BY <1>5, <1>7, <1>13 DEF CellRan
  <2>3. OnlyAt(e0, k0, t, s, t, s)
    BY <1>5 DEF OnlyAt
  <2>4. Ran(t, s, i)
    BY <1>1, <1>2, <1>3, <1>4, <2>2, <2>3, OthersRan
  <2>. QED  BY <2>1, <2>4
<1>14. CASE Database(e0) = Turn /\ o.op = "insert"
  <2>1. Perform(r, o) = [tbl |-> t2, str |-> s2]
    <3>1. Perform(r, o) = Insert(r, o)
      BY <1>1, <1>14 DEF Perform
    <3>. QED  BY <1>1, <1>2, <3>1 DEF Insert
  <2> HIDE DEF t2, s2, row, models, m2
  <2>2. CellRan(m, table[e0][k0], s2[e0][k0], t2[e0][k0], i, e0, k0)
    BY <1>5, <1>7, <1>8, <1>9, <1>10, <1>11, <1>12, <1>14 DEF CellRan
  <2>3. OnlyAt(e0, k0, t, s, t2, s2)
    BY <1>8, <1>9, <1>11, <1>12 DEF OnlyAt
  <2>4. Ran(t2, s2, i)
    BY <1>1, <1>2, <1>3, <1>4, <2>2, <2>3, OthersRan
  <2>. QED  BY <2>1, <2>4
<1>15. CASE Database(e0) = Turn /\ o.op # "insert" /\ s[e0][k0].keyed = TRUE
  <2>1. Perform(r, o) = [tbl |-> t2, str |-> s]
    <3>1. Perform(r, o) = Save(r, o)
      BY <1>1, <1>15 DEF Perform
    <3>. QED  BY <1>1, <1>2, <1>15, <3>1 DEF Save
  <2> HIDE DEF t2, row
  <2>2. CellRan(m, table[e0][k0], s[e0][k0], t2[e0][k0], i, e0, k0)
    BY <1>5, <1>6, <1>7, <1>8, <1>11, <1>15 DEF CellRan
  <2>3. OnlyAt(e0, k0, t, s, t2, s)
    BY <1>5, <1>8, <1>11 DEF OnlyAt
  <2>4. Ran(t2, s, i)
    BY <1>1, <1>2, <1>3, <1>4, <2>2, <2>3, OthersRan
  <2>. QED  BY <2>1, <2>4
<1>16. CASE Database(e0) = Turn /\ o.op # "insert" /\ s[e0][k0].keyed = FALSE
  <2>1. Perform(r, o) = r
    <3>1. Perform(r, o) = Save(r, o)
      BY <1>1, <1>16 DEF Perform
    <3>. QED  BY <1>1, <1>2, <1>16, <3>1 DEF Save
  <2>2. CellRan(m, table[e0][k0], s[e0][k0], t[e0][k0], i, e0, k0)
    BY <1>5, <1>6, <1>7, <1>16 DEF CellRan
  <2>3. OnlyAt(e0, k0, t, s, t, s)
    BY <1>5 DEF OnlyAt
  <2>4. Ran(t, s, i)
    BY <1>1, <1>2, <1>3, <1>4, <2>2, <2>3, OthersRan
  <2>. QED  BY <2>1, <2>4
<1>17. s[e0][k0].keyed \in BOOLEAN
  BY <1>6 DEF Model
<1>. QED  BY <1>13, <1>14, <1>15, <1>16, <1>17

\* A whole transaction.
LEMMA AllRan ==
    ASSUME IInv
    PROVE  Ran(Done.tbl, Done.str, Len(queue))
<1> DEFINE n == Len(queue)
           Good(i) == \E t, s : Run[i] = [tbl |-> t, str |-> s] /\ Ran(t, s, i)
           Bad == {i \in 0 .. n : ~Good(i)}
<1>1. queue \in Seq(Op) /\ n \in Nat
  BY DEF IInv, TypeOK
<1>2. Good(0)
  <2>1. Run[0] = [tbl |-> table, str |-> store]
    BY <1>1, RunIs
  <2>2. ASSUME NEW e \in Entity PROVE EntityRan(table[e], store[e], 0, e)
    <3>1. \A k : ~InsBy(0, e, k) /\ ~QueBy(0, e, k)
      BY DEF InsBy, QueBy
    <3>2. \A k \in Keys(e) :
             CellRan(store[e][k], table[e][k], store[e][k], table[e][k], 0, e, k)
      BY <3>1 DEF CellRan
    <3>3. table[e] \in Rows(e) /\ store[e] \in {Miss} \cup Models(e)
      BY DEF IInv, TypeOK, Rows
    <3>. QED  BY <3>2, <3>3 DEF EntityRan
  <2>3. Ran(table, store, 0)
    BY <2>2 DEF Ran, IInv, Arrays
  <2>. QED  BY <2>1, <2>3
<1>3. ASSUME NEW i \in 1 .. n, Good(i - 1) PROVE Good(i)
  <2>1. PICK t, s : Run[i - 1] = [tbl |-> t, str |-> s] /\ Ran(t, s, i - 1)
    BY <1>3
  <2>2. Run[i] = Perform(Run[i - 1], queue[i])
    BY <1>1, RunIs
  <2>3. PICK t2, s2 : /\ Perform([tbl |-> t, str |-> s], queue[i]) = [tbl |-> t2, str |-> s2]
                      /\ Ran(t2, s2, i)
    BY <2>1, StepRan
  <2>. QED  BY <2>1, <2>2, <2>3
<1> HIDE DEF Good
<1>4. ASSUME Bad # {} PROVE FALSE
  <2>1. Bad \subseteq 0 .. n /\ \A i \in 0 .. n : i \notin Bad => Good(i)
    OBVIOUS
  <2>2. \A i \in Bad : ~Good(i)
    OBVIOUS
  <2> HIDE DEF Bad
  <2>3. PICK i \in Bad : \A j \in Bad : i <= j
    <3>1. Bad \subseteq Nat
      BY <1>1, <2>1
    <3>. QED  BY <1>4, <3>1, Least
  <2>4. i # 0
    BY <1>2, <2>2
  <2>5. i \in 1 .. n /\ i - 1 \in 0 .. n /\ ~(i <= i - 1)
    BY <1>1, <2>1, <2>4
  <2>6. Good(i - 1)
    BY <2>1, <2>3, <2>5
  <2>. QED  BY <1>3, <2>2, <2>5, <2>6
<1>5. Good(n)
  BY <1>1, <1>4
<1>. QED  BY <1>5 DEF Good, Done

\* The order of turns: the next database is one that is left.
LEMMA TurnIs ==
    ASSUME IInv, step = "committing"
    PROVE  Turn \in groups /\ \A e \in Entity : Database(e) = Turn => Pending(e)
<1>1. queue \in Seq(Op) /\ Ahead \subseteq Nat
  BY DEF IInv, TypeOK, Ahead
<1>2. Ahead # {}
  BY DEF IInv, GroupsFit, Ahead
<1>3. PICK i \in Ahead : \A j \in Ahead : i <= j
  BY <1>1, <1>2, Least
<1>4. (CHOOSE i0 \in Ahead : \A j \in Ahead : i0 <= j) \in Ahead
  BY <1>3
<1>5. Turn \in groups
  BY <1>4 DEF Turn, Ahead
<1>. QED  BY <1>5 DEF Pending

\* A model and its row that fit before the transaction are the same after it, and the row
\* has what the unit adds to it.
LEMMA CellCommitted ==
    ASSUME IInv, NEW e \in Entity, NEW k \in Keys(e), Database(e) = Turn,
           NEW m, NEW v \in {Absent} \cup Amount, NEW d, Fits(m, v, d, queue, e, k),
           NEW m2, NEW v2, CellRan(m, v, m2, v2, Len(queue), e, k)
    PROVE  /\ m2 = Cell(v2) /\ v2 \in {Absent} \cup Amount
           /\ (m2 = Absent <=> m = Absent) /\ (v # Absent => v2 # Absent)
           /\ Value(v2) = Value(v) + d
           /\ ~Queued(queue, e, k) => v2 = v
<1>1. /\ InsBy(Len(queue), e, k) <=> Inserting(queue, e, k)
      /\ QueBy(Len(queue), e, k) <=> Queued(queue, e, k)
      /\ Inserting(queue, e, k) => Queued(queue, e, k)
  <2>1. queue \in Seq(Op) /\ DOMAIN queue = 1 .. Len(queue)
    BY DEF IInv, TypeOK
  <2>. QED  BY <2>1 DEF InsBy, QueBy, Inserting, Queued
<1>2. CASE m = Absent /\ v = Absent /\ d = 0
  BY <1>2 DEF CellRan, Cell, Value
<1>3. CASE /\ m \in Model /\ m.keyed = TRUE /\ v \in Amount /\ m.amount = v + d
           /\ ~Inserting(queue, e, k) /\ (Queued(queue, e, k) \/ d = 0)
  <2>1. m # Absent /\ v # Absent /\ v \in Nat /\ m.amount \in Amount /\ m.amount # Absent
    BY <1>3, Basics DEF Model
  <2>2. m = [amount |-> m.amount, keyed |-> TRUE]
    BY <1>3 DEF Model
  <2>3. m2 = m /\ v2 = IF Queued(queue, e, k) THEN m.amount ELSE v
    BY <1>1, <1>3, <2>1 DEF CellRan
  <2>4. v2 = m.amount
    BY <1>3, <2>1, <2>3
  <2>. QED  BY <1>3, <2>1, <2>2, <2>3, <2>4 DEF Cell, Value
<1>4. CASE /\ m \in Model /\ m.keyed = FALSE /\ v = Absent /\ m.amount = d
           /\ Inserting(queue, e, k)
  <2>1. m # Absent /\ m.amount \in Amount /\ m.amount # Absent /\ m.amount \in Nat
    BY <1>4, Basics DEF Model
  <2>2. m2 = [m EXCEPT !.keyed = TRUE] /\ v2 = m.amount
    BY <1>1, <1>4, <2>1 DEF CellRan
  <2>3. [m EXCEPT !.keyed = TRUE] = [amount |-> m.amount, keyed |-> TRUE]
        /\ [m EXCEPT !.keyed = TRUE] \in Model
    BY <1>4, Keyed
  <2>4. m2 = Cell(v2) /\ m2 # Absent
    BY <2>1, <2>2, <2>3, Basics DEF Cell
  <2>5. Value(v2) = Value(v) + d
    BY <1>4, <2>1, <2>2 DEF Value
  <2>. QED  BY <1>1, <1>4, <2>1, <2>2, <2>4, <2>5
<1>. QED  BY <1>2, <1>3, <1>4 DEF Fits

\* What a transaction leaves alone, and what it does to the entities of its database.
LEMMA TransactionIs ==
    ASSUME IInv, step = "committing", NEW t, NEW s, t = Done.tbl, s = Done.str
    PROVE  /\ t = [e \in Entity |-> t[e]] /\ s = [e \in Entity |-> s[e]]
           /\ \A e \in Entity :
                 /\ t[e] \in Rows(e) /\ s[e] \in {Miss} \cup Models(e)
                 /\ s[e] = Miss <=> store[e] = Miss
                 /\ Database(e) # Turn \/ store[e] = Miss => t[e] = table[e] /\ s[e] = store[e]
                 /\ \A k \in Keys(e) :
                       /\ store[e] # Miss => (s[e][k] = Absent <=> store[e][k] = Absent)
                       /\ table[e][k] # Absent => t[e][k] # Absent
                       /\ ~Queued(queue, e, k) => t[e][k] = table[e][k]
                 /\ ~stale /\ Database(e) = Turn /\ store[e] # Miss =>
                       /\ s[e] = Modeled(e, t[e])
                       /\ \A k \in Keys(e) : Value(t[e][k]) = Value(table[e][k]) + net[e][k]
<1>1. Ran(t, s, Len(queue))
  BY AllRan
<1>2. ASSUME NEW e \in Entity, store[e] # Miss
      PROVE  /\ t[e] \in Rows(e) /\ s[e] \in Models(e)
             /\ \A k \in Keys(e) : CellRan(store[e][k], table[e][k], s[e][k], t[e][k],
                                           Len(queue), e, k)
  BY <1>1, <1>2 DEF Ran, EntityRan
<1>3. ASSUME NEW e \in Entity, store[e] = Miss
      PROVE  t[e] = table[e] /\ s[e] = store[e] /\ t[e] \in Rows(e)
  <2>1. table[e] \in Rows(e)
    BY DEF IInv, TypeOK, Rows
  <2>. QED  BY <1>1, <1>3, <2>1 DEF Ran, EntityRan
<1>4. ASSUME NEW e \in Entity, store[e] # Miss, Database(e) # Turn
      PROVE  t[e] = table[e] /\ s[e] = store[e]
  <2>1. \A k \in Keys(e) : s[e][k] = store[e][k] /\ t[e][k] = table[e][k]
    BY <1>2, <1>4 DEF CellRan, InsBy, QueBy
  <2>2. table[e] \in Rows(e) /\ store[e] \in Models(e)
    BY <1>4 DEF IInv, TypeOK, Rows
  <2>. QED  BY <1>2, <1>4, <2>1, <2>2 DEF Rows, Models
<1>5. ASSUME NEW e \in Entity, store[e] # Miss, NEW k \in Keys(e)
      PROVE  /\ s[e][k] = Absent <=> store[e][k] = Absent
             /\ table[e][k] # Absent => t[e][k] # Absent
             /\ ~Queued(queue, e, k) => t[e][k] = table[e][k]
  <2>1. CellRan(store[e][k], table[e][k], s[e][k], t[e][k], Len(queue), e, k)
    BY <1>2, <1>5
  <2>2. store[e][k] \in {Absent} \cup Model
    BY <1>5 DEF IInv, TypeOK, Models
  <2>3. CASE store[e][k] = Absent
    BY <2>1, <2>3 DEF CellRan
  <2>4. CASE store[e][k] # Absent
    <3>1. /\ store[e][k].amount # Absent /\ [store[e][k] EXCEPT !.keyed = TRUE] # Absent
      BY <2>2, <2>4, Basics, Keyed DEF Model
    <3>2. InsBy(Len(queue), e, k) \/ QueBy(Len(queue), e, k) => Queued(queue, e, k)
      <4>1. queue \in Seq(Op) /\ DOMAIN queue = 1 .. Len(queue)
        BY DEF IInv, TypeOK
      <4>. QED  BY <4>1 DEF InsBy, QueBy, Queued
    <3>3. s[e][k] \in {store[e][k], [store[e][k] EXCEPT !.keyed = TRUE]}
      BY <2>1, <2>4 DEF CellRan
    <3>4. t[e][k] \in {table[e][k], store[e][k].amount}
      BY <2>1, <2>4 DEF CellRan
    <3>5. ~Queued(queue, e, k) => t[e][k] = table[e][k]
      BY <2>1, <2>4, <3>2 DEF CellRan
    <3>. QED  BY <2>4, <3>1, <3>3, <3>4, <3>5
  <2>. QED  BY <2>3, <2>4
<1>6. ASSUME ~stale, NEW e \in Entity, store[e] # Miss, Database(e) = Turn
      PROVE  /\ s[e] = Modeled(e, t[e])
             /\ \A k \in Keys(e) : Value(t[e][k]) = Value(table[e][k]) + net[e][k]
  <2>1. ASSUME NEW k \in Keys(e)
        PROVE  /\ s[e][k] = Cell(t[e][k])
               /\ Value(t[e][k]) = Value(table[e][k]) + net[e][k]
    <3>1. Fits(store[e][k], table[e][k], net[e][k], queue, e, k)
      BY <1>6, TurnIs DEF IInv, PendingFits
    <3>2. table[e][k] \in {Absent} \cup Amount
      BY DEF IInv, TypeOK
    <3>3. CellRan(store[e][k], table[e][k], s[e][k], t[e][k], Len(queue), e, k)
      BY <1>2, <1>6
    <3>. QED  BY <1>6, <3>1, <3>2, <3>3, CellCommitted
  <2>2. s[e] = Modeled(e, t[e])
    BY <1>2, <1>6, <2>1, ModeledBy
  <2>. QED  BY <2>1, <2>2
<1>7. \A e \in Entity : Miss \notin Models(e)
  BY Basics
<1>. QED  BY <1>1, <1>2, <1>3, <1>4, <1>5, <1>6, <1>7 DEF Ran

\* A unit commits on one more of its databases.
LEMMA CommitKeeps == IInv /\ CommitGroup => IInv'
<1> SUFFICES ASSUME IInv, CommitGroup PROVE IInv'
  OBVIOUS
<1>1. /\ step = "committing" /\ table' = Done.tbl /\ store' = Done.str
      /\ groups' = groups \ {Turn}
      /\ step' = IF groups' = {} THEN "publishing" ELSE "committing"
      /\ UNCHANGED <<cache, queue, net, touched, mirror, stale, misled>>
  BY DEF CommitGroup, doubts
<1>2. /\ table' = [e \in Entity |-> table'[e]] /\ store' = [e \in Entity |-> store'[e]]
      /\ \A e \in Entity :
            /\ table'[e] \in Rows(e) /\ store'[e] \in {Miss} \cup Models(e)
            /\ store'[e] = Miss <=> store[e] = Miss
            /\ Database(e) # Turn \/ store[e] = Miss
                  => table'[e] = table[e] /\ store'[e] = store[e]
            /\ \A k \in Keys(e) :
                  /\ store[e] # Miss => (store'[e][k] = Absent <=> store[e][k] = Absent)
                  /\ table[e][k] # Absent => table'[e][k] # Absent
                  /\ ~Queued(queue, e, k) => table'[e][k] = table[e][k]
            /\ ~stale /\ Database(e) = Turn /\ store[e] # Miss
                  => store'[e] = Modeled(e, table'[e])
  BY <1>1, TransactionIs
<1>3. step' \in {"committing", "publishing"}
  BY <1>1
<1>4. Arrays'
  BY <1>1, <1>2 DEF IInv, Arrays
<1>5. TypeOK'
  BY <1>1, <1>2, <1>3 DEF IInv, TypeOK, Rows, Step
<1>6. QueueFits' /\ GroupsFit'
  BY <1>1 DEF IInv, QueueFits, GroupsFit
<1>7. TouchedFits'
  <2> SUFFICES ASSUME NEW e \in Entity, NEW k \in Keys(e), <<e, k>> \in touched
               PROVE  store'[e] # Miss /\ store'[e][k] # Absent
    BY <1>1 DEF TouchedFits
  <2>1. store[e] # Miss /\ store[e][k] # Absent
    BY DEF IInv, TouchedFits
  <2>. QED  BY <1>2, <2>1
<1>8. ASSUME NEW e \in Entity, Pending(e)'
      PROVE  Pending(e) /\ Database(e) # Turn
  BY <1>1, <1>3, <1>8 DEF Pending
<1>9. PendingFits'
  <2> SUFFICES ASSUME ~stale, NEW e \in Entity, Pending(e)', NEW k \in Keys(e)
               PROVE  IF store'[e] = Miss THEN net[e][k] = 0
                      ELSE Fits(store'[e][k], table'[e][k], net[e][k], queue, e, k)
    BY <1>1 DEF PendingFits
  <2>1. Pending(e) /\ store'[e] = store[e] /\ table'[e] = table[e]
    BY <1>2, <1>8
  <2>. QED  BY <2>1 DEF IInv, PendingFits
<1>10. SettledFits'
  <2> SUFFICES ASSUME ~stale, NEW e \in Entity, Settled(e)', store'[e] # Miss
               PROVE  store'[e] = Modeled(e, table'[e])
    BY <1>1 DEF SettledFits
  <2>1. CASE Database(e) = Turn
    BY <1>2, <2>1
  <2>2. CASE Database(e) # Turn
    <3>1. ~Pending(e)
      BY <1>1, <1>3, <2>2 DEF Settled, Pending
    <3>2. Settled(e) /\ store[e] # Miss /\ store'[e] = store[e] /\ table'[e] = table[e]
      BY <1>1, <1>2, <2>2, <3>1 DEF Settled
    <3>. QED  BY <3>2 DEF IInv, SettledFits
  <2>. QED  BY <2>1, <2>2
<1>11. CacheFits'
  <2> SUFFICES ASSUME ~stale, NEW e \in Entity, ~(Settled(e)' /\ store'[e] # Miss)
               PROVE  cache[e] \in {Miss, Modeled(e, table'[e])}
    BY <1>1, <1>3 DEF CacheFits
  <2>1. table'[e] = table[e] /\ (Pending(e) \/ store[e] = Miss)
    <3>1. CASE store[e] = Miss
      BY <1>2, <3>1
    <3>2. CASE store[e] # Miss
      <4>1. Pending(e)'
        BY <1>2, <1>3, <3>2 DEF Settled
      <4>. QED  BY <1>2, <1>8, <4>1
    <3>. QED  BY <3>1, <3>2
  <2>2. cache[e] \in {Miss, Modeled(e, table[e])}
    BY <1>1, <2>1 DEF IInv, CacheFits, Settled
  <2>. QED  BY <2>1, <2>2
<1>12. AccountFits'
  <2>1. cache[Account] # Miss \/ store[Account] # Miss => table[Account][Self] # Absent
    BY DEF IInv, AccountFits
  <2>2. table[Account][Self] # Absent => table'[Account][Self] # Absent
    BY <1>2, Basics
  <2>3. store'[Account] = Miss <=> store[Account] = Miss
    BY <1>2, Basics
  <2>. QED  BY <1>1, <2>1, <2>2, <2>3 DEF AccountFits
<1>13. StaleFits' /\ MirrorFits'
  <2>. StaleFits'
    BY <1>1 DEF IInv, StaleFits
  <2> SUFFICES ASSUME NEW e \in Registered \ misled, mirror[e] # Miss, NEW k \in Keys(e),
                      <<e, k>> \notin touched
               PROVE  mirror[e][k] = table'[e][k]
    BY <1>1, <1>3 DEF IInv, MirrorFits
  <2>1. mirror[e][k] = table[e][k] /\ e \in Entity
    BY <1>1, Basics DEF IInv, MirrorFits
  <2>2. ~Queued(queue, e, k)
    BY DEF IInv, QueueFits, Queued
  <2>3. table'[e][k] = table[e][k]
    BY <1>2, <2>1, <2>2
  <2>. QED  BY <2>1, <2>3
<1>. QED  BY <1>4, <1>5, <1>6, <1>7, <1>9, <1>10, <1>11, <1>12, <1>13 DEF IInv

\* It fails, and the rows may be written or not.
LEMMA CommitFailsKeeps == IInv /\ CommitGroupFails => IInv'
<1> SUFFICES ASSUME IInv, CommitGroupFails PROVE IInv'
  OBVIOUS
<1>1. /\ step = "committing" /\ table' \in {table, Done.tbl} /\ groups' = {}
      /\ step' = "invalidating"
      /\ UNCHANGED <<cache, store, queue, net, touched, mirror, stale, misled>>
  BY DEF CommitGroupFails, doubts
<1>2. /\ table' = [e \in Entity |-> table'[e]]
      /\ \A e \in Entity : /\ table'[e] \in Rows(e)
                           /\ \A k \in Keys(e) : table[e][k] # Absent => table'[e][k] # Absent
  <2>1. CASE table' = table
    BY <2>1 DEF IInv, Arrays, TypeOK, Rows
  <2>2. CASE table' = Done.tbl
    BY <1>1, <2>2, TransactionIs
  <2>. QED  BY <1>1, <2>1, <2>2
<1>3. Arrays' /\ TypeOK'
  BY <1>1, <1>2 DEF IInv, Arrays, TypeOK, Rows, Step
<1>4. QueueFits' /\ GroupsFit' /\ TouchedFits'
  BY <1>1 DEF IInv, QueueFits, GroupsFit, TouchedFits
<1>5. PendingFits' /\ SettledFits' /\ CacheFits'
  BY <1>1 DEF PendingFits, Pending, SettledFits, Settled, CacheFits
<1>6. AccountFits'
  <2>1. table[Account][Self] # Absent => table'[Account][Self] # Absent
    BY <1>2, Basics
  <2>. QED  BY <1>1, <2>1 DEF IInv, AccountFits
<1>7. StaleFits' /\ MirrorFits'
  BY <1>1 DEF IInv, StaleFits, MirrorFits
<1>. QED  BY <1>3, <1>4, <1>5, <1>6, <1>7 DEF IInv

-----------------------------------------------------------------------------
(* The theorems *)

LEMMA Invariance == IInv /\ [Next]_vars => IInv'
<1> SUFFICES ASSUME IInv, [Next]_vars PROVE IInv'
  OBVIOUS
<1>1. CASE UNCHANGED vars
  <2>1. UNCHANGED <<table, cache, store, queue, groups, step, net, touched, mirror,
                    stale, misled>>
    BY <1>1 DEF vars
  <2>2. TypeOK' /\ Arrays'
    BY <2>1 DEF IInv, TypeOK, Arrays
  <2>3. QueueFits' /\ GroupsFit' /\ TouchedFits' /\ AccountFits' /\ StaleFits' /\ MirrorFits'
    BY <2>1 DEF IInv, QueueFits, GroupsFit, TouchedFits, AccountFits, StaleFits, MirrorFits
  <2>4. PendingFits' /\ SettledFits' /\ CacheFits'
    BY <2>1 DEF IInv, PendingFits, Pending, SettledFits, Settled, CacheFits
  <2>. QED  BY <2>2, <2>3, <2>4 DEF IInv
<1>2. CASE Next
  <2>1. CASE Begin \/ CreateNow \/ Abandon \/ StartCommit
    BY <2>1, BeginKeeps, CreateNowKeeps, AbandonKeeps, StartKeeps
  <2>2. CASE \E e \in Entity : LoadCached(e) \/ LoadRows(e)
    BY <2>2, LoadKeeps
  <2>3. CASE \/ \E e \in Lists, k \in Key, n \in 1 .. MaxAmount :
                  AddNew(e, k, n) \/ AddMore(e, k, n) \/ Consume(e, k, n)
             \/ \E d \in Amount : SetDevice(d)
    BY <2>3, CallKeeps
  <2>4. CASE CommitGroup \/ CommitGroupFails
    BY <2>4, CommitKeeps, CommitFailsKeeps
  <2>5. CASE Publish \/ PublishFails \/ Invalidate \/ Reply \/ CacheExpires
    BY <2>5, PublishKeeps, InvalidateKeeps, ReplyKeeps
  <2>. QED  BY <1>2, <2>1, <2>2, <2>3, <2>4, <2>5 DEF Next
<1>. QED  BY <1>1, <1>2

\* Every variable keeps its type: entities, amounts and the queue of a unit (uow.go:23-57).
THEOREM TypeCorrect == Spec => []TypeOK
<1>1. IInv => TypeOK
  BY DEF IInv
<1>. QED  BY <1>1, InitIInv, Invariance, PTL DEF Spec

\* uow.go:273-275: between units the cache holds what the database holds, but for what a
\* lost DeleteAll (uow_helper.go:13) left behind.
THEOREM CacheKeepsTable == Spec => []CacheIsTable
<1>1. IInv => CacheIsTable
  <2> SUFFICES ASSUME IInv, step = "idle", ~stale, NEW e \in Entity
               PROVE  cache[e] \in {Miss, ModelsOf(e)}
    BY DEF CacheIsTable
  <2>1. cache[e] \in {Miss, Modeled(e, table[e])}
    BY DEF IInv, CacheFits, Settled
  <2>2. ModelsOf(e) = Modeled(e, table[e])
    BY DEF ModelsOf, Modeled, Cell
  <2>. QED  BY <2>1, <2>2
<1>. QED  BY <1>1, InitIInv, Invariance, PTL DEF Spec

\* item_service.go:38-67: no INSERT meets another of the same user and id, nor a row, unless
\* a lost DeleteAll left the list.
THEOREM InsertsMeetNoRow == Spec => []InsertsAreNew
<1>1. IInv => InsertsAreNew
  <2> SUFFICES ASSUME IInv, NEW i \in DOMAIN queue, step = "handling",
                      queue[i].op = "insert"
               PROVE  /\ ~stale => table[queue[i].e][queue[i].k] = Absent
                      /\ \A j \in DOMAIN queue \ {i} :
                            queue[j].op = "insert" =>
                                <<queue[i].e, queue[i].k>> # <<queue[j].e, queue[j].k>>
    BY DEF InsertsAreNew
  <2>1. PICK e \in Entity, k \in Keys(queue[i].e) : e = queue[i].e /\ k = queue[i].k
    BY DEF IInv, QueueFits
  <2>2. k \in Keys(e) /\ Inserting(queue, e, k) /\ <<e, k>> \in touched
    BY <2>1 DEF Inserting, IInv, QueueFits
  <2>3. store[e] # Miss /\ store[e][k] # Absent
    BY <2>2 DEF IInv, TouchedFits
  <2>4. ~stale => Fits(store[e][k], table[e][k], net[e][k], queue, e, k)
    BY <2>2, <2>3 DEF IInv, PendingFits, Pending
  <2>5. ~stale => table[e][k] = Absent
    BY <2>2, <2>3, <2>4 DEF Fits
  <2>6. \A j \in DOMAIN queue \ {i} : queue[j].op = "insert" =>
            ~(queue[i].e = queue[j].e /\ queue[i].k = queue[j].k)
    BY DEF IInv, QueueFits
  <2>. QED  BY <2>1, <2>5, <2>6
<1>. QED  BY <1>1, InitIInv, Invariance, PTL DEF Spec

\* dispatch.go:139-142: a client that fetched a list and applies the sync fields has the
\* rows of the database between its requests, unless it was answered from what a lost
\* DeleteAll left.
THEOREM ClientKeepsTable == Spec => []SyncKeepsClientCurrent
<1>1. IInv => SyncKeepsClientCurrent
  BY DEF IInv, MirrorFits, SyncKeepsClientCurrent
<1>. QED  BY <1>1, InitIInv, Invariance, PTL DEF Spec

\* uow.go:175-253: a committed transaction does to the rows of its database what the calls
\* of the unit amount to, unless the unit started from what a lost DeleteAll left, and
\* nothing to the other's.
THEOREM TransactionsAddUp == Spec => TransactionAppliesCalls
<1>1. IInv /\ [Next]_vars =>
          [CommitGroup => \A e \in Entity : \A k \in Keys(e) :
              IF Database(e) # Turn THEN table'[e][k] = table[e][k]
              ELSE ~stale => /\ Value(table'[e][k]) = Value(table[e][k]) + net[e][k]
                             /\ <<e, k>> \in touched => table'[e][k] # Absent]_vars
  <2> SUFFICES ASSUME IInv, CommitGroup, NEW e \in Entity, NEW k \in Keys(e)
               PROVE  /\ Database(e) # Turn => table'[e][k] = table[e][k]
                      /\ Database(e) = Turn /\ ~stale =>
                            /\ Value(table'[e][k]) = Value(table[e][k]) + net[e][k]
                            /\ <<e, k>> \in touched => table'[e][k] # Absent
    OBVIOUS
  <2>1. step = "committing" /\ table' = Done.tbl /\ store' = Done.str
    BY DEF CommitGroup
  <2>2. CASE Database(e) # Turn
    BY <2>1, <2>2, TransactionIs
  <2>3. CASE Database(e) = Turn /\ ~stale /\ store[e] = Miss
    <3>1. table'[e] = table[e]
      BY <2>1, <2>3, TransactionIs
    <3>2. net[e][k] = 0 /\ <<e, k>> \notin touched
      BY <2>1, <2>3, TurnIs DEF IInv, PendingFits, TouchedFits
    <3>3. Value(table[e][k]) \in Int
      <4>1. table[e][k] = Absent \/ table[e][k] \in Nat
        BY Basics DEF IInv, TypeOK
      <4>. QED  BY <4>1 DEF Value
    <3>. QED  BY <2>3, <3>1, <3>2, <3>3
  <2>4. CASE Database(e) = Turn /\ ~stale /\ store[e] # Miss
    <3>1. /\ store'[e] = Modeled(e, table'[e]) /\ table'[e] \in Rows(e)
          /\ store'[e][k] = Absent <=> store[e][k] = Absent
          /\ Value(table'[e][k]) = Value(table[e][k]) + net[e][k]
      BY <2>1, <2>4, TransactionIs
    <3>2. store'[e][k] = Cell(table'[e][k])
      BY <3>1, ModeledIs
    <3>3. <<e, k>> \in touched => table'[e][k] # Absent
      BY <3>1, <3>2 DEF IInv, TouchedFits, Cell
    <3>. QED  BY <2>4, <3>1, <3>3
  <2>. QED  BY <2>2, <2>3, <2>4
<1>. QED  BY <1>1, InitIInv, Invariance, PTL DEF Spec, TransactionAppliesCalls

=============================================================================
