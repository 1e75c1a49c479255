-------------------------- MODULE DesignSync_proofs --------------------------
(***************************************************************************)
(* Proofs about the reloads of design catalogs, for any servers, versions, *)
(* clients and bounds: what is served, and in which order.                 *)
(***************************************************************************)
EXTENDS DesignSync, WellFoundedInduction, TLAPS

\* README.md:438: the reload is called on one server only.
OneReloader == \A r, s \in Reloader : r = s

Admin(s) == <<s, "admin">>
Subscriber(s) == <<s, "subscriber">>

Shaped(l) == l = [stage |-> l.stage, query |-> l.query, map |-> l.map, todo |-> l.todo]

Shapes ==
    /\ load = [t \in Task |-> load[t]] /\ \A t \in Task : Shaped(load[t])
    /\ origin = [s \in Server |-> origin[s]]
    /\ inbox \in [Server -> Seq(Reloader)]
    /\ edits \in Nat

\* Who loads when: the subscriber of the server that is asked to reload only loads before
\* it listens, and then nobody can ask.
Turns ==
    \A s \in Server :
        /\ load[Admin(s)].stage # "idle" => s \in Reloader
        /\ load[Subscriber(s)].stage \in IF s \notin listening THEN {"query", "download", "subscribe"}
                                         ELSE IF s \in Reloader THEN {"idle"}
                                         ELSE {"idle", "query", "download"}
        /\ load[Admin(s)].stage \in {"query", "download"} =>
              load[Subscriber(s)].stage \in {"idle", "subscribe"}

\* A query is not older than what its server has.
QueriesAreNewer ==
    /\ \A s \in Server : origin[s].at \in Nat /\ origin[s].at <= edits
    /\ \A t \in Task : load[t].stage = "download" =>
          /\ load[t].query.at \in Nat /\ load[t].query.at <= edits
          /\ load[t].query.at >= origin[t[1]].at

IInv == Shapes /\ Turns /\ QueriesAreNewer

-----------------------------------------------------------------------------
\* Tasks are those of the admin handler and those of the subscriber.
LEMMA Tasks ==
    /\ \A s \in Server : /\ Admin(s) \in Task /\ Subscriber(s) \in Task
                         /\ Admin(s) # Subscriber(s)
    /\ \A t \in Task : t[1] \in Server /\ (t = Admin(t[1]) \/ t = Subscriber(t[1]))
    /\ \A r, s \in Server : /\ Admin(r) = Admin(s) => r = s
                            /\ Subscriber(r) = Subscriber(s) => r = s
                            /\ Admin(r) # Subscriber(s)
    /\ \A s \in Server : Admin(s)[1] = s /\ Subscriber(s)[1] = s
BY DEF Task, Admin, Subscriber

\* At the start every server listens and nobody loads.
LEMMA InitIInv == Init => IInv
<1> SUFFICES ASSUME Init PROVE IInv
  OBVIOUS
<1>1. Shapes
  <2>1. inbox \in [Server -> Seq(Reloader)]
    BY DEF Init
  <2>2. load = [t \in Task |-> load[t]] /\ \A t \in Task : Shaped(load[t])
    BY DEF Init, Resting, Loading, Shaped
  <2>. QED  BY <2>1, <2>2 DEF Init, Shapes
<1>2. \A t \in Task : load[t].stage = "idle"
  BY DEF Init, Resting, Loading
<1>3. Turns
  BY <1>2, Tasks DEF Init, Turns
<1>4. QueriesAreNewer
  BY <1>2, Tasks DEF Init, QueriesAreNewer
<1>. QED  BY <1>1, <1>3, <1>4 DEF IInv

\* What becomes of a load: the same, without a query, or the query that is made now.
LEMMA LoadChanges ==
    ASSUME IInv, NEW t \in Task, NEW l, Shaped(l), load' = [load EXCEPT ![t] = l],
           UNCHANGED <<listening, edits, origin>>, inbox' \in [Server -> Seq(Reloader)],
           l.stage = "download" => /\ l.query.at \in Nat /\ l.query.at <= edits
                                   /\ l.query.at >= origin[t[1]].at,
           \/ /\ l.stage \in {"query", "download"}
              /\ load[t].stage = "query" \/ load[t].stage = "download"
           \/ l.stage = "idle" /\ (t = Admin(t[1]) \/ t[1] \in listening)
           \/ l.stage = "publish" /\ t = Admin(t[1]) /\ load[t].stage # "idle"
           \/ l.stage = "subscribe" /\ t = Subscriber(t[1]) /\ t[1] \notin listening
           \/ /\ l.stage = "query" /\ t = Admin(t[1]) /\ t[1] \in Reloader
              /\ t[1] \in listening \/ load[Subscriber(t[1])].stage = "subscribe"
           \/ /\ l.stage = "query" /\ t = Subscriber(t[1])
              /\ t[1] \in listening /\ t[1] \notin Reloader
    PROVE  IInv'
<1>1. Shapes'
  BY DEF IInv, Shapes
<1>2. load'[t] = l /\ \A u \in Task : u # t => load'[u] = load[u]
  BY DEF IInv, Shapes
<1>3. Turns'
  <2>1. ASSUME NEW s \in Server
        PROVE  /\ load'[Admin(s)].stage # "idle" => s \in Reloader
               /\ load'[Subscriber(s)].stage \in
                     IF s \notin listening THEN {"query", "download", "subscribe"}
                     ELSE IF s \in Reloader THEN {"idle"} ELSE {"idle", "query", "download"}
               /\ load'[Admin(s)].stage \in {"query", "download"} =>
                     load'[Subscriber(s)].stage \in {"idle", "subscribe"}
    <3>1. CASE t = Admin(s)
      BY <1>2, <3>1, Tasks DEF IInv, Turns
    <3>2. CASE t = Subscriber(s)
      BY <1>2, <3>2, Tasks DEF IInv, Turns
    <3>3. CASE t # Admin(s) /\ t # Subscriber(s)
      BY <1>2, <3>3, Tasks DEF IInv, Turns
    <3>. QED  BY <3>1, <3>2, <3>3
  <2>. QED  BY <2>1 DEF Turns
<1>4. QueriesAreNewer'
  BY <1>2 DEF IInv, QueriesAreNewer
<1>. QED  BY <1>1, <1>3, <1>4 DEF IInv

\* LoadActive of one task: the query is made at the present state of TB_VERSION, and what
\* fails does not come back with an older one.
LEMMA LoadActiveKeeps ==
    ASSUME IInv, NEW t \in Task,
           QueryRows(t) \/ QueryFails(t) \/ Download(t) \/ DownloadFails(t)
    PROVE  IInv'
<1>1. Shaped(load[t]) /\ load = [u \in Task |-> load[u]] /\ edits \in Nat
  BY DEF IInv, Shapes
<1>2. t[1] \in Server /\ origin[t[1]].at <= edits /\ (t = Admin(t[1]) \/ t = Subscriber(t[1]))
  BY Tasks DEF IInv, QueriesAreNewer
<1>3. UNCHANGED <<listening, edits, origin>> /\ inbox' \in [Server -> Seq(Reloader)]
  BY DEF QueryRows, QueryFails, Download, DownloadFails, Fail, operator, stores, IInv, Shapes
<1>4. CASE QueryRows(t)
  <2> DEFINE l == Loading("download", [at |-> edits, rows |-> rows], NoCatalogs, Kept(rows))
  <2>1. load' = [load EXCEPT ![t] = l] /\ load[t].stage = "query"
    BY <1>4 DEF QueryRows
  <2>2. Shaped(l) /\ l.stage = "download" /\ l.query.at = edits
    BY DEF Loading, Shaped
  <2>3. l.query.at \in Nat /\ l.query.at <= edits /\ l.query.at >= origin[t[1]].at
    BY <1>1, <1>2, <2>2 DEF IInv, QueriesAreNewer
  <2>. QED  BY <1>3, <2>1, <2>2, <2>3, LoadChanges
<1>5. ASSUME Fail(t), load[t].stage = "query" \/ load[t].stage = "download" PROVE IInv'
  <2>1. CASE t[2] = "subscriber" /\ t[1] \notin listening
    <3> DEFINE l == Loading("query", Resting.query, NoCatalogs, {})
    <3>1. Shaped(l) /\ l.stage = "query"
      BY DEF Loading, Shaped
    <3>2. load' = [load EXCEPT ![t] = l]
      BY <1>5, <2>1 DEF Fail
    <3> HIDE DEF l
    <3>. QED  BY <1>3, <1>5, <3>1, <3>2, LoadChanges
  <2>2. CASE ~(t[2] = "subscriber" /\ t[1] \notin listening)
    <3>1. Shaped(Resting) /\ Resting.stage = "idle"
      BY DEF Resting, Loading, Shaped
    <3>2. load' = [load EXCEPT ![t] = Resting]
      BY <1>5, <2>2 DEF Fail
    <3>3. t = Admin(t[1]) \/ t[1] \in listening
      BY <1>2, <2>2 DEF Subscriber
    <3>. QED  BY <1>3, <3>1, <3>2, <3>3, LoadChanges
  <2>. QED  BY <2>1, <2>2
<1>6. CASE QueryFails(t)
  BY <1>5, <1>6 DEF QueryFails
<1>7. ASSUME NEW l, load' = [load EXCEPT ![t] = l], load[t].stage = "download",
             Shaped(l), l.stage = load[t].stage, l.query = load[t].query
      PROVE  IInv'
  BY <1>3, <1>7, LoadChanges DEF IInv, QueriesAreNewer
<1>8. CASE Download(t)
  <2>1. PICK v : LET cat == [version |-> v, revision |-> cdn[v]] IN
            load' = [load EXCEPT ![t].map = Mapped(@, load[t].query.rows, cat),
                                 ![t].todo = @ \ {v}]
    BY <1>8 DEF Download
  <2>2. PICK map : map = Mapped(load[t].map, load[t].query.rows,
                                [version |-> v, revision |-> cdn[v]])
    OBVIOUS
  <2>3. PICK l : l = [[load[t] EXCEPT !.map = map] EXCEPT !.todo = load[t].todo \ {v}]
    OBVIOUS
  <2>4. load' = [load EXCEPT ![t] = l] /\ load[t].stage = "download"
    BY <1>1, <1>8, <2>1, <2>2, <2>3 DEF Download
  <2>5. Shaped(l) /\ l.stage = load[t].stage /\ l.query = load[t].query
    BY <1>1, <2>3 DEF Shaped
  <2>. QED  BY <1>7, <2>4, <2>5
<1>9. CASE DownloadFails(t)
  <2>1. CASE Fail(t)
    BY <1>5, <1>9, <2>1 DEF DownloadFails
  <2>2. CASE ~Fail(t)
    <3>1. PICK v : load' = [load EXCEPT ![t].todo = @ \ {v}]
      BY <1>9, <2>2 DEF DownloadFails, Skip
    <3>2. PICK l : l = [load[t] EXCEPT !.todo = @ \ {v}]
      OBVIOUS
    <3>3. load' = [load EXCEPT ![t] = l] /\ load[t].stage = "download"
      BY <1>1, <1>9, <3>1, <3>2 DEF DownloadFails
    <3>4. Shaped(l) /\ l.stage = load[t].stage /\ l.query = load[t].query
      BY <1>1, <3>2 DEF Shaped
    <3>. QED  BY <1>7, <3>3, <3>4
  <2>. QED  BY <2>1, <2>2
<1>. QED  BY <1>4, <1>6, <1>8, <1>9

\* Store.Replace: no other load of the server has a query that is older.
LEMMA ReplaceKeeps ==
    ASSUME IInv, NEW t \in Task, Replace(t)
    PROVE  IInv' /\ \A s \in Server : origin'[s].at >= origin[s].at
<1> DEFINE s == t[1]
<1>1. s \in Server /\ (t = Admin(s) \/ t = Subscriber(s)) /\ load[t].stage = "download"
  BY Tasks DEF Replace
<1>2. /\ load[t].query.at \in Nat /\ load[t].query.at <= edits
      /\ load[t].query.at >= origin[s].at
  BY <1>1 DEF IInv, QueriesAreNewer
<1>3. origin'[s] = load[t].query /\ origin' = [r \in Server |-> origin'[r]]
      /\ \A r \in Server : r # s => origin'[r] = origin[r]
  BY <1>1 DEF Replace, IInv, Shapes
<1>4. \A r \in Server : /\ origin'[r].at >= origin[r].at
                        /\ origin'[r].at \in Nat /\ origin'[r].at <= edits
  BY <1>2, <1>3 DEF IInv, QueriesAreNewer
<1>5. UNCHANGED <<listening, edits, inbox>>
  BY DEF Replace, operator
<1>6. PICK l : l = IF t[2] = "admin" THEN [load[t] EXCEPT !.stage = "publish"]
                   ELSE IF s \notin listening THEN [Resting EXCEPT !.stage = "subscribe"]
                   ELSE Resting
  OBVIOUS
<1>7. load' = [load EXCEPT ![t] = l]
  BY <1>6 DEF Replace, IInv, Shapes
<1>8. Shaped(l) /\ \/ l.stage = "publish" /\ t = Admin(s)
                   \/ l.stage = "subscribe" /\ t = Subscriber(s) /\ s \notin listening
                   \/ l.stage = "idle" /\ t = Subscriber(s) /\ s \in listening
  <2>1. Shaped(load[t])
    BY DEF IInv, Shapes
  <2>2. /\ Shaped([Resting EXCEPT !.stage = "subscribe"])
        /\ [Resting EXCEPT !.stage = "subscribe"].stage = "subscribe"
        /\ Shaped(Resting) /\ Resting.stage = "idle"
    <3>1. Shaped(Resting) /\ Resting.stage = "idle"
      BY DEF Resting, Loading, Shaped
    <3>2. PICK d : d = [Resting EXCEPT !.stage = "subscribe"]
      OBVIOUS
    <3>3. Shaped(d) /\ d.stage = "subscribe"
      BY <3>1, <3>2 DEF Shaped
    <3>. QED  BY <3>1, <3>2, <3>3
  <2>3. t[2] = "admin" <=> t = Admin(s)
    BY <1>1 DEF Admin, Subscriber
  <2>4. CASE t[2] = "admin"
    BY <1>6, <2>1, <2>3, <2>4 DEF Shaped
  <2>5. CASE t[2] # "admin"
    BY <1>1, <1>6, <2>2, <2>3, <2>5
  <2>. QED  BY <2>4, <2>5
<1>9. load'[t] = l /\ \A u \in Task : u # t => load'[u] = load[u]
  BY <1>7 DEF IInv, Shapes
<1>10. Shapes'
  BY <1>3, <1>5, <1>7, <1>8 DEF IInv, Shapes
<1>11. Turns'
  <2>1. ASSUME NEW r \in Server
        PROVE  /\ load'[Admin(r)].stage # "idle" => r \in Reloader
               /\ load'[Subscriber(r)].stage \in
                     IF r \notin listening THEN {"query", "download", "subscribe"}
                     ELSE IF r \in Reloader THEN {"idle"} ELSE {"idle", "query", "download"}
               /\ load'[Admin(r)].stage \in {"query", "download"} =>
                     load'[Subscriber(r)].stage \in {"idle", "subscribe"}
    <3>1. CASE t = Admin(r)
      BY <1>1, <1>8, <1>9, <3>1, Tasks DEF IInv, Turns
    <3>2. CASE t = Subscriber(r)
      BY <1>1, <1>8, <1>9, <3>2, Tasks DEF IInv, Turns
    <3>3. CASE t # Admin(r) /\ t # Subscriber(r)
      BY <1>9, <3>3, Tasks DEF IInv, Turns
    <3>. QED  BY <3>1, <3>2, <3>3
  <2>. QED  BY <1>5, <2>1 DEF Turns
<1>12. QueriesAreNewer'
  <2>1. ASSUME NEW u \in Task, load'[u].stage = "download"
        PROVE  /\ load'[u].query.at \in Nat /\ load'[u].query.at <= edits
               /\ load'[u].query.at >= origin'[u[1]].at
    <3>1. u # t /\ load'[u] = load[u] /\ u[1] \in Server
      BY <1>8, <1>9, <2>1, Tasks
    <3>2. u[1] # s
      BY <1>1, <2>1, <3>1, Tasks DEF IInv, Turns
    <3>. QED  BY <1>3, <2>1, <3>1, <3>2 DEF IInv, QueriesAreNewer
  <2>. QED  BY <1>4, <1>5, <2>1 DEF QueriesAreNewer
<1>. QED  BY <1>4, <1>10, <1>11, <1>12 DEF IInv

\* A reload is only called where it may be, and only another server's message starts a load.
LEMMA ReloadsKeep ==
    ASSUME OneReloader, IInv, NEW s \in Server,
           CallReload(s) \/ Receive(s) \/ Publish(s) \/ PublishFails(s)
    PROVE  IInv' /\ UNCHANGED origin
<1>1. /\ Admin(s) \in Task /\ Subscriber(s) \in Task
      /\ Admin(s)[1] = s /\ Subscriber(s)[1] = s
  BY Tasks
<1>2. UNCHANGED <<listening, edits, origin>>
  BY DEF CallReload, Receive, Publish, PublishFails, Fail, operator, stores
<1>3. /\ inbox \in [Server -> Seq(Reloader)]
      /\ Shaped(load[Admin(s)]) /\ Shaped(load[Subscriber(s)])
  BY <1>1 DEF IInv, Shapes
<1>4. Shaped(Resting) /\ Resting.stage = "idle"
  BY DEF Resting, Loading, Shaped
<1>5. CASE CallReload(s)
  <2>1. PICK l : l = [load[Admin(s)] EXCEPT !.stage = "query"]
    OBVIOUS
  <2>2. Shaped(l) /\ l.stage = "query"
    BY <1>3, <2>1 DEF Shaped
  <2>3. load' = [load EXCEPT ![Admin(s)] = l]
    BY <1>5, <2>1 DEF CallReload, Admin
  <2>4. /\ s \in Reloader /\ UNCHANGED inbox
        /\ s \in listening \/ load[Subscriber(s)].stage = "subscribe"
    BY <1>5 DEF CallReload, Subscriber
  <2>. QED  BY <1>1, <1>2, <1>3, <2>2, <2>3, <2>4, LoadChanges
<1>6. CASE Receive(s)
  <2>1. s \in listening /\ inbox[s] # <<>> /\ inbox' = [inbox EXCEPT ![s] = Tail(@)]
    BY <1>6 DEF Receive
  <2>2. inbox[s] \in Seq(Reloader)
    BY <1>3
  <2>3. Head(inbox[s]) \in Reloader /\ Tail(inbox[s]) \in Seq(Reloader)
    BY <2>1, <2>2
  <2>4. inbox' \in [Server -> Seq(Reloader)]
    BY <1>3, <2>1, <2>3
  <2>5. CASE Head(inbox[s]) = s
    <3>1. UNCHANGED load
      BY <1>6, <2>5 DEF Receive
    <3>. QED  BY <1>2, <2>4, <3>1 DEF IInv, Shapes, Turns, QueriesAreNewer
  <2>6. CASE Head(inbox[s]) # s
    <3>1. PICK l : l = [load[Subscriber(s)] EXCEPT !.stage = "query"]
      OBVIOUS
    <3>2. Shaped(l) /\ l.stage = "query"
      BY <1>3, <3>1 DEF Shaped
    <3>3. load' = [load EXCEPT ![Subscriber(s)] = l]
      BY <1>6, <2>6, <3>1 DEF Receive, Subscriber
    <3>4. s \notin Reloader
      BY <2>3, <2>6 DEF OneReloader
    <3>. QED  BY <1>1, <1>2, <2>1, <2>4, <3>2, <3>3, <3>4, LoadChanges
  <2>. QED  BY <2>5, <2>6
<1>7. CASE Publish(s)
  <2>1. load' = [load EXCEPT ![Admin(s)] = Resting] /\ load[Admin(s)].stage # "idle"
    BY <1>7 DEF Publish, Admin
  <2>2. s \in Reloader
    BY <2>1 DEF IInv, Turns
  <2>3. PICK told \in SUBSET Server :
            inbox' = [x \in Server |-> IF x \in told THEN Append(inbox[x], s) ELSE inbox[x]]
    <3>1. PICK lost \in IF MayFail THEN SUBSET listening ELSE {{}} :
              inbox' = [x \in Server |->
                  IF x \in listening \ lost /\ Len(inbox[x]) < MaxInbox
                    THEN Append(inbox[x], s) ELSE inbox[x]]
      BY <1>7 DEF Publish
    <3> DEFINE told == {x \in Server : x \in listening \ lost /\ Len(inbox[x]) < MaxInbox}
    <3>2. WITNESS told \in SUBSET Server
    <3>. QED  BY <3>1
  <2>4. ASSUME NEW x \in Server PROVE Append(inbox[x], s) \in Seq(Reloader)
    <3>1. inbox[x] \in Seq(Reloader)
      BY <1>3
    <3>. QED  BY <2>2, <3>1
  <2>5. inbox' \in [Server -> Seq(Reloader)]
    BY <1>3, <2>3, <2>4
  <2>. QED  BY <1>1, <1>2, <1>4, <2>1, <2>5, LoadChanges
<1>8. CASE PublishFails(s)
  <2>1. Admin(s)[2] = "admin"
    BY DEF Admin
  <2>2. load' = [load EXCEPT ![Admin(s)] = Resting] /\ UNCHANGED inbox
    BY <1>8, <2>1 DEF PublishFails, Fail, Admin
  <2>. QED  BY <1>1, <1>2, <1>3, <1>4, <2>2, LoadChanges
<1>. QED  BY <1>5, <1>6, <1>7, <1>8

\* A server that starts has nobody else loading for it, and one that subscribes is at rest.
LEMMA StartingKeeps ==
    ASSUME IInv, NEW s \in Server, Subscribe(s) \/ Restart(s)
    PROVE  IInv' /\ UNCHANGED origin
<1> DEFINE a == load'[Admin(s)]
           b == load'[Subscriber(s)]
<1>1. Admin(s) \in Task /\ Subscriber(s) \in Task /\ Admin(s) # Subscriber(s)
  BY Tasks
<1>2. Shaped(Resting) /\ Resting.stage = "idle"
  BY DEF Resting, Loading, Shaped
<1>3. PICK q : q = [Resting EXCEPT !.stage = "query"]
  OBVIOUS
<1>4. Shaped(q) /\ q.stage = "query"
  BY <1>2, <1>3 DEF Shaped
<1>5. UNCHANGED <<edits, origin>>
  BY DEF Subscribe, Restart, operator, stores
<1>6. /\ load' = [t \in Task |-> load'[t]]
      /\ \A t \in Task : t # Admin(s) /\ t # Subscriber(s) => load'[t] = load[t]
      /\ \A r \in Server : r # s => (r \in listening' <=> r \in listening)
      /\ \/ Subscribe(s) /\ a = load[Admin(s)] /\ b = Resting /\ s \in listening'
         \/ Restart(s) /\ a = Resting /\ b = q /\ s \notin listening'
  <2>1. load = [t \in Task |-> load[t]]
    BY DEF IInv, Shapes
  <2>2. CASE Subscribe(s)
    BY <1>1, <2>1, <2>2 DEF Subscribe, Subscriber
  <2>3. CASE Restart(s)
    BY <1>1, <1>3, <2>1, <2>3 DEF Restart, Admin, Subscriber
  <2>. QED  BY <2>2, <2>3
<1>7. inbox' \in [Server -> Seq(Reloader)]
  <2>1. inbox \in [Server -> Seq(Reloader)] /\ <<>> \in Seq(Reloader)
    BY DEF IInv, Shapes
  <2>. QED  BY <2>1 DEF Subscribe, Restart
<1>8. Shapes'
  <2>1. \A t \in Task : Shaped(load'[t])
    BY <1>2, <1>4, <1>6 DEF IInv, Shapes
  <2>. QED  BY <1>5, <1>6, <1>7, <2>1 DEF IInv, Shapes
<1>9. Turns'
  <2>1. ASSUME NEW r \in Server
        PROVE  /\ load'[Admin(r)].stage # "idle" => r \in Reloader
               /\ load'[Subscriber(r)].stage \in
                     IF r \notin listening' THEN {"query", "download", "subscribe"}
                     ELSE IF r \in Reloader THEN {"idle"} ELSE {"idle", "query", "download"}
               /\ load'[Admin(r)].stage \in {"query", "download"} =>
                     load'[Subscriber(r)].stage \in {"idle", "subscribe"}
    <3>1. CASE r = s
      BY <1>2, <1>4, <1>6, <3>1 DEF IInv, Turns
    <3>2. CASE r # s
      <4>1. load'[Admin(r)] = load[Admin(r)] /\ load'[Subscriber(r)] = load[Subscriber(r)]
        BY <1>6, <3>2, Tasks
      <4>. QED  BY <1>6, <3>2, <4>1 DEF IInv, Turns
    <3>. QED  BY <3>1, <3>2
  <2>. QED  BY <2>1 DEF Turns
<1>10. QueriesAreNewer'
  <2>1. \A t \in Task : load'[t].stage = "download" => load'[t] = load[t]
    BY <1>2, <1>4, <1>6
  <2>. QED  BY <1>5, <2>1 DEF IInv, QueriesAreNewer
<1>. QED  BY <1>5, <1>8, <1>9, <1>10 DEF IInv

\* Every step of the system keeps the invariant, and takes no server back.
LEMMA Invariance ==
    ASSUME OneReloader, IInv, [Next]_vars
    PROVE  IInv' /\ \A s \in Server : origin'[s].at >= origin[s].at
<1>1. \A s \in Server : origin[s].at \in Nat
  BY DEF IInv, QueriesAreNewer
<1>2. ASSUME IInv', UNCHANGED origin
      PROVE  IInv' /\ \A s \in Server : origin'[s].at >= origin[s].at
  BY <1>1, <1>2
<1>3. ASSUME edits' = edits + 1, UNCHANGED <<load, stores, listening, inbox>>
      PROVE  IInv' /\ UNCHANGED origin
  <2>1. UNCHANGED <<load, origin, listening, inbox>> /\ edits \in Nat /\ edits' = edits + 1
    BY <1>3 DEF IInv, Shapes, stores
  <2>2. Shapes'
    BY <2>1 DEF IInv, Shapes
  <2>3. Turns'
    BY <2>1 DEF IInv, Turns
  <2>4. QueriesAreNewer'
    BY <2>1 DEF IInv, QueriesAreNewer
  <2>. QED  BY <2>1, <2>2, <2>3, <2>4 DEF IInv
<1>4. CASE \E row \in Row : EditRow(row)
  BY <1>2, <1>3, <1>4 DEF EditRow
<1>5. CASE \E v \in Version : Upload(v)
  BY <1>2, <1>3, <1>5 DEF Upload
<1>6. CASE \E s \in Server : CallReload(s) \/ Restart(s)
  BY <1>2, <1>6, ReloadsKeep, StartingKeeps
<1>7. CASE \E t \in Task : TaskStep(t)
  <2>1. PICK t \in Task : TaskStep(t)
    BY <1>7
  <2>2. t[1] \in Server
    BY Tasks
  <2>3. CASE QueryRows(t) \/ QueryFails(t) \/ Download(t) \/ DownloadFails(t)
    <3>1. UNCHANGED origin
      BY <2>3 DEF QueryRows, QueryFails, Download, DownloadFails, Fail, stores
    <3>. QED  BY <1>2, <2>3, <3>1, LoadActiveKeeps
  <2>4. CASE Replace(t)
    BY <2>4, ReplaceKeeps
  <2>5. CASE Publish(t[1]) \/ PublishFails(t[1]) \/ Receive(t[1])
    BY <1>2, <2>2, <2>5, ReloadsKeep
  <2>6. CASE Subscribe(t[1])
    BY <1>2, <2>2, <2>6, StartingKeeps
  <2>. QED  BY <2>1, <2>3, <2>4, <2>5, <2>6 DEF TaskStep
<1>8. CASE UNCHANGED vars
  <2>1. IInv' /\ UNCHANGED origin
    BY <1>8 DEF IInv, Shapes, Turns, QueriesAreNewer, vars, operator, stores
  <2>. QED  BY <1>2, <2>1
<1>. QED  BY <1>4, <1>5, <1>6, <1>7, <1>8 DEF Next

\* syncer.go:20-22, README.md:438: as long as the reload is called on one server only, no
\* server goes back to an older state of TB_VERSION, for any number of servers, loads,
\* failures and restarts.
THEOREM Ordered == OneReloader => (Spec => NeverOlder)
<1> SUFFICES ASSUME OneReloader PROVE Spec => NeverOlder
  OBVIOUS
<1>1. Init => IInv
  BY InitIInv
<1>2. IInv /\ [Next]_vars => IInv'
  BY Invariance
<1>3. IInv /\ [Next]_vars => [\A s \in Server : origin'[s].at >= origin[s].at]_vars
  BY Invariance
<1>. QED  BY <1>1, <1>2, <1>3, PTL DEF Spec, NeverOlder
-----------------------------------------------------------------------------
(* What servers serve *)

Loads == [stage : Stage, query : Query, map : Catalogs, todo : SUBSET Version]

TypeInv == TypeOK /\ \A v \in Version : cdn[v] <= edits

\* A map of the query q whose versions in todo are still to be downloaded: it keeps to the
\* newest versions of q, and the newest of all is the first to be mapped.
Fit(map, q, todo) ==
    /\ todo \subseteq Kept(q)
    /\ \A c \in Client : map[c] # Null =>
          map[c].version \in Kept(q) /\ <<c, map[c].version>> \in q
    /\ \A v \in Kept(q) : Newest(v, Kept(q)) =>
          IF v \in todo THEN todo = Kept(q)
          ELSE \A c \in Client : <<c, v>> \in q => map[c] # Null

ServesOne ==
    /\ \A t \in Task : load[t].stage = "download" =>
          Fit(load[t].map, load[t].query.rows, load[t].todo)
    /\ \A s \in Server : catalogs[s] # NoCatalogs => Fit(catalogs[s], origin[s].rows, {})

\* A set of numbers that is not empty has a least one.
LEMMA Least ==
    ASSUME NEW S \in SUBSET Nat, S # {}
    PROVE  \E n \in S : \A m \in S : n <= m
<1>1. PICK n \in S : \A m \in S : <<m, n>> \notin OpToRel(<, Nat)
  BY WFMin, NatLessThanWellFounded, Zenon
<1>2. \A m \in S : ~(m < n)
  BY <1>1, Zenon DEF OpToRel
<1>. QED  BY <1>2

\* Versions are numbers, and only those of rows are kept.
LEMMA KeptAreVersions ==
    ASSUME NEW table \in SUBSET Row
    PROVE  Kept(table) \subseteq Version /\ Kept(table) \subseteq Nat
BY DesignAssumption DEF Kept, Row

\* The server begins with a map of its rows.
LEMMA ServedFits ==
    ASSUME NEW table \in SUBSET Row
    PROVE  Served(table) \in Catalogs /\ Fit(Served(table), table, {})
<1> DEFINE mine(c) == {v \in Kept(table) : <<c, v>> \in table}
           oldest(c) == CHOOSE v \in mine(c) : \A w \in mine(c) : v <= w
<1>1. ASSUME NEW c \in Client, mine(c) # {}
      PROVE  oldest(c) \in mine(c) /\ oldest(c) \in Version
  <2>1. mine(c) \in SUBSET Nat
    BY KeptAreVersions
  <2>2. \E v \in mine(c) : \A w \in mine(c) : v <= w
    BY <1>1, <2>1, Least
  <2>3. oldest(c) \in mine(c)
    BY <2>2
  <2>. QED  BY <2>3, KeptAreVersions
<1>2. Served(table) = [c \in Client |-> IF mine(c) = {} THEN Null
                                        ELSE [version |-> oldest(c), revision |-> 0]]
  BY DEF Served
<1> HIDE DEF oldest
<1>3. 0 \in 0 .. MaxEdits
  BY DesignAssumption
<1> DEFINE cat(c) == [version |-> oldest(c), revision |-> 0]
<1>4. ASSUME NEW c \in Client, mine(c) # {} PROVE cat(c) \in Catalog /\ cat(c).version = oldest(c)
  BY <1>1, <1>3, <1>4 DEF Catalog
<1>5. \A k \in Catalog : k # Null
  BY DesignAssumption DEF Catalog
<1> HIDE DEF cat, mine
<1>6. ASSUME NEW c \in Client
      PROVE  /\ Served(table)[c] = IF mine(c) = {} THEN Null ELSE cat(c)
             /\ Served(table)[c] \in {Null} \cup Catalog
             /\ Served(table)[c] # Null => mine(c) # {} /\ Served(table)[c].version = oldest(c)
             /\ mine(c) # {} => Served(table)[c] # Null
  <2>1. Served(table)[c] = IF mine(c) = {} THEN Null ELSE cat(c)
    BY <1>2 DEF cat
  <2>. QED  BY <1>4, <1>5, <2>1
<1>7. Served(table) \in Catalogs
  BY <1>2, <1>6 DEF Catalogs
<1> USE DEF mine
<1>8. \A c \in Client : Served(table)[c] # Null =>
          Served(table)[c].version \in Kept(table) /\ <<c, Served(table)[c].version>> \in table
  BY <1>1, <1>6
<1>9. \A v \in Kept(table) : \A c \in Client : <<c, v>> \in table => Served(table)[c] # Null
  BY <1>6
<1>. QED  BY <1>7, <1>8, <1>9 DEF Fit

\* Nobody loads to begin with.
LEMMA RestingIsLoad == Resting \in Loads /\ Resting.stage = "idle"
<1>1. NoCatalogs \in Catalogs
  BY DEF NoCatalogs, Catalogs
<1>2. [at |-> 0, rows |-> {}] \in Query
  BY DesignAssumption DEF Query
<1>. QED  BY <1>1, <1>2 DEF Resting, Loading, Loads, Stage

LEMMA InitServes == Init => TypeInv /\ ServesOne
<1> SUFFICES ASSUME Init PROVE TypeInv /\ ServesOne
  OBVIOUS
<1>1. rows \in SUBSET Row /\ 0 \in 0 .. MaxEdits
  BY DesignAssumption DEF Init, Row
<1>2. TypeOK
  <2>1. catalogs \in [Server -> Catalogs]
    BY <1>1, ServedFits DEF Init
  <2>2. origin \in [Server -> Query]
    BY <1>1 DEF Init, Query
  <2>3. load \in [Task -> Loads]
    BY RestingIsLoad DEF Init
  <2>4. inbox \in [Server -> Seq(Server)] /\ \A s \in Server : Len(inbox[s]) <= MaxInbox
    BY DesignAssumption DEF Init
  <2>. QED  BY <1>1, <2>1, <2>2, <2>3, <2>4 DEF Init, TypeOK, Loads
<1>3. \A v \in Version : cdn[v] <= edits
  BY DEF Init
<1>4. ServesOne
  <2>1. \A t \in Task : load[t].stage = "idle"
    BY RestingIsLoad DEF Init
  <2>2. \A s \in Server : catalogs[s] = Served(rows) /\ origin[s].rows = rows
    BY DEF Init
  <2>. QED  BY <1>1, <2>1, <2>2, ServedFits DEF ServesOne
<1>. QED  BY <1>2, <1>3, <1>4 DEF TypeInv

\* A load goes on, and nothing else that is served changes.
LEMMA LoadGoesOn ==
    ASSUME TypeInv, ServesOne, NEW t \in Task, NEW l \in Loads, load' = [load EXCEPT ![t] = l],
           l.stage = "download" => Fit(l.map, l.query.rows, l.todo),
           UNCHANGED <<operator, stores>>, listening' \subseteq Server, disturbed' \in BOOLEAN,
           inbox' \in [Server -> Seq(Server)], \A s \in Server : Len(inbox'[s]) <= MaxInbox,
           confirmed' \in 0 .. MaxEdits
    PROVE  TypeInv' /\ ServesOne'
<1>1. UNCHANGED <<rows, cdn, edits, catalogs, origin>>
  BY DEF operator, stores
<1>2. load' \in [Task -> Loads] /\ load'[t] = l /\ \A u \in Task : u # t => load'[u] = load[u]
  BY DEF TypeInv, TypeOK, Loads
<1>3. TypeInv'
  BY <1>1, <1>2 DEF TypeInv, TypeOK, Loads
<1>4. ServesOne'
  BY <1>1, <1>2 DEF ServesOne
<1>. QED  BY <1>3, <1>4

\* The fields of a load.
LEMMA LoadFields ==
    ASSUME TypeInv, NEW t \in Task
    PROVE  /\ load[t] \in Loads /\ load[t].stage \in Stage /\ load[t].query \in Query
           /\ load[t].map \in Catalogs /\ load[t].todo \subseteq Version
           /\ load[t].query.at \in 0 .. MaxEdits /\ load[t].query.rows \subseteq Row
BY DEF TypeInv, TypeOK, Loads, Query

\* What is mapped stays so when the catalog of the newest version in todo is added.
LEMMA DownloadFits ==
    ASSUME TypeInv, NEW q \in SUBSET Row, NEW map \in Catalogs, NEW todo, Fit(map, q, todo),
           NEW v, Newest(v, todo), NEW cat \in Catalog, cat.version = v
    PROVE  /\ Mapped(map, q, cat) \in Catalogs
           /\ Fit(Mapped(map, q, cat), q, todo \ {v})
<1> DEFINE new == Mapped(map, q, cat)
<1>1. new = [c \in Client |-> IF <<c, v>> \in q THEN cat ELSE map[c]]
  BY DEF Mapped
<1>2. new \in Catalogs
  BY <1>1 DEF Catalogs
<1>3. cat # Null
  BY DesignAssumption DEF Catalog
<1>4. v \in Kept(q) /\ v \in todo
  BY DEF Fit, Newest
<1>5. ASSUME NEW c \in Client
      PROVE  /\ map[c] # Null \/ <<c, v>> \in q => new[c] # Null
             /\ new[c] # Null => new[c].version \in Kept(q) /\ <<c, new[c].version>> \in q
  BY <1>1, <1>3, <1>4 DEF Fit
<1>6. ASSUME NEW w \in Kept(q), Newest(w, Kept(q))
      PROVE  IF w \in todo \ {v} THEN todo \ {v} = Kept(q)
             ELSE \A c \in Client : <<c, w>> \in q => new[c] # Null
  <2>1. CASE w \in todo
    <3>1. w \in Nat /\ v \in Nat
      BY <1>4, KeptAreVersions
    <3>2. w = v
      BY <1>4, <1>6, <2>1, <3>1 DEF Newest
    <3>. QED  BY <1>5, <3>2
  <2>2. CASE w \notin todo
    BY <1>5, <1>6, <2>2 DEF Fit
  <2>. QED  BY <2>1, <2>2
<1>7. todo \ {v} \subseteq Kept(q)
  BY DEF Fit
<1> HIDE DEF new
<1>. QED  BY <1>2, <1>5, <1>6, <1>7 DEF Fit, new

\* The steps of LoadActive but the last.
LEMMA LoadActiveServes ==
    ASSUME TypeInv, ServesOne, NEW t \in Task,
           QueryRows(t) \/ QueryFails(t) \/ Download(t) \/ DownloadFails(t)
    PROVE  TypeInv' /\ ServesOne'
<1>1. /\ UNCHANGED <<operator, stores, listening, inbox, confirmed>>
      /\ disturbed' \in BOOLEAN
  BY DEF QueryRows, QueryFails, Download, DownloadFails, Fail, TypeInv, TypeOK
<1>2. /\ listening' \subseteq Server /\ inbox' \in [Server -> Seq(Server)]
      /\ \A s \in Server : Len(inbox'[s]) <= MaxInbox
      /\ confirmed' \in 0 .. MaxEdits
  BY <1>1 DEF TypeInv, TypeOK
<1>3. ASSUME NEW l \in Loads, load' = [load EXCEPT ![t] = l],
             l.stage = "download" => Fit(l.map, l.query.rows, l.todo)
      PROVE  TypeInv' /\ ServesOne'
  BY <1>1, <1>2, <1>3, LoadGoesOn
<1>4. CASE QueryRows(t)
  <2> DEFINE l == Loading("download", [at |-> edits, rows |-> rows], NoCatalogs, Kept(rows))
  <2>1. rows \in SUBSET Row /\ [at |-> edits, rows |-> rows] \in Query
    BY DEF TypeInv, TypeOK, Query
  <2>2. NoCatalogs \in Catalogs /\ \A c \in Client : NoCatalogs[c] = Null
    BY DEF NoCatalogs, Catalogs
  <2>3. l \in Loads
    BY <2>1, <2>2, KeptAreVersions DEF Loading, Loads, Stage
  <2>4. l.map = NoCatalogs /\ l.query.rows = rows /\ l.todo = Kept(rows)
    BY DEF Loading
  <2>5. Fit(l.map, l.query.rows, l.todo)
    BY <2>2, <2>4 DEF Fit
  <2>6. load' = [load EXCEPT ![t] = l]
    BY <1>4 DEF QueryRows
  <2>. QED  BY <1>3, <2>3, <2>5, <2>6
<1>5. ASSUME Fail(t) PROVE TypeInv' /\ ServesOne'
  <2>1. PICK l : /\ l \in {Resting, Loading("query", Resting.query, NoCatalogs, {})}
                 /\ load' = [load EXCEPT ![t] = l]
    BY <1>5 DEF Fail
  <2>2. Loading("query", Resting.query, NoCatalogs, {}) \in Loads
    <3>1. Resting.query \in Query /\ NoCatalogs \in Catalogs
      BY RestingIsLoad DEF Loads, NoCatalogs, Catalogs
    <3>. QED  BY <3>1 DEF Loading, Loads, Stage
  <2>3. Loading("query", Resting.query, NoCatalogs, {}).stage = "query"
    BY DEF Loading
  <2>. QED  BY <1>3, <2>1, <2>2, <2>3, RestingIsLoad
<1>6. CASE QueryFails(t)
  BY <1>5, <1>6 DEF QueryFails
<1>7. ASSUME NEW map, NEW todo, load[t].stage = "download", map \in Catalogs,
             todo \subseteq Version, Fit(map, load[t].query.rows, todo),
             load' = [load EXCEPT ![t] = [[load[t] EXCEPT !.map = map] EXCEPT !.todo = todo]]
      PROVE  TypeInv' /\ ServesOne'
  <2>1. PICK l : l = [[load[t] EXCEPT !.map = map] EXCEPT !.todo = todo]
    OBVIOUS
  <2>2. l \in Loads /\ l.map = map /\ l.todo = todo /\ l.query = load[t].query
    BY <1>7, <2>1, LoadFields DEF Loads
  <2>. QED  BY <1>3, <1>7, <2>1, <2>2
<1>8. load[t].stage = "download" => Fit(load[t].map, load[t].query.rows, load[t].todo)
  BY DEF ServesOne
<1>9. CASE Download(t)
  <2>1. PICK v \in load[t].todo :
            /\ Newest(v, load[t].todo)
            /\ LET cat == [version |-> v, revision |-> cdn[v]] IN
               load' = [load EXCEPT ![t].map = Mapped(@, load[t].query.rows, cat),
                                    ![t].todo = @ \ {v}]
    BY <1>9 DEF Download
  <2>2. PICK cat : cat = [version |-> v, revision |-> cdn[v]]
    OBVIOUS
  <2>3. cat \in Catalog /\ cat.version = v
    BY <2>2, LoadFields DEF Catalog, TypeInv, TypeOK
  <2>4. PICK map : map = Mapped(load[t].map, load[t].query.rows, cat)
    OBVIOUS
  <2>5. /\ map \in Catalogs /\ Fit(map, load[t].query.rows, load[t].todo \ {v})
        /\ load[t].todo \ {v} \subseteq Version
    BY <1>8, <1>9, <2>1, <2>3, <2>4, LoadFields, DownloadFits DEF Download
  <2>6. load' = [load EXCEPT ![t] = [[load[t] EXCEPT !.map = map]
                                              EXCEPT !.todo = load[t].todo \ {v}]]
    BY <2>1, <2>2, <2>4 DEF TypeInv, TypeOK
  <2>. QED  BY <1>7, <1>9, <2>5, <2>6 DEF Download
<1>10. CASE DownloadFails(t) /\ ~Fail(t)
  <2>1. PICK v \in load[t].todo : /\ Newest(v, load[t].todo)
                                  /\ load' = [load EXCEPT ![t].todo = @ \ {v}]
    BY <1>10 DEF DownloadFails, Skip
  <2>2. load[t].todo # Kept(load[t].query.rows) /\ load[t].stage = "download"
    BY <1>10 DEF DownloadFails
  <2>3. Fit(load[t].map, load[t].query.rows, load[t].todo \ {v})
    BY <1>8, <2>2 DEF Fit
  <2>4. load' = [load EXCEPT ![t] = [[load[t] EXCEPT !.map = load[t].map]
                                              EXCEPT !.todo = load[t].todo \ {v}]]
    BY <2>1 DEF TypeInv, TypeOK
  <2>. QED  BY <1>7, <2>2, <2>3, <2>4, LoadFields
<1>. QED  BY <1>4, <1>5, <1>6, <1>9, <1>10

\* A load of its own, with another stage.
LEMMA Staged ==
    ASSUME NEW l \in Loads, NEW stage \in Stage
    PROVE  [l EXCEPT !.stage = stage] \in Loads /\ [l EXCEPT !.stage = stage].stage = stage
BY DEF Loads

\* Store.Replace: every version that is kept has been downloaded or skipped.
LEMMA ReplaceServes ==
    ASSUME TypeInv, ServesOne, NEW t \in Task, Replace(t)
    PROVE  TypeInv' /\ ServesOne'
<1> DEFINE s == t[1]
<1>1. s \in Server /\ load[t].stage = "download" /\ load[t].todo = {}
  BY Tasks DEF Replace
<1>2. Fit(load[t].map, load[t].query.rows, {})
  BY <1>1 DEF ServesOne
<1>3. /\ catalogs' = [catalogs EXCEPT ![s] = load[t].map]
      /\ origin' = [origin EXCEPT ![s] = load[t].query]
      /\ UNCHANGED <<rows, cdn, edits, listening, inbox, confirmed, disturbed>>
  BY DEF Replace, operator
<1>4. PICK l \in Loads : load' = [load EXCEPT ![t] = l] /\ l.stage # "download"
  <2>1. load[t] \in Loads /\ Resting \in Loads /\ Resting.stage = "idle"
    BY LoadFields, RestingIsLoad
  <2>2. /\ [load[t] EXCEPT !.stage = "publish"] \in Loads
        /\ [load[t] EXCEPT !.stage = "publish"].stage = "publish"
        /\ [Resting EXCEPT !.stage = "subscribe"] \in Loads
        /\ [Resting EXCEPT !.stage = "subscribe"].stage = "subscribe"
    BY <2>1, Staged DEF Stage
  <2>3. CASE t[2] = "admin"
    BY <2>2, <2>3 DEF Replace, TypeInv, TypeOK
  <2>4. CASE t[2] # "admin" /\ s \notin listening
    BY <2>2, <2>4 DEF Replace, TypeInv, TypeOK
  <2>5. CASE t[2] # "admin" /\ s \in listening
    BY <2>1, <2>5 DEF Replace, TypeInv, TypeOK
  <2>. QED  BY <2>3, <2>4, <2>5
<1>5. load' \in [Task -> Loads] /\ \A u \in Task : load'[u].stage = "download" => load'[u] = load[u]
  BY <1>4 DEF TypeInv, TypeOK, Loads
<1>6. TypeInv'
  BY <1>1, <1>3, <1>5, LoadFields DEF TypeInv, TypeOK, Loads
<1>7. ASSUME NEW r \in Server, catalogs'[r] # NoCatalogs
      PROVE  Fit(catalogs'[r], origin'[r].rows, {})
  <2>1. CASE r = s
    BY <1>1, <1>2, <1>3, <2>1 DEF TypeInv, TypeOK
  <2>2. CASE r # s
    BY <1>1, <1>3, <1>7, <2>2 DEF TypeInv, TypeOK, ServesOne
  <2>. QED  BY <2>1, <2>2
<1>. QED  BY <1>5, <1>6, <1>7 DEF ServesOne

\* A message in a channel that is not full.
LEMMA Delivered ==
    ASSUME TypeInv, NEW s \in Server, NEW told \in SUBSET Server,
           \A x \in told : Len(inbox[x]) < MaxInbox,
           inbox' = [x \in Server |-> IF x \in told THEN Append(inbox[x], s) ELSE inbox[x]]
    PROVE  inbox' \in [Server -> Seq(Server)] /\ \A x \in Server : Len(inbox'[x]) <= MaxInbox
<1>1. ASSUME NEW x \in Server PROVE inbox'[x] \in Seq(Server) /\ Len(inbox'[x]) <= MaxInbox
  <2>1. inbox[x] \in Seq(Server) /\ Len(inbox[x]) <= MaxInbox /\ MaxInbox \in Nat
    BY DesignAssumption DEF TypeInv, TypeOK
  <2>2. CASE x \in told
    <3>1. inbox'[x] = Append(inbox[x], s) /\ Len(inbox[x]) < MaxInbox
      BY <2>2
    <3>2. Len(Append(inbox[x], s)) = Len(inbox[x]) + 1 /\ Append(inbox[x], s) \in Seq(Server)
      BY <2>1
    <3>3. Len(inbox[x]) \in Nat
      BY <2>1
    <3>. QED  BY <2>1, <3>1, <3>2, <3>3
  <2>3. CASE x \notin told
    BY <2>1, <2>3
  <2>. QED  BY <2>2, <2>3
<1>. QED  BY <1>1

\* What the reload and the subscriber do around LoadActive.
LEMMA ReloadServes ==
    ASSUME TypeInv, ServesOne, NEW s \in Server,
           CallReload(s) \/ Publish(s) \/ PublishFails(s) \/ Receive(s) \/ Subscribe(s)
    PROVE  TypeInv' /\ ServesOne'
<1> DEFINE a == <<s, "admin">>
           b == <<s, "subscriber">>
<1>1. a \in Task /\ b \in Task /\ a[2] = "admin"
  BY DEF Task
<1>2. load[a] \in Loads /\ load[b] \in Loads /\ Resting \in Loads /\ Resting.stage = "idle"
      /\ load[a].query.at \in 0 .. MaxEdits
  BY <1>1, LoadFields, RestingIsLoad
<1>3. /\ listening \subseteq Server /\ inbox \in [Server -> Seq(Server)]
      /\ \A x \in Server : Len(inbox[x]) <= MaxInbox
      /\ confirmed \in 0 .. MaxEdits /\ disturbed \in BOOLEAN
      /\ load \in [Task -> Loads]
  BY DEF TypeInv, TypeOK, Loads
<1>4. UNCHANGED <<operator, stores>>
  BY DEF CallReload, Publish, PublishFails, Fail, Receive, Subscribe
<1>5. CASE CallReload(s)
  <2>1. load' = [load EXCEPT ![a] = [load[a] EXCEPT !.stage = "query"]]
        /\ UNCHANGED <<listening, inbox, confirmed, disturbed>>
    BY <1>1, <1>3, <1>5 DEF CallReload
  <2>2. [load[a] EXCEPT !.stage = "query"] \in Loads
        /\ [load[a] EXCEPT !.stage = "query"].stage = "query"
    BY <1>2, Staged DEF Stage
  <2>. QED  BY <1>1, <1>3, <1>4, <2>1, <2>2, LoadGoesOn
<1>6. CASE Publish(s)
  <2>1. PICK lost \in IF MayFail THEN SUBSET listening ELSE {{}} :
            /\ inbox' = [x \in Server |->
                  IF x \in listening \ lost /\ Len(inbox[x]) < MaxInbox
                    THEN Append(inbox[x], s) ELSE inbox[x]]
            /\ disturbed' = (disturbed \/ lost # {})
    BY <1>6 DEF Publish
  <2>2. PICK told \in SUBSET Server :
            told = {x \in Server : x \in listening \ lost /\ Len(inbox[x]) < MaxInbox}
    OBVIOUS
  <2>3. inbox' = [x \in Server |-> IF x \in told THEN Append(inbox[x], s) ELSE inbox[x]]
    BY <2>1, <2>2
  <2>4. \A x \in told : Len(inbox[x]) < MaxInbox
    BY <2>2
  <2>5. inbox' \in [Server -> Seq(Server)] /\ \A x \in Server : Len(inbox'[x]) <= MaxInbox
    BY <2>3, <2>4, Delivered
  <2>6. /\ load' = [load EXCEPT ![a] = Resting] /\ UNCHANGED listening
        /\ confirmed' \in 0 .. MaxEdits
    BY <1>2, <1>6 DEF Publish
  <2>7. disturbed' \in BOOLEAN
    BY <2>1
  <2>. QED  BY <1>1, <1>2, <1>3, <1>4, <2>5, <2>6, <2>7, LoadGoesOn
<1>7. CASE PublishFails(s)
  <2>1. load' = [load EXCEPT ![a] = Resting] /\ UNCHANGED <<listening, inbox, confirmed>>
        /\ disturbed' = TRUE
    BY <1>1, <1>7 DEF PublishFails, Fail
  <2>. QED  BY <1>1, <1>2, <1>3, <1>4, <2>1, LoadGoesOn
<1>8. CASE Receive(s)
  <2>1. inbox[s] # <<>> /\ inbox' = [inbox EXCEPT ![s] = Tail(@)]
        /\ UNCHANGED <<listening, confirmed, disturbed>>
    BY <1>8 DEF Receive
  <2>2. inbox' \in [Server -> Seq(Server)] /\ \A x \in Server : Len(inbox'[x]) <= MaxInbox
    <3>1. inbox[s] \in Seq(Server) /\ Len(inbox[s]) \in Nat /\ Len(inbox[s]) <= MaxInbox
          /\ MaxInbox \in Nat
      BY <1>3, DesignAssumption
    <3>2. Tail(inbox[s]) \in Seq(Server) /\ Len(Tail(inbox[s])) = Len(inbox[s]) - 1
      BY <2>1, <3>1
    <3>3. Len(Tail(inbox[s])) <= MaxInbox
      BY <3>1, <3>2
    <3>. QED  BY <1>3, <2>1, <3>2, <3>3
  <2>3. PICK l \in Loads : load' = [load EXCEPT ![b] = l] /\ (l = load[b] \/ l.stage = "query")
    <3>1. CASE Head(inbox[s]) = s
      <4>1. load' = [load EXCEPT ![b] = load[b]]
        BY <1>1, <1>3, <1>8, <3>1 DEF Receive
      <4>. QED  BY <1>2, <4>1
    <3>2. CASE Head(inbox[s]) # s
      <4>1. load' = [load EXCEPT ![b] = [load[b] EXCEPT !.stage = "query"]]
        BY <1>1, <1>3, <1>8, <3>2 DEF Receive
      <4>2. [load[b] EXCEPT !.stage = "query"] \in Loads
            /\ [load[b] EXCEPT !.stage = "query"].stage = "query"
        BY <1>2, Staged DEF Stage
      <4>. QED  BY <4>1, <4>2
    <3>. QED  BY <3>1, <3>2
  <2>4. l.stage = "download" => Fit(l.map, l.query.rows, l.todo)
    BY <1>1, <2>3 DEF ServesOne
  <2>. QED  BY <1>1, <1>3, <1>4, <2>1, <2>2, <2>3, <2>4, LoadGoesOn
<1>9. CASE Subscribe(s)
  <2>1. load' = [load EXCEPT ![b] = Resting] /\ listening' \subseteq Server
        /\ UNCHANGED <<inbox, confirmed, disturbed>>
    BY <1>3, <1>9 DEF Subscribe
  <2>. QED  BY <1>1, <1>2, <1>3, <1>4, <2>1, LoadGoesOn
<1>. QED  BY <1>5, <1>6, <1>7, <1>8, <1>9

\* A server that starts again has no catalogs.
LEMMA RestartServes ==
    ASSUME TypeInv, ServesOne, NEW s \in Server, Restart(s)
    PROVE  TypeInv' /\ ServesOne'
<1>1. PICK q : q = [Resting EXCEPT !.stage = "query"]
  OBVIOUS
<1>2. q \in Loads /\ q.stage = "query" /\ Resting \in Loads /\ Resting.stage = "idle"
  BY <1>1, RestingIsLoad, Staged DEF Stage
<1>3. load' = [load EXCEPT ![<<s, "admin">>] = Resting, ![<<s, "subscriber">>] = q]
  BY <1>1 DEF Restart
<1>4. load' \in [Task -> Loads] /\ \A u \in Task : load'[u].stage = "download" => load'[u] = load[u]
  BY <1>2, <1>3 DEF TypeInv, TypeOK, Loads
<1>5. /\ catalogs' = [catalogs EXCEPT ![s] = NoCatalogs] /\ inbox' = [inbox EXCEPT ![s] = <<>>]
      /\ UNCHANGED <<rows, cdn, edits, origin, confirmed>> /\ disturbed' = TRUE
      /\ listening' = listening \ {s}
  BY DEF Restart, operator
<1>6. NoCatalogs \in Catalogs
  BY DEF NoCatalogs, Catalogs
<1>7. inbox' \in [Server -> Seq(Server)] /\ \A x \in Server : Len(inbox'[x]) <= MaxInbox
  BY <1>5, DesignAssumption DEF TypeInv, TypeOK
<1>8. TypeInv'
  BY <1>4, <1>5, <1>6, <1>7 DEF TypeInv, TypeOK, Loads
<1>9. ASSUME NEW r \in Server, catalogs'[r] # NoCatalogs
      PROVE  Fit(catalogs'[r], origin'[r].rows, {})
  BY <1>5, <1>9 DEF TypeInv, TypeOK, ServesOne
<1>. QED  BY <1>4, <1>5, <1>8, <1>9 DEF ServesOne

\* What the operator changes is only seen by loads to come.
LEMMA EditServes ==
    ASSUME TypeInv, ServesOne, (\E row \in Row : EditRow(row)) \/ (\E v \in Version : Upload(v))
    PROVE  TypeInv' /\ ServesOne'
<1>1. UNCHANGED <<load, catalogs, origin, listening, inbox, confirmed, disturbed>>
      /\ edits' = edits + 1 /\ edits < MaxEdits
  BY DEF EditRow, Upload, stores
<1>2. edits \in 0 .. MaxEdits /\ MaxEdits \in Nat /\ edits' \in 0 .. MaxEdits
  BY <1>1, DesignAssumption DEF TypeInv, TypeOK
<1>3. rows' \subseteq Row /\ cdn' \in [Version -> 0 .. MaxEdits] /\ \A v \in Version : cdn'[v] <= edits'
  <2>1. ASSUME NEW row \in Row, EditRow(row) PROVE <1>3
    <3>1. rows' \subseteq Row /\ cdn' = cdn
      BY <2>1 DEF EditRow, TypeInv, TypeOK
    <3>2. \A v \in Version : cdn[v] \in 0 .. MaxEdits /\ cdn[v] <= edits
      BY DEF TypeInv, TypeOK
    <3>3. \A v \in Version : cdn[v] <= edits'
      BY <1>1, <1>2, <3>2
    <3>. QED  BY <3>1, <3>3 DEF TypeInv, TypeOK
  <2>2. ASSUME NEW w \in Version, Upload(w) PROVE <1>3
    <3>1. UNCHANGED rows /\ cdn' = [cdn EXCEPT ![w] = @ + 1]
      BY <2>2 DEF Upload
    <3>2. \A v \in Version : cdn[v] \in 0 .. MaxEdits /\ cdn[v] <= edits
      BY DEF TypeInv, TypeOK
    <3>3. \A v \in Version : cdn'[v] \in {cdn[v], cdn[v] + 1}
      BY <3>1 DEF TypeInv, TypeOK
    <3>4. ASSUME NEW v \in Version PROVE cdn'[v] \in 0 .. MaxEdits /\ cdn'[v] <= edits'
      BY <1>1, <1>2, <3>2, <3>3
    <3>. QED  BY <3>1, <3>4 DEF TypeInv, TypeOK
  <2>. QED  BY <2>1, <2>2
<1>4. TypeInv'
  BY <1>1, <1>2, <1>3 DEF TypeInv, TypeOK
<1>. QED  BY <1>1, <1>4 DEF ServesOne

LEMMA StepServes == TypeInv /\ ServesOne /\ [Next]_vars => TypeInv' /\ ServesOne'
<1> SUFFICES ASSUME TypeInv, ServesOne, [Next]_vars PROVE TypeInv' /\ ServesOne'
  OBVIOUS
<1>1. CASE UNCHANGED vars
  BY <1>1 DEF vars, operator, stores, TypeInv, TypeOK, ServesOne
<1>2. CASE \E t \in Task : TaskStep(t)
  <2>1. PICK t \in Task : TaskStep(t)
    BY <1>2
  <2>2. t[1] \in Server
    BY Tasks
  <2>. QED  BY <2>1, <2>2, LoadActiveServes, ReplaceServes, ReloadServes DEF TaskStep
<1>. QED  BY <1>1, <1>2, EditServes, ReloadServes, RestartServes DEF Next

\* Every variable keeps its type: loads, their queries and maps, and channels that never
\* hold more than they can (syncer.go:63-150).
THEOREM TypeCorrect == Spec => []TypeOK
<1>1. TypeInv => TypeOK
  BY DEF TypeInv
<1>. QED  BY <1>1, InitServes, StepServes, PTL DEF Spec

\* syncer.go:100-121: what a server serves is the map of one query, keeps to its newest
\* versions and lacks none of the newest one's clients, for any rows, edits, overlapping
\* loads, failures and restarts, on whatever servers the reload is called.
THEOREM ServesOneQuery == Spec => []OneQuery
<1>1. ServesOne => OneQuery
  BY DEF ServesOne, OneQuery, Fit
<1>. QED  BY <1>1, InitServes, StepServes, PTL DEF Spec
=============================================================================
