----------------------------- MODULE DesignSync -----------------------------
(***************************************************************************)
(* The design catalogs of several servers (internal/design): the operator  *)
(* edits TB_VERSION and the files on the CDN and calls the reload of one   *)
(* server, which runs LoadActive and tells the others through Redis        *)
(* Pub/Sub; their subscribers run LoadActive in turn.                      *)
(*                                                                         *)
(* LoadActive is a query, one download for each version it keeps, and the  *)
(* replacement of the store, so that loads of one server and edits of the  *)
(* operator interleave with it.  A catalog is its version and the revision *)
(* of its files, whose checksums make a download all of one revision.      *)
(***************************************************************************)
EXTENDS Integers, Sequences, FiniteSets

CONSTANTS
    Server,
    Reloader,       \* the servers whose reload the operator calls
    Version,        \* server_version, in the order of its strings
    Client,         \* client_version
    Null,           \* no catalog
    Start,          \* the sets of active rows a run may begin with
    MayFail,        \* TRUE when queries, downloads and Pub/Sub may fail
    MayRestart,     \* TRUE when a server may be started again
    MaxEdits,       \* bound on the operator's edits
    MaxInbox        \* capacity of the subscription's channel

ASSUME DesignAssumption ==
    /\ Reloader \subseteq Server /\ Version \subseteq Nat
    /\ Start \subseteq SUBSET (Client \X Version) /\ {} \notin Start
    /\ MayFail \in BOOLEAN /\ MayRestart \in BOOLEAN
    /\ MaxEdits \in Nat /\ MaxInbox \in Nat \ {0}
    /\ Null \notin [version : Version, revision : 0 .. MaxEdits]

VARIABLES
    rows,       \* the active rows of TB_VERSION
    cdn,        \* cdn[v]: the revision of the files of v
    edits,      \* how often the operator changed either
    load,       \* load[t]: the LoadActive of task t
    catalogs,   \* catalogs[s]: Store.catalogs
    origin,     \* origin[s]: the query behind catalogs[s] (history)
    listening,  \* the servers that have subscribed
    inbox,      \* inbox[s]: received messages, each the selfID of its sender
    confirmed,  \* the edits behind the last reload answered "OK" (history)
    disturbed   \* something has failed or a server was restarted (history)

operator == <<rows, cdn, edits>>
stores == <<catalogs, origin>>
vars == <<operator, load, stores, listening, inbox, confirmed, disturbed>>

MaxActiveVersions == 2
Task == Server \X {"admin", "subscriber"}
Catalog == [version : Version, revision : 0 .. MaxEdits]
Catalogs == [Client -> {Null} \cup Catalog]
Row == Client \X Version
Query == [at : 0 .. MaxEdits, rows : SUBSET Row]
Stage == {"idle", "query", "download", "publish", "subscribe"}

TypeOK ==
    /\ rows \subseteq Row
    /\ cdn \in [Version -> 0 .. MaxEdits]
    /\ edits \in 0 .. MaxEdits
    /\ load \in [Task -> [stage : Stage, query : Query, map : Catalogs, todo : SUBSET Version]]
    /\ catalogs \in [Server -> Catalogs]
    /\ origin \in [Server -> Query]
    /\ listening \subseteq Server
    /\ inbox \in [Server -> Seq(Server)]
    /\ \A s \in Server : Len(inbox[s]) <= MaxInbox
    /\ confirmed \in 0 .. MaxEdits
    /\ disturbed \in BOOLEAN

NoCatalogs == [c \in Client |-> Null]

\* The newest active versions.
Kept(table) ==
    LET active == {row[2] : row \in table}
    IN  {v \in active : Cardinality({w \in active : w > v}) < MaxActiveVersions}

Newest(v, versions) == v \in versions /\ \A w \in versions : w <= v

\* The map with the catalog cat for every client version of its rows in table.
Mapped(map, table, cat) ==
    [c \in Client |-> IF <<c, cat.version>> \in table THEN cat ELSE map[c]]

Loading(stage, query, map, todo) ==
    [stage |-> stage, query |-> query, map |-> map, todo |-> todo]
Resting == Loading("idle", [at |-> 0, rows |-> {}], NoCatalogs, {})

\* What a load of table by itself maps a client version to: the older one of the
\* kept versions that have a row for it, which is mapped last.
Served(table) ==
    [c \in Client |->
        LET mine == {v \in Kept(table) : <<c, v>> \in table}
        IN  IF mine = {} THEN Null
            ELSE [version |-> CHOOSE v \in mine : \A w \in mine : v <= w, revision |-> 0]]

\* Every server has loaded the active rows and has subscribed.
Init ==
    /\ rows \in Start
    /\ cdn = [v \in Version |-> 0]
    /\ edits = 0
    /\ load = [t \in Task |-> Resting]
    /\ catalogs = [s \in Server |-> Served(rows)]
    /\ origin = [s \in Server |-> [at |-> 0, rows |-> rows]]
    /\ listening = Server
    /\ inbox = [s \in Server |-> <<>>]
    /\ confirmed = 0
    /\ disturbed = FALSE

-----------------------------------------------------------------------------
(* The operator *)

\* A row is inserted, deleted or (de)activated.
EditRow(row) ==
    /\ edits < MaxEdits
    /\ edits' = edits + 1
    /\ rows' = IF row \in rows THEN rows \ {row} ELSE rows \cup {row}
    /\ UNCHANGED <<cdn, load, stores, listening, inbox, confirmed, disturbed>>

\* The files of a version are uploaded again.
Upload(v) ==
    /\ edits < MaxEdits
    /\ edits' = edits + 1
    /\ cdn' = [cdn EXCEPT ![v] = @ + 1]
    /\ UNCHANGED <<rows, load, stores, listening, inbox, confirmed, disturbed>>

\* POST /admin/design/reload, one call after the other.
CallReload(s) ==
    /\ s \in Reloader
    /\ load[<<s, "subscriber">>].stage = "subscribe" \/ s \in listening
    /\ load[<<s, "admin">>].stage = "idle"
    /\ load' = [load EXCEPT ![<<s, "admin">>].stage = "query"]
    /\ UNCHANGED <<operator, stores, listening, inbox, confirmed, disturbed>>

-----------------------------------------------------------------------------
(* The subscriber *)

\* Mutant of Receive: the server's own messages are not skipped.
ReceiveOwn(s) ==
    /\ s \in listening
    /\ load[<<s, "subscriber">>].stage = "idle"
    /\ inbox[s] # <<>>
    /\ inbox' = [inbox EXCEPT ![s] = Tail(@)]
    /\ load' = [load EXCEPT ![<<s, "subscriber">>].stage = "query"]
    /\ UNCHANGED <<operator, stores, listening, confirmed, disturbed>>

Receive(s) ==
    /\ s \in listening
    /\ load[<<s, "subscriber">>].stage = "idle"
    /\ inbox[s] # <<>>
    /\ inbox' = [inbox EXCEPT ![s] = Tail(@)]
    /\ IF Head(inbox[s]) = s THEN UNCHANGED load
       ELSE load' = [load EXCEPT ![<<s, "subscriber">>].stage = "query"]
    /\ UNCHANGED <<operator, stores, listening, confirmed, disturbed>>

\* After the first load of a server.
Subscribe(s) ==
    /\ load[<<s, "subscriber">>].stage = "subscribe"
    /\ load' = [load EXCEPT ![<<s, "subscriber">>] = Resting]
    /\ listening' = listening \cup {s}
    /\ UNCHANGED <<operator, stores, inbox, confirmed, disturbed>>

-----------------------------------------------------------------------------
(* LoadActive *)

\* LoadActive returns an error.  A reload answers it, a subscriber logs it; a
\* server that is starting exits and is started again.
Fail(t) ==
    /\ load' = [load EXCEPT ![t] =
           IF t[2] = "subscriber" /\ t[1] \notin listening
             THEN Loading("query", Resting.query, NoCatalogs, {}) ELSE Resting]
    /\ disturbed' = TRUE
    /\ UNCHANGED <<operator, stores, listening, inbox, confirmed>>

QueryRows(t) ==
    /\ load[t].stage = "query"
    /\ rows # {}
    /\ load' = [load EXCEPT ![t] = Loading("download",
                    [at |-> edits, rows |-> rows], NoCatalogs, Kept(rows))]
    /\ UNCHANGED <<operator, stores, listening, inbox, confirmed, disturbed>>

\* The query fails, or no version is active.
QueryFails(t) ==
    /\ load[t].stage = "query"
    /\ MayFail \/ rows = {}
    /\ Fail(t)

\* loader.Load of the next version, the newest first.  A client version with rows of two
\* versions ends up with the older one, which is mapped later.
Download(t) ==
    /\ load[t].stage = "download"
    /\ \E v \in load[t].todo :
           /\ Newest(v, load[t].todo)
           /\ LET cat == [version |-> v, revision |-> cdn[v]] IN
              load' = [load EXCEPT ![t].map = Mapped(@, load[t].query.rows, cat),
                                   ![t].todo = @ \ {v}]
    /\ UNCHANGED <<operator, stores, listening, inbox, confirmed, disturbed>>

\* The next version is left out.
Skip(t) ==
    \E v \in load[t].todo : Newest(v, load[t].todo) /\ load' = [load EXCEPT ![t].todo = @ \ {v}]

\* Mutant of DownloadFails: the newest version is skipped like the others.
DownloadFailsSkipping(t) ==
    /\ MayFail
    /\ load[t].stage = "download"
    /\ Skip(t)
    /\ UNCHANGED <<operator, stores, listening, inbox, confirmed, disturbed>>

\* Without the newest version the load fails; any other is skipped.
DownloadFails(t) ==
    /\ MayFail
    /\ load[t].stage = "download" /\ load[t].todo # {}
    /\ IF load[t].todo = Kept(load[t].query.rows) THEN Fail(t)
       ELSE /\ Skip(t)
            /\ disturbed' = TRUE
            /\ UNCHANGED <<operator, stores, listening, inbox, confirmed>>

\* Store.Replace.  A reload goes on to tell the others.
Replace(t) ==
    LET s == t[1] IN
    /\ load[t].stage = "download" /\ load[t].todo = {}
    /\ catalogs' = [catalogs EXCEPT ![s] = load[t].map]
    /\ origin' = [origin EXCEPT ![s] = load[t].query]
    /\ load' = [load EXCEPT ![t] =
           IF t[2] = "admin" THEN [@ EXCEPT !.stage = "publish"]
           ELSE IF s \notin listening THEN [Resting EXCEPT !.stage = "subscribe"]
           ELSE Resting]
    /\ UNCHANGED <<operator, listening, inbox, confirmed, disturbed>>

\* Mutant of Publish: a server tells only itself.
PublishToSelf(s) ==
    /\ load[<<s, "admin">>].stage = "publish"
    /\ load' = [load EXCEPT ![<<s, "admin">>] = Resting]
    /\ inbox' = [inbox EXCEPT ![s] = IF Len(@) < MaxInbox THEN Append(@, s) ELSE @]
    /\ confirmed' = load[<<s, "admin">>].query.at
    /\ UNCHANGED <<operator, stores, listening, disturbed>>

\* PUBLISH, and "OK" to the operator.  Every subscriber gets the message, the
\* sender too, unless its channel is full or, with failures, its connection is down.
Publish(s) ==
    /\ load[<<s, "admin">>].stage = "publish"
    /\ load' = [load EXCEPT ![<<s, "admin">>] = Resting]
    /\ \E lost \in IF MayFail THEN SUBSET listening ELSE {{}} :
           /\ inbox' = [x \in Server |->
                  IF x \in listening \ lost /\ Len(inbox[x]) < MaxInbox
                    THEN Append(inbox[x], s) ELSE inbox[x]]
           /\ disturbed' = (disturbed \/ lost # {})
    /\ confirmed' = load[<<s, "admin">>].query.at
    /\ UNCHANGED <<operator, stores, listening>>

\* The operator is told of an error, although this server has been reloaded.
PublishFails(s) ==
    /\ MayFail
    /\ load[<<s, "admin">>].stage = "publish"
    /\ Fail(<<s, "admin">>)

-----------------------------------------------------------------------------
(* The servers *)

\* The process ends and starts again: LoadActive first, the subscription later.
Restart(s) ==
    /\ MayRestart
    /\ listening' = listening \ {s}
    /\ inbox' = [inbox EXCEPT ![s] = <<>>]
    /\ catalogs' = [catalogs EXCEPT ![s] = NoCatalogs]
    /\ load' = [load EXCEPT ![<<s, "admin">>] = Resting,
                            ![<<s, "subscriber">>] = [Resting EXCEPT !.stage = "query"]]
    /\ disturbed' = TRUE
    /\ UNCHANGED <<operator, origin, confirmed>>

TaskStep(t) ==
    \/ QueryRows(t) \/ QueryFails(t) \/ Download(t) \/ DownloadFails(t) \/ Replace(t)
    \/ t[2] = "admin" /\ (Publish(t[1]) \/ PublishFails(t[1]))
    \/ t[2] = "subscriber" /\ (Receive(t[1]) \/ Subscribe(t[1]))

Next ==
    \/ \E row \in Row : EditRow(row)
    \/ \E v \in Version : Upload(v)
    \/ \E s \in Server : CallReload(s) \/ Restart(s)
    \/ \E t \in Task : TaskStep(t)

Spec == Init /\ [][Next]_vars

\* A reload and a subscriber go on once they have begun; nobody has to edit, call
\* a reload or restart a server.
FairSpec == Spec /\ \A t \in Task : WF_vars(TaskStep(t))

-----------------------------------------------------------------------------
(* Properties *)

\* syncer.go:100-121: a server that is up never serves a mixture: every mapping is
\* of one query, keeps to its newest versions, and lacks none of the newest one's
\* clients, whatever failed while it was loaded.
OneQuery ==
    \A s \in Server :
        catalogs[s] # NoCatalogs =>
            LET q == origin[s].rows IN
            \A c \in Client :
                /\ \A v \in Kept(q) :
                       <<c, v>> \in q /\ Newest(v, Kept(q)) => catalogs[s][c] # Null
                /\ catalogs[s][c] # Null =>
                       /\ <<c, catalogs[s][c].version>> \in q
                       /\ catalogs[s][c].version \in Kept(q)

\* syncer.go:20-22, README.md:438: as long as the reload is called on one server
\* only, no server goes back to an older state of TB_VERSION.
NeverOlder == [][\A s \in Server : origin'[s].at >= origin[s].at]_vars

Reached(n) == edits > n \/ \A s \in Server : origin[s].at >= n

\* README.md:440,515: a reload that was answered "OK" reaches every server, unless the
\* operator has edited again, as long as nothing fails and no server restarts, whatever
\* else is going on: loads in progress, messages dropped because a channel is full, other
\* reloads.
ReloadReaches ==
    \A n \in 1 .. MaxEdits : confirmed = n ~> Reached(n) \/ disturbed
=============================================================================
