---------------------------- MODULE ResourceSync ----------------------------
(***************************************************************************)
(* What every server keeps in memory besides design data: the snapshot of  *)
(* TB_SERVER_MAINTENANCE (internal/resource), which the middleware asks    *)
(* for each request, and the offset of the logical clock (internal/clock). *)
(* The first is reloaded on all servers through Redis Pub/Sub, the second  *)
(* is set on one server and logged in TB_ADD_SERVER_TIME for the next      *)
(* start of the others.                                                    *)
(*                                                                         *)
(* A window is its first and its first later tick of real time, which      *)
(* maintenance goes by whatever the offset is.                             *)
(***************************************************************************)
EXTENDS Integers, Sequences, SequencesExt, FiniteSets

CONSTANTS
    Server,
    Caller,         \* the server whose reload the operator calls
    Window,         \* the maintenance rows that may be active: [from, to]
    Offset,         \* what the clock may be set to
    Start,          \* a set of active rows to begin with
    MaxTables,      \* bound on the states of TB_SERVER_MAINTENANCE
    MaxJumps,       \* bound on the rows of TB_ADD_SERVER_TIME
    MaxTime,        \* bound on the time
    MaxInbox        \* capacity of the subscription's channel

ASSUME ResourceAssumption ==
    /\ Caller \in Server
    /\ Window \subseteq [from : Nat, to : Nat] /\ Start \subseteq Window
    /\ Offset \subseteq Int \ {0}
    /\ MaxTables \in Nat \ {0} /\ MaxJumps \in Nat \ {0}
    /\ MaxTime \in Nat \ {0} /\ MaxInbox \in Nat \ {0}

VARIABLES
    now,        \* time.Now()
    tables,     \* the states of the active rows, the last one is the present one
    log,        \* add_second in TB_ADD_SERVER_TIME, oldest first
    phase,      \* where a server is in main, or "up"
    snap,       \* Store.snapshot: the state of the rows it was loaded from, 0 for none
    offset,     \* clock.offsetNs
    load,       \* the rows a subscriber's LoadAll has read, 0 when none is running
    inbox,      \* number of messages of other servers that a subscriber has to handle
    reload,     \* POST /admin/resource/reload on Caller
    jump,       \* POST /admin/clock/jump
    answered,   \* the state of the rows behind the last reload answered "OK" (history)
    deaf,       \* servers that missed a message or failed to load since (history)
    adopted     \* servers that took over the last row of the log (history)

sync == <<tables, snap, load, inbox, reload, answered, deaf>>
clock == <<log, offset, jump, adopted>>
vars == <<now, phase, sync, clock>>

TypeOK ==
    /\ now \in 0 .. MaxTime
    /\ tables \in Seq(SUBSET Window) /\ Len(tables) \in 1 .. MaxTables
    /\ log \in Seq(Offset \cup {0}) /\ Len(log) <= MaxJumps
    /\ phase \in [Server -> {"load", "clock", "subscribe", "up"}]
    /\ snap \in [Server -> 0 .. Len(tables)] /\ load \in [Server -> 0 .. Len(tables)]
    /\ \A s \in Server : (phase[s] = "load") <=> snap[s] = 0
    /\ offset \in [Server -> Offset \cup {0}]
    /\ inbox \in [Server -> 0 .. MaxInbox]
    /\ reload \in [stage : {"idle", "query", "replace", "publish"}, read : 0 .. Len(tables)]
    /\ jump \in [stage : {"idle", "insert", "set"}, server : Server, value : Offset \cup {0}]
    /\ answered \in 0 .. Len(tables) /\ deaf \subseteq Server /\ adopted \subseteq Server

NoReload == [stage |-> "idle", read |-> 0]
NoJump == [stage |-> "idle", server |-> Caller, value |-> 0]

Init ==
    /\ now = 0 /\ tables = <<Start>> /\ log = <<>>
    /\ phase = [s \in Server |-> "up"] /\ snap = [s \in Server |-> 1]
    /\ offset = [s \in Server |-> 0] /\ load = [s \in Server |-> 0]
    /\ inbox = [s \in Server |-> 0]
    /\ reload = NoReload /\ jump = NoJump
    /\ answered = 1 /\ deaf = {} /\ adopted = Server

Listening(s) == phase[s] = "up"

\* The server's process answers requests; the subscription is made beside that.
Serving(s) == phase[s] \in {"subscribe", "up"}

-----------------------------------------------------------------------------
(* Maintenance *)

\* Mutant of ActiveMaintenance: the newest row only.
ActiveMaintenanceNewest(rows, t) ==
    \E w \in rows : w.from <= t /\ t < w.to /\ \A v \in rows : v.from <= w.from

\* Snapshot.ActiveMaintenance.
ActiveMaintenance(rows, t) == \E w \in rows : w.from <= t /\ t < w.to

\* MaintenanceMiddleware lets a game request through.
Admits(s) == Serving(s) /\ ~ActiveMaintenance(tables[snap[s]], now)

Tick ==
    /\ now < MaxTime
    /\ now' = now + 1
    /\ UNCHANGED <<phase, sync, clock>>

\* The operator (de)activates a row.
EditRow(w) ==
    /\ Len(tables) < MaxTables
    /\ tables' = Append(tables, IF w \in Last(tables) THEN Last(tables) \ {w}
                                ELSE Last(tables) \cup {w})
    /\ UNCHANGED <<now, phase, snap, load, inbox, reload, answered, deaf, clock>>

Adopts(s, read) ==
    /\ snap' = [snap EXCEPT ![s] = read]
    /\ deaf' = IF read >= answered THEN deaf \ {s} ELSE deaf

\* Trigger: LoadAll, which reads the rows and replaces the snapshot, and PUBLISH.
CallReload ==
    /\ reload.stage = "idle" /\ Serving(Caller)
    /\ reload' = [NoReload EXCEPT !.stage = "query"]
    /\ UNCHANGED <<now, phase, tables, snap, load, inbox, answered, deaf, clock>>

ReloadQuery ==
    /\ reload.stage = "query"
    /\ reload' = [stage |-> "replace", read |-> Len(tables)]
    /\ UNCHANGED <<now, phase, tables, snap, load, inbox, answered, deaf, clock>>

ReloadReplace ==
    /\ reload.stage = "replace"
    /\ Adopts(Caller, reload.read)
    /\ reload' = [reload EXCEPT !.stage = "publish"]
    /\ UNCHANGED <<now, phase, tables, load, inbox, answered, clock>>

\* Mutant of Publish: a subscriber that is loading is not sent another message.
PublishUnlessLoading ==
    LET told == {s \in Server \ {Caller} : Listening(s) /\ load[s] = 0} IN
    /\ reload.stage = "publish"
    /\ inbox' = [s \in Server |-> IF s \in told /\ inbox[s] < MaxInbox THEN inbox[s] + 1
                                  ELSE inbox[s]]
    /\ answered' = reload.read
    /\ reload' = NoReload
    /\ UNCHANGED <<now, phase, tables, snap, load, deaf, clock>>

\* Mutant of Publish: the sender does not skip its own message.
PublishToAll ==
    /\ reload.stage = "publish"
    /\ inbox' = [s \in Server |-> IF Listening(s) /\ inbox[s] < MaxInbox
                                    THEN inbox[s] + 1 ELSE inbox[s]]
    /\ answered' = reload.read
    /\ reload' = NoReload
    /\ UNCHANGED <<now, phase, tables, snap, load, deaf, clock>>

\* "OK".  A server may be disconnected; the sender skips its own message.  One that
\* is dropped because the channel is full leaves a message that is handled later.
Publish ==
    /\ reload.stage = "publish"
    /\ \E lost \in SUBSET (Server \ {Caller}) :
           LET told == {s \in Server \ ({Caller} \cup lost) : Listening(s)} IN
           /\ inbox' = [s \in Server |-> IF s \in told /\ inbox[s] < MaxInbox
                                           THEN inbox[s] + 1 ELSE inbox[s]]
           /\ deaf' = deaf \cup (Server \ ({Caller} \cup told))
    /\ answered' = reload.read
    /\ reload' = NoReload
    /\ UNCHANGED <<now, phase, tables, snap, load, clock>>

\* The query or the PUBLISH fails: the operator is told so.
ReloadFails ==
    /\ reload.stage \in {"query", "publish"}
    /\ reload' = NoReload
    /\ UNCHANGED <<now, phase, tables, snap, load, inbox, answered, deaf, clock>>

\* subscribe: LoadAll for each message of another server.
Receive(s) ==
    /\ Listening(s) /\ inbox[s] > 0 /\ load[s] = 0
    /\ inbox' = [inbox EXCEPT ![s] = @ - 1]
    /\ \/ load' = [load EXCEPT ![s] = Len(tables)] /\ UNCHANGED deaf
       \/ deaf' = deaf \cup {s} /\ UNCHANGED load
    /\ UNCHANGED <<now, phase, tables, snap, reload, answered, clock>>

SubscriberReplaces(s) ==
    /\ load[s] # 0
    /\ Adopts(s, load[s])
    /\ load' = [load EXCEPT ![s] = 0]
    /\ UNCHANGED <<now, phase, tables, inbox, reload, answered, clock>>

-----------------------------------------------------------------------------
(* The logical clock *)

\* One jump at a time.
CallJump(s, value) ==
    /\ jump.stage = "idle" /\ Serving(s)
    /\ Len(log) < MaxJumps
    /\ jump' = [stage |-> "insert", server |-> s, value |-> value]
    /\ UNCHANGED <<now, phase, sync, log, offset, adopted>>

\* AddServerTimeRepository.Create.
Insert ==
    /\ jump.stage = "insert"
    /\ log' = Append(log, jump.value)
    /\ adopted' = {}
    /\ jump' = [jump EXCEPT !.stage = "set"]
    /\ UNCHANGED <<now, phase, sync, offset>>

\* The row may be there, and the clock goes by it after the next start.
InsertFails ==
    /\ jump.stage = "insert"
    /\ \/ log' = Append(log, jump.value) /\ adopted' = {}
       \/ UNCHANGED <<log, adopted>>
    /\ jump' = NoJump
    /\ UNCHANGED <<now, phase, sync, offset>>

SetOffset ==
    /\ jump.stage = "set"
    /\ offset' = [offset EXCEPT ![jump.server] = jump.value]
    /\ adopted' = adopted \cup {jump.server}
    /\ jump' = NoJump
    /\ UNCHANGED <<now, phase, sync, log>>

-----------------------------------------------------------------------------
(* A server ends and starts again: main *)

Restart(s) ==
    /\ phase' = [phase EXCEPT ![s] = "load"]
    /\ snap' = [snap EXCEPT ![s] = 0] /\ load' = [load EXCEPT ![s] = 0]
    /\ inbox' = [inbox EXCEPT ![s] = 0]
    /\ reload' = IF s = Caller THEN NoReload ELSE reload
    /\ offset' = [offset EXCEPT ![s] = 0] /\ adopted' = adopted \ {s}
    /\ jump' = IF s = jump.server THEN NoJump ELSE jump
    /\ UNCHANGED <<now, tables, answered, deaf, log>>

\* LoadAll; when it fails the process exits.
FirstLoad(s) ==
    /\ phase[s] = "load"
    /\ Adopts(s, Len(tables))
    /\ phase' = [phase EXCEPT ![s] = "clock"]
    /\ UNCHANGED <<now, tables, load, inbox, reload, answered, clock>>

\* Mutant of LoadOffset: the first row.
LoadOffsetFirst(s) ==
    /\ phase[s] = "clock"
    /\ offset' = [offset EXCEPT ![s] = IF log = <<>> THEN 0 ELSE Head(log)]
    /\ adopted' = adopted \cup {s}
    /\ phase' = [phase EXCEPT ![s] = "subscribe"]
    /\ UNCHANGED <<now, sync, log, jump>>

\* FindLatest.
LoadOffset(s) ==
    /\ phase[s] = "clock"
    /\ offset' = [offset EXCEPT ![s] = IF log = <<>> THEN 0 ELSE Last(log)]
    /\ adopted' = adopted \cup {s}
    /\ phase' = [phase EXCEPT ![s] = "subscribe"]
    /\ UNCHANGED <<now, sync, log, jump>>

\* "failed to load server clock offset; using zero".
LoadOffsetFails(s) ==
    /\ phase[s] = "clock"
    /\ phase' = [phase EXCEPT ![s] = "subscribe"]
    /\ UNCHANGED <<now, sync, clock>>

Subscribe(s) ==
    /\ phase[s] = "subscribe"
    /\ phase' = [phase EXCEPT ![s] = "up"]
    /\ UNCHANGED <<now, sync, clock>>

-----------------------------------------------------------------------------
Next ==
    \/ Tick \/ \E w \in Window : EditRow(w)
    \/ CallReload \/ ReloadQuery \/ ReloadReplace \/ Publish \/ ReloadFails
    \/ \E s \in Server : Receive(s) \/ SubscriberReplaces(s)
    \/ \E s \in Server, value \in Offset \cup {0} : CallJump(s, value)
    \/ Insert \/ InsertFails \/ SetOffset
    \/ \E s \in Server :
          \/ Restart(s) \/ FirstLoad(s) \/ LoadOffset(s) \/ LoadOffsetFails(s)
          \/ Subscribe(s)

Spec == Init /\ [][Next]_vars

-----------------------------------------------------------------------------
(* Properties *)

\* A reload answered "OK" (admin.go:57) has arrived at every server that got the
\* message and has handled what it got, whatever it was loading meanwhile, however
\* full its channel was and whether it was started again since.
Settled(s) == Serving(s) /\ s \notin deaf /\ inbox[s] = 0 /\ load[s] = 0
ReloadArrives == \A s \in Server : Settled(s) => snap[s] >= answered

\* Such a server lets no request start (maintenance.go:31) inside a window that has
\* been in the table ever since the reload, beside others or not, while the logical
\* clock jumps about.
MaintenanceIsKept ==
    \A s \in Server : Settled(s) /\ Admits(s) =>
        ~\E w \in Window :
            /\ \A i \in answered .. Len(tables) : w \in tables[i]
            /\ now \in w.from .. (w.to - 1)

\* admin.go:325: a server that made the last jump, or that started after it and could
\* read the log (main.go:106), is at the offset of the last row: a jump answered OK
\* survives the restart of any server.
JumpSurvivesRestart ==
    \A s \in adopted : offset[s] = IF log = <<>> THEN 0 ELSE Last(log)

\* One server only is asked to reload, one call after the other: no snapshot is
\* replaced by one that was read before it (syncer.go:53).
NeverOlder ==
    [][\A s \in Server : snap'[s] # 0 => snap'[s] >= snap[s]]_vars
=============================================================================
