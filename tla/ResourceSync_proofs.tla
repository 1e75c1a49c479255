------------------------ MODULE ResourceSync_proofs ------------------------
(***************************************************************************)
(* Proofs about the reloads of maintenance rows and the logical clock, for *)
(* any servers, windows, offsets and bounds.                               *)
(***************************************************************************)
EXTENDS ResourceSync, TLAPS

\* What loads carry: only subscribers that are up load for a message, the caller of the
\* reload never does, and neither has read less than its server serves.
LoadsAreNewer ==
    /\ inbox[Caller] = 0 /\ load[Caller] = 0
    /\ reload.stage # "idle" => phase[Caller] # "load"
    /\ reload.stage = "replace" => reload.read >= snap[Caller]
    /\ reload.stage = "publish" => reload.read = snap[Caller]
    /\ reload.stage \in {"replace", "publish"} => reload.read >= answered
    /\ \A s \in Server : load[s] # 0 => Listening(s) /\ load[s] >= snap[s]

\* ReloadArrives for servers that are not up yet as well, and for loads in progress.
Arrives ==
    \A s \in Server : s \notin deaf /\ inbox[s] = 0 /\ phase[s] # "load" =>
        IF load[s] = 0 THEN snap[s] >= answered ELSE load[s] >= answered

\* The row that is in the log when the offset is still to be set.
LogLeads ==
    /\ jump.stage = "set" => log # <<>> /\ Last(log) = jump.value
    /\ JumpSurvivesRestart

\* The row of a jump that is called fits below the bound of the model.
LogFits == jump.stage = "insert" => Len(log) < MaxJumps

IInv == TypeOK /\ LogFits /\ LoadsAreNewer /\ Arrives

-----------------------------------------------------------------------------
(* The invariant of the reloads *)

\* In the initial state every server is up and serves the first state of the rows.
LEMMA InitIInv == Init => IInv
BY ResourceAssumption
DEF Init, IInv, TypeOK, LogFits, LoadsAreNewer, Arrives, Listening, NoReload, NoJump

\* The steps that no jump takes part in keep the types.
LEMMA SyncKeepsTypes ==
    ASSUME IInv,
           \/ Tick \/ \E w \in Window : EditRow(w)
           \/ CallReload \/ ReloadQuery \/ ReloadReplace \/ Publish \/ ReloadFails
           \/ \E s \in Server : Receive(s) \/ SubscriberReplaces(s) \/ FirstLoad(s)
    PROVE  TypeOK' /\ LogFits'
<1> USE ResourceAssumption DEF IInv, clock, sync
<1>1. CASE Tick
  <2>1. now' \in 0 .. MaxTime
    BY <1>1 DEF Tick, TypeOK
  <2>2. UNCHANGED <<phase, tables, snap, load, inbox, reload, answered, deaf, log,
                    offset, jump, adopted>>
    BY <1>1 DEF Tick
  <2>. QED  BY <2>1, <2>2 DEF TypeOK, LogFits
<1>2. ASSUME NEW w \in Window, EditRow(w) PROVE TypeOK' /\ LogFits'
  <2>1. /\ tables \in Seq(SUBSET Window) /\ Len(tables) \in Nat \ {0}
        /\ Len(tables) < MaxTables /\ MaxTables \in Nat
    BY <1>2 DEF EditRow, TypeOK
  <2>. Last(tables) \in SUBSET Window
    BY <2>1 DEF Last
  <2>2. /\ tables' \in Seq(SUBSET Window) /\ Len(tables') = Len(tables) + 1
        /\ Len(tables') <= MaxTables
    <3>1. PICK rows \in SUBSET Window : tables' = Append(tables, rows)
      BY <1>2, <2>1 DEF EditRow
    <3>. QED  BY <2>1, <3>1
  <2>3. 0 .. Len(tables) \subseteq 0 .. Len(tables')
    BY <2>1, <2>2
  <2>4. /\ reload' \in [stage : {"idle", "query", "replace", "publish"}, read : 0 .. Len(tables')]
        /\ answered' \in 0 .. Len(tables')
        /\ snap' \in [Server -> 0 .. Len(tables')] /\ load' \in [Server -> 0 .. Len(tables')]
    BY <1>2, <2>3 DEF EditRow, TypeOK
  <2>5. UNCHANGED <<now, log, phase, snap, offset, inbox, jump, deaf, adopted>>
    BY <1>2 DEF EditRow
  <2>6. Len(tables') \in 1 .. MaxTables
    BY <2>1, <2>2
  <2>7. LogFits'
    BY <2>5 DEF LogFits
  <2>8. TypeOK'
    BY <2>2, <2>4, <2>5, <2>6 DEF TypeOK
  <2>. QED  BY <2>7, <2>8
<1>3. CASE CallReload \/ ReloadQuery \/ Publish \/ ReloadFails
  <2>1. reload' \in [stage : {"idle", "query", "replace", "publish"}, read : 0 .. Len(tables)]
    <3>1. Len(tables) \in 0 .. Len(tables) /\ 0 \in 0 .. Len(tables)
      BY DEF TypeOK
    <3>2. \/ reload' = [stage |-> "query", read |-> 0]
          \/ reload' = [stage |-> "idle", read |-> 0]
          \/ reload' = [stage |-> "replace", read |-> Len(tables)]
      BY <1>3 DEF CallReload, ReloadQuery, Publish, ReloadFails, NoReload
    <3>. QED  BY <3>1, <3>2
  <2>2. inbox' \in [Server -> 0 .. MaxInbox] /\ deaf' \subseteq Server
        /\ answered' \in 0 .. Len(tables)
    <3>1. CASE Publish
      <4>1. inbox \in [Server -> 0 .. MaxInbox] /\ MaxInbox \in Nat
        BY DEF TypeOK
      <4>2. PICK told \in SUBSET Server :
                inbox' = [s \in Server |-> IF s \in told /\ inbox[s] < MaxInbox
                                             THEN inbox[s] + 1 ELSE inbox[s]]
        BY <3>1 DEF Publish
      <4>3. inbox' \in [Server -> 0 .. MaxInbox]
        BY <4>1, <4>2
      <4>. QED  BY <3>1, <4>3 DEF Publish, TypeOK
    <3>2. CASE ~Publish
      BY <1>3, <3>2 DEF CallReload, ReloadQuery, ReloadFails, TypeOK
    <3>. QED  BY <3>1, <3>2
  <2>. QED
    BY <1>3, <2>1, <2>2
    DEF CallReload, ReloadQuery, Publish, ReloadFails, TypeOK, LogFits
<1>4. CASE ReloadReplace
  <2>1. Caller \in Server /\ reload.read \in 0 .. Len(tables) /\ reload.read # 0
        /\ phase[Caller] # "load"
    BY <1>4 DEF ReloadReplace, TypeOK, LoadsAreNewer
  <2>2. snap' \in [Server -> 0 .. Len(tables)]
        /\ \A s \in Server : (phase[s] = "load") <=> snap'[s] = 0
    BY <1>4, <2>1 DEF ReloadReplace, Adopts, TypeOK
  <2>. QED  BY <1>4, <2>1, <2>2 DEF ReloadReplace, Adopts, TypeOK, LogFits
<1>5. ASSUME NEW s \in Server, Receive(s) PROVE TypeOK' /\ LogFits'
  <2>1. inbox' \in [Server -> 0 .. MaxInbox] /\ load' \in [Server -> 0 .. Len(tables)]
        /\ deaf' \subseteq Server
    <3>1. inbox \in [Server -> 0 .. MaxInbox] /\ MaxInbox \in Nat /\ inbox[s] > 0
          /\ inbox' = [inbox EXCEPT ![s] = @ - 1]
      BY <1>5 DEF Receive, TypeOK
    <3>2. inbox[s] - 1 \in 0 .. MaxInbox
      BY <3>1
    <3>3. load \in [Server -> 0 .. Len(tables)] /\ Len(tables) \in 0 .. Len(tables)
          /\ deaf \subseteq Server
      <4>1. Len(tables) \in 1 .. MaxTables /\ load \in [Server -> 0 .. Len(tables)]
            /\ deaf \subseteq Server /\ MaxTables \in Nat
        BY DEF TypeOK
      <4>2. Len(tables) \in 0 .. Len(tables)
        BY <4>1
      <4>. QED  BY <4>1, <4>2
    <3>4. load' \in [Server -> 0 .. Len(tables)] /\ deaf' \subseteq Server
      BY <1>5, <3>3 DEF Receive
    <3>. QED  BY <3>1, <3>2, <3>4
  <2>. QED  BY <1>5, <2>1 DEF Receive, TypeOK, LogFits
<1>6. ASSUME NEW s \in Server, SubscriberReplaces(s) PROVE TypeOK' /\ LogFits'
  <2>1. load[s] # 0 /\ phase[s] # "load"
    BY <1>6 DEF SubscriberReplaces, LoadsAreNewer, Listening
  <2>2. /\ snap' \in [Server -> 0 .. Len(tables)] /\ load' \in [Server -> 0 .. Len(tables)]
        /\ \A r \in Server : (phase[r] = "load") <=> snap'[r] = 0
        /\ deaf' \subseteq Server
    <3>1. /\ snap \in [Server -> 0 .. Len(tables)] /\ load \in [Server -> 0 .. Len(tables)]
          /\ \A r \in Server : (phase[r] = "load") <=> snap[r] = 0
          /\ deaf \subseteq Server
      BY DEF TypeOK
    <3>2. /\ snap' = [snap EXCEPT ![s] = load[s]] /\ load' = [load EXCEPT ![s] = 0]
          /\ deaf' \subseteq deaf /\ UNCHANGED tables
      BY <1>6 DEF SubscriberReplaces, Adopts
    <3>3. load[s] \in 0 .. Len(tables) /\ 0 \in 0 .. Len(tables)
      BY <3>1
    <3>4. snap' \in [Server -> 0 .. Len(tables)] /\ load' \in [Server -> 0 .. Len(tables)]
      BY <3>1, <3>2, <3>3
    <3>5. ASSUME NEW r \in Server PROVE (phase[r] = "load") <=> snap'[r] = 0
      BY <2>1, <3>1, <3>2
    <3>. QED  BY <3>1, <3>2, <3>4, <3>5
  <2>. QED  BY <1>6, <2>2 DEF SubscriberReplaces, TypeOK, LogFits
<1>7. ASSUME NEW s \in Server, FirstLoad(s) PROVE TypeOK' /\ LogFits'
  <2>1. /\ snap' \in [Server -> 0 .. Len(tables)] /\ deaf' \subseteq Server
        /\ phase' \in [Server -> {"load", "clock", "subscribe", "up"}]
        /\ \A r \in Server : (phase'[r] = "load") <=> snap'[r] = 0
    <3>1. /\ snap \in [Server -> 0 .. Len(tables)] /\ deaf \subseteq Server
          /\ phase \in [Server -> {"load", "clock", "subscribe", "up"}]
          /\ \A r \in Server : (phase[r] = "load") <=> snap[r] = 0
          /\ Len(tables) \in 1 .. MaxTables /\ MaxTables \in Nat
      BY DEF TypeOK
    <3>2. /\ snap' = [snap EXCEPT ![s] = Len(tables)] /\ deaf' \subseteq deaf
          /\ phase' = [phase EXCEPT ![s] = "clock"]
      BY <1>7 DEF FirstLoad, Adopts
    <3>3. Len(tables) \in 0 .. Len(tables) /\ Len(tables) # 0
      BY <3>1
    <3>. QED  BY <3>1, <3>2, <3>3
  <2>. QED  BY <1>7, <2>1 DEF FirstLoad, TypeOK, LogFits
<1>. QED  BY <1>1, <1>2, <1>3, <1>4, <1>5, <1>6, <1>7

\* So do those of the clock and of main, and steps of other systems.
LEMMA ClockKeepsTypes ==
    ASSUME IInv,
           \/ \E s \in Server, value \in Offset \cup {0} : CallJump(s, value)
           \/ Insert \/ InsertFails \/ SetOffset
           \/ \E s \in Server :
                Restart(s) \/ LoadOffset(s) \/ LoadOffsetFails(s) \/ Subscribe(s)
           \/ UNCHANGED vars
    PROVE  TypeOK' /\ LogFits'
<1> USE ResourceAssumption DEF IInv, clock, sync
<1> DEFINE Jumps == [stage : {"idle", "insert", "set"}, server : Server,
                     value : Offset \cup {0}]
<1>1. ASSUME NEW s \in Server, NEW value \in Offset \cup {0}, CallJump(s, value)
      PROVE TypeOK' /\ LogFits'
  <2>1. jump' \in Jumps
    BY <1>1 DEF CallJump
  <2>. QED  BY <1>1, <2>1 DEF CallJump, TypeOK, LogFits
<1>2. CASE Insert \/ InsertFails
  <2>1. jump.stage = "insert" /\ jump.value \in Offset \cup {0} /\ Len(log) < MaxJumps
    BY <1>2 DEF Insert, InsertFails, TypeOK, LogFits
  <2>2. log' \in Seq(Offset \cup {0}) /\ Len(log') <= MaxJumps
    <3>1. log \in Seq(Offset \cup {0}) /\ Len(log) \in Nat /\ MaxJumps \in Nat
      BY DEF TypeOK
    <3>2. log' = Append(log, jump.value) \/ log' = log
      BY <1>2 DEF Insert, InsertFails
    <3>. QED  BY <2>1, <3>1, <3>2
  <2>3. jump' \in Jumps /\ jump'.stage # "insert"
    <3>1. jump \in Jumps /\ NoJump \in Jumps /\ NoJump.stage # "insert"
      BY DEF TypeOK, NoJump
    <3>2. jump' = NoJump \/ jump' = [jump EXCEPT !.stage = "set"]
      BY <1>2 DEF Insert, InsertFails
    <3>3. [jump EXCEPT !.stage = "set"] \in Jumps
          /\ [jump EXCEPT !.stage = "set"].stage # "insert"
      BY <3>1
    <3>. QED  BY <3>1, <3>2, <3>3
  <2>4. adopted' \subseteq Server
    BY <1>2 DEF Insert, InsertFails, TypeOK
  <2>5. UNCHANGED <<now, phase, tables, snap, load, inbox, reload, answered, deaf, offset>>
    BY <1>2 DEF Insert, InsertFails
  <2>. QED  BY <2>2, <2>3, <2>4, <2>5 DEF TypeOK, LogFits
<1>3. CASE SetOffset
  <2>1. jump' \in Jumps /\ jump'.stage # "insert" /\ adopted' \subseteq Server
        /\ offset' \in [Server -> Offset \cup {0}]
    BY <1>3 DEF SetOffset, NoJump, TypeOK
  <2>. QED  BY <1>3, <2>1 DEF SetOffset, TypeOK, LogFits
<1>4. ASSUME NEW s \in Server, Restart(s) PROVE TypeOK' /\ LogFits'
  <2>1. /\ snap' \in [Server -> 0 .. Len(tables)] /\ load' \in [Server -> 0 .. Len(tables)]
        /\ phase' \in [Server -> {"load", "clock", "subscribe", "up"}]
        /\ \A r \in Server : (phase'[r] = "load") <=> snap'[r] = 0
    <3>1. /\ snap \in [Server -> 0 .. Len(tables)] /\ load \in [Server -> 0 .. Len(tables)]
          /\ phase \in [Server -> {"load", "clock", "subscribe", "up"}]
          /\ \A r \in Server : (phase[r] = "load") <=> snap[r] = 0
          /\ Len(tables) \in 1 .. MaxTables /\ MaxTables \in Nat
      BY DEF TypeOK
    <3>2. /\ snap' = [snap EXCEPT ![s] = 0] /\ load' = [load EXCEPT ![s] = 0]
          /\ phase' = [phase EXCEPT ![s] = "load"]
      BY <1>4 DEF Restart
    <3>3. 0 \in 0 .. Len(tables)
      BY <3>1
    <3>. QED  BY <3>1, <3>2, <3>3
  <2>2. /\ inbox' \in [Server -> 0 .. MaxInbox]
        /\ offset' \in [Server -> Offset \cup {0}] /\ adopted' \subseteq Server
    <3>1. /\ inbox \in [Server -> 0 .. MaxInbox] /\ MaxInbox \in Nat
          /\ offset \in [Server -> Offset \cup {0}] /\ adopted \subseteq Server
      BY DEF TypeOK
    <3>2. /\ inbox' = [inbox EXCEPT ![s] = 0] /\ offset' = [offset EXCEPT ![s] = 0]
          /\ adopted' = adopted \ {s}
      BY <1>4 DEF Restart
    <3>. QED  BY <3>1, <3>2
  <2>3. reload' \in [stage : {"idle", "query", "replace", "publish"}, read : 0 .. Len(tables)]
        /\ jump' \in Jumps /\ (jump'.stage = "insert" => jump.stage = "insert")
    BY <1>4 DEF Restart, NoReload, NoJump, TypeOK
  <2>. QED  BY <1>4, <2>1, <2>2, <2>3 DEF Restart, TypeOK, LogFits
<1>5. ASSUME NEW s \in Server, LoadOffset(s) \/ LoadOffsetFails(s) \/ Subscribe(s)
      PROVE TypeOK' /\ LogFits'
  <2>1. (IF log = <<>> THEN 0 ELSE Last(log)) \in Offset \cup {0}
    <3>1. log \in Seq(Offset \cup {0})
      BY DEF TypeOK
    <3>2. log # <<>> => Len(log) \in 1 .. Len(log)
      BY <3>1
    <3>. QED  BY <3>1, <3>2 DEF Last
  <2>2. offset' \in [Server -> Offset \cup {0}] /\ adopted' \subseteq Server
    <3>1. offset \in [Server -> Offset \cup {0}] /\ adopted \subseteq Server
      BY DEF TypeOK
    <3>2. \/ offset' = [offset EXCEPT ![s] = IF log = <<>> THEN 0 ELSE Last(log)]
          \/ offset' = offset
      BY <1>5 DEF LoadOffset, LoadOffsetFails, Subscribe
    <3>3. adopted' = adopted \/ adopted' = adopted \cup {s}
      BY <1>5 DEF LoadOffset, LoadOffsetFails, Subscribe
    <3>. QED  BY <2>1, <3>1, <3>2, <3>3
  <2>3. /\ phase' \in [Server -> {"load", "clock", "subscribe", "up"}]
        /\ \A r \in Server : (phase'[r] = "load") <=> (phase[r] = "load")
    <3>1. /\ phase \in [Server -> {"load", "clock", "subscribe", "up"}]
          /\ phase[s] \in {"clock", "subscribe"}
      BY <1>5 DEF LoadOffset, LoadOffsetFails, Subscribe, TypeOK
    <3>2. phase' = [phase EXCEPT ![s] = "subscribe"] \/ phase' = [phase EXCEPT ![s] = "up"]
      BY <1>5 DEF LoadOffset, LoadOffsetFails, Subscribe
    <3>. QED  BY <3>1, <3>2
  <2>4. UNCHANGED <<now, tables, log, snap, load, inbox, reload, jump, answered, deaf>>
    BY <1>5 DEF LoadOffset, LoadOffsetFails, Subscribe
  <2>. QED  BY <2>2, <2>3, <2>4 DEF TypeOK, LogFits
<1>6. CASE UNCHANGED vars
  BY <1>6 DEF vars, TypeOK, LogFits
<1>. QED  BY <1>1, <1>2, <1>3, <1>4, <1>5, <1>6

\* The types that matter to a reload, with the length of the table as a number.
LEMMA Typed ==
    ASSUME TypeOK
    PROVE  /\ snap \in [Server -> 0 .. Len(tables)] /\ load \in [Server -> 0 .. Len(tables)]
           /\ inbox \in [Server -> 0 .. MaxInbox]
           /\ answered \in Nat /\ Len(tables) \in Nat /\ Len(tables) > 0
           /\ phase \in [Server -> {"load", "clock", "subscribe", "up"}]
           /\ reload \in [stage : {"idle", "query", "replace", "publish"},
                          read : 0 .. Len(tables)]
           /\ answered <= Len(tables) /\ Caller \in Server
<1>1. /\ snap \in [Server -> 0 .. Len(tables)] /\ load \in [Server -> 0 .. Len(tables)]
      /\ inbox \in [Server -> 0 .. MaxInbox]
      /\ phase \in [Server -> {"load", "clock", "subscribe", "up"}]
      /\ reload \in [stage : {"idle", "query", "replace", "publish"},
                     read : 0 .. Len(tables)]
  BY Zenon DEF TypeOK
<1>2. answered \in 0 .. Len(tables) /\ Len(tables) \in 1 .. MaxTables /\ MaxTables \in Nat
  BY ResourceAssumption, Zenon DEF TypeOK
<1>3. /\ answered \in Nat /\ Len(tables) \in Nat /\ Len(tables) > 0
      /\ answered <= Len(tables)
  BY <1>2
<1>. QED  BY <1>1, <1>3, ResourceAssumption, Zenon

\* Every step keeps what loads carry: the caller of a reload reads the last rows before it
\* replaces its own, and nobody but its own restart touches those in between.
LEMMA StepKeepsLoads ==
    ASSUME IInv, TypeOK', [Next]_vars
    PROVE  LoadsAreNewer'
<1>1. /\ snap \in [Server -> 0 .. Len(tables)] /\ load \in [Server -> 0 .. Len(tables)]
      /\ inbox \in [Server -> 0 .. MaxInbox] /\ answered \in Nat /\ Len(tables) \in Nat /\ Len(tables) > 0
      /\ phase \in [Server -> {"load", "clock", "subscribe", "up"}]
      /\ reload \in [stage : {"idle", "query", "replace", "publish"}, read : 0 .. Len(tables)]
      /\ answered <= Len(tables) /\ Caller \in Server /\ LoadsAreNewer
  BY Typed DEF IInv
<1>2. ASSUME UNCHANGED <<snap, load, inbox, reload, answered, phase>> PROVE LoadsAreNewer'
  BY <1>1, <1>2 DEF LoadsAreNewer, Listening
<1>3. CASE \/ Tick \/ \E w \in Window : EditRow(w)
           \/ \E s \in Server, value \in Offset \cup {0} : CallJump(s, value)
           \/ Insert \/ InsertFails \/ SetOffset \/ UNCHANGED vars
  BY <1>2, <1>3 DEF Tick, EditRow, CallJump, Insert, InsertFails, SetOffset, vars, sync
<1>4. CASE CallReload
  BY <1>1, <1>4 DEF CallReload, NoReload, Serving, LoadsAreNewer, Listening
<1>5. CASE ReloadQuery
  BY <1>1, <1>5 DEF ReloadQuery, LoadsAreNewer, Listening
<1>6. CASE ReloadReplace
  BY <1>1, <1>6 DEF ReloadReplace, Adopts, LoadsAreNewer, Listening
<1>7. CASE Publish \/ ReloadFails
  <2>1. inbox'[Caller] = 0
    BY <1>1, <1>7 DEF Publish, ReloadFails, LoadsAreNewer
  <2>. QED  BY <1>1, <1>7, <2>1 DEF Publish, ReloadFails, NoReload, LoadsAreNewer, Listening
<1>8. ASSUME NEW s \in Server, Receive(s) PROVE LoadsAreNewer'
  <2>1. s # Caller
    BY <1>1, <1>8 DEF Receive, LoadsAreNewer
  <2>. QED  BY <1>1, <1>8, <2>1 DEF Receive, LoadsAreNewer, Listening
<1>9. ASSUME NEW s \in Server, SubscriberReplaces(s) PROVE LoadsAreNewer'
  <2>1. s # Caller
    BY <1>1, <1>9 DEF SubscriberReplaces, LoadsAreNewer
  <2>. QED  BY <1>1, <1>9, <2>1 DEF SubscriberReplaces, Adopts, LoadsAreNewer, Listening
<1>10. ASSUME NEW s \in Server,
              Restart(s) \/ FirstLoad(s) \/ LoadOffset(s) \/ LoadOffsetFails(s) \/ Subscribe(s)
       PROVE  LoadsAreNewer'
  <2>1. CASE Restart(s)
    BY <1>1, <2>1 DEF Restart, NoReload, LoadsAreNewer, Listening
  <2>2. CASE FirstLoad(s)
    BY <1>1, <2>2 DEF FirstLoad, Adopts, LoadsAreNewer, Listening
  <2>3. CASE LoadOffset(s) \/ LoadOffsetFails(s) \/ Subscribe(s)
    BY <1>1, <2>3
    DEF LoadOffset, LoadOffsetFails, Subscribe, sync, LoadsAreNewer, Listening
  <2>. QED  BY <1>10, <2>1, <2>2, <2>3
<1>. QED  BY <1>3, <1>4, <1>5, <1>6, <1>7, <1>8, <1>9, <1>10 DEF Next

\* Every step keeps what has arrived.  Publish leaves a message or a deaf server wherever
\* its rows have not, and a server that takes a message loads all that is in the table.
LEMMA StepKeepsArrivals ==
    ASSUME IInv, TypeOK', LoadsAreNewer', [Next]_vars
    PROVE  Arrives'
<1>1. /\ snap \in [Server -> 0 .. Len(tables)] /\ load \in [Server -> 0 .. Len(tables)]
      /\ inbox \in [Server -> 0 .. MaxInbox] /\ answered \in Nat /\ Len(tables) \in Nat /\ Len(tables) > 0
      /\ phase \in [Server -> {"load", "clock", "subscribe", "up"}]
      /\ reload \in [stage : {"idle", "query", "replace", "publish"}, read : 0 .. Len(tables)]
      /\ answered <= Len(tables) /\ Caller \in Server /\ LoadsAreNewer /\ Arrives
  BY Typed DEF IInv
<1>2. ASSUME UNCHANGED <<snap, load, inbox, answered, deaf, phase>> PROVE Arrives'
  BY <1>1, <1>2 DEF Arrives
<1>3. CASE \/ Tick \/ \E w \in Window : EditRow(w)
           \/ \E s \in Server, value \in Offset \cup {0} : CallJump(s, value)
           \/ CallReload \/ ReloadQuery \/ ReloadFails
           \/ Insert \/ InsertFails \/ SetOffset \/ UNCHANGED vars
  BY <1>2, <1>3
  DEF Tick, EditRow, CallJump, CallReload, ReloadQuery, ReloadFails, Insert, InsertFails,
      SetOffset, vars, sync
<1>4. CASE ReloadReplace
  BY <1>1, <1>4 DEF ReloadReplace, Adopts, LoadsAreNewer, Arrives
<1>5. CASE Publish
  <2>1. PICK lost \in SUBSET (Server \ {Caller}) :
            LET told == {s \in Server \ ({Caller} \cup lost) : Listening(s)} IN
            /\ inbox' = [s \in Server |-> IF s \in told /\ inbox[s] < MaxInbox
                                            THEN inbox[s] + 1 ELSE inbox[s]]
            /\ deaf' = deaf \cup (Server \ ({Caller} \cup told))
    BY <1>5 DEF Publish
  <2>2. reload.stage = "publish" /\ answered' = reload.read
        /\ UNCHANGED <<snap, load, phase>>
    BY <1>5 DEF Publish
  <2>3. ASSUME NEW s \in Server, s \notin deaf', inbox'[s] = 0 PROVE s = Caller
    <3>1. MaxInbox \in Nat \ {0}
      BY ResourceAssumption
    <3>. QED  BY <1>1, <2>1, <2>3, <3>1
  <2>. QED  BY <1>1, <2>2, <2>3 DEF LoadsAreNewer, Arrives
<1>6. ASSUME NEW s \in Server, Receive(s) PROVE Arrives'
  BY <1>1, <1>6 DEF Receive, Arrives
<1>7. ASSUME NEW s \in Server, SubscriberReplaces(s) PROVE Arrives'
  <2>1. load[s] >= snap[s] /\ phase[s] # "load"
    BY <1>1, <1>7 DEF SubscriberReplaces, LoadsAreNewer, Listening
  <2>. QED  BY <1>1, <1>7, <2>1 DEF SubscriberReplaces, Adopts, Arrives
<1>8. ASSUME NEW s \in Server,
             Restart(s) \/ FirstLoad(s) \/ LoadOffset(s) \/ LoadOffsetFails(s) \/ Subscribe(s)
      PROVE  Arrives'
  <2>1. CASE Restart(s)
    BY <1>1, <2>1 DEF Restart, Arrives
  <2>2. CASE FirstLoad(s)
    BY <1>1, <2>2 DEF FirstLoad, Adopts, LoadsAreNewer, Listening, Arrives
  <2>3. CASE LoadOffset(s) \/ LoadOffsetFails(s) \/ Subscribe(s)
    BY <1>1, <2>3 DEF LoadOffset, LoadOffsetFails, Subscribe, sync, Arrives
  <2>. QED  BY <1>8, <2>1, <2>2, <2>3
<1>. QED  BY <1>3, <1>4, <1>5, <1>6, <1>7, <1>8 DEF Next

\* The invariant holds in every state.
LEMMA Invariance == Spec => []IInv
<1>1. IInv /\ [Next]_vars => IInv'
  <2> SUFFICES ASSUME IInv, [Next]_vars PROVE IInv'
    OBVIOUS
  <2>1. TypeOK' /\ LogFits'
    BY SyncKeepsTypes, ClockKeepsTypes DEF Next
  <2>2. LoadsAreNewer'
    BY <2>1, StepKeepsLoads
  <2>3. Arrives'
    BY <2>1, <2>2, StepKeepsArrivals
  <2>. QED  BY <2>1, <2>2, <2>3 DEF IInv
<1>. QED  BY InitIInv, <1>1, PTL DEF Spec

-----------------------------------------------------------------------------
(* Theorems *)

\* Every variable keeps its type: a snapshot is never of rows that are not in the table
\* yet, and a server has none exactly while main loads the first one.
THEOREM TypeCorrect == Spec => []TypeOK
<1>1. IInv => TypeOK
  BY DEF IInv
<1>. QED  BY Invariance, <1>1, PTL

\* A reload answered "OK" (admin.go:57) has arrived at every server that got its message
\* and has handled what it got, for any number of servers and any capacity of a channel.
THEOREM Reloads == Spec => []ReloadArrives
<1>1. IInv => ReloadArrives
  BY DEF IInv, Arrives, ReloadArrives, Settled, Serving
<1>. QED  BY Invariance, <1>1, PTL

\* Such a server lets no request start inside a window that has been in the table ever
\* since the reload (maintenance.go:31), for any windows.
THEOREM Maintained == Spec => []MaintenanceIsKept
<1>1. IInv => MaintenanceIsKept
  <2> SUFFICES ASSUME IInv, NEW s \in Server, Settled(s), Admits(s),
                      NEW w \in Window, \A i \in answered .. Len(tables) : w \in tables[i],
                      now \in w.from .. (w.to - 1)
               PROVE  FALSE
    BY DEF MaintenanceIsKept
  <2>1. snap[s] \in answered .. Len(tables)
    <3>1. snap[s] >= answered
      BY DEF IInv, Arrives, Settled, Serving
    <3>2. snap[s] \in 0 .. Len(tables) /\ answered \in Nat /\ Len(tables) \in Nat
      BY DEF IInv, TypeOK
    <3>. QED  BY <3>1, <3>2
  <2>2. w.from \in Nat /\ w.to \in Nat
    BY ResourceAssumption
  <2>3. w \in tables[snap[s]] /\ w.from <= now /\ now < w.to
    BY <2>1, <2>2
  <2>. QED  BY <2>3 DEF Admits, ActiveMaintenance
<1>. QED  BY Invariance, <1>1, PTL

\* No snapshot is replaced by one that was read before it (syncer.go:53): the caller
\* queries after the call, and a subscriber runs one load at a time.
THEOREM Ordered == Spec => NeverOlder
<1>1. IInv /\ IInv' /\ [Next]_vars
      => [\A s \in Server : snap'[s] # 0 => snap'[s] >= snap[s]]_vars
  <2> SUFFICES ASSUME IInv, Next, NEW s \in Server, snap'[s] # 0
               PROVE  snap'[s] >= snap[s]
    OBVIOUS
  <2>1. /\ snap \in [Server -> 0 .. Len(tables)] /\ Len(tables) \in Nat
        /\ load \in [Server -> 0 .. Len(tables)] /\ reload.read \in Nat
        /\ LoadsAreNewer /\ Caller \in Server
    <3>1. TypeOK /\ LoadsAreNewer
      BY DEF IInv
    <3>. QED  BY <3>1, Typed
  <2>2. CASE ReloadReplace
    <3>1. snap' = [snap EXCEPT ![Caller] = reload.read] /\ reload.read >= snap[Caller]
      BY <2>1, <2>2 DEF ReloadReplace, Adopts, LoadsAreNewer
    <3>. QED  BY <2>1, <3>1
  <2>3. ASSUME NEW r \in Server,
               SubscriberReplaces(r) \/ FirstLoad(r) \/ Restart(r)
        PROVE  snap'[s] >= snap[s]
    <3>1. CASE SubscriberReplaces(r)
      <4>1. snap' = [snap EXCEPT ![r] = load[r]] /\ load[r] >= snap[r]
        BY <2>1, <3>1 DEF SubscriberReplaces, Adopts, LoadsAreNewer
      <4>. QED  BY <2>1, <4>1
    <3>2. CASE FirstLoad(r)
      <4>1. snap' = [snap EXCEPT ![r] = Len(tables)]
        BY <3>2 DEF FirstLoad, Adopts
      <4>. QED  BY <2>1, <4>1
    <3>3. CASE Restart(r)
      <4>1. snap' = [snap EXCEPT ![r] = 0]
        BY <3>3 DEF Restart
      <4>. QED  BY <2>1, <4>1
    <3>. QED  BY <2>3, <3>1, <3>2, <3>3
  <2>4. ASSUME snap' = snap PROVE snap'[s] >= snap[s]
    BY <2>1, <2>4
  <2>. QED
    BY <2>2, <2>3, <2>4
    DEF Next, Tick, EditRow, CallReload, ReloadQuery, Publish, ReloadFails, Receive,
        CallJump, Insert, InsertFails, SetOffset, LoadOffset, LoadOffsetFails, Subscribe, sync
<1>. QED  BY Invariance, <1>1, PTL DEF Spec, NeverOlder

\* A jump answered OK survives the restart of any server that could read the log: the
\* offset of whoever made the last jump, or started after it, is the last row's.
THEOREM JumpsSurvive == Spec => []JumpSurvivesRestart
<1>1. Init => LogLeads
  BY DEF Init, LogLeads, JumpSurvivesRestart, NoJump
<1>2. IInv /\ IInv' /\ LogLeads /\ [Next]_vars => LogLeads'
  <2> SUFFICES ASSUME IInv, IInv', LogLeads, [Next]_vars PROVE LogLeads'
    OBVIOUS
  <2>1. /\ offset \in [Server -> Offset \cup {0}] /\ adopted \subseteq Server
        /\ jump \in [stage : {"idle", "insert", "set"}, server : Server,
                     value : Offset \cup {0}]
        /\ log \in Seq(Offset \cup {0})
    BY DEF IInv, TypeOK
  <2>2. ASSUME UNCHANGED <<log, offset, adopted>>,
               jump' = jump \/ jump'.stage # "set"
        PROVE  LogLeads'
    BY <2>2 DEF LogLeads, JumpSurvivesRestart
  <2>3. ASSUME NEW s \in Server, NEW value \in Offset \cup {0}, CallJump(s, value)
        PROVE  LogLeads'
    BY <2>2, <2>3 DEF CallJump
  <2>4. CASE \/ \E s \in Server :
                  Receive(s) \/ SubscriberReplaces(s) \/ FirstLoad(s)
                  \/ LoadOffsetFails(s) \/ Subscribe(s)
             \/ Tick \/ (\E w \in Window : EditRow(w))
             \/ CallReload \/ ReloadQuery \/ ReloadReplace \/ Publish \/ ReloadFails
             \/ UNCHANGED vars
    BY <2>2, <2>4
    DEF Receive, SubscriberReplaces, FirstLoad, LoadOffsetFails, Subscribe, Tick,
        EditRow, CallReload, ReloadQuery, ReloadReplace, Publish, ReloadFails, vars, clock
  <2>5. CASE Insert \/ InsertFails
    <3>1. ASSUME log' = Append(log, jump.value)
          PROVE  log' # <<>> /\ Last(log') = jump.value
      BY <2>1, <3>1 DEF Last
    <3>2. CASE Insert
      BY <2>1, <3>1, <3>2 DEF Insert, LogLeads, JumpSurvivesRestart
    <3>3. CASE InsertFails
      BY <2>1, <3>1, <3>3 DEF InsertFails, NoJump, LogLeads, JumpSurvivesRestart
    <3>. QED  BY <2>5, <3>2, <3>3
  <2>6. CASE SetOffset
    BY <2>1, <2>6 DEF SetOffset, NoJump, LogLeads, JumpSurvivesRestart
  <2>7. ASSUME NEW s \in Server, Restart(s) PROVE LogLeads'
    BY <2>1, <2>7 DEF Restart, NoJump, LogLeads, JumpSurvivesRestart
  <2>8. ASSUME NEW s \in Server, LoadOffset(s) PROVE LogLeads'
    BY <2>1, <2>8 DEF LoadOffset, LogLeads, JumpSurvivesRestart
  <2>. QED  BY <2>3, <2>4, <2>5, <2>6, <2>7, <2>8 DEF Next
<1>3. LogLeads => JumpSurvivesRestart
  BY DEF LogLeads
<1>. QED  BY Invariance, <1>1, <1>2, <1>3, PTL DEF Spec
=============================================================================
