--------------------------- MODULE AdminApp_proofs ---------------------------
(***************************************************************************)
(* Proofs about the pages of the admin client, for any number of calls in  *)
(* flight, rows, offsets, times and pages that are visited.                *)
(***************************************************************************)
EXTENDS AdminApp, FiniteSetTheorems, FunctionTheorems, WellFoundedInduction, TLAPS

\* A row that was in TB_VERSION at some time: its idx is spent, and no other row has it.
Known(r, rows, last) ==
    /\ r.idx \in Nat /\ r.idx <= last
    /\ \A s \in rows : s.idx = r.idx => s = r

TableOK ==
    /\ lastIdx \in Nat /\ now \in Int /\ offset \in Int
    /\ IsFiniteSet(table) /\ \A r \in table : Known(r, table, lastIdx)

Answered(c) == c.reply \notin {NotYet, Inserted, Failed}
Shaped(c) == c = [op |-> c.op, arg |-> c.arg, live |-> c.live, reply |-> c.reply]

\* A goal is reached, but for its leeway, by the seconds that were computed from it, whenever
\* they are added.
Reached(goal, seconds, time) ==
    /\ goal.time \in Int /\ Leeway(goal) \in Int
    /\ 1000 * goal.time - Leeway(goal) <= 1000 * seconds + time

\* A reading is of the past.
Past(reading, time) ==
    reading.offset \in Int /\ reading.real \in Int /\ 1000 * reading.real <= time

\* What a call carries: seconds that reach their target, readings of the past, and rows that
\* are or were in the table.
CallOK(c, rows, last, time) ==
    /\ Shaped(c)
    /\ c.op = "jump" =>
          /\ c.arg.value \in Int
          /\ c.arg.goal # NoTarget => Reached(c.arg.goal, c.arg.value, time)
    /\ c.op = "clock" /\ Answered(c) => Past(c.reply, time)
    /\ c.op = "list" /\ Answered(c) =>
          IsFiniteSet(c.reply.rows) /\ \A r \in c.reply.rows : Known(r, rows, last)
    /\ c.op = "delete" => Known(c.arg.row, rows, last)

CallsOK ==
    /\ calls = [i \in Slot |-> calls[i]]
    /\ \A i \in Slot : CallOK(calls[i], table, lastIdx, now)

\* What the pages show.
PagesOK ==
    /\ ver = [rows |-> ver.rows, loading |-> ver.loading, selection |-> ver.selection,
              busy |-> ver.busy, info |-> ver.info, due |-> ver.due, sure |-> ver.sure]
    /\ IsFiniteSet(ver.rows) /\ \A r \in ver.rows : Known(r, table, lastIdx)
    /\ ver.selection \subseteq IdxOf(ver.rows)
    /\ clk = [info |-> clk.info, picked |-> clk.picked, busy |-> clk.busy, due |-> clk.due,
              sure |-> clk.sure]
    /\ clk.info # NoReading => Past(clk.info, now)
    /\ clk.picked # NoTarget =>
          clk.picked.add \in Int /\ Reached(clk.picked, clk.picked.add, now)

IInv == TableOK /\ CallsOK /\ PagesOK

-----------------------------------------------------------------------------
(* How calls and rows change *)

\* The rest of a call when its page is left, its answer is lost or another is sent.
Follows(c, d) ==
    \/ d = c \/ d = Free
    \/ /\ Shaped(d) /\ d.op = c.op
       /\ d.reply = c.reply \/ ~Answered(d) \/ d.op \notin {"clock", "list"}
       /\ d.arg = c.arg \/ d.op \notin {"jump", "delete"}

\* A request that carries nothing the invariant speaks of.
Plain(d) == Shaped(d) /\ d.op \notin {"jump", "delete"} /\ d.reply = NotYet

\* The table only grows by rows with a new idx, and time goes on.
Later(rows, last, time, rows2, last2, time2) ==
    /\ last \in Nat /\ last2 \in Nat /\ last <= last2
    /\ time \in Int /\ time2 \in Int /\ time <= time2
    /\ \A s \in rows2 : s \in rows \/ s.idx > last

\* A row that was known stays so.
LEMMA KnownStays ==
    ASSUME NEW rows, NEW last, NEW time, NEW rows2, NEW last2, NEW time2,
           Later(rows, last, time, rows2, last2, time2),
           NEW r, Known(r, rows, last)
    PROVE  Known(r, rows2, last2)
BY DEF Later, Known

\* What a call carries stays true.
LEMMA CallStays ==
    ASSUME NEW rows, NEW last, NEW time, NEW rows2, NEW last2, NEW time2,
           Later(rows, last, time, rows2, last2, time2),
           NEW c, CallOK(c, rows, last, time)
    PROVE  CallOK(c, rows2, last2, time2)
<1>1. \A r : Known(r, rows, last) => Known(r, rows2, last2)
  BY KnownStays
<1>. QED  BY <1>1 DEF Later, CallOK, Reached, Past

\* So do the calls that follow from others, and plain requests carry nothing.
LEMMA CallFollows ==
    ASSUME NEW rows, NEW last, NEW time, NEW c, NEW d, CallOK(c, rows, last, time),
           Follows(c, d) \/ Plain(d)
    PROVE  CallOK(d, rows, last, time)
BY DEF CallOK, Follows, Plain, Free, NoArg, Shaped, Answered

-----------------------------------------------------------------------------
(* The invariant *)

\* A page that is mounted shows nothing.
LEMMA FreshPages == ver = VersionFresh /\ clk = ClockFresh => PagesOK
<1> SUFFICES ASSUME ver = VersionFresh, clk = ClockFresh PROVE PagesOK
  OBVIOUS
<1>1. IsFiniteSet(ver.rows)
  BY FS_EmptySet DEF VersionFresh
<1>2. ver.selection = {}
  BY DEF VersionFresh
<1>. QED  BY <1>1, <1>2 DEF PagesOK, VersionFresh, ClockFresh

\* Nothing is shown and nothing is asked to begin with.
LEMMA InitIInv == Init => IInv
<1> SUFFICES ASSUME Init PROVE IInv
  OBVIOUS
<1>1. TableOK
  <2>1. Cardinality(FirstRows) \in Nat
    BY VersionAssumption, FS_CardinalityType
  <2>2. \A r \in FirstRows : r.idx \in Nat
    BY VersionAssumption DEF Row
  <2>3. table = FirstRows /\ lastIdx = Cardinality(FirstRows) /\ now = 0 /\ offset = 0
    BY DEF Init, VersionInit, ClockInit
  <2>4. \A r \in FirstRows : Known(r, FirstRows, Cardinality(FirstRows))
    BY <2>2, VersionAssumption, Zenon DEF Known
  <2>. QED  BY <2>1, <2>3, <2>4, VersionAssumption DEF TableOK
<1>2. CallsOK
  BY DEF Init, CallsOK, CallOK, Shaped, Free
<1>3. PagesOK
  <2>1. ver = VersionFresh /\ clk = ClockFresh
    BY DEF Init, VersionInit, ClockInit
  <2>. QED  BY <2>1, FreshPages
<1>. QED  BY <1>1, <1>2, <1>3 DEF IInv

\* The calls of a state whose rows, offsets and time go on, when each of them follows from
\* one before, is a plain request or is shown to be right.
LEMMA CallsGoOn ==
    ASSUME IInv, calls' = [i \in Slot |-> calls'[i]],
           Later(table, lastIdx, now, table', lastIdx', now'),
           \A i \in Slot : \/ Follows(calls[i], calls'[i]) \/ Plain(calls'[i])
                           \/ CallOK(calls'[i], table', lastIdx', now')
    PROVE  CallsOK'
<1> SUFFICES ASSUME NEW i \in Slot PROVE CallOK(calls'[i], table', lastIdx', now')
  BY DEF CallsOK
<1>1. CallOK(calls[i], table, lastIdx, now)
  BY DEF IInv, CallsOK
<1>2. CASE Follows(calls[i], calls'[i]) \/ Plain(calls'[i])
  BY <1>1, <1>2, CallStays, CallFollows
<1>. QED  BY <1>2

\* What the pages show stays true when they do not change.
LEMMA PagesStay ==
    ASSUME IInv, Later(table, lastIdx, now, table', lastIdx', now')
    PROVE  /\ UNCHANGED ver => \A r \in ver'.rows : Known(r, table', lastIdx')
           /\ UNCHANGED <<ver, clk>> => PagesOK'
<1>1. \A r : Known(r, table, lastIdx) => Known(r, table', lastIdx')
  BY KnownStays
<1>2. now \in Int /\ now' \in Int /\ now <= now'
  BY DEF Later
<1>. QED  BY <1>1, <1>2 DEF IInv, PagesOK, Reached, Past

\* A table that stays as it is.
LEMMA TableStays ==
    ASSUME IInv, UNCHANGED <<table, lastIdx, now>>, offset' \in Int
    PROVE  TableOK' /\ Later(table, lastIdx, now, table', lastIdx', now')
BY DEF IInv, TableOK, Later

-----------------------------------------------------------------------------
(* Calls that change in the ordinary ways *)

Ordinary(cs) ==
    /\ cs = [i \in Slot |-> cs[i]]
    /\ \A i \in Slot : Follows(calls[i], cs[i]) \/ Plain(cs[i])

\* Nothing that the invariant speaks of is asked or answered.
LEMMA OrdinaryStep ==
    ASSUME IInv, TableOK', Later(table, lastIdx, now, table', lastIdx', now'),
           Ordinary(calls'), PagesOK'
    PROVE  IInv'
BY CallsGoOn DEF Ordinary, IInv

\* A plain request is sent, a call is over, fails, or gets an answer other than a list or
\* a reading.
LEMMA OrdinaryCalls ==
    ASSUME CallsOK
    PROVE  /\ Ordinary(calls)
           /\ \A cs, d : Ordinary(cs) /\ Plain(d) => Ordinary(Sending(cs, d))
           /\ \A i \in Slot : Ordinary(Done(i)) /\ Ordinary(Answering(i, Failed))
           /\ \A i \in Slot : calls[i].op \notin {"clock", "list"} =>
                 \A r : Ordinary(Answering(i, r))
<1> USE DEF Ordinary
<1>1. /\ calls = [i \in Slot |-> calls[i]]
      /\ \A i \in Slot : Shaped(calls[i])
  BY DEF CallsOK, CallOK
<1>2. Ordinary(calls)
  BY <1>1 DEF Follows
<1>3. ASSUME NEW cs, NEW d, Ordinary(cs), Plain(d) PROVE Ordinary(Sending(cs, d))
  BY <1>3 DEF Sending
<1>4. ASSUME NEW i \in Slot PROVE Ordinary(Done(i))
  BY <1>1 DEF Done, Follows
<1>5. ASSUME NEW i \in Slot, NEW r, r = Failed \/ calls[i].op \notin {"clock", "list"}
      PROVE  Ordinary(Answering(i, r))
  <2>1. Follows(calls[i], IF calls[i].live THEN [calls[i] EXCEPT !.reply = r] ELSE Free)
    BY <1>1, <1>5 DEF Follows, Shaped, Answered
  <2>. QED  BY <1>1, <2>1 DEF Answering, Follows
<1>. QED  BY <1>2, <1>3, <1>4, <1>5

\* A read is sent, at the end of a job or not, and others of its kind lose their history.
LEMMA OrdinaryReads ==
    ASSUME CallsOK, NEW op, op \notin {"jump", "delete"}
    PROVE  /\ Ordinary(WithCompany(op)) /\ Ordinary(SendingRead(op))
           /\ \A i \in Slot : Ordinary(ReadingNext(i, op))
<1>1. /\ calls = [i \in Slot |-> calls[i]]
      /\ \A i \in Slot : Shaped(calls[i])
  BY DEF CallsOK, CallOK
<1>2. ASSUME NEW i \in Slot PROVE Follows(calls[i], WithCompany(op)[i])
  <2>1. CASE i \in Awaited(op)
    <3>1. calls[i].op = op
      BY <2>1 DEF Awaited
    <3>2. WithCompany(op)[i] = [calls[i] EXCEPT !.arg.alone = FALSE]
      BY <2>1 DEF WithCompany
    <3>. QED  BY <1>1, <3>1, <3>2 DEF Follows, Shaped
  <2>2. CASE i \notin Awaited(op)
    BY <2>2 DEF WithCompany, Follows
  <2>. QED  BY <2>1, <2>2
<1>3. Ordinary(WithCompany(op))
  BY <1>2 DEF Ordinary, WithCompany
<1>4. Plain(Read(op, TRUE)) /\ Plain(Read(op, FALSE))
  BY DEF Plain, Read, Request, Shaped
<1>5. Ordinary(SendingRead(op))
  BY <1>3, <1>4, OrdinaryCalls DEF SendingRead
<1>6. ASSUME NEW i \in Slot PROVE Ordinary(ReadingNext(i, op))
  BY <1>3, <1>4 DEF ReadingNext, Ordinary
<1>. QED  BY <1>3, <1>5, <1>6

\* What another operator sends.
LEMMA Elsewhere ==
    ASSUME NEW op, NEW arg
    PROVE  /\ Shaped(Foreign(op, arg)) /\ Foreign(op, arg).reply = NotYet
           /\ Foreign(op, arg).op = op /\ Foreign(op, arg).arg = arg
<1>1. PICK c : c = Request(op, arg)
  OBVIOUS
<1>2. Shaped(c) /\ c.op = op /\ c.arg = arg /\ c.reply = NotYet
  BY <1>1 DEF Request, Shaped
<1>3. PICK d : d = [c EXCEPT !.live = FALSE]
  OBVIOUS
<1>4. Shaped(d) /\ d.op = c.op /\ d.arg = c.arg /\ d.reply = c.reply
  BY <1>2, <1>3 DEF Shaped
<1>. QED  BY <1>1, <1>2, <1>3, <1>4 DEF Foreign

-----------------------------------------------------------------------------
(* The version page *)

\* The handlers of the server.  A new row has the next idx, which nobody has seen.
LEMMA VersionServesKeeps ==
    ASSUME IInv, NEW i \in Slot, VersionServes(i), UNCHANGED <<now, offset, clk>>
    PROVE  IInv'
<1>1. calls' = [j \in Slot |-> calls'[j]] /\ \A j \in Slot : j # i => calls'[j] = calls[j]
  BY DEF VersionServes, ServeList, ServeCreate, ServeDelete, ServeReload, Answering, IInv, CallsOK
<1>2. CallOK(calls[i], table, lastIdx, now)
  BY DEF IInv, CallsOK
<1>3. CASE ServeList(i)
  <2>1. /\ TableOK' /\ Later(table, lastIdx, now, table', lastIdx', now')
        /\ PagesOK'
    BY <1>3, TableStays, PagesStay DEF ServeList, VersionServes, IInv, TableOK
  <2>2. CallOK(calls'[i], table', lastIdx', now')
    <3>1. CASE calls[i].live
      <4>1. calls'[i] = [calls[i] EXCEPT !.reply = [is |-> "rows", rows |-> FindAll,
                                                      at |-> Edition]]
        BY <1>3, <3>1 DEF ServeList, Answering, IInv, CallsOK
      <4>2. calls'[i].op = "list" /\ calls'[i].reply.rows = FindAll /\ Shaped(calls'[i])
        BY <1>2, <1>3, <4>1 DEF ServeList, Unserved, CallOK, Shaped
      <4>3. IsFiniteSet(FindAll) /\ \A r \in FindAll : Known(r, table, lastIdx)
        <5>1. FindAll \in SUBSET table
          BY DEF FindAll
        <5>. QED  BY <5>1, FS_Subset DEF IInv, TableOK
      <4>. QED  BY <1>3, <4>2, <4>3 DEF ServeList, CallOK
    <3>2. CASE ~calls[i].live
      BY <1>3, <3>2 DEF ServeList, Answering, IInv, CallsOK, CallOK, Shaped, Free
    <3>. QED  BY <3>1, <3>2
  <2>3. CallsOK'
    BY <1>1, <2>1, <2>2, CallsGoOn DEF Follows
  <2>. QED  BY <2>1, <2>3 DEF IInv
<1>4. CASE ServeCreate(i)
  <2>1. \/ UNCHANGED <<table, lastIdx>>
        \/ \E input : /\ table' = table \cup {NewRow(input)}
                      /\ lastIdx' = lastIdx + 1
    BY <1>4 DEF ServeCreate
  <2>2. TableOK' /\ Later(table, lastIdx, now, table', lastIdx', now')
    <3>1. CASE UNCHANGED <<table, lastIdx>>
      BY <3>1, TableStays DEF IInv, TableOK
    <3>2. ASSUME NEW input, table' = table \cup {NewRow(input)}, lastIdx' = lastIdx + 1
          PROVE  TableOK' /\ Later(table, lastIdx, now, table', lastIdx', now')
      <4>1. NewRow(input).idx = lastIdx + 1
        BY DEF NewRow, NextIdx
      <4>2. IsFiniteSet(table')
        BY <3>2, FS_AddElement DEF IInv, TableOK
      <4>. QED  BY <3>2, <4>1, <4>2 DEF IInv, TableOK, Known, Later
    <3>. QED  BY <2>1, <3>1, <3>2
  <2>3. PagesOK'
    BY <1>4, <2>2, PagesStay DEF VersionServes
  <2>4. Ordinary(calls')
    BY <1>2, <1>4, OrdinaryCalls DEF ServeCreate, Unserved, IInv
  <2>. QED  BY <2>2, <2>3, <2>4, OrdinaryStep
<1>5. CASE ServeDelete(i)
  <2>1. table' \subseteq table /\ UNCHANGED lastIdx
    BY <1>5 DEF ServeDelete
  <2>2. TableOK' /\ Later(table, lastIdx, now, table', lastIdx', now')
    <3>1. IsFiniteSet(table')
      BY <2>1, FS_Subset DEF IInv, TableOK
    <3>. QED  BY <2>1, <3>1 DEF IInv, TableOK, Known, Later
  <2>3. PagesOK'
    BY <2>2, PagesStay DEF VersionServes
  <2>4. Ordinary(calls')
    BY <1>5, OrdinaryCalls DEF ServeDelete, Unserved, IInv
  <2>. QED  BY <2>2, <2>3, <2>4, OrdinaryStep
<1>6. CASE ServeReload(i)
  <2>1. TableOK' /\ Later(table, lastIdx, now, table', lastIdx', now') /\ PagesOK'
    BY <1>6, TableStays, PagesStay DEF ServeReload, VersionServes, IInv, TableOK
  <2>2. Ordinary(calls')
    BY <1>6, OrdinaryCalls DEF ServeReload, Unserved, IInv
  <2>. QED  BY <2>1, <2>2, OrdinaryStep
<1>. QED  BY <1>3, <1>4, <1>5, <1>6 DEF VersionServes

\* What the operators do: the rows whose deletion is confirmed are rows of the list, and
\* other operators delete rows of the table.
LEMMA VersionActsKeeps ==
    ASSUME IInv, VersionActs, UNCHANGED <<now, offset, clk>>
    PROVE  IInv'
<1>1. UNCHANGED <<table, lastIdx>>
  BY DEF VersionActs, ClickRefresh, ClickReload, ClickDelete, ToggleAll, ClickCreate, ToggleRow,
         VersionElsewhere, version
<1>2. TableOK' /\ Later(table, lastIdx, now, table', lastIdx', now')
  BY <1>1, TableStays DEF IInv, TableOK
<1>3. PagesOK'
  <2>1. \/ ver' = ver \/ ver' = Started
        \/ \E some \in SUBSET IdxOf(ver.rows) : ver' = [ver EXCEPT !.selection = some]
    <3>1. CASE ToggleAll \/ \E r \in ver.rows : ToggleRow(r)
      <4>1. ver.selection \subseteq IdxOf(ver.rows) /\ \A r \in ver.rows : r.idx \in IdxOf(ver.rows)
        BY DEF IInv, PagesOK, IdxOf
      <4>2. /\ AllToggled(ver.selection, IdxOf(ver.rows)) \in SUBSET IdxOf(ver.rows)
            /\ \A r \in ver.rows : Toggled(ver.selection, r.idx) \in SUBSET IdxOf(ver.rows)
        BY <4>1 DEF AllToggled, Toggled
      <4>. QED  BY <3>1, <4>2 DEF ToggleAll, ToggleRow
    <3>2. CASE ClickRefresh \/ ClickReload \/ ClickDelete \/ VersionElsewhere
               \/ \E input \in Input : ClickCreate(input)
      BY <3>2
      DEF ClickRefresh, ClickReload, ClickDelete, ClickCreate, VersionElsewhere, version
    <3>. QED  BY <3>1, <3>2 DEF VersionActs
  <2>2. /\ ver'.rows = ver.rows /\ ver'.selection \subseteq IdxOf(ver'.rows)
        /\ ver' = [rows |-> ver'.rows, loading |-> ver'.loading, selection |-> ver'.selection,
                   busy |-> ver'.busy, info |-> ver'.info, due |-> ver'.due, sure |-> ver'.sure]
    BY <2>1 DEF IInv, PagesOK, Started
  <2>. QED  BY <1>1, <2>2 DEF IInv, PagesOK
<1>4. CASE \/ ClickRefresh \/ ClickReload \/ ToggleAll
           \/ \E input \in Input : ClickCreate(input)
           \/ \E r \in ver.rows : ToggleRow(r)
  <2>1. Plain(Request("reload", NoArg)) /\ \A input : Plain(Request("create", [input |-> input]))
    BY DEF Plain, Request, Shaped
  <2>2. Ordinary(calls')
    BY <1>4, <2>1, OrdinaryCalls, OrdinaryReads
    DEF ClickRefresh, ClickReload, ToggleAll, ClickCreate, ToggleRow, IInv
  <2>. QED  BY <1>2, <1>3, <2>2, OrdinaryStep
<1>5. CASE ClickDelete
  <2>1. calls' = [i \in Slot |-> calls'[i]]
    BY <1>5 DEF ClickDelete
  <2>2. ASSUME NEW i \in Slot
        PROVE  calls'[i] = calls[i]
               \/ \E r \in Targets : calls'[i] = Request("delete", [row |-> r, batch |-> Targets])
    BY <1>5 DEF ClickDelete
  <2>3. ASSUME NEW r \in Targets
        PROVE  CallOK(Request("delete", [row |-> r, batch |-> Targets]), table, lastIdx, now)
    BY DEF Targets, IInv, PagesOK, CallOK, Request, Shaped
  <2>4. \A i \in Slot : \/ Follows(calls[i], calls'[i])
                        \/ CallOK(calls'[i], table', lastIdx', now')
    BY <1>1, <2>2, <2>3 DEF Follows
  <2>. QED  BY <1>2, <1>3, <2>1, <2>4, CallsGoOn DEF IInv
<1>6. CASE VersionElsewhere
  <2>1. \/ \E input \in Input : FromElsewhere("create", [input |-> input])
        \/ \E r \in table : FromElsewhere("delete", [row |-> r, batch |-> {r}])
    BY <1>6 DEF VersionElsewhere
  <2>2. CASE \E input \in Input : FromElsewhere("create", [input |-> input])
    <3>1. \A input : Plain(Foreign("create", [input |-> input]))
      BY Elsewhere DEF Plain
    <3>2. Ordinary(calls')
      BY <2>2, <3>1, OrdinaryCalls DEF FromElsewhere, IInv
    <3>. QED  BY <1>2, <1>3, <3>2, OrdinaryStep
  <2>3. ASSUME NEW r \in table, FromElsewhere("delete", [row |-> r, batch |-> {r}])
        PROVE  IInv'
    <3> DEFINE call == Foreign("delete", [row |-> r, batch |-> {r}])
    <3>1. CallOK(call, table', lastIdx', now')
      <4>1. Shaped(call) /\ call.op = "delete" /\ call.arg = [row |-> r, batch |-> {r}]
        BY Elsewhere
      <4>. QED  BY <1>1, <4>1 DEF IInv, TableOK, CallOK
    <3>2. /\ calls' = [i \in Slot |-> calls'[i]]
          /\ \A i \in Slot : calls'[i] \in {calls[i], call}
      BY <2>3 DEF FromElsewhere, Sending, IInv, CallsOK
    <3>. QED  BY <1>2, <1>3, <3>1, <3>2, CallsGoOn DEF Follows, IInv
  <2>. QED  BY <2>1, <2>2, <2>3
<1>. QED  BY <1>4, <1>5, <1>6 DEF VersionActs

\* The answers that the version page handles.
LEMMA VersionReturnsKeeps ==
    ASSUME IInv, NEW i \in Slot, VersionReturns(i), UNCHANGED <<now, offset, clk>>
    PROVE  IInv'
<1>1. UNCHANGED <<table, lastIdx>>
  BY DEF VersionReturns, ListReturns, CreateSucceeds, CreateThrows, ReloadReturns,
         DeleteSucceeds, DeleteThrows, version
<1>2. TableOK' /\ Later(table, lastIdx, now, table', lastIdx', now')
  BY <1>1, TableStays DEF IInv, TableOK
<1>3. CallOK(calls[i], table, lastIdx, now)
  BY DEF IInv, CallsOK
<1>4. PagesOK'
  <2>1. CASE ListReturns(i)
    <3>1. \A r \in ver'.rows : r \in ver.rows \/ (Answered(calls[i]) /\ r \in calls[i].reply.rows)
      <4>1. calls[i].reply # Failed => Answered(calls[i])
        BY <2>1 DEF ListReturns, Returns, Answered
      <4>2. ver'.rows = IF calls[i].reply = Failed THEN ver.rows ELSE calls[i].reply.rows
        BY <2>1 DEF ListReturns, IInv, PagesOK
      <4>. QED  BY <4>1, <4>2
    <3>2. ver' = [rows |-> ver'.rows, loading |-> ver'.loading, selection |-> ver'.selection,
                  busy |-> ver'.busy, info |-> ver'.info, due |-> ver'.due, sure |-> ver'.sure]
      BY <2>1 DEF ListReturns, IInv, PagesOK
    <3>3. \A r \in ver'.rows : Known(r, table, lastIdx)
      BY <1>3, <2>1, <3>1 DEF ListReturns, Returns, CallOK, IInv, PagesOK
    <3>4. IsFiniteSet(ver'.rows) /\ ver'.selection \subseteq IdxOf(ver'.rows)
      <4>1. IsFiniteSet(ver.rows) /\ ver.selection \subseteq IdxOf(ver.rows)
        BY DEF IInv, PagesOK
      <4>2. CASE calls[i].reply = Failed
        <5>1. ver'.rows = ver.rows /\ ver'.selection = ver.selection
          BY <2>1, <4>2 DEF ListReturns, IInv, PagesOK
        <5>. QED  BY <4>1, <5>1
      <4>3. CASE calls[i].reply # Failed
        <5>1. ver'.rows = calls[i].reply.rows /\ ver'.selection = {}
          BY <2>1, <4>3 DEF ListReturns, IInv, PagesOK
        <5>2. IsFiniteSet(calls[i].reply.rows)
          BY <1>3, <2>1, <4>3 DEF ListReturns, Returns, Answered, CallOK
        <5>. QED  BY <5>1, <5>2
      <4>. QED  BY <4>2, <4>3
    <3>. QED  BY <1>1, <3>2, <3>3, <3>4 DEF IInv, PagesOK
  <2>2. CASE ~ListReturns(i)
    <3>1. ver'.rows = ver.rows /\ ver'.selection = ver.selection
          /\ ver' = [rows |-> ver'.rows, loading |-> ver'.loading, selection |-> ver'.selection,
                     busy |-> ver'.busy, info |-> ver'.info, due |-> ver'.due,
                     sure |-> ver'.sure]
      BY <2>2
      DEF VersionReturns, CreateSucceeds, CreateThrows, ReloadReturns, DeleteSucceeds,
          DeleteThrows, JobThrows, IInv, PagesOK
    <3>. QED  BY <1>1, <3>1 DEF IInv, PagesOK
  <2>. QED  BY <2>1, <2>2
<1>5. CASE ~DeleteThrows(i)
  <2>1. Ordinary(calls')
    BY <1>5, OrdinaryCalls, OrdinaryReads
    DEF VersionReturns, ListReturns, CreateSucceeds, CreateThrows, ReloadReturns,
        DeleteSucceeds, IInv
  <2>. QED  BY <1>2, <1>4, <2>1, OrdinaryStep
<1>6. CASE DeleteThrows(i)
  <2>1. calls' = [j \in Slot |-> calls'[j]]
    BY <1>6 DEF DeleteThrows
  <2>2. ASSUME NEW j \in Slot PROVE Follows(calls[j], calls'[j])
    <3>1. \/ calls'[j] = Free \/ calls'[j] = calls[j]
          \/ calls'[j] = [calls[j] EXCEPT !.live = FALSE]
      BY <1>6 DEF DeleteThrows
    <3>2. Shaped(calls[j])
      BY DEF IInv, CallsOK, CallOK
    <3>. QED  BY <3>1, <3>2 DEF Follows, Shaped
  <2>. QED  BY <1>2, <1>4, <2>1, <2>2, OrdinaryStep DEF Ordinary
<1>. QED  BY <1>5, <1>6

-----------------------------------------------------------------------------
(* The clock page *)

\* What is lost when milliseconds are cut down or rounded to seconds.
LEMMA Seconds ==
    \A ms \in Int : /\ ms \div 1000 \in Int /\ 1000 * (ms \div 1000) <= ms
                    /\ Rounded(ms) \in Int /\ 1000 * Rounded(ms) >= ms - 500
<1>1. \A ms \in Int : /\ ms \div 1000 \in Int /\ 1000 * (ms \div 1000) <= ms
                       /\ 1000 * (ms \div 1000) >= ms - 999
  OBVIOUS
<1>. QED  BY <1>1 DEF Rounded

\* Whole seconds are not rounded.
LEMMA WholeSeconds == \A sec \in Int : Rounded(1000 * sec) = sec
BY DEF Rounded

\* The handlers of the server: a reading is of the present.
LEMMA ClockServesKeeps ==
    ASSUME IInv, NEW i \in Slot, ClockServes(i), UNCHANGED <<table, lastIdx, ver>>
    PROVE  IInv'
<1>1. CallOK(calls[i], table, lastIdx, now)
  BY DEF IInv, CallsOK
<1>2. offset' \in Int
  BY <1>1
  DEF ClockServes, ServeClock, InsertRow, InsertRowFails, SetOffset, server, CallOK, IInv, TableOK
<1>3. /\ TableOK' /\ Later(table, lastIdx, now, table', lastIdx', now')
      /\ PagesOK'
  BY <1>2, TableStays, PagesStay DEF ClockServes
<1>4. CASE ServeClock(i)
  <2>1. calls' = [j \in Slot |-> calls'[j]] /\ \A j \in Slot : j # i => calls'[j] = calls[j]
    BY <1>4 DEF ServeClock, Answering, IInv, CallsOK
  <2>2. calls'[i] = Free \/ CallOK(calls'[i], table, lastIdx, now)
    <3> DEFINE reading == [is |-> "clock", offset |-> offset, real |-> now \div 1000,
                          at |-> jumps]
    <3>1. CASE calls[i].live
      <4>1. calls'[i] = [calls[i] EXCEPT !.reply = reading]
        BY <1>4, <3>1 DEF ServeClock, Answering, IInv, CallsOK
      <4>2. Shaped(calls[i]) /\ calls[i].op = "clock"
        BY <1>4 DEF ServeClock, Unserved, IInv, CallsOK, CallOK
      <4>3. Shaped(calls'[i]) /\ calls'[i].op = "clock" /\ calls'[i].reply = reading
        BY <4>1, <4>2 DEF Shaped
      <4>4. now \in Int /\ offset \in Int
        BY DEF IInv, TableOK
      <4>5. Past(reading, now)
        BY <4>4, Seconds DEF Past
      <4>. QED  BY <4>3, <4>5 DEF CallOK
    <3>2. CASE ~calls[i].live
      BY <1>4, <3>2 DEF ServeClock, Answering, IInv, CallsOK
    <3>. QED  BY <3>1, <3>2
  <2>. QED  BY <1>3, <1>4, <2>1, <2>2, CallsGoOn DEF Follows, IInv, ClockServes, ServeClock
<1>5. CASE InsertRow(i)
  <2>1. calls' = [calls EXCEPT ![i].reply = Inserted] /\ Shaped(calls[i])
    BY <1>5 DEF InsertRow, IInv, CallsOK, CallOK
  <2>2. Ordinary(calls')
    BY <2>1 DEF Ordinary, Follows, Shaped, Answered, IInv, CallsOK
  <2>. QED  BY <1>3, <2>2, OrdinaryStep
<1>6. CASE InsertRowFails(i) \/ SetOffset(i)
  <2>1. Ordinary(calls')
    BY <1>6, OrdinaryCalls DEF InsertRowFails, SetOffset, IInv
  <2>. QED  BY <1>3, <2>1, OrdinaryStep
<1>. QED  BY <1>4, <1>5, <1>6 DEF ClockServes

\* What the operators do: the seconds that are computed from a target reach it, since the
\* reading they are computed with is not of the future.
LEMMA ClockActsKeeps ==
    ASSUME IInv, ClockActs, UNCHANGED <<table, lastIdx, ver>>
    PROVE  IInv'
<1>1. TableOK' /\ Later(table, lastIdx, now, table', lastIdx', now')
  <2>1. now' = now \/ \E pause \in Nat : now' = now + pause
    BY ClockAssumption DEF ClockActs, ClickReading, ClickApplyTarget, ClickReset, ClickApply, PickTarget,
           ClickPreset, ClockElsewhere, Tick, Apply
  <2>2. UNCHANGED <<table, lastIdx, offset>>
    BY DEF ClockActs, ClickReading, ClickApplyTarget, ClickReset, ClickApply, PickTarget,
           ClickPreset, ClockElsewhere, Tick, Apply, server
  <2>. QED  BY <2>1, <2>2 DEF IInv, TableOK, Later
<1>2. CASE Tick
  <2>1. PagesOK' /\ Ordinary(calls')
    BY <1>1, <1>2, PagesStay, OrdinaryCalls DEF Tick, IInv
  <2>. QED  BY <1>1, <2>1, OrdinaryStep
<1>3. CASE ClickReading
  <2>1. PagesOK' /\ Ordinary(calls')
    BY <1>1, <1>3, PagesStay, OrdinaryReads DEF ClickReading, IInv
  <2>. QED  BY <1>1, <2>1, OrdinaryStep
<1>4. ASSUME NEW target \in Target, PickTarget(target) PROVE IInv'
  <2> DEFINE add == Rounded(1000 * target - Reference)
             goal == [time |-> target, add |-> add, read |-> clk.info # NoReading]
  <2>1. /\ target \in Int /\ now \in Int /\ BrowserAhead \in Int
        /\ clk.info # NoReading => clk.info.real \in Int /\ 1000 * clk.info.real <= now
    BY ClockAssumption DEF IInv, TableOK, PagesOK, Past
  <2>2. clk' = [clk EXCEPT !.picked = goal] /\ UNCHANGED <<now, calls>>
    BY <1>4 DEF PickTarget
  <2>3. add \in Int /\ Reached(goal, add, now)
    <3>1. CASE clk.info # NoReading
      <4>1. Leeway(goal) = 0
        BY <3>1 DEF Leeway
      <4>2. 1000 * target - Reference = 1000 * (target - clk.info.real)
        BY <2>1, <3>1 DEF Reference
      <4>3. add = target - clk.info.real
        BY <2>1, <3>1, <4>2, WholeSeconds
      <4>. QED  BY <2>1, <3>1, <4>1, <4>3 DEF Reached
    <3>2. CASE clk.info = NoReading
      <4>1. Leeway(goal) = 500 + BrowserAhead
        BY <3>2 DEF Leeway
      <4>2. Reference = now + BrowserAhead
        BY <3>2 DEF Reference
      <4>3. add \in Int /\ 1000 * add >= 1000 * target - (now + BrowserAhead) - 500
        BY <2>1, <4>2, Seconds
      <4> HIDE DEF add
      <4>. QED  BY <2>1, <4>1, <4>3 DEF Reached
    <3>. QED  BY <3>1, <3>2
  <2>4. PagesOK'
    <3>1. goal.add = add /\ goal.time = target
      OBVIOUS
    <3> HIDE DEF goal, add
    <3>. QED  BY <2>2, <2>3, <3>1 DEF IInv, PagesOK
  <2>5. Ordinary(calls')
    BY <2>2, OrdinaryCalls DEF IInv
  <2>. QED  BY <1>1, <2>4, <2>5, OrdinaryStep
<1>5. ASSUME NEW page, NEW seconds \in Int, NEW goal, Apply(page, seconds, goal),
             page = clk \/ page = [clk EXCEPT !.picked = NoTarget],
             goal # NoTarget => Reached(goal, seconds, now)
      PROVE  IInv'
  <2>1. clk' = [page EXCEPT !.busy = TRUE] /\ UNCHANGED now
    BY <1>5 DEF Apply
  <2>2. PagesOK'
    <3>1. CASE page = clk
      BY <2>1, <3>1 DEF IInv, PagesOK
    <3>2. CASE page = [clk EXCEPT !.picked = NoTarget]
      BY <2>1, <3>2 DEF IInv, PagesOK
    <3>. QED  BY <1>5, <3>1, <3>2
  <2> DEFINE call == Request("jump", [value |-> seconds, goal |-> goal])
  <2>3. CallOK(call, table', lastIdx', now')
    BY <1>5, <2>1 DEF CallOK, Request, Shaped
  <2>4. /\ calls' = [i \in Slot |-> calls'[i]]
        /\ \A i \in Slot : calls'[i] \in {calls[i], call}
    BY <1>5 DEF Apply, Sending, IInv, CallsOK
  <2>. QED  BY <1>1, <2>2, <2>3, <2>4, CallsGoOn DEF Follows, IInv
<1>6. CASE ClickApplyTarget
  <2>1. clk.picked.add \in Int /\ Reached(clk.picked, clk.picked.add, now)
    BY <1>6 DEF ClickApplyTarget, IInv, PagesOK
  <2>. QED  BY <1>5, <1>6, <2>1 DEF ClickApplyTarget
<1>7. ASSUME NEW seconds \in Typed, ClickApply(seconds) PROVE IInv'
  <2>1. seconds \in Int
    BY ClockAssumption
  <2>. QED  BY <1>5, <1>7, <2>1 DEF ClickApply
<1>8. ASSUME NEW seconds \in Preset, ClickPreset(seconds) PROVE IInv'
  <2>1. ShownOffset + seconds \in Int
    BY ClockAssumption DEF ShownOffset, IInv, PagesOK, Past
  <2>. QED  BY <1>5, <1>8, <2>1 DEF ClickPreset
<1>9. CASE ClickReset
  BY <1>5, <1>9 DEF ClickReset
<1>10. CASE ClockElsewhere
  <2>1. PICK seconds \in Typed :
            calls' = Sending(calls, Foreign("jump", [value |-> seconds, goal |-> NoTarget]))
    BY <1>10 DEF ClockElsewhere, FromElsewhere
  <2> DEFINE call == Foreign("jump", [value |-> seconds, goal |-> NoTarget])
  <2>2. CallOK(call, table', lastIdx', now')
    BY Elsewhere, ClockAssumption DEF CallOK
  <2>3. /\ calls' = [i \in Slot |-> calls'[i]]
        /\ \A i \in Slot : calls'[i] \in {calls[i], call}
    BY <2>1 DEF Sending, IInv, CallsOK
  <2>4. PagesOK'
    BY <1>1, <1>10, PagesStay DEF ClockElsewhere
  <2>. QED  BY <1>1, <2>2, <2>3, <2>4, CallsGoOn DEF Follows, IInv
<1>. QED  BY <1>2, <1>3, <1>4, <1>6, <1>7, <1>8, <1>9, <1>10 DEF ClockActs

\* The answers that the clock page handles.
LEMMA ClockReturnsKeeps ==
    ASSUME IInv, NEW i \in Slot, ClockReturns(i), UNCHANGED <<table, lastIdx, ver>>
    PROVE  IInv'
<1>1. TableOK' /\ Later(table, lastIdx, now, table', lastIdx', now')
  BY TableStays
  DEF ClockReturns, ReadingReturns, JumpSucceeds, JumpThrows, server, IInv, TableOK
<1>2. Ordinary(calls')
  BY OrdinaryCalls, OrdinaryReads DEF ClockReturns, ReadingReturns, JumpSucceeds, JumpThrows, IInv
<1>3. PagesOK'
  <2>1. UNCHANGED <<now, ver, table, lastIdx>>
    BY DEF ClockReturns, ReadingReturns, JumpSucceeds, JumpThrows
  <2>2. /\ clk' = [info |-> clk'.info, picked |-> clk'.picked, busy |-> clk'.busy,
                   due |-> clk'.due, sure |-> clk'.sure]
        /\ clk'.picked = clk.picked
    BY DEF ClockReturns, ReadingReturns, JumpSucceeds, JumpThrows, IInv, PagesOK
  <2>3. \/ clk'.info = clk.info
        \/ /\ calls[i].op = "clock" /\ Answered(calls[i])
           /\ clk'.info = calls[i].reply
    BY DEF ClockReturns, ReadingReturns, JumpSucceeds, JumpThrows, Returns, Answered, IInv,
           PagesOK
  <2>4. CallOK(calls[i], table, lastIdx, now)
    BY DEF IInv, CallsOK
  <2>. QED  BY <2>1, <2>2, <2>3, <2>4 DEF IInv, PagesOK, CallOK
<1>. QED  BY <1>1, <1>2, <1>3, OrdinaryStep

-----------------------------------------------------------------------------
(* The migrations page, and what all pages have in common *)

\* The migrations page asks for nothing that the other pages wait for.
LEMMA MigrationsKeeps ==
    ASSUME IInv, UNCHANGED <<table, lastIdx, ver, now, offset, clk>>,
           \/ MigrationsActs
           \/ \E i \in Slot : MigrationsServes(i) \/ MigrationsReturns(i)
    PROVE  IInv'
<1>1. /\ TableOK' /\ Later(table, lastIdx, now, table', lastIdx', now')
      /\ PagesOK'
  BY TableStays, PagesStay DEF IInv, TableOK
<1>2. CASE MigrationsActs /\ ~CloseForm
  <2>1. /\ Plain(Request("status", NoArg)) /\ Plain(Request("write", [own |-> TRUE]))
        /\ \A file : Plain(Request("file", [file |-> file]))
    BY DEF Plain, Request, Shaped
  <2>2. calls' = calls \/ \E d : Plain(d) /\ calls' = Sending(calls, d)
    <3>1. CASE \E file \in TabFiles : OpenFile(file)
      BY <2>1, <3>1 DEF OpenFile
    <3>2. CASE ~\E file \in TabFiles : OpenFile(file)
      BY <1>2, <2>1, <3>2
      DEF MigrationsActs, ClickStatus, CloseFile, ClickNew, Submit, CloseToast, SelectTab, MigUp
    <3>. QED  BY <3>1, <3>2
  <2>3. Ordinary(calls')
    BY <2>2, OrdinaryCalls DEF IInv
  <2>. QED  BY <1>1, <2>3, OrdinaryStep
<1>3. Ordinary(Disowned) /\ \A i \in Slot : Ordinary([Disowned EXCEPT ![i] = Free])
  <2>1. ASSUME NEW i \in Slot PROVE Follows(calls[i], Disowned[i])
    <3>1. Shaped(calls[i])
      BY DEF IInv, CallsOK, CallOK
    <3>2. CASE i \in Awaited("write")
      <4>1. calls[i].op = "write" /\ Disowned[i] = [calls[i] EXCEPT !.arg.own = FALSE]
        BY <3>2 DEF Awaited, Disowned
      <4>. QED  BY <3>1, <4>1 DEF Follows, Shaped
    <3>3. CASE i \notin Awaited("write")
      BY <3>3 DEF Disowned, Follows
    <3>. QED  BY <3>2, <3>3
  <2>. QED  BY <2>1 DEF Disowned, Ordinary, Follows
<1>4. CASE CloseForm
  BY <1>1, <1>3, <1>4, OrdinaryStep DEF CloseForm
<1>5. ASSUME NEW i \in Slot, MigrationsServes(i) PROVE IInv'
  <2>1. Ordinary(calls')
    BY <1>5, OrdinaryCalls
    DEF MigrationsServes, ServeStatus, ServeInfo, ServeFile, ServeWrite, Unserved, IInv
  <2>. QED  BY <1>1, <2>1, OrdinaryStep
<1>6. ASSUME NEW i \in Slot, MigrationsReturns(i) PROVE IInv'
  <2>1. Ordinary(calls')
    BY <1>3, <1>6, OrdinaryCalls
    DEF MigrationsReturns, StatusReturns, InfoReturns, FileReturns, WriteSucceeds, WriteThrows,
        IInv
  <2>. QED  BY <1>1, <2>1, OrdinaryStep
<1>. QED  BY <1>2, <1>4, <1>5, <1>6

\* To leave a page drops what it shows and the calls it waits for.
LEMMA NavigateKeeps ==
    ASSUME IInv, NEW page \in Routes, Navigate(page)
    PROVE  IInv'
<1>1. TableOK' /\ Later(table, lastIdx, now, table', lastIdx', now')
  BY TableStays DEF Navigate, server, IInv, TableOK
<1>2. Ordinary(Abandoned)
  <2>1. ASSUME NEW i \in Slot PROVE Follows(calls[i], Abandoned[i])
    <3>1. Shaped(calls[i])
      BY DEF IInv, CallsOK, CallOK
    <3>2. \/ Abandoned[i] = Free \/ Abandoned[i] = calls[i]
          \/ Abandoned[i] = [calls[i] EXCEPT !.live = FALSE]
      BY DEF Abandoned
    <3>. QED  BY <3>1, <3>2 DEF Follows, Shaped
  <2>. QED  BY <2>1 DEF Abandoned, Ordinary
<1>3. Ordinary(calls')
  <2>1. /\ Plain(Request("status", NoArg)) /\ Plain(Request("info", NoArg))
        /\ Plain(Request("list", [ends |-> FALSE, alone |-> TRUE]))
        /\ Plain(Request("clock", [ends |-> FALSE, alone |-> TRUE]))
    BY DEF Plain, Request, Shaped
  <2>2. \A cs, d : Ordinary(cs) /\ Plain(d) => Ordinary(Sending(cs, d))
    BY OrdinaryCalls DEF IInv
  <2>. QED
    BY <1>2, <2>1, <2>2 DEF Navigate, Mount, VersionMount, ClockMount, MigrationsMount
<1>4. PagesOK'
  <2>1. ver' = VersionFresh /\ clk' = ClockFresh
    BY DEF Navigate, Mount, Unmounted, VersionMount, ClockMount, Routes
  <2>2. (ver = VersionFresh /\ clk = ClockFresh => PagesOK)'
    BY FreshPages, PTL
  <2>. QED  BY <2>1, <2>2
<1>. QED  BY <1>1, <1>3, <1>4, OrdinaryStep

\* A call that fails on its way carries nothing any more, and what the server goes on with
\* is the call as it was sent.
LEMMA LossKeeps ==
    ASSUME IInv, NEW i \in Slot, Lose(i) \/ LoseContact(i),
           UNCHANGED <<table, lastIdx, ver, now, offset, clk>>
    PROVE  IInv'
<1>1. /\ TableOK' /\ Later(table, lastIdx, now, table', lastIdx', now')
      /\ PagesOK'
  BY TableStays, PagesStay DEF IInv, TableOK
<1>2. CASE Lose(i)
  <2>1. Ordinary(calls')
    BY <1>2, OrdinaryCalls DEF Lose, IInv
  <2>. QED  BY <1>1, <2>1, OrdinaryStep
<1>3. CASE LoseContact(i)
  <2>1. PICK left : left = [calls[i] EXCEPT !.live = FALSE]
    OBVIOUS
  <2>2. CallOK(calls[i], table, lastIdx, now) /\ Shaped(calls[i])
    BY DEF IInv, CallsOK, CallOK
  <2>3. CallOK(left, table, lastIdx, now)
    <3>1. Shaped(left) /\ left.op = calls[i].op /\ left.arg = calls[i].arg
          /\ left.reply = calls[i].reply
      BY <2>1, <2>2 DEF Shaped
    <3>. QED  BY <2>2, <3>1 DEF CallOK, Answered
  <2>4. calls' = [Sending(calls, left) EXCEPT ![i].reply = Failed]
    BY <1>3, <2>1 DEF LoseContact
  <2>5. PICK cs : cs = Sending(calls, left)
    OBVIOUS
  <2>6. cs = [j \in Slot |-> cs[j]] /\ \A j \in Slot : cs[j] \in {calls[j], left}
    BY <2>5 DEF Sending, IInv, CallsOK
  <2>7. \A j \in Slot : CallOK(cs[j], table, lastIdx, now)
    BY <2>3, <2>6 DEF IInv, CallsOK
  <2>8. CallOK([cs[i] EXCEPT !.reply = Failed], table, lastIdx, now)
    <3>1. ASSUME NEW d, d = [cs[i] EXCEPT !.reply = Failed]
          PROVE  CallOK(d, table, lastIdx, now)
      <4>1. CallOK(cs[i], table, lastIdx, now) /\ Shaped(cs[i])
        BY <2>7 DEF CallOK
      <4>2. Shaped(d) /\ d.op = cs[i].op /\ d.arg = cs[i].arg /\ d.reply = Failed
        BY <3>1, <4>1 DEF Shaped
      <4>. QED  BY <4>1, <4>2 DEF CallOK, Answered
    <3>. QED  BY <3>1
  <2>9. /\ calls' = [j \in Slot |-> calls'[j]]
        /\ \A j \in Slot : CallOK(calls'[j], table, lastIdx, now)
    BY <2>4, <2>5, <2>6, <2>7, <2>8
  <2>. QED  BY <1>1, <2>9 DEF IInv, CallsOK
<1>. QED  BY <1>2, <1>3

\* Every step keeps it.
LEMMA NextIInv ==
    ASSUME IInv, [Next]_vars
    PROVE  IInv'
<1>1. CASE UNCHANGED vars
  <2>1. UNCHANGED <<table, lastIdx, ver, now, offset, clk, calls>>
    BY <1>1 DEF vars, version, server
  <2>2. TableOK' /\ Later(table, lastIdx, now, table', lastIdx', now') /\ PagesOK'
    BY <2>1, TableStays, PagesStay DEF IInv, TableOK
  <2>3. Ordinary(calls')
    BY <2>1, OrdinaryCalls DEF IInv
  <2>. QED  BY <2>2, <2>3, OrdinaryStep
<1>2. ASSUME NEW page \in Routes, Navigate(page) PROVE IInv'
  BY <1>2, NavigateKeeps
<1>3. CASE Acts
  BY <1>3, VersionActsKeeps, ClockActsKeeps, MigrationsKeeps
  DEF Acts, OnlyVersion, OnlyClock, OnlyMigrations, version, server
<1>4. ASSUME NEW i \in Slot, Proceeds(i) PROVE IInv'
  BY <1>4, VersionServesKeeps, ClockServesKeeps, MigrationsKeeps, LossKeeps
  DEF Proceeds, OnlyVersion, OnlyClock, OnlyMigrations, version, server, MigrationsServes
<1>5. ASSUME NEW i \in Slot, Handled(i) PROVE IInv'
  BY <1>5, VersionReturnsKeeps, ClockReturnsKeeps, MigrationsKeeps
  DEF Handled, OnlyVersion, OnlyClock, OnlyMigrations, version, server
<1>. QED  BY <1>1, <1>2, <1>3, <1>4, <1>5 DEF Next

\* The invariant holds in every state.
LEMMA Invariance == Spec => []IInv
BY InitIInv, NextIInv, PTL DEF Spec

-----------------------------------------------------------------------------
(* Theorems *)

\* A target picked on the clock page is not undershot by the jump computed from it, or where
\* it had no reading by no more than Math.round takes away and the browser's clock is ahead
\* (ClockPage.tsx:25-34), however long the reading it was computed with and the request
\* take and whoever else sets the clock.
THEOREM TargetsAreReached == Spec => NeverShortOfTarget
<1>1. IInv /\ [Next]_vars
      => [\A i \in Slot : SetOffset(i) /\ calls[i].arg.goal # NoTarget
             => now + 1000 * offset'
                   >= 1000 * calls[i].arg.goal.time - Leeway(calls[i].arg.goal)
         ]_<<offset, jumps, calls>>
  <2> SUFFICES ASSUME IInv, NEW i \in Slot, SetOffset(i), calls[i].arg.goal # NoTarget
               PROVE  now + 1000 * offset'
                         >= 1000 * calls[i].arg.goal.time - Leeway(calls[i].arg.goal)
    OBVIOUS
  <2>1. CallOK(calls[i], table, lastIdx, now) /\ now \in Int
    BY DEF IInv, CallsOK, TableOK
  <2>. QED  BY <2>1 DEF SetOffset, CallOK, Reached
<1>. QED  BY Invariance, <1>1, PTL DEF Spec, NeverShortOfTarget

\* A row leaves TB_VERSION by a DELETE of somebody who had that very row before his eyes
\* (VersionPage.tsx:91-102, admin.go:248), for any number of operators and of rows.
THEOREM DeletesAreConfirmed == Spec => DeletesWhatWasConfirmed
<1>1. IInv /\ [Next]_vars
      => [\A r \in table \ table' :
             \E i \in Slot : Unserved(i, "delete") /\ calls[i].arg.row = r]_<<table, calls>>
  <2> SUFFICES ASSUME IInv, Next, NEW r \in table, r \notin table'
               PROVE  \E i \in Slot : Unserved(i, "delete") /\ calls[i].arg.row = r
    BY DEF vars, version
  <2>1. PICK i \in Slot : ServeDelete(i)
    <3>1. CASE Acts \/ \E page \in Routes : Navigate(page)
      BY <3>1
      DEF Acts, OnlyClock, OnlyMigrations, version, Navigate, VersionActs, ClickRefresh,
          ClickReload, ClickDelete, ToggleAll, ClickCreate, ToggleRow, VersionElsewhere
    <3>2. ASSUME NEW i \in Slot, Handled(i) PROVE FALSE
      BY <3>2
      DEF Handled, OnlyClock, OnlyMigrations, version, VersionReturns, ListReturns,
          CreateSucceeds, CreateThrows, ReloadReturns, DeleteSucceeds, DeleteThrows
    <3>3. ASSUME NEW i \in Slot, Proceeds(i), ~ServeDelete(i) PROVE FALSE
      BY <3>3
      DEF Proceeds, OnlyClock, OnlyMigrations, version, VersionServes, ServeList, ServeCreate,
          ServeReload
    <3>. QED  BY <3>1, <3>2, <3>3 DEF Next
  <2>2. r.idx = calls[i].arg.row.idx /\ Unserved(i, "delete")
    BY <2>1 DEF ServeDelete
  <2>3. Known(calls[i].arg.row, table, lastIdx)
    BY <2>2 DEF Unserved, IInv, CallsOK, CallOK
  <2>. QED  BY <2>2, <2>3 DEF Known
<1>. QED  BY Invariance, <1>1, PTL DEF Spec, DeletesWhatWasConfirmed

-----------------------------------------------------------------------------
(* The status of the migrations *)

\* A status reading that the page waits for was taken when it was shown, or is under way.
Due(i) ==
    Answered(calls[i]) =>
        /\ calls[i].reply.at \in Nat /\ calls[i].reply.at <= runs
        /\ mig.status # NoStatus => mig.status.at <= calls[i].reply.at

\* The fields of the page.
MigShaped ==
    mig = [status |-> mig.status, busy |-> mig.busy, tab |-> mig.tab, stage |-> mig.stage,
           viewing |-> mig.viewing, content |-> mig.content, loading |-> mig.loading,
           viewError |-> mig.viewError, alone |-> mig.alone, creating |-> mig.creating,
           created |-> mig.created]

\* The page is busy as long as it waits for a reading, of which there is one.
StatusInv ==
    /\ runs \in Nat
    /\ mig.status # NoStatus => mig.status.at \in Nat /\ mig.status.at <= runs
    /\ \A i \in Awaited("status") : mig.busy /\ Due(i) /\ \A j \in Awaited("status") : i = j

\* The status that a page waits for is not touched.
Kept(c, d) ==
    d.op = "status" /\ d.live =>
        c.op = "status" /\ c.live /\ (d.reply = c.reply \/ ~Answered(d))
Quiet(cs) ==
    /\ cs = [i \in Slot |-> cs[i]]
    /\ \A i \in Slot : Kept(calls[i], cs[i])

\* Where no status reading starts or returns, it stays as it is.
LEMMA QuietStep ==
    ASSUME StatusInv, Quiet(calls'), runs' \in Nat, runs <= runs',
           \/ mig'.status = mig.status /\ mig'.busy = mig.busy
           \/ mig'.status = NoStatus /\ Awaited("status")' = {}
    PROVE  StatusInv'
<1>1. ASSUME NEW i \in Awaited("status")'
      PROVE  /\ i \in Awaited("status")
             /\ Answered(calls'[i]) => calls'[i].reply = calls[i].reply /\ Answered(calls[i])
  BY <1>1 DEF Quiet, Kept, Awaited, Answered
<1>2. CASE mig'.status = mig.status /\ mig'.busy = mig.busy
  BY <1>1, <1>2 DEF StatusInv, Due
<1>3. CASE mig'.status = NoStatus /\ Awaited("status")' = {}
  BY <1>3 DEF StatusInv
<1>. QED  BY <1>2, <1>3

\* Calls that leave a status alone.
LEMMA QuietCalls ==
    ASSUME CallsOK
    PROVE  /\ Quiet(calls)
           /\ \A cs, d : Quiet(cs) /\ d.op # "status" => Quiet(Sending(cs, d))
           /\ \A i \in Slot : Quiet(Done(i)) /\ Quiet(Answering(i, Failed))
           /\ \A i \in Slot : calls[i].op # "status" => \A r : Quiet(Answering(i, r))
<1> USE DEF Quiet
<1>1. /\ calls = [i \in Slot |-> calls[i]]
      /\ \A i \in Slot : Shaped(calls[i])
  BY DEF CallsOK, CallOK
<1>2. Quiet(calls)
  BY <1>1 DEF Kept
<1>3. ASSUME NEW cs, NEW d, Quiet(cs), d.op # "status" PROVE Quiet(Sending(cs, d))
  BY <1>3 DEF Sending, Kept
<1>4. ASSUME NEW i \in Slot PROVE Quiet(Done(i))
  BY <1>1 DEF Done, Kept, Free
<1>5. ASSUME NEW i \in Slot, NEW r, r = Failed \/ calls[i].op # "status"
      PROVE  Quiet(Answering(i, r))
  <2>1. Kept(calls[i], IF calls[i].live THEN [calls[i] EXCEPT !.reply = r] ELSE Free)
    BY <1>1, <1>5 DEF Kept, Shaped, Answered, Free
  <2>. QED  BY <1>1, <2>1 DEF Answering, Kept
<1>. QED  BY <1>2, <1>3, <1>4, <1>5

\* So do the other reads.
LEMMA QuietReads ==
    ASSUME CallsOK, NEW op, op # "status"
    PROVE  /\ Quiet(SendingRead(op)) /\ \A i \in Slot : Quiet(ReadingNext(i, op))
<1>1. /\ calls = [i \in Slot |-> calls[i]]
      /\ \A i \in Slot : Shaped(calls[i])
  BY DEF CallsOK, CallOK
<1>2. ASSUME NEW i \in Slot PROVE Kept(calls[i], WithCompany(op)[i])
  <2>1. CASE i \in Awaited(op)
    <3>1. calls[i].op = op
      BY <2>1 DEF Awaited
    <3>2. WithCompany(op)[i] = [calls[i] EXCEPT !.arg.alone = FALSE]
      BY <2>1 DEF WithCompany
    <3>. QED  BY <1>1, <3>1, <3>2 DEF Kept, Shaped
  <2>2. CASE i \notin Awaited(op)
    BY <2>2 DEF WithCompany, Kept
  <2>. QED  BY <2>1, <2>2
<1>3. Quiet(WithCompany(op))
  BY <1>2 DEF Quiet, WithCompany
<1>4. Read(op, TRUE).op # "status" /\ Read(op, FALSE).op # "status"
  BY DEF Read, Request
<1>5. Quiet(SendingRead(op))
  BY <1>3, <1>4, QuietCalls DEF SendingRead
<1>6. ASSUME NEW i \in Slot PROVE Quiet(ReadingNext(i, op))
  BY <1>3, <1>4 DEF ReadingNext, Quiet, Kept
<1>. QED  BY <1>5, <1>6

\* The version page and the clock page leave the status alone.
LEMMA OtherPagesQuiet ==
    ASSUME CallsOK,
           \/ VersionActs \/ ClockActs
           \/ \E i \in Slot : VersionServes(i) \/ VersionReturns(i)
           \/ \E i \in Slot : ClockServes(i) \/ ClockReturns(i)
    PROVE  Quiet(calls')
<1>1. /\ calls = [i \in Slot |-> calls[i]]
      /\ \A i \in Slot : Shaped(calls[i])
  BY DEF CallsOK, CallOK
<1>2. \A op, arg : /\ op # "status" => Request(op, arg).op # "status"
                   /\ op # "status" => Foreign(op, arg).op # "status"
  BY Elsewhere DEF Request
<1>3. CASE VersionActs /\ ~ClickDelete
  BY <1>2, <1>3, QuietCalls, QuietReads
  DEF VersionActs, ClickRefresh, ClickReload, ToggleAll, ClickCreate, ToggleRow,
      VersionElsewhere, FromElsewhere
<1>4. CASE ClickDelete
  <2>1. calls' = [i \in Slot |-> calls'[i]]
    BY <1>4 DEF ClickDelete
  <2>2. \A i \in Slot :
            calls'[i] = calls[i]
            \/ \E r \in Targets : calls'[i] = Request("delete", [row |-> r, batch |-> Targets])
    BY <1>4 DEF ClickDelete
  <2>3. ASSUME NEW i \in Slot PROVE Kept(calls[i], calls'[i])
    <3>1. CASE calls'[i] = calls[i]
      BY <3>1 DEF Kept
    <3>2. ASSUME NEW r \in Targets,
                 calls'[i] = Request("delete", [row |-> r, batch |-> Targets])
          PROVE  Kept(calls[i], calls'[i])
      BY <1>2, <3>2 DEF Kept
    <3>. QED  BY <2>2, <3>1, <3>2
  <2>. QED  BY <2>1, <2>3 DEF Quiet
<1>5. CASE ClockActs
  <2>1. \/ calls' = calls \/ calls' = SendingRead("clock")
        \/ \E arg : calls' = Sending(calls, Request("jump", arg))
        \/ \E arg : calls' = Sending(calls, Foreign("jump", arg))
    <3>1. CASE \/ ClickApplyTarget \/ ClickReset
               \/ \E seconds \in Typed : ClickApply(seconds)
               \/ \E seconds \in Preset : ClickPreset(seconds)
      BY <3>1 DEF ClickApplyTarget, ClickReset, ClickApply, ClickPreset, Apply
    <3>2. CASE \/ ClickReading \/ Tick \/ ClockElsewhere
               \/ \E target \in Target : PickTarget(target)
      BY <3>2 DEF ClickReading, Tick, ClockElsewhere, FromElsewhere, PickTarget
    <3>. QED  BY <1>5, <3>1, <3>2 DEF ClockActs
  <2>. QED  BY <1>2, <2>1, QuietCalls, QuietReads
<1>6. ASSUME NEW i \in Slot, VersionServes(i) PROVE Quiet(calls')
  BY <1>6, QuietCalls
  DEF VersionServes, ServeList, ServeCreate, ServeDelete, ServeReload, Unserved
<1>7. ASSUME NEW i \in Slot, VersionReturns(i) PROVE Quiet(calls')
  <2>1. CASE DeleteThrows(i)
    <3>1. calls' = [j \in Slot |-> calls'[j]]
      BY <2>1 DEF DeleteThrows
    <3>2. ASSUME NEW j \in Slot PROVE Kept(calls[j], calls'[j])
      <4>1. \/ calls'[j] = Free \/ calls'[j] = calls[j]
            \/ calls'[j] = [calls[j] EXCEPT !.live = FALSE]
        BY <2>1 DEF DeleteThrows
      <4>. QED  BY <1>1, <4>1 DEF Kept, Shaped, Free
    <3>. QED  BY <3>1, <3>2 DEF Quiet
  <2>2. CASE ~DeleteThrows(i)
    BY <1>7, <2>2, QuietCalls, QuietReads
    DEF VersionReturns, ListReturns, CreateSucceeds, CreateThrows, ReloadReturns,
        DeleteSucceeds
  <2>. QED  BY <2>1, <2>2
<1>8. ASSUME NEW i \in Slot, ClockServes(i) PROVE Quiet(calls')
  <2>1. CASE InsertRow(i)
    <3>1. calls' = [calls EXCEPT ![i].reply = Inserted] /\ calls[i].op = "jump"
      BY <2>1 DEF InsertRow, Unserved
    <3>. QED  BY <1>1, <3>1 DEF Quiet, Kept, Shaped
  <2>2. CASE ~InsertRow(i)
    BY <1>8, <2>2, QuietCalls
    DEF ClockServes, ServeClock, InsertRowFails, SetOffset, Unserved
  <2>. QED  BY <2>1, <2>2
<1>9. ASSUME NEW i \in Slot, ClockReturns(i) PROVE Quiet(calls')
  BY <1>9, QuietCalls, QuietReads DEF ClockReturns, ReadingReturns, JumpSucceeds, JumpThrows
<1>. QED  BY <1>3, <1>4, <1>5, <1>6, <1>7, <1>8, <1>9

\* The migrations page: a reading starts when the page is not busy, so it is alone, and the
\* server answers it with the present.
LEMMA MigrationsKeepsStatus ==
    ASSUME IInv, StatusInv, MigShaped,
           \/ MigrationsActs
           \/ \E i \in Slot : MigrationsServes(i) \/ MigrationsReturns(i)
    PROVE  StatusInv'
<1>1. /\ calls = [i \in Slot |-> calls[i]] /\ CallsOK /\ runs \in Nat
      /\ \A i \in Slot : Shaped(calls[i])
  BY DEF IInv, CallsOK, CallOK, StatusInv
<1> USE DEF MigShaped
<1>2. Quiet(Disowned) /\ \A i \in Slot : Quiet([Disowned EXCEPT ![i] = Free])
  <2>1. ASSUME NEW i \in Slot PROVE Kept(calls[i], Disowned[i])
    <3>1. CASE i \in Awaited("write")
      <4>1. calls[i].op = "write" /\ Disowned[i] = [calls[i] EXCEPT !.arg.own = FALSE]
        BY <3>1 DEF Awaited, Disowned
      <4>. QED  BY <1>1, <4>1 DEF Kept, Shaped
    <3>2. CASE i \notin Awaited("write")
      BY <3>2 DEF Disowned, Kept
    <3>. QED  BY <3>1, <3>2
  <2>. QED  BY <2>1 DEF Disowned, Quiet, Kept, Free
<1>3. CASE ClickStatus
  <2>1. Awaited("status") = {}
    BY <1>3 DEF ClickStatus, StatusInv
  <2>2. calls' = [calls EXCEPT ![NextSlot(calls)] = Request("status", NoArg)]
        /\ mig'.status = mig.status /\ mig'.busy /\ UNCHANGED runs
    BY <1>3 DEF ClickStatus, Sending
  <2>3. ~Answered(Request("status", NoArg))
    BY DEF Answered, Request
  <2>4. ASSUME NEW i \in Awaited("status")'
        PROVE  i = NextSlot(calls) /\ ~Answered(calls'[i])
    BY <1>1, <2>1, <2>2, <2>3, <2>4 DEF Awaited
  <2>. QED  BY <2>2, <2>4 DEF StatusInv, Due
<1>4. CASE MigrationsActs /\ ~ClickStatus
  <2>1. mig'.status = mig.status /\ mig'.busy = mig.busy /\ runs' \in Nat /\ runs <= runs'
    <3>1. CASE CloseFile \/ CloseForm \/ ClickNew \/ CloseToast
      <4>1. runs' \in Nat /\ runs <= runs'
        BY <1>1, <3>1 DEF CloseFile, CloseForm, ClickNew, CloseToast
      <4>2. mig'.status = mig.status
        BY <3>1 DEF CloseFile, CloseForm, ClickNew, CloseToast
      <4>3. mig'.busy = mig.busy
        BY <3>1 DEF CloseFile, CloseForm, ClickNew, CloseToast
      <4>. QED  BY <4>1, <4>2, <4>3
    <3>2. CASE Submit \/ MigUp
      BY <1>1, <3>2 DEF Submit, MigUp
    <3>3. CASE \E db \in Db : SelectTab(db)
      BY <1>1, <3>3 DEF SelectTab
    <3>4. CASE \E file \in TabFiles : OpenFile(file)
      BY <1>1, <3>4 DEF OpenFile
    <3>. QED  BY <1>4, <3>1, <3>2, <3>3, <3>4 DEF MigrationsActs
  <2>2. \/ calls' = calls \/ calls' = Disowned
        \/ \E op, arg : op # "status" /\ calls' = Sending(calls, Request(op, arg))
    <3>1. CASE \E file \in TabFiles : OpenFile(file)
      BY <3>1 DEF OpenFile
    <3>2. CASE ~\E file \in TabFiles : OpenFile(file)
      BY <1>4, <3>2
      DEF MigrationsActs, CloseFile, ClickNew, Submit, CloseForm, CloseToast, SelectTab, MigUp
    <3>. QED  BY <3>1, <3>2
  <2>3. Quiet(calls')
    BY <1>1, <1>2, <2>2, QuietCalls DEF Request
  <2>. QED  BY <2>1, <2>3, QuietStep
<1>5. ASSUME NEW i \in Slot, ServeStatus(i), UNCHANGED mig PROVE StatusInv'
  <2>1. PICK bad \in SUBSET Db :
            calls' = Answering(i, [is |-> "status", at |-> runs, bad |-> bad])
    BY <1>5 DEF ServeStatus
  <2>2. /\ calls[i].live => Shaped(calls'[i]) /\ calls'[i].op = calls[i].op /\ calls'[i].live
                            /\ calls'[i].reply.at = runs
        /\ ~calls[i].live => calls'[i] = Free
        /\ \A j \in Slot : j # i => calls'[j] = calls[j]
    <3>1. CASE calls[i].live
      <4>1. PICK reply : reply = [is |-> "status", at |-> runs, bad |-> bad]
        OBVIOUS
      <4>2. calls'[i] = [calls[i] EXCEPT !.reply = reply]
            /\ \A j \in Slot : j # i => calls'[j] = calls[j]
        BY <1>1, <2>1, <3>1, <4>1 DEF Answering
      <4>. QED  BY <1>1, <3>1, <4>1, <4>2 DEF Shaped
    <3>2. CASE ~calls[i].live
      BY <1>1, <2>1, <3>2 DEF Answering
    <3>. QED  BY <3>1, <3>2
  <2>3. UNCHANGED <<runs, mig>>
    BY <1>5 DEF ServeStatus
  <2>4. Awaited("status")' \subseteq Awaited("status")
    BY <2>2 DEF Awaited, Free
  <2>5. \A j \in Awaited("status")' : Due(j)'
    BY <2>2, <2>3, <2>4 DEF Awaited, Due, StatusInv, Free
  <2>. QED  BY <2>3, <2>4, <2>5 DEF StatusInv
<1>6. ASSUME NEW i \in Slot, ServeInfo(i) \/ ServeFile(i) \/ ServeWrite(i), UNCHANGED mig
      PROVE  StatusInv'
  <2>1. Quiet(calls') /\ UNCHANGED runs
    BY <1>1, <1>6, QuietCalls DEF ServeInfo, ServeFile, ServeWrite, Unserved
  <2>. QED  BY <1>1, <1>6, <2>1, QuietStep
<1>7. ASSUME NEW i \in Slot, StatusReturns(i) PROVE StatusInv'
  <2>1. i \in Awaited("status") /\ (calls[i].reply # Failed => Answered(calls[i]))
    BY <1>7 DEF StatusReturns, Returns, Awaited, Answered
  <2>2. Awaited("status")' = {}
    BY <1>1, <1>7, <2>1 DEF StatusReturns, Done, Awaited, Free, StatusInv
  <2>3. mig'.status = mig.status
        \/ (mig'.status = calls[i].reply /\ Answered(calls[i]))
    <3>1. CASE calls[i].reply = Failed
      BY <1>7, <3>1 DEF StatusReturns
    <3>2. CASE calls[i].reply # Failed
      BY <1>7, <2>1, <3>2 DEF StatusReturns
    <3>. QED  BY <3>1, <3>2
  <2>. QED  BY <1>7, <2>1, <2>2, <2>3 DEF StatusReturns, StatusInv, Due
<1>8. ASSUME NEW i \in Slot, MigrationsReturns(i), ~StatusReturns(i) PROVE StatusInv'
  <2>1. mig'.status = mig.status /\ mig'.busy = mig.busy /\ UNCHANGED runs
    BY <1>8
    DEF MigrationsReturns, InfoReturns, FileReturns, WriteSucceeds, WriteThrows
  <2>2. Quiet(calls')
    BY <1>1, <1>2, <1>8, QuietCalls
    DEF MigrationsReturns, InfoReturns, FileReturns, WriteSucceeds, WriteThrows
  <2>. QED  BY <1>1, <2>1, <2>2, QuietStep
<1>. QED
  BY <1>3, <1>4, <1>5, <1>6, <1>7, <1>8 DEF MigrationsServes

\* Every action of the page leaves it its fields.
LEMMA MigrationsKeepsShape ==
    ASSUME MigShaped,
           \/ MigrationsActs
           \/ \E i \in Slot : MigrationsServes(i) \/ MigrationsReturns(i)
    PROVE  MigShaped'
<1> USE DEF MigShaped
<1>1. CASE MigrationsActs
  <2>1. CASE CloseFile \/ Submit \/ CloseForm \/ MigUp
    BY <2>1 DEF CloseFile, Submit, CloseForm, MigUp
  <2>2. CASE ClickStatus \/ ClickNew \/ CloseToast \/ \E db \in Db : SelectTab(db)
    BY <2>2 DEF ClickStatus, ClickNew, CloseToast, SelectTab
  <2>3. CASE \E file \in TabFiles : OpenFile(file)
    BY <2>3 DEF OpenFile
  <2>. QED  BY <1>1, <2>1, <2>2, <2>3 DEF MigrationsActs
<1>2. ASSUME NEW i \in Slot, MigrationsReturns(i) PROVE MigShaped'
  <2>1. CASE StatusReturns(i)
    BY <2>1 DEF StatusReturns
  <2>2. CASE InfoReturns(i) \/ WriteSucceeds(i) \/ WriteThrows(i)
    BY <2>2 DEF InfoReturns, WriteSucceeds, WriteThrows
  <2>3. CASE FileReturns(i)
    BY <2>3 DEF FileReturns
  <2>. QED  BY <1>2, <2>1, <2>2, <2>3 DEF MigrationsReturns
<1>. QED  BY <1>1, <1>2 DEF MigrationsServes

\* The status on the page is never replaced by an older one (MigrationsPage.tsx:39-49,
\* 190-193): the button is disabled while a reading is under way, and a page that is left
\* takes its readings with it.
THEOREM StatusMovesOn == Spec => StatusNeverOlder
<1>1. Init => StatusInv /\ MigShaped
  <2> SUFFICES ASSUME Init PROVE StatusInv /\ MigShaped
    OBVIOUS
  <2>1. Awaited("status") = {}
    BY DEF Init, Awaited, Free
  <2>2. runs = 0 /\ mig.status = NoStatus
    BY DEF Init, MigrationsInit, MigrationsFresh
  <2>3. MigShaped
    BY DEF Init, MigrationsInit, MigrationsFresh, MigShaped
  <2>. QED  BY <2>1, <2>2, <2>3 DEF StatusInv
<1>2. IInv /\ StatusInv /\ MigShaped /\ [Next]_vars => StatusInv' /\ MigShaped'
  <2> SUFFICES ASSUME IInv, StatusInv, MigShaped, [Next]_vars PROVE StatusInv' /\ MigShaped'
    OBVIOUS
  <2>1. CallsOK /\ runs \in Nat
    BY DEF IInv, StatusInv
  <2>2. ASSUME Quiet(calls'), UNCHANGED migrations PROVE StatusInv' /\ MigShaped'
    BY <2>1, <2>2, QuietStep DEF migrations, MigShaped
  <2>3. CASE UNCHANGED vars
    BY <2>1, <2>2, <2>3, QuietCalls DEF vars
  <2>4. CASE Acts
    BY <2>1, <2>2, <2>4, OtherPagesQuiet, MigrationsKeepsStatus, MigrationsKeepsShape
    DEF Acts, OnlyVersion, OnlyClock
  <2>5. ASSUME NEW i \in Slot, Proceeds(i) PROVE StatusInv' /\ MigShaped'
    <3>1. CASE VersionServes(i) \/ ClockServes(i) \/ MigrationsServes(i)
      BY <2>1, <2>2, <2>5, <3>1, OtherPagesQuiet, MigrationsKeepsStatus, MigrationsKeepsShape
      DEF Proceeds, OnlyVersion, OnlyClock
    <3>2. CASE Lose(i) /\ UNCHANGED migrations
      BY <2>1, <2>2, <3>2, QuietCalls DEF Lose
    <3>3. CASE LoseContact(i) /\ UNCHANGED migrations
      <4>1. PICK left : left = [calls[i] EXCEPT !.live = FALSE]
        OBVIOUS
      <4>2. /\ calls = [j \in Slot |-> calls[j]] /\ Shaped(calls[i])
            /\ calls[i].op # "status"
        BY <3>3 DEF LoseContact, Writes, IInv, CallsOK, CallOK
      <4>3. Shaped(left) /\ left.op = calls[i].op
        BY <4>1, <4>2 DEF Shaped
      <4>4. PICK cs : cs = Sending(calls, left)
        OBVIOUS
      <4>5. Quiet(cs)
        BY <2>1, <4>2, <4>3, <4>4, QuietCalls
      <4>6. calls' = [cs EXCEPT ![i].reply = Failed]
        BY <3>3, <4>1, <4>4 DEF LoseContact
      <4>7. cs[i].op # "status" /\ Shaped(cs[i])
        BY <4>2, <4>3, <4>4 DEF Sending
      <4>8. Quiet(calls')
        BY <4>5, <4>6, <4>7 DEF Quiet, Kept, Shaped
      <4>. QED  BY <2>2, <3>3, <4>8
    <3>. QED  BY <2>5, <3>1, <3>2, <3>3 DEF Proceeds
  <2>6. ASSUME NEW i \in Slot, Handled(i) PROVE StatusInv' /\ MigShaped'
    BY <2>1, <2>2, <2>6, OtherPagesQuiet, MigrationsKeepsStatus, MigrationsKeepsShape
    DEF Handled, OnlyVersion, OnlyClock
  <2>7. ASSUME NEW page \in Routes, Navigate(page) PROVE StatusInv' /\ MigShaped'
    <3>1. ASSUME NEW i \in Slot PROVE ~(Abandoned[i].op = "status" /\ Abandoned[i].live)
      BY <2>1 DEF Abandoned, Writes, Free, CallsOK, CallOK
    <3>2. Abandoned = [i \in Slot |-> Abandoned[i]]
      BY DEF Abandoned
    <3>3. CASE page # "migrations"
      <4>1. \/ calls' = Abandoned
            \/ \E op, arg : op # "status" /\ calls' = Sending(Abandoned, Request(op, arg))
        BY <2>7, <3>3 DEF Navigate, Mount, VersionMount, ClockMount
      <4>2. Awaited("status")' = {}
        <5>1. CASE calls' = Abandoned
          BY <3>1, <5>1 DEF Awaited
        <5>2. ASSUME NEW op, NEW arg, op # "status",
                     calls' = Sending(Abandoned, Request(op, arg))
              PROVE  Awaited("status")' = {}
          <6>1. Request(op, arg).op # "status"
            BY <5>2 DEF Request
          <6>. QED  BY <3>1, <3>2, <5>2, <6>1 DEF Awaited, Sending
        <5>. QED  BY <4>1, <5>1, <5>2
      <4>3. mig' = MigrationsFresh /\ UNCHANGED runs
        BY <2>7, <3>3 DEF Navigate, Unmounted
      <4>. QED  BY <2>1, <4>2, <4>3 DEF StatusInv, MigShaped, MigrationsFresh
    <3>4. CASE page = "migrations"
      <4>1. /\ calls' = Sending(Sending(Abandoned, Request("status", NoArg)),
                                Request("info", NoArg))
            /\ mig' = [MigrationsFresh EXCEPT !.busy = TRUE] /\ UNCHANGED runs
        BY <2>7, <3>4 DEF Navigate, Mount, MigrationsMount
      <4>2. PICK cs : cs = Sending(Abandoned, Request("status", NoArg))
        OBVIOUS
      <4>3. cs = [i \in Slot |-> cs[i]]
            /\ \A i \in Slot : cs[i].op = "status" /\ cs[i].live =>
                  i = NextSlot(Abandoned) /\ cs[i] = Request("status", NoArg)
        BY <3>1, <3>2, <4>2 DEF Sending
      <4>4. \A i \in Awaited("status")' :
                i = NextSlot(Abandoned) /\ calls'[i] = Request("status", NoArg)
        BY <4>1, <4>2, <4>3 DEF Awaited, Sending, Request
      <4>5. ~Answered(Request("status", NoArg))
        BY DEF Answered, Request
      <4>6. mig'.status = NoStatus /\ mig'.busy /\ MigShaped'
        BY <4>1 DEF MigShaped, MigrationsFresh
      <4>. QED  BY <2>1, <4>1, <4>4, <4>5, <4>6 DEF StatusInv, Due
    <3>. QED  BY <3>3, <3>4
  <2>. QED  BY <2>3, <2>4, <2>5, <2>6, <2>7 DEF Next
<1>3. StatusInv /\ StatusInv' /\ IInv /\ MigShaped /\ [Next]_vars
      => [mig.status # NoStatus /\ mig'.status # NoStatus => mig'.status.at >= mig.status.at]_mig
  <2> SUFFICES ASSUME StatusInv, IInv, MigShaped, Next, mig.status # NoStatus,
                      mig'.status # NoStatus
               PROVE  mig'.status.at >= mig.status.at
    BY DEF vars, migrations
  <2>1. mig.status.at \in Nat
    BY DEF StatusInv
  <2>2. CASE mig'.status = mig.status
    BY <2>1, <2>2
  <2>3. ASSUME NEW i \in Slot, StatusReturns(i) PROVE mig'.status.at >= mig.status.at
    <3>1. i \in Awaited("status") /\ (calls[i].reply # Failed => Answered(calls[i]))
      BY <2>3 DEF StatusReturns, Returns, Awaited, Answered
    <3>2. CASE calls[i].reply = Failed
      BY <2>1, <2>3, <3>2 DEF StatusReturns, MigShaped
    <3>3. CASE calls[i].reply # Failed
      <4>1. mig'.status = calls[i].reply
        BY <2>3, <3>3 DEF StatusReturns, MigShaped
      <4>. QED  BY <2>1, <3>1, <3>3, <4>1 DEF StatusInv, Due
    <3>. QED  BY <3>2, <3>3
  <2>4. ASSUME \A i \in Slot : ~StatusReturns(i)
        PROVE  mig'.status = mig.status \/ mig'.status = NoStatus
    <3>1. CASE MigrationsActs
      <4>1. CASE CloseFile \/ Submit \/ CloseForm \/ MigUp
        BY <4>1 DEF CloseFile, Submit, CloseForm, MigUp, MigShaped
      <4>2. CASE ClickStatus \/ ClickNew \/ CloseToast \/ \E db \in Db : SelectTab(db)
        BY <4>2 DEF ClickStatus, ClickNew, CloseToast, SelectTab, MigShaped
      <4>3. CASE \E file \in TabFiles : OpenFile(file)
        BY <4>3 DEF OpenFile, MigShaped
      <4>. QED  BY <3>1, <4>1, <4>2, <4>3 DEF MigrationsActs
    <3>2. ASSUME NEW i \in Slot, MigrationsReturns(i) \/ MigrationsServes(i)
          PROVE  mig'.status = mig.status
      BY <2>4, <3>2
      DEF MigrationsReturns, InfoReturns, FileReturns, WriteSucceeds, WriteThrows,
          MigrationsServes, MigShaped
    <3>3. ASSUME NEW page \in Routes, Navigate(page) PROVE mig'.status = NoStatus
      BY <3>3 DEF Navigate, Mount, MigrationsMount, Unmounted, MigrationsFresh
    <3>4. CASE UNCHANGED migrations
      BY <3>4 DEF migrations
    <3>. QED
      BY <3>1, <3>2, <3>3, <3>4
      DEF Next, Acts, Proceeds, Handled, OnlyVersion, OnlyClock
  <2>. QED  BY <2>2, <2>3, <2>4
<1>. QED  BY Invariance, <1>1, <1>2, <1>3, PTL DEF Spec, StatusNeverOlder

-----------------------------------------------------------------------------
(* The slots *)

\* The page before the first that is looked at: a set of numbers has a least one.
LEMMA Least ==
    ASSUME NEW S, S \subseteq Nat, S # {}
    PROVE  \E m \in S : \A n \in S : m <= n
<1>1. PICK m \in S : \A n \in S : <<n, m>> \notin OpToRel(<, Nat)
  BY WFMin, NatLessThanWellFounded, Zenon
<1>2. \A n \in S : ~(n < m)
  BY <1>1, Zenon DEF OpToRel
<1>. QED  BY <1>2

\* Where there is room, a request goes to a slot that was free.
LEMMA SendingFits ==
    ASSUME NEW cs, Cardinality(Unused(cs)) >= 1, NEW c
    PROVE  \E k \in Slot : cs[k] = Free /\ Sending(cs, c) = [cs EXCEPT ![k] = c]
<1>1. Unused(cs) # {} /\ Unused(cs) \subseteq Nat
  <2>1. ASSUME NEW S, S = {} PROVE Cardinality(S) = 0
    BY <2>1, FS_EmptySet
  <2>2. Unused(cs) # {}
    BY <2>1
  <2>. QED  BY <2>2, SlotAssumption DEF Unused
<1>2. \E i \in Unused(cs) : \A j \in Unused(cs) : i <= j
  BY <1>1, Least
<1>3. NextSlot(cs) \in Unused(cs)
  BY <1>2 DEF NextSlot
<1>. QED  BY <1>3 DEF Sending, Unused

\* The arguments of the reads, and of the requests for a new file, that a page waits for.
Dressed(c) ==
    c.live => /\ c.op \in {"list", "clock"} => c.arg = [ends |-> c.arg.ends, alone |-> c.arg.alone]
              /\ c.op = "write" => c.arg = [own |-> c.arg.own]

SlotsOK == calls = [i \in Slot |-> calls[i]] /\ \A i \in Slot : Shaped(calls[i]) /\ Dressed(calls[i])

\* A request is sent; a read is sent, beside which others are no longer alone.
Sent(c) == \E k \in Slot : calls[k] = Free /\ calls' = [calls EXCEPT ![k] = c]
ReadSent(op) ==
    \E k \in Slot : calls[k] = Free /\ calls' = [WithCompany(op) EXCEPT ![k] = Read(op, FALSE)]

\* A call that has got company is the same but for that.
Accompanied(c, d, op) ==
    /\ Shaped(d) /\ d.op = c.op /\ d.live = c.live /\ d.reply = c.reply
    /\ IF c.op = op /\ c.live
         THEN d.arg = [ends |-> c.arg.ends, alone |-> FALSE] ELSE d.arg = c.arg

LEMMA CompanyIs ==
    ASSUME SlotsOK, NEW op \in {"list", "clock"}
    PROVE  /\ WithCompany(op) = [i \in Slot |-> WithCompany(op)[i]]
           /\ \A i \in Slot : Accompanied(calls[i], WithCompany(op)[i], op)
<1>1. ASSUME NEW i \in Slot PROVE Accompanied(calls[i], WithCompany(op)[i], op)
  <2>1. Shaped(calls[i]) /\ Dressed(calls[i])
    BY DEF SlotsOK
  <2>2. CASE i \in Awaited(op)
    <3>1. calls[i].op = op /\ calls[i].live
      BY <2>2 DEF Awaited
    <3>2. calls[i].arg = [ends |-> calls[i].arg.ends, alone |-> calls[i].arg.alone]
      BY <2>1, <3>1 DEF Dressed
    <3>3. PICK arg : arg = [calls[i].arg EXCEPT !.alone = FALSE]
      OBVIOUS
    <3>4. arg = [ends |-> calls[i].arg.ends, alone |-> FALSE]
      BY <3>2, <3>3
    <3>5. WithCompany(op)[i] = [calls[i] EXCEPT !.arg = arg]
      BY <2>1, <2>2, <3>3 DEF WithCompany, Shaped
    <3>. QED  BY <2>1, <3>1, <3>4, <3>5 DEF Accompanied, Shaped
  <2>3. CASE i \notin Awaited(op)
    BY <2>1, <2>3 DEF WithCompany, Accompanied, Awaited
  <2>. QED  BY <2>2, <2>3
<1>. QED  BY <1>1 DEF WithCompany

\* A read that gets company stays in its slot.
LEMMA RoomStays ==
    ASSUME SlotsOK, NEW op \in {"list", "clock"}
    PROVE  Unused(WithCompany(op)) = Unused(calls)
<1>1. ASSUME NEW i \in Slot PROVE WithCompany(op)[i] = Free <=> calls[i] = Free
  <2>1. Shaped(calls[i]) /\ ~Free.live /\ Shaped(Free)
    BY DEF SlotsOK, Free, Shaped
  <2>2. CASE i \in Awaited(op)
    <3>1. WithCompany(op)[i].live = calls[i].live /\ calls[i].live
      BY <2>2, CompanyIs DEF Accompanied, Awaited
    <3>. QED  BY <2>1, <3>1
  <2>3. CASE i \notin Awaited(op)
    BY <2>3 DEF WithCompany
  <2>. QED  BY <2>2, <2>3
<1>. QED  BY <1>1 DEF Unused

LEMMA Sends ==
    ASSUME SlotsOK, HasRoom(1)
    PROVE  /\ \A c : calls' = Sending(calls, c) => Sent(c)
           /\ \A op \in {"list", "clock"} : calls' = SendingRead(op) => ReadSent(op)
<1>1. ASSUME NEW c, calls' = Sending(calls, c) PROVE Sent(c)
  BY <1>1, SendingFits DEF HasRoom, Sent
<1>2. ASSUME NEW op \in {"list", "clock"}, calls' = SendingRead(op) PROVE ReadSent(op)
  <2>1. PICK k \in Slot : /\ WithCompany(op)[k] = Free
                          /\ calls' = [WithCompany(op) EXCEPT ![k] = Read(op, FALSE)]
    BY <1>2, RoomStays, SendingFits DEF HasRoom, SendingRead
  <2>2. calls[k] = Free
    BY <2>1, RoomStays DEF Unused
  <2>. QED  BY <2>1, <2>2 DEF ReadSent
<1>. QED  BY <1>1, <1>2

-----------------------------------------------------------------------------
(* What the pages leave alone *)

\* Calls of the operations ops are left as they are.
Same(c, d, ops) == c.op \in ops \/ d.op \in ops => d = c
Leaves(cs, ops) == cs = [i \in Slot |-> cs[i]] /\ \A i \in Slot : Same(calls[i], cs[i], ops)

\* A request for something else is sent, or something else is over or answered.
LEMMA LeavesCalls ==
    ASSUME SlotsOK, NEW ops, "free" \notin ops
    PROVE  /\ Leaves(calls, ops)
           /\ \A cs, d : /\ Leaves(cs, ops) /\ d.op \notin ops /\ Cardinality(Unused(cs)) >= 1
                         => Leaves(Sending(cs, d), ops)
           /\ \A i \in Slot : calls[i].op \notin ops =>
                 Leaves(Done(i), ops) /\ \A r : Leaves(Answering(i, r), ops)
<1>1. calls = [i \in Slot |-> calls[i]] /\ \A i \in Slot : Shaped(calls[i])
  BY DEF SlotsOK
<1>2. \A c : Same(c, c, ops)
  BY DEF Same
<1>3. Free.op \notin ops
  BY DEF Free
<1>4. Leaves(calls, ops)
  BY <1>1, <1>2 DEF Leaves
<1>5. ASSUME NEW cs, NEW d, Leaves(cs, ops), d.op \notin ops, Cardinality(Unused(cs)) >= 1
      PROVE  Leaves(Sending(cs, d), ops)
  <2>1. PICK k \in Slot : cs[k] = Free /\ Sending(cs, d) = [cs EXCEPT ![k] = d]
    BY <1>5, SendingFits
  <2>2. Same(calls[k], d, ops)
    BY <1>3, <1>5, <2>1 DEF Leaves, Same
  <2>. QED  BY <1>5, <2>1, <2>2 DEF Leaves
<1>6. ASSUME NEW i \in Slot, calls[i].op \notin ops PROVE Leaves(Done(i), ops)
  <2>1. Same(calls[i], Free, ops)
    BY <1>3, <1>6 DEF Same
  <2>. QED  BY <1>1, <1>2, <2>1 DEF Done, Leaves
<1>7. ASSUME NEW i \in Slot, NEW r, calls[i].op \notin ops
      PROVE  Leaves(Answering(i, r), ops)
  <2>1. PICK d : d = IF calls[i].live THEN [calls[i] EXCEPT !.reply = r] ELSE Free
    OBVIOUS
  <2>2. d.op \notin ops
    <3>1. CASE calls[i].live
      <4>1. d.op = calls[i].op
        BY <1>1, <2>1, <3>1 DEF Shaped
      <4>. QED  BY <1>7, <4>1
    <3>2. CASE ~calls[i].live
      BY <1>3, <2>1, <3>2
    <3>. QED  BY <3>1, <3>2
  <2>3. Answering(i, r) = [calls EXCEPT ![i] = d]
    BY <2>1 DEF Answering
  <2>. QED  BY <1>1, <1>2, <1>7, <2>2, <2>3 DEF Leaves, Same
<1>. QED  BY <1>4, <1>5, <1>6, <1>7

\* A read of something else is sent, at the end of a job or not.
LEMMA LeavesReads ==
    ASSUME SlotsOK, NEW ops, "free" \notin ops, NEW op \in {"list", "clock"}, op \notin ops
    PROVE  /\ HasRoom(1) => Leaves(SendingRead(op), ops)
           /\ \A i \in Slot : calls[i].op \notin ops => Leaves(ReadingNext(i, op), ops)
<1>1. \A c : Same(c, c, ops)
  BY DEF Same
<1>2. ASSUME NEW i \in Slot PROVE Same(calls[i], WithCompany(op)[i], ops)
  <2>1. Accompanied(calls[i], WithCompany(op)[i], op)
    BY CompanyIs
  <2>. QED  BY <2>1 DEF Accompanied, Same, SlotsOK, Shaped
<1>3. Leaves(WithCompany(op), ops)
  BY <1>2, CompanyIs DEF Leaves
<1>4. \A ends : Read(op, ends).op \notin ops
  BY DEF Read, Request
<1>5. ASSUME HasRoom(1) PROVE Leaves(SendingRead(op), ops)
  <2>1. Unused(WithCompany(op)) = Unused(calls)
    BY RoomStays
  <2>. QED  BY <1>3, <1>4, <1>5, <2>1, LeavesCalls DEF HasRoom, SendingRead
<1>6. ASSUME NEW i \in Slot, calls[i].op \notin ops PROVE Leaves(ReadingNext(i, op), ops)
  <2>1. Same(calls[i], Read(op, TRUE), ops)
    BY <1>4, <1>6 DEF Same
  <2>. QED  BY <1>3, <2>1 DEF ReadingNext, Leaves
<1>. QED  BY <1>5, <1>6

\* Nobody waits for what another operator sends.
LEMMA ForeignIs ==
    ASSUME NEW op, NEW arg
    PROVE  ~Foreign(op, arg).live /\ Foreign(op, arg).op = op
<1>1. PICK c : c = Request(op, arg)
  OBVIOUS
<1>2. c.op = op /\ Shaped(c)
  BY <1>1 DEF Request, Shaped
<1>3. PICK d : d = [c EXCEPT !.live = FALSE]
  OBVIOUS
<1>4. ~d.live /\ d.op = op
  BY <1>2, <1>3 DEF Shaped
<1>. QED  BY <1>1, <1>3, <1>4 DEF Foreign

\* Of two finite sets the one with no more elements goes into the other.
LEMMA Injects ==
    ASSUME NEW S, IsFiniteSet(S), NEW T, IsFiniteSet(T), Cardinality(S) <= Cardinality(T)
    PROVE  \E f \in [S -> T] : IsInjective(f)
<1>1. /\ Cardinality(S) \in Nat /\ ExistsBijection(S, 1 .. Cardinality(S))
      /\ Cardinality(T) \in Nat /\ ExistsBijection(1 .. Cardinality(T), T)
  BY FS_CardinalityType, Fun_ExistsBijSymmetric
<1>2. PICK g \in Bijection(S, 1 .. Cardinality(S)) : TRUE
  BY <1>1 DEF ExistsBijection
<1>3. PICK h \in Bijection(1 .. Cardinality(T), T) : TRUE
  BY <1>1 DEF ExistsBijection
<1>4. /\ g \in [S -> 1 .. Cardinality(S)] /\ \A a, b \in S : g[a] = g[b] => a = b
      /\ h \in [1 .. Cardinality(T) -> T]
      /\ \A a, b \in 1 .. Cardinality(T) : h[a] = h[b] => a = b
  <2>1. g \in Injection(S, 1 .. Cardinality(S)) /\ h \in Injection(1 .. Cardinality(T), T)
    BY Fun_BijectionProperties
  <2>2. g \in [S -> 1 .. Cardinality(S)] /\ \A a, b \in S : g[a] = g[b] => a = b
    BY <2>1 DEF Injection, IsInjective
  <2>3. /\ h \in [1 .. Cardinality(T) -> T]
        /\ \A a, b \in 1 .. Cardinality(T) : h[a] = h[b] => a = b
    BY <2>1 DEF Injection, IsInjective
  <2>. QED  BY <2>2, <2>3
<1>5. \A a \in S : g[a] \in 1 .. Cardinality(T)
  BY <1>1, <1>4
<1>6. PICK f : f = [a \in S |-> h[g[a]]]
  OBVIOUS
<1>7. f \in [S -> T] /\ \A a, b \in S : f[a] = f[b] => a = b
  BY <1>4, <1>5, <1>6
<1>. QED  BY <1>7 DEF IsInjective

\* Every deletion that is confirmed goes to a slot of its own, which was free.
Deletion(r) == Request("delete", [row |-> r, batch |-> Targets])
LEMMA DeletesSent ==
    ASSUME ClickDelete, IsFiniteSet(ver.rows)
    PROVE  /\ calls' = [i \in Slot |-> calls'[i]]
           /\ \E slot \in [Targets -> Slot] :
                 /\ \A r \in Targets : calls[slot[r]] = Free /\ calls'[slot[r]] = Deletion(r)
                 /\ \A i \in Slot : calls'[i] = calls[i] \/ \E r \in Targets : i = slot[r]
<1>1. IsFiniteSet(Targets) /\ IsFiniteSet(Unused(calls))
  <2>1. Targets \in SUBSET ver.rows /\ Unused(calls) \in SUBSET Slot
    BY DEF Targets, Unused
  <2>. QED  BY <2>1, SlotAssumption, FS_Subset
<1>2. Cardinality(Targets) <= Cardinality(Unused(calls))
  <2>1. Cardinality(Targets) \in Nat /\ Cardinality(Unused(calls)) \in Nat
    BY <1>1, FS_CardinalityType
  <2>. QED  BY <2>1 DEF ClickDelete, HasRoom
<1>3. \E f \in [Targets -> Unused(calls)] : IsInjective(f)
  BY <1>1, <1>2, Injects
<1>4. PICK slot : slot = CHOOSE f \in [Targets -> Unused(calls)] : IsInjective(f)
  OBVIOUS
<1>5. slot \in [Targets -> Unused(calls)] /\ IsInjective(slot)
  BY <1>3, <1>4
<1>6. \A r, s \in Targets : slot[r] = slot[s] => r = s
  BY <1>5 DEF IsInjective
<1>7. calls' = [i \in Slot |-> IF \E r \in Targets : slot[r] = i
                                 THEN Deletion(CHOOSE r \in Targets : slot[r] = i) ELSE calls[i]]
  BY <1>4 DEF ClickDelete, Deletion
<1>8. \A r \in Targets : slot[r] \in Slot /\ calls[slot[r]] = Free
  BY <1>5 DEF Unused
<1>9. ASSUME NEW r \in Targets PROVE calls'[slot[r]] = Deletion(r)
  <2>1. (CHOOSE s \in Targets : slot[s] = slot[r]) = r
    BY <1>6
  <2>. QED  BY <1>7, <1>8, <2>1
<1>. QED  BY <1>5, <1>7, <1>8, <1>9

VersionOps == {"list", "create", "delete", "reload"}

\* The version page does nothing to the calls of another.
LEMMA VersionLeaves ==
    ASSUME SlotsOK, NEW ops, ops \cap ({"free"} \cup VersionOps) = {},
           \/ VersionActs /\ IsFiniteSet(ver.rows)
           \/ \E i \in Slot : VersionServes(i) \/ VersionReturns(i)
    PROVE  Leaves(calls', ops)
<1> USE DEF VersionOps
<1>1. \A op, arg : op \in VersionOps => Request(op, arg).op \notin ops
  BY DEF Request
<1>2. CASE VersionActs /\ ~ClickDelete
  <2>1. \/ calls' = calls \/ (HasRoom(1) /\ calls' = SendingRead("list"))
        \/ \E d : HasRoom(1) /\ d.op \notin ops /\ calls' = Sending(calls, d)
    <3>1. CASE ClickRefresh \/ ClickReload \/ ToggleAll \/ \E r \in ver.rows : ToggleRow(r)
      BY <1>1, <3>1 DEF ClickRefresh, ClickReload, ToggleAll, ToggleRow
    <3>2. CASE \E input \in Input : ClickCreate(input)
      BY <1>1, <3>2 DEF ClickCreate
    <3>3. CASE VersionElsewhere
      <4>1. ASSUME NEW op \in {"create", "delete"}, NEW arg, FromElsewhere(op, arg)
            PROVE  \E d : HasRoom(1) /\ d.op \notin ops /\ calls' = Sending(calls, d)
        <5>1. Foreign(op, arg).op \notin ops
          BY ForeignIs
        <5>. QED  BY <4>1, <5>1 DEF FromElsewhere
      <4>2. CASE \E input \in Input : FromElsewhere("create", [input |-> input])
        BY <4>1, <4>2
      <4>3. CASE \E r \in table : FromElsewhere("delete", [row |-> r, batch |-> {r}])
        BY <4>1, <4>3
      <4>. QED  BY <3>3, <4>2, <4>3 DEF VersionElsewhere
    <3>. QED  BY <1>2, <3>1, <3>2, <3>3 DEF VersionActs
  <2>. QED  BY <2>1, LeavesCalls, LeavesReads DEF HasRoom
<1>3. CASE ClickDelete /\ IsFiniteSet(ver.rows)
  <2>1. PICK slot \in [Targets -> Slot] :
            /\ \A r \in Targets : calls[slot[r]] = Free /\ calls'[slot[r]] = Deletion(r)
            /\ \A i \in Slot : calls'[i] = calls[i] \/ \E r \in Targets : i = slot[r]
    BY <1>3, DeletesSent
  <2>2. \A r : Deletion(r).op \notin ops
    BY <1>1 DEF Deletion
  <2>3. \A i \in Slot : Same(calls[i], calls'[i], ops)
    BY <2>1, <2>2 DEF Same, Free
  <2>. QED  BY <1>3, <2>3, DeletesSent DEF Leaves
<1>4. ASSUME NEW i \in Slot, VersionServes(i) PROVE Leaves(calls', ops)
  <2>1. calls[i].op \notin ops
    BY <1>4 DEF VersionServes, ServeList, ServeCreate, ServeDelete, ServeReload, Unserved
  <2>. QED
    BY <1>4, <2>1, LeavesCalls DEF VersionServes, ServeList, ServeCreate, ServeDelete, ServeReload
<1>5. ASSUME NEW i \in Slot, VersionReturns(i) PROVE Leaves(calls', ops)
  <2>1. calls[i].op \notin ops
    BY <1>5
    DEF VersionReturns, ListReturns, CreateSucceeds, CreateThrows, ReloadReturns,
        DeleteSucceeds, DeleteThrows, Returns, Succeeds, Throws
  <2>2. CASE DeleteThrows(i)
    <3>1. calls' = [j \in Slot |-> calls'[j]]
      BY <2>2 DEF DeleteThrows
    <3>2. ASSUME NEW j \in Slot PROVE Same(calls[j], calls'[j], ops)
      <4>1. \/ calls'[j] = calls[j]
            \/ /\ calls[j].op = "delete"
               /\ calls'[j] = Free \/ calls'[j] = [calls[j] EXCEPT !.live = FALSE]
        BY <2>2 DEF DeleteThrows, Throws, Returns, Awaited
      <4>2. Shaped(calls[j])
        BY DEF SlotsOK
      <4>. QED  BY <4>1, <4>2 DEF Same, Free, Shaped
    <3>. QED  BY <3>1, <3>2 DEF Leaves
  <2>3. CASE DeleteSucceeds(i)
    BY <2>1, <2>3, LeavesCalls, LeavesReads DEF DeleteSucceeds
  <2>4. CASE CreateSucceeds(i)
    BY <2>1, <2>4, LeavesReads DEF CreateSucceeds
  <2>5. CASE ListReturns(i) \/ CreateThrows(i) \/ ReloadReturns(i)
    BY <2>1, <2>5, LeavesCalls DEF ListReturns, CreateThrows, ReloadReturns
  <2>. QED  BY <1>5, <2>2, <2>3, <2>4, <2>5 DEF VersionReturns
<1>. QED  BY <1>2, <1>3, <1>4, <1>5
\* Neither does the clock page.
LEMMA ClockLeaves ==
    ASSUME SlotsOK, NEW ops, ops \cap {"free", "clock", "jump"} = {},
           \/ ClockActs
           \/ \E i \in Slot : ClockServes(i) \/ ClockReturns(i)
    PROVE  Leaves(calls', ops)
<1>1. CASE ClockActs
  <2>1. \A arg : Request("jump", arg).op \notin ops
    BY DEF Request
  <2>2. \/ calls' = calls \/ (HasRoom(1) /\ calls' = SendingRead("clock"))
        \/ \E d : HasRoom(1) /\ d.op \notin ops /\ calls' = Sending(calls, d)
    <3>1. CASE \/ ClickApplyTarget \/ ClickReset
               \/ \E seconds \in Typed : ClickApply(seconds)
               \/ \E seconds \in Preset : ClickPreset(seconds)
      BY <2>1, <3>1 DEF ClickApplyTarget, ClickReset, ClickApply, ClickPreset, Apply, ClockIdle
    <3>2. CASE ClickReading \/ Tick \/ \E target \in Target : PickTarget(target)
      BY <3>2 DEF ClickReading, Tick, PickTarget
    <3>3. CASE ClockElsewhere
      BY <3>3, ForeignIs DEF ClockElsewhere, FromElsewhere
    <3>. QED  BY <1>1, <3>1, <3>2, <3>3 DEF ClockActs
  <2>. QED  BY <2>2, LeavesCalls, LeavesReads DEF HasRoom
<1>2. ASSUME NEW i \in Slot, ClockServes(i) PROVE Leaves(calls', ops)
  <2>1. calls[i].op \notin ops
    BY <1>2 DEF ClockServes, ServeClock, InsertRow, InsertRowFails, SetOffset, Unserved
  <2>2. CASE InsertRow(i)
    <3>1. calls' = [calls EXCEPT ![i].reply = Inserted]
      BY <2>2 DEF InsertRow
    <3>2. PICK d : d = [calls[i] EXCEPT !.reply = Inserted]
      OBVIOUS
    <3>3. calls = [j \in Slot |-> calls[j]] /\ Shaped(calls[i])
      BY DEF SlotsOK
    <3>4. d.op = calls[i].op /\ d.live = calls[i].live
      BY <3>2, <3>3 DEF Shaped
    <3>5. Same(calls[i], d, ops) /\ \A c : Same(c, c, ops)
      BY <2>1, <3>4 DEF Same
    <3>6. calls' = [calls EXCEPT ![i] = d]
      BY <3>1, <3>2
    <3>. QED  BY <3>3, <3>5, <3>6 DEF Leaves
  <2>3. CASE ~InsertRow(i)
    BY <1>2, <2>1, <2>3, LeavesCalls DEF ClockServes, ServeClock, InsertRowFails, SetOffset
  <2>. QED  BY <2>2, <2>3
<1>3. ASSUME NEW i \in Slot, ClockReturns(i) PROVE Leaves(calls', ops)
  <2>1. calls[i].op \notin ops
    BY <1>3
    DEF ClockReturns, ReadingReturns, JumpSucceeds, JumpThrows, Returns, Succeeds, Throws
  <2>. QED
    BY <1>3, <2>1, LeavesCalls, LeavesReads DEF ClockReturns, ReadingReturns, JumpSucceeds, JumpThrows
<1>. QED  BY <1>1, <1>2, <1>3

\* A form that is gone takes nothing from its request but its own.
LEMMA DisownedIs ==
    ASSUME SlotsOK
    PROVE  /\ Disowned = [i \in Slot |-> Disowned[i]]
           /\ \A i \in Slot :
                 LET c == calls[i]  d == Disowned[i] IN
                 /\ Shaped(d) /\ d.op = c.op /\ d.live = c.live /\ d.reply = c.reply
                 /\ IF c.op = "write" /\ c.live THEN d.arg = [own |-> FALSE] ELSE d.arg = c.arg
<1>1. ASSUME NEW i \in Slot, i \in Awaited("write")
      PROVE  /\ Shaped(Disowned[i]) /\ Disowned[i].arg = [own |-> FALSE]
             /\ Disowned[i].op = calls[i].op /\ Disowned[i].live = calls[i].live
             /\ Disowned[i].reply = calls[i].reply
  <2>1. Shaped(calls[i]) /\ calls[i].arg = [own |-> calls[i].arg.own]
    BY <1>1 DEF SlotsOK, Dressed, Awaited
  <2>2. PICK arg : arg = [calls[i].arg EXCEPT !.own = FALSE]
    OBVIOUS
  <2>3. arg = [own |-> FALSE]
    BY <2>1, <2>2
  <2>4. Disowned[i] = [calls[i] EXCEPT !.arg = arg]
    BY <1>1, <2>2 DEF Disowned
  <2>. QED  BY <2>1, <2>3, <2>4 DEF Shaped
<1>2. \A i \in Slot : i \notin Awaited("write") => Disowned[i] = calls[i] /\ Shaped(calls[i])
  BY DEF Disowned, SlotsOK
<1>3. Disowned = [i \in Slot |-> Disowned[i]]
  BY DEF Disowned
<1>. QED  BY <1>1, <1>2, <1>3 DEF Awaited

\* Nor the migrations page.
LEMMA MigrationsLeave ==
    ASSUME SlotsOK, NEW ops, ops \cap {"free", "status", "info", "file", "write"} = {},
           \/ MigrationsActs
           \/ \E i \in Slot : MigrationsServes(i) \/ MigrationsReturns(i)
    PROVE  Leaves(calls', ops)
<1>1. Leaves(Disowned, ops)
  <2>1. ASSUME NEW i \in Slot PROVE Same(calls[i], Disowned[i], ops)
    BY DisownedIs DEF Same, SlotsOK, Shaped
  <2>. QED  BY <2>1, DisownedIs DEF Leaves
<1>2. CASE MigrationsActs
  <2>1. \A op, arg : op \in {"status", "file", "write"} => Request(op, arg).op \notin ops
    BY DEF Request
  <2>2. \/ calls' = calls \/ calls' = Disowned
        \/ \E d : HasRoom(1) /\ d.op \notin ops /\ calls' = Sending(calls, d)
    <3>1. CASE \E file \in TabFiles : OpenFile(file)
      BY <2>1, <3>1 DEF OpenFile
    <3>2. CASE ClickStatus \/ Submit
      BY <2>1, <3>2 DEF ClickStatus, Submit
    <3>3. CASE CloseFile \/ ClickNew \/ CloseForm \/ CloseToast
      BY <3>3 DEF CloseFile, ClickNew, CloseForm, CloseToast
    <3>4. CASE MigUp \/ \E db \in Db : SelectTab(db)
      BY <3>4 DEF MigUp, SelectTab
    <3>. QED  BY <1>2, <3>1, <3>2, <3>3, <3>4 DEF MigrationsActs
  <2>. QED  BY <1>1, <2>2, LeavesCalls DEF HasRoom
<1>3. ASSUME NEW i \in Slot, MigrationsServes(i) PROVE Leaves(calls', ops)
  <2>1. calls[i].op \notin ops
    BY <1>3 DEF MigrationsServes, ServeStatus, ServeInfo, ServeFile, ServeWrite, Unserved
  <2>. QED
    BY <1>3, <2>1, LeavesCalls DEF MigrationsServes, ServeStatus, ServeInfo, ServeFile, ServeWrite
<1>4. ASSUME NEW i \in Slot, MigrationsReturns(i) PROVE Leaves(calls', ops)
  <2>1. calls[i].op \notin ops
    BY <1>4
    DEF MigrationsReturns, StatusReturns, InfoReturns, FileReturns, WriteSucceeds, WriteThrows,
        Returns, Succeeds, Throws
  <2>2. CASE WriteSucceeds(i)
    <3>1. Same(calls[i], Free, ops)
      BY <2>1 DEF Same, Free
    <3>. QED  BY <1>1, <2>2, <3>1 DEF WriteSucceeds, Leaves
  <2>3. CASE ~WriteSucceeds(i)
    BY <1>4, <2>1, <2>3, LeavesCalls
    DEF MigrationsReturns, StatusReturns, InfoReturns, FileReturns, WriteThrows
  <2>. QED  BY <2>2, <2>3
<1>. QED  BY <1>2, <1>3, <1>4

\* A call that fails is still waited for, until it returns.  What the server goes on with is
\* in another slot, and nobody waits for it.
LEMMA LossIs ==
    ASSUME SlotsOK, NEW i \in Slot, LoseContact(i)
    PROVE  \E k \in Slot :
              /\ calls[k] = Free /\ k # i /\ calls' = [j \in Slot |-> calls'[j]]
              /\ calls'[k] = [calls[i] EXCEPT !.live = FALSE]
              /\ calls'[i] = [calls[i] EXCEPT !.reply = Failed]
              /\ \A j \in Slot \ {i, k} : calls'[j] = calls[j]
<1>1. PICK k \in Slot : /\ calls[k] = Free
                        /\ Sending(calls, [calls[i] EXCEPT !.live = FALSE])
                           = [calls EXCEPT ![k] = [calls[i] EXCEPT !.live = FALSE]]
  BY SendingFits DEF LoseContact, HasRoom
<1>2. k # i
  BY <1>1 DEF LoseContact, Free
<1>3. calls = [j \in Slot |-> calls[j]]
  BY DEF SlotsOK
<1>4. calls' = [[calls EXCEPT ![k] = [calls[i] EXCEPT !.live = FALSE]] EXCEPT ![i].reply = Failed]
  BY <1>1 DEF LoseContact
<1>. QED  BY <1>1, <1>2, <1>3, <1>4

\* Of the operations ops the page waits for the same calls, of which some have failed.
Waited(c, ops) == c.live /\ c.op \in ops
Fade(ops) ==
    \A i \in Slot :
        LET c == calls[i]  d == calls'[i] IN
        /\ Waited(d, ops) <=> Waited(c, ops)
        /\ Waited(c, ops) => d.op = c.op /\ d.arg = c.arg /\ d.reply \in {c.reply, Failed}

LEMMA LossFades ==
    ASSUME SlotsOK, NEW ops, NEW i \in Slot, Lose(i) \/ LoseContact(i)
    PROVE  Fade(ops)
<1>1. \A j \in Slot : Shaped(calls[j])
  BY DEF SlotsOK
<1>2. CASE Lose(i)
  <2>1. PICK d : d = IF calls[i].live THEN [calls[i] EXCEPT !.reply = Failed] ELSE Free
    OBVIOUS
  <2>2. calls'[i] = d /\ \A j \in Slot \ {i} : calls'[j] = calls[j]
    BY <1>2, <2>1 DEF Lose, Answering, SlotsOK
  <2>3. CASE calls[i].live
    <3>1. d.op = calls[i].op /\ d.arg = calls[i].arg /\ d.live /\ d.reply = Failed
      BY <1>1, <2>1, <2>3 DEF Shaped
    <3>. QED  BY <2>2, <3>1, <2>3 DEF Fade, Waited
  <2>4. CASE ~calls[i].live
    BY <2>1, <2>2, <2>4 DEF Fade, Waited, Free
  <2>. QED  BY <2>3, <2>4
<1>3. CASE LoseContact(i)
  <2>1. PICK k \in Slot :
              /\ calls[k] = Free /\ k # i /\ calls' = [j \in Slot |-> calls'[j]]
              /\ calls'[k] = [calls[i] EXCEPT !.live = FALSE]
              /\ calls'[i] = [calls[i] EXCEPT !.reply = Failed]
              /\ \A j \in Slot \ {i, k} : calls'[j] = calls[j]
    BY <1>3, LossIs
  <2>2. /\ ~calls'[k].live /\ ~calls[k].live
        /\ calls'[i].op = calls[i].op /\ calls'[i].arg = calls[i].arg
        /\ calls'[i].live = calls[i].live /\ calls'[i].reply = Failed
    BY <1>1, <2>1 DEF Shaped, Free
  <2>. QED  BY <2>1, <2>2 DEF Fade, Waited
<1>. QED  BY <1>2, <1>3

-----------------------------------------------------------------------------
(* A page is mounted *)

\* What a page that is left leaves behind: nobody waits for it.
LEMMA AbandonedIs ==
    ASSUME SlotsOK
    PROVE  /\ Abandoned = [i \in Slot |-> Abandoned[i]]
           /\ \A i \in Slot :
                 /\ Shaped(Abandoned[i]) /\ ~Abandoned[i].live
                 /\ \/ Abandoned[i] = Free /\ ~(calls[i].op = "jump" /\ calls[i].reply = Inserted)
                    \/ /\ Abandoned[i].op = calls[i].op /\ Abandoned[i].arg = calls[i].arg
                       /\ Abandoned[i].reply = calls[i].reply
<1>1. ASSUME NEW i \in Slot
      PROVE  /\ Shaped(Abandoned[i]) /\ ~Abandoned[i].live
             /\ \/ Abandoned[i] = Free /\ ~(calls[i].op = "jump" /\ calls[i].reply = Inserted)
                \/ /\ Abandoned[i].op = calls[i].op /\ Abandoned[i].arg = calls[i].arg
                   /\ Abandoned[i].reply = calls[i].reply
  <2>1. Shaped(calls[i])
    BY DEF SlotsOK
  <2>2. CASE ~calls[i].live
    BY <2>1, <2>2 DEF Abandoned
  <2>3. CASE calls[i].live /\ calls[i].op \in Writes /\ calls[i].reply \in {NotYet, Inserted}
    <3>1. Abandoned[i] = [calls[i] EXCEPT !.live = FALSE]
      BY <2>3 DEF Abandoned
    <3>. QED  BY <2>1, <3>1 DEF Shaped
  <2>4. CASE calls[i].live /\ ~(calls[i].op \in Writes /\ calls[i].reply \in {NotYet, Inserted})
    <3>1. Abandoned[i] = Free
      BY <2>4 DEF Abandoned
    <3>. QED  BY <2>4, <3>1 DEF Free, Shaped, Writes
  <2>. QED  BY <2>2, <2>3, <2>4
<1>2. Abandoned = [i \in Slot |-> Abandoned[i]]
  BY DEF Abandoned
<1>. QED  BY <1>1, <1>2

\* The page that is mounted waits for one answer, the migrations page for two.
Alone(c) ==
    \E k \in Slot : /\ Abandoned[k] = Free
                    /\ calls' = [Abandoned EXCEPT ![k] = c]
Both(c, d) ==
    \E k, l \in Slot : /\ k # l /\ Abandoned[k] = Free /\ Abandoned[l] = Free
                       /\ calls' = [Abandoned EXCEPT ![k] = c, ![l] = d]
FirstRead(op) == Request(op, [ends |-> FALSE, alone |-> TRUE])

LEMMA MountIs ==
    ASSUME SlotsOK, NEW page \in Routes, Navigate(page)
    PROVE  /\ page = "version" => Alone(FirstRead("list")) /\ ver' = VersionFresh
           /\ page = "clock" => Alone(FirstRead("clock")) /\ clk' = ClockFresh
           /\ page = "migrations" => /\ Both(Request("status", NoArg), Request("info", NoArg))
                                     /\ mig' = [MigrationsFresh EXCEPT !.busy = TRUE]
           /\ page = "not found" => calls' = Abandoned
           /\ page # "version" => ver' = VersionFresh
           /\ page # "clock" => clk' = ClockFresh
           /\ page # "migrations" => mig' = MigrationsFresh
           /\ form' = FormFresh /\ UNCHANGED <<table, lastIdx, server, runs>>
<1>1. ASSUME NEW n \in {1, 2}, Cardinality(Unused(Abandoned)) >= n
      PROVE  Cardinality(Unused(Abandoned)) >= 1
  <2>1. IsFiniteSet(Unused(Abandoned))
    <3>1. Unused(Abandoned) \in SUBSET Slot
      BY DEF Unused
    <3>. QED  BY <3>1, SlotAssumption, FS_Subset
  <2>2. Cardinality(Unused(Abandoned)) \in Nat
    BY <2>1, FS_CardinalityType
  <2>. QED  BY <1>1, <2>2
<1>2. CASE page = "version"
  <2>1. Cardinality(Unused(Abandoned)) >= 1
    BY <1>2 DEF Navigate
  <2>. QED
    BY <1>2, <2>1, SendingFits
    DEF Navigate, Mount, VersionMount, Unmounted, Alone, FirstRead, server
<1>3. CASE page = "clock"
  <2>1. Cardinality(Unused(Abandoned)) >= 1
    BY <1>3 DEF Navigate
  <2>. QED
    BY <1>3, <2>1, SendingFits DEF Navigate, Mount, ClockMount, Unmounted, Alone, FirstRead, server
<1>4. CASE page = "migrations"
  <2>1. Cardinality(Unused(Abandoned)) >= 2 /\ Cardinality(Unused(Abandoned)) >= 1
    BY <1>1, <1>4 DEF Navigate
  <2>2. PICK cs : cs = Sending(Abandoned, Request("status", NoArg))
    OBVIOUS
  <2>3. PICK k \in Slot : Abandoned[k] = Free /\ cs = [Abandoned EXCEPT ![k] = Request("status", NoArg)]
    BY <2>1, <2>2, SendingFits
  <2>4. Unused(cs) = Unused(Abandoned) \ {k} /\ k \in Unused(Abandoned) /\ cs[k] # Free
    <3>1. Request("status", NoArg) # Free
      <4>1. Request("status", NoArg).op # Free.op
        BY DEF Request, Free
      <4>. QED  BY <4>1
    <3>2. cs[k] = Request("status", NoArg) /\ \A j \in Slot \ {k} : cs[j] = Abandoned[j]
      BY <2>3, AbandonedIs
    <3>. QED  BY <2>3, <3>1, <3>2 DEF Unused
  <2>5. Cardinality(Unused(cs)) >= 1
    <3>1. IsFiniteSet(Unused(Abandoned)) /\ Cardinality(Unused(Abandoned)) \in Nat
      <4>1. Unused(Abandoned) \in SUBSET Slot
        BY DEF Unused
      <4>. QED  BY <4>1, SlotAssumption, FS_Subset, FS_CardinalityType
    <3>2. Cardinality(Unused(Abandoned) \ {k}) = Cardinality(Unused(Abandoned)) - 1
      BY <2>4, <3>1, FS_RemoveElement
    <3>. QED  BY <2>1, <2>4, <3>1, <3>2
  <2>6. calls' = Sending(cs, Request("info", NoArg))
    BY <1>4, <2>2 DEF Navigate, Mount, MigrationsMount
  <2>7. PICK l \in Slot : cs[l] = Free /\ calls' = [cs EXCEPT ![l] = Request("info", NoArg)]
    BY <2>5, <2>6, SendingFits
  <2>8. Both(Request("status", NoArg), Request("info", NoArg))
    <3>1. k # l
      BY <2>4, <2>7
    <3>2. Abandoned[l] = Free
      BY <2>3, <2>7, <3>1
    <3>. QED  BY <2>3, <2>7, <3>1, <3>2 DEF Both
  <2>. QED  BY <1>4, <2>8 DEF Navigate, Mount, MigrationsMount, Unmounted, server
<1>5. CASE page = "not found"
  BY <1>5 DEF Navigate, Mount, Unmounted, server
<1>. QED  BY <1>2, <1>3, <1>4, <1>5 DEF Routes

-----------------------------------------------------------------------------
(* What the calls carry *)

AllDressed(cs) == \A i \in Slot : Dressed(cs[i])

LEMMA DressedCalls ==
    ASSUME SlotsOK
    PROVE  /\ \A d : HasRoom(1) /\ Dressed(d) => AllDressed(Sending(calls, d))
           /\ \A i \in Slot : AllDressed(Done(i)) /\ \A r : AllDressed(Answering(i, r))
           /\ \A op \in {"list", "clock"} :
                 /\ HasRoom(1) => AllDressed(SendingRead(op))
                 /\ \A i \in Slot : AllDressed(ReadingNext(i, op))
<1>1. /\ calls = [i \in Slot |-> calls[i]]
      /\ \A i \in Slot : Shaped(calls[i]) /\ Dressed(calls[i])
  BY DEF SlotsOK
<1>2. Dressed(Free)
  BY DEF Dressed, Free
<1>3. ASSUME NEW d, HasRoom(1), Dressed(d) PROVE AllDressed(Sending(calls, d))
  <2>1. PICK k \in Slot : Sending(calls, d) = [calls EXCEPT ![k] = d]
    BY <1>3, SendingFits DEF HasRoom
  <2>. QED  BY <1>1, <1>3, <2>1 DEF AllDressed
<1>4. ASSUME NEW i \in Slot, NEW r PROVE AllDressed(Done(i)) /\ AllDressed(Answering(i, r))
  <2>1. AllDressed(Done(i))
    BY <1>1, <1>2 DEF AllDressed, Done
  <2>2. PICK d : d = IF calls[i].live THEN [calls[i] EXCEPT !.reply = r] ELSE Free
    OBVIOUS
  <2>3. Dressed(d)
    <3>1. CASE calls[i].live
      <4>1. d.op = calls[i].op /\ d.arg = calls[i].arg /\ d.live
        BY <1>1, <2>2, <3>1 DEF Shaped
      <4>. QED  BY <1>1, <3>1, <4>1 DEF Dressed
    <3>2. CASE ~calls[i].live
      BY <1>2, <2>2, <3>2
    <3>. QED  BY <3>1, <3>2
  <2>4. Answering(i, r) = [calls EXCEPT ![i] = d]
    BY <2>2 DEF Answering
  <2>. QED  BY <1>1, <2>1, <2>3, <2>4 DEF AllDressed
<1>5. ASSUME NEW op \in {"list", "clock"}
      PROVE  /\ HasRoom(1) => AllDressed(SendingRead(op))
             /\ \A i \in Slot : AllDressed(ReadingNext(i, op))
  <2>1. ASSUME NEW i \in Slot PROVE Dressed(WithCompany(op)[i])
    <3>1. Accompanied(calls[i], WithCompany(op)[i], op)
      BY CompanyIs
    <3>. QED  BY <1>1, <3>1 DEF Accompanied, Dressed
  <2>2. \A ends : Dressed(Read(op, ends))
    BY DEF Read, Request, Dressed
  <2>3. WithCompany(op) = [i \in Slot |-> WithCompany(op)[i]]
    BY CompanyIs
  <2>4. \A i \in Slot : AllDressed(ReadingNext(i, op))
    BY <2>1, <2>2, <2>3 DEF ReadingNext, AllDressed
  <2>5. ASSUME HasRoom(1) PROVE AllDressed(SendingRead(op))
    <3>1. PICK k \in Slot : SendingRead(op) = [WithCompany(op) EXCEPT ![k] = Read(op, FALSE)]
      BY <2>5, RoomStays, SendingFits DEF HasRoom, SendingRead
    <3>. QED  BY <2>1, <2>2, <2>3, <3>1 DEF AllDressed
  <2>. QED  BY <2>4, <2>5
<1>. QED  BY <1>3, <1>4, <1>5

LEMMA SlotsStay ==
    ASSUME IInv, SlotsOK, [Next]_vars
    PROVE  SlotsOK'
<1>1. IInv'
  BY NextIInv
<1>2. calls' = [i \in Slot |-> calls'[i]] /\ \A i \in Slot : Shaped(calls'[i])
  BY <1>1 DEF IInv, CallsOK, CallOK
<1> SUFFICES AllDressed(calls')
  BY <1>2 DEF SlotsOK, AllDressed
<1>3. AllDressed(calls)
  BY DEF SlotsOK, AllDressed
<1>4. \A op, arg : op \notin {"list", "clock", "write"} => Dressed(Request(op, arg))
  BY DEF Request, Dressed
<1>5. \A op, arg : Dressed(Foreign(op, arg))
  <2>1. ASSUME NEW op, NEW arg PROVE Dressed(Foreign(op, arg))
    <3>1. ~Foreign(op, arg).live
      BY ForeignIs
    <3>. QED  BY <3>1 DEF Dressed
  <2>. QED  BY <2>1
<1>6. CASE UNCHANGED vars
  BY <1>3, <1>6 DEF vars
<1>7. ASSUME NEW page \in Routes, Navigate(page) PROVE AllDressed(calls')
  <2>1. \A i \in Slot : Dressed(Abandoned[i])
    BY AbandonedIs DEF Dressed
  <2>2. Dressed(FirstRead("list")) /\ Dressed(FirstRead("clock"))
    BY DEF FirstRead, Request, Dressed
  <2>3. \A c : Dressed(c) /\ Alone(c) => AllDressed(calls')
    BY <2>1, AbandonedIs DEF Alone, AllDressed
  <2>4. \A c, d : Dressed(c) /\ Dressed(d) /\ Both(c, d) => AllDressed(calls')
    BY <2>1, AbandonedIs DEF Both, AllDressed
  <2>. QED  BY <1>4, <1>7, <2>1, <2>2, <2>3, <2>4, MountIs DEF Routes, AllDressed
<1>8. CASE VersionActs
  <2>1. CASE ClickRefresh \/ ClickReload \/ ToggleAll \/ \E r \in ver.rows : ToggleRow(r)
    BY <1>3, <1>4, <2>1, DressedCalls DEF ClickRefresh, ClickReload, ToggleAll, ToggleRow
  <2>2. CASE \E input \in Input : ClickCreate(input)
    BY <1>4, <2>2, DressedCalls DEF ClickCreate
  <2>3. CASE ClickDelete
    <3>1. \A i \in Slot : \/ calls'[i] = calls[i]
                          \/ \E arg : calls'[i] = Request("delete", arg)
      BY <2>3 DEF ClickDelete
    <3>. QED  BY <1>3, <1>4, <3>1 DEF AllDressed
  <2>4. CASE VersionElsewhere
    BY <1>5, <2>4, DressedCalls DEF VersionElsewhere, FromElsewhere
  <2>. QED  BY <1>8, <2>1, <2>2, <2>3, <2>4 DEF VersionActs
<1>9. CASE ClockActs
  <2>1. CASE \/ ClickApplyTarget \/ ClickReset
             \/ \E seconds \in Typed : ClickApply(seconds)
             \/ \E seconds \in Preset : ClickPreset(seconds)
    BY <1>4, <2>1, DressedCalls
    DEF ClickApplyTarget, ClickReset, ClickApply, ClickPreset, Apply, ClockIdle
  <2>2. CASE ClickReading \/ Tick \/ \E target \in Target : PickTarget(target)
    BY <1>3, <2>2, DressedCalls DEF ClickReading, Tick, PickTarget
  <2>3. CASE ClockElsewhere
    BY <1>5, <2>3, DressedCalls DEF ClockElsewhere, FromElsewhere
  <2>. QED  BY <1>9, <2>1, <2>2, <2>3 DEF ClockActs
<1>10. AllDressed(Disowned)
  <2>1. ASSUME NEW i \in Slot PROVE Dressed(Disowned[i])
    BY <1>3, DisownedIs DEF AllDressed, Dressed
  <2>. QED  BY <2>1 DEF AllDressed
<1>11. CASE MigrationsActs
  <2>1. CASE \E file \in TabFiles : OpenFile(file)
    BY <1>4, <2>1, DressedCalls DEF OpenFile
  <2>2. CASE ClickStatus
    BY <1>4, <2>2, DressedCalls DEF ClickStatus
  <2>3. CASE Submit
    <3>1. Dressed(Request("write", [own |-> TRUE]))
      BY DEF Request, Dressed
    <3>. QED  BY <2>3, <3>1, DressedCalls DEF Submit
  <2>4. CASE CloseFile \/ ClickNew \/ CloseForm \/ CloseToast
    BY <1>3, <1>10, <2>4 DEF CloseFile, ClickNew, CloseForm, CloseToast
  <2>5. CASE MigUp \/ \E db \in Db : SelectTab(db)
    BY <1>3, <2>5 DEF MigUp, SelectTab
  <2>. QED  BY <1>11, <2>1, <2>2, <2>3, <2>4, <2>5 DEF MigrationsActs
<1>12. ASSUME NEW i \in Slot, VersionServes(i) \/ ClockServes(i) \/ MigrationsServes(i)
       PROVE  AllDressed(calls')
  <2>1. CASE InsertRow(i)
    <3>1. calls'[i] = [calls[i] EXCEPT !.reply = Inserted] /\ \A j \in Slot \ {i} : calls'[j] = calls[j]
      BY <2>1 DEF InsertRow, SlotsOK
    <3>2. Shaped(calls[i]) /\ Dressed(calls[i])
      BY DEF SlotsOK
    <3>3. calls'[i].op = calls[i].op /\ calls'[i].arg = calls[i].arg /\ calls'[i].live = calls[i].live
      BY <3>1, <3>2 DEF Shaped
    <3>4. Dressed(calls'[i])
      BY <3>2, <3>3 DEF Dressed
    <3>. QED  BY <1>3, <3>1, <3>4 DEF AllDressed
  <2>2. CASE VersionServes(i)
    BY <2>2, DressedCalls DEF VersionServes, ServeList, ServeCreate, ServeDelete, ServeReload
  <2>3. CASE ClockServes(i) /\ ~InsertRow(i)
    BY <2>3, DressedCalls DEF ClockServes, ServeClock, InsertRowFails, SetOffset
  <2>4. CASE MigrationsServes(i)
    BY <2>4, DressedCalls DEF MigrationsServes, ServeStatus, ServeInfo, ServeFile, ServeWrite
  <2>. QED  BY <1>12, <2>1, <2>2, <2>3, <2>4
<1>13. ASSUME NEW i \in Slot, Lose(i) \/ LoseContact(i) PROVE AllDressed(calls')
  <2>1. CASE Lose(i)
    BY <2>1, DressedCalls DEF Lose
  <2>2. CASE LoseContact(i)
    <3>1. PICK k \in Slot :
              /\ calls'[k] = [calls[i] EXCEPT !.live = FALSE]
              /\ calls'[i] = [calls[i] EXCEPT !.reply = Failed]
              /\ \A j \in Slot \ {i, k} : calls'[j] = calls[j]
      BY <2>2, LossIs
    <3>2. Shaped(calls[i])
      BY DEF SlotsOK
    <3>3. Dressed(calls'[k]) /\ Dressed(calls'[i])
      BY <1>3, <3>1, <3>2 DEF AllDressed, Dressed, Shaped
    <3>. QED  BY <1>3, <3>1, <3>3 DEF AllDressed
  <2>. QED  BY <1>13, <2>1, <2>2
<1>14. ASSUME NEW i \in Slot, VersionReturns(i) PROVE AllDressed(calls')
  <2>1. CASE DeleteThrows(i)
    <3>1. \A j \in Slot : \/ calls'[j] = Free \/ calls'[j] = calls[j]
                          \/ calls'[j] = [calls[j] EXCEPT !.live = FALSE]
      BY <2>1 DEF DeleteThrows
    <3>2. ASSUME NEW j \in Slot PROVE Dressed(calls'[j])
      <4>1. Shaped(calls[j]) /\ Dressed(calls[j])
        BY DEF SlotsOK
      <4>2. CASE calls'[j] = calls[j]
        BY <4>1, <4>2
      <4>3. CASE calls'[j] = Free \/ calls'[j] = [calls[j] EXCEPT !.live = FALSE]
        <5>1. ~calls'[j].live
          BY <4>1, <4>3 DEF Shaped, Free
        <5>. QED  BY <5>1 DEF Dressed
      <4>. QED  BY <3>1, <4>2, <4>3
    <3>. QED  BY <3>2 DEF AllDressed
  <2>2. CASE ~DeleteThrows(i)
    BY <1>14, <2>2, DressedCalls
    DEF VersionReturns, ListReturns, CreateSucceeds, CreateThrows, ReloadReturns, DeleteSucceeds
  <2>. QED  BY <2>1, <2>2
<1>15. ASSUME NEW i \in Slot, ClockReturns(i) PROVE AllDressed(calls')
  BY <1>15, DressedCalls DEF ClockReturns, ReadingReturns, JumpSucceeds, JumpThrows
<1>16. ASSUME NEW i \in Slot, MigrationsReturns(i) PROVE AllDressed(calls')
  <2>1. CASE WriteSucceeds(i)
    <3>1. Dressed(Free)
      BY DEF Dressed, Free
    <3>. QED  BY <1>10, <2>1, <3>1, DisownedIs DEF WriteSucceeds, AllDressed
  <2>2. CASE ~WriteSucceeds(i)
    BY <1>16, <2>2, DressedCalls
    DEF MigrationsReturns, StatusReturns, InfoReturns, FileReturns, WriteThrows
  <2>. QED  BY <2>1, <2>2
<1>. QED
  BY <1>6, <1>7, <1>8, <1>9, <1>11, <1>12, <1>13, <1>14, <1>15, <1>16
  DEF Next, Acts, Proceeds, Handled

\* The calls are so in every state.
LEMMA SlotsInvariance == Spec => [](IInv /\ SlotsOK)
<1>1. Init => SlotsOK
  <2>1. Shaped(Free) /\ Dressed(Free)
    BY DEF Free, Shaped, Dressed
  <2>. QED  BY <2>1 DEF Init, SlotsOK
<1>. QED  BY InitIInv, NextIInv, SlotsStay, <1>1, PTL DEF Spec

-----------------------------------------------------------------------------
(* The offset of the server *)

\* A jump between its row and its offset.
Midway(c) == c.op = "jump" /\ c.reply = Inserted

\* Without a race there is one at most, and the last row is its own.
OffsetInv ==
    ~raced => \/ Between = {} /\ offset = stored
              \/ \E i \in Slot : Between = {i} /\ stored = calls[i].arg.value

\* Where the jumps that are midway stay, and no other becomes one.
LEMMA OffsetStays ==
    ASSUME OffsetInv, UNCHANGED server,
           \A i \in Slot : /\ Midway(calls'[i]) <=> Midway(calls[i])
                           /\ Midway(calls[i]) => calls'[i].arg = calls[i].arg
    PROVE  OffsetInv'
<1>1. Between' = Between
  BY DEF Between, Midway
<1>2. \A i \in Between : i \in Slot /\ calls'[i].arg = calls[i].arg
  BY DEF Between, Midway
<1>. QED  BY <1>1, <1>2 DEF OffsetInv, server

\* The server inserts the row of one jump, and sets its offset before the next.
LEMMA ClockServesOffset ==
    ASSUME SlotsOK, OffsetInv, NEW i \in Slot, ClockServes(i)
    PROVE  OffsetInv'
<1>1. calls = [j \in Slot |-> calls[j]] /\ Shaped(calls[i])
  BY DEF SlotsOK
<1>2. CASE ServeClock(i) \/ (InsertRowFails(i) /\ UNCHANGED <<stored, raced>>)
  <2>1. UNCHANGED server /\ \A j \in Slot \ {i} : calls'[j] = calls[j]
    BY <1>1, <1>2 DEF ServeClock, InsertRowFails, Answering, server
  <2>2. ~Midway(calls[i])
    BY <1>2 DEF ServeClock, InsertRowFails, Unserved, Midway, NotYet, Inserted
  <2>3. ~Midway(calls'[i])
    <3>1. PICK r : calls' = Answering(i, r) /\ r.is # "inserted"
      BY <1>2 DEF ServeClock, InsertRowFails, Failed
    <3>2. calls'[i] = IF calls[i].live THEN [calls[i] EXCEPT !.reply = r] ELSE Free
      BY <1>1, <3>1 DEF Answering
    <3>3. CASE calls[i].live
      <4>1. calls'[i].reply = r
        BY <1>1, <3>2, <3>3 DEF Shaped
      <4>. QED  BY <3>1, <4>1 DEF Midway, Inserted
    <3>4. CASE ~calls[i].live
      BY <3>2, <3>4 DEF Midway, Free
    <3>. QED  BY <3>3, <3>4
  <2>. QED  BY <2>1, <2>2, <2>3, OffsetStays
<1>3. CASE InsertRow(i)
  <2>1. /\ stored' = calls[i].arg.value /\ raced' = (Between # {})
        /\ calls' = [calls EXCEPT ![i].reply = Inserted] /\ calls[i].op = "jump"
    BY <1>3 DEF InsertRow, Unserved
  <2>2. /\ calls'[i].op = "jump" /\ calls'[i].reply = Inserted
        /\ calls'[i].arg = calls[i].arg /\ \A j \in Slot \ {i} : calls'[j] = calls[j]
    BY <1>1, <2>1 DEF Shaped
  <2>3. Between' = Between \cup {i}
    BY <2>2 DEF Between
  <2>. QED  BY <2>1, <2>2, <2>3 DEF OffsetInv
<1>4. CASE raced' = TRUE
  BY <1>4 DEF OffsetInv
<1>5. CASE SetOffset(i)
  <2>1. /\ offset' = calls[i].arg.value /\ UNCHANGED <<stored, raced>> /\ i \in Between
        /\ calls' = Answering(i, [is |-> "jumped"])
    BY <1>5 DEF SetOffset, Between
  <2>2. calls'[i].op = "free" \/ calls'[i].reply = [is |-> "jumped"]
    BY <1>1, <2>1 DEF Answering, Shaped, Free
  <2>3. \A j \in Slot \ {i} : calls'[j] = calls[j]
    BY <1>1, <2>1 DEF Answering
  <2>4. Between' = Between \ {i}
    BY <2>2, <2>3 DEF Between, Inserted
  <2>. QED  BY <2>1, <2>4 DEF OffsetInv
<1>. QED  BY <1>2, <1>3, <1>4, <1>5 DEF ClockServes, InsertRowFails

\* The clock page sends jumps and takes their answers.
LEMMA ClockPageOffset ==
    ASSUME SlotsOK, OffsetInv, UNCHANGED server,
           ClockActs \/ \E i \in Slot : ClockReturns(i)
    PROVE  OffsetInv'
<1>1. calls = [j \in Slot |-> calls[j]] /\ \A j \in Slot : Shaped(calls[j])
  BY DEF SlotsOK
<1>2. ~Midway(Free) /\ \A op, ends : ~Midway(Read(op, ends))
  BY DEF Midway, Free, Read, Request, NotYet, Inserted
<1>3. ASSUME NEW i \in Slot
      PROVE  /\ Midway(WithCompany("clock")[i]) <=> Midway(calls[i])
             /\ Midway(calls[i]) => WithCompany("clock")[i].arg = calls[i].arg
  <2>1. Accompanied(calls[i], WithCompany("clock")[i], "clock")
    BY CompanyIs
  <2>. QED  BY <2>1 DEF Accompanied, Midway
<1>4. CASE ClockActs
  <2>1. \/ calls' = calls \/ ReadSent("clock")
        \/ \E d : Sent(d) /\ ~Midway(d)
    <3>1. \A arg : ~Midway(Request("jump", arg)) /\ ~Midway(Foreign("jump", arg))
      BY Elsewhere DEF Midway, Request, NotYet, Inserted
    <3>2. CASE \/ ClickApplyTarget \/ ClickReset
               \/ \E seconds \in Typed : ClickApply(seconds)
               \/ \E seconds \in Preset : ClickPreset(seconds)
      BY <3>1, <3>2, Sends
      DEF ClickApplyTarget, ClickReset, ClickApply, ClickPreset, Apply, ClockIdle
    <3>3. CASE ClickReading \/ Tick \/ \E target \in Target : PickTarget(target)
      BY <3>3, Sends DEF ClickReading, Tick, PickTarget
    <3>4. CASE ClockElsewhere
      BY <3>1, <3>4, Sends DEF ClockElsewhere, FromElsewhere
    <3>. QED  BY <1>4, <3>2, <3>3, <3>4 DEF ClockActs
  <2>2. CASE calls' = calls
    BY <2>2, OffsetStays
  <2>3. CASE ReadSent("clock")
    <3>1. \A i \in Slot : /\ Midway(calls'[i]) <=> Midway(calls[i])
                          /\ Midway(calls[i]) => calls'[i].arg = calls[i].arg
      <4>1. PICK k \in Slot :
                calls[k] = Free /\ calls' = [WithCompany("clock") EXCEPT ![k] = Read("clock", FALSE)]
        BY <2>3 DEF ReadSent
      <4>2. /\ calls'[k] = Read("clock", FALSE)
            /\ \A j \in Slot \ {k} : calls'[j] = WithCompany("clock")[j]
        BY <4>1, CompanyIs
      <4>3. ~Midway(calls[k]) /\ ~Midway(calls'[k])
        BY <1>2, <4>1, <4>2
      <4>. QED  BY <1>3, <4>2, <4>3
    <3>. QED  BY <3>1, OffsetStays
  <2>4. ASSUME NEW d, Sent(d), ~Midway(d) PROVE OffsetInv'
    BY <1>1, <1>2, <2>4, OffsetStays DEF Sent
  <2>. QED  BY <2>1, <2>2, <2>3, <2>4
<1>5. ASSUME NEW i \in Slot, ClockReturns(i) PROVE OffsetInv'
  <2>1. ~Midway(calls[i])
    BY <1>5
    DEF ClockReturns, ReadingReturns, JumpSucceeds, JumpThrows, Returns, Succeeds, Throws, Midway
  <2>2. calls' = Done(i) \/ calls' = ReadingNext(i, "clock")
    BY <1>5 DEF ClockReturns, ReadingReturns, JumpSucceeds, JumpThrows
  <2>3. \A j \in Slot : /\ Midway(calls'[j]) <=> Midway(calls[j])
                        /\ Midway(calls[j]) => calls'[j].arg = calls[j].arg
    <3>1. CASE calls' = Done(i)
      BY <1>1, <1>2, <2>1, <3>1 DEF Done
    <3>2. CASE calls' = ReadingNext(i, "clock")
      BY <1>2, <1>3, <2>1, <3>2, CompanyIs DEF ReadingNext
    <3>. QED  BY <2>2, <3>1, <3>2
  <2>. QED  BY <2>3, OffsetStays
<1>. QED  BY <1>4, <1>5

\* The running offset is the one of the last row, which the next start takes (admin.go:
\* 345-348), when no jump is midway and none has raced: whoever jumps, whatever calls are
\* lost and wherever the operators go meanwhile.
THEOREM OffsetFollowsTable == Spec => []OffsetIsLastRow
<1>1. Init => OffsetInv
  <2>1. Init => \A i \in Slot : calls[i].op = "free"
    <3>1. Free.op = "free"
      BY DEF Free
    <3>. QED  BY <3>1 DEF Init
  <2>2. Init => Between = {}
    BY <2>1 DEF Between
  <2>. QED  BY <2>2 DEF Init, ClockInit, OffsetInv
<1>2. IInv /\ SlotsOK /\ OffsetInv /\ [Next]_vars => OffsetInv'
  <2> SUFFICES ASSUME IInv, SlotsOK, OffsetInv, [Next]_vars PROVE OffsetInv'
    OBVIOUS
  <2>1. ASSUME Leaves(calls', {"jump"}), UNCHANGED server PROVE OffsetInv'
    BY <2>1, OffsetStays DEF Leaves, Same, Midway
  <2>2. CASE UNCHANGED vars
    BY <2>2, OffsetStays DEF vars
  <2>3. ASSUME NEW page \in Routes, Navigate(page) PROVE OffsetInv'
    <3>1. \A i \in Slot : /\ Midway(Abandoned[i]) <=> Midway(calls[i])
                          /\ Midway(calls[i]) => Abandoned[i].arg = calls[i].arg
      BY AbandonedIs DEF Midway, Free
    <3>2. /\ ~Midway(Free) /\ \A op : ~Midway(FirstRead(op))
          /\ \A op, arg : ~Midway(Request(op, arg))
      BY DEF FirstRead, Request, Midway, Free, NotYet, Inserted
    <3>3. \A c : ~Midway(c) /\ Alone(c) => OffsetInv' \/ ~UNCHANGED server
      BY <3>1, <3>2, AbandonedIs, OffsetStays DEF Alone
    <3>4. \A c, d : ~Midway(c) /\ ~Midway(d) /\ Both(c, d) => OffsetInv' \/ ~UNCHANGED server
      BY <3>1, <3>2, AbandonedIs, OffsetStays DEF Both
    <3>5. calls' = Abandoned => OffsetInv' \/ ~UNCHANGED server
      BY <3>1, OffsetStays
    <3>. QED  BY <2>3, <3>2, <3>3, <3>4, <3>5, MountIs DEF Routes
  <2>4. CASE Acts
    <3>1. CASE VersionActs /\ OnlyVersion
      BY <2>1, <3>1, VersionLeaves DEF OnlyVersion, VersionOps, IInv, PagesOK
    <3>2. CASE ClockActs
      BY <3>2, ClockPageOffset DEF ClockActs, ClickReading, ClickApplyTarget, ClickReset, ClickApply, PickTarget, ClickPreset, Apply, ClockElsewhere, Tick
    <3>3. CASE MigrationsActs /\ OnlyMigrations
      BY <2>1, <3>3, MigrationsLeave DEF OnlyMigrations
    <3>. QED  BY <2>4, <3>1, <3>2, <3>3 DEF Acts
  <2>5. ASSUME NEW i \in Slot, Proceeds(i) PROVE OffsetInv'
    <3>1. CASE VersionServes(i) /\ OnlyVersion
      BY <2>1, <3>1, VersionLeaves DEF OnlyVersion, VersionOps
    <3>2. CASE ClockServes(i)
      BY <3>2, ClockServesOffset
    <3>3. CASE MigrationsServes(i) /\ OnlyMigrations
      BY <2>1, <3>3, MigrationsLeave DEF OnlyMigrations
    <3>4. CASE Lose(i) /\ UNCHANGED server
      <4>1. ~Midway(calls[i]) /\ Shaped(calls[i]) /\ calls = [j \in Slot |-> calls[j]]
        BY <3>4 DEF Lose, Midway, SlotsOK
      <4>2. ~Midway(calls'[i]) /\ \A j \in Slot \ {i} : calls'[j] = calls[j]
        BY <3>4, <4>1 DEF Lose, Answering, Midway, Shaped, Free, Failed, Inserted
      <4>. QED  BY <3>4, <4>1, <4>2, OffsetStays
    <3>5. CASE LoseContact(i) /\ UNCHANGED server
      <4>1. PICK k \in Slot :
              /\ calls[k] = Free /\ k # i /\ calls' = [j \in Slot |-> calls'[j]]
              /\ calls'[k] = [calls[i] EXCEPT !.live = FALSE]
              /\ calls'[i] = [calls[i] EXCEPT !.reply = Failed]
              /\ \A j \in Slot \ {i, k} : calls'[j] = calls[j]
        BY <3>5, LossIs
      <4>2. /\ ~Midway(calls[k]) /\ ~Midway(calls'[i]) /\ calls'[k].arg = calls[i].arg
            /\ Midway(calls'[k]) <=> Midway(calls[i])
        <5>1. Shaped(calls[i])
          BY DEF SlotsOK
        <5>2. /\ calls'[k].op = calls[i].op /\ calls'[k].arg = calls[i].arg
              /\ calls'[k].reply = calls[i].reply /\ calls'[i].reply = Failed
          BY <4>1, <5>1 DEF Shaped
        <5>. QED  BY <4>1, <5>2 DEF Midway, Free, Failed, Inserted
      <4>3. CASE ~Midway(calls[i])
        BY <3>5, <4>1, <4>2, <4>3, OffsetStays
      <4>4. CASE Midway(calls[i])
        <5>1. \A j \in Slot : j \in Between' <=> (j \in Between /\ j # i) \/ j = k
          BY <4>1, <4>2, <4>4 DEF Between, Midway
        <5>2. i \in Between /\ Between' \subseteq Slot
          BY <4>4 DEF Between, Midway
        <5>3. ASSUME ~raced, Between = {i}, stored = calls[i].arg.value
              PROVE  Between' = {k} /\ stored' = calls'[k].arg.value
          BY <3>5, <4>2, <5>1, <5>2, <5>3 DEF server
        <5>. QED  BY <3>5, <5>2, <5>3 DEF OffsetInv, server
      <4>. QED  BY <4>3, <4>4
    <3>. QED  BY <2>5, <3>1, <3>2, <3>3, <3>4, <3>5 DEF Proceeds, server
  <2>6. ASSUME NEW i \in Slot, Handled(i) PROVE OffsetInv'
    <3>1. CASE VersionReturns(i) /\ OnlyVersion
      BY <2>1, <3>1, VersionLeaves DEF OnlyVersion, VersionOps
    <3>2. CASE ClockReturns(i)
      BY <3>2, ClockPageOffset DEF ClockReturns, ReadingReturns, JumpSucceeds, JumpThrows
    <3>3. CASE MigrationsReturns(i) /\ OnlyMigrations
      BY <2>1, <3>3, MigrationsLeave DEF OnlyMigrations
    <3>. QED  BY <2>6, <3>1, <3>2, <3>3 DEF Handled
  <2>. QED  BY <2>2, <2>3, <2>4, <2>5, <2>6 DEF Next
<1>3. OffsetInv => OffsetIsLastRow
  BY DEF OffsetInv, OffsetIsLastRow
<1>. QED  BY SlotsInvariance, <1>1, <1>2, <1>3, PTL DEF Spec

-----------------------------------------------------------------------------
(* One operation of a page *)

\* What the page waits for of one operation stays, but may get its answer.
Steady(op) ==
    \A i \in Slot : /\ i \in Awaited(op)' <=> i \in Awaited(op)
                    /\ i \in Awaited(op) => calls'[i].arg = calls[i].arg

\* The same, and what comes is a failure.
Unanswered(op) ==
    \A i \in Awaited(op) : Answered(calls'[i]) => calls'[i].reply = calls[i].reply

LEMMA AnswerIs ==
    ASSUME SlotsOK, NEW i \in Slot, NEW r, calls' = Answering(i, r)
    PROVE  /\ \A j \in Slot \ {i} : calls'[j] = calls[j]
           /\ calls[i].live => /\ calls'[i].op = calls[i].op /\ calls'[i].arg = calls[i].arg
                               /\ calls'[i].live /\ calls'[i].reply = r
           /\ ~calls[i].live => calls'[i] = Free
<1>1. calls = [j \in Slot |-> calls[j]] /\ Shaped(calls[i])
  BY DEF SlotsOK
<1>2. CASE calls[i].live
  <2>1. calls' = [calls EXCEPT ![i] = [calls[i] EXCEPT !.reply = r]]
    BY <1>2 DEF Answering
  <2>. QED  BY <1>1, <1>2, <2>1 DEF Shaped
<1>3. CASE ~calls[i].live
  <2>1. calls' = [calls EXCEPT ![i] = Free]
    BY <1>3 DEF Answering
  <2>. QED  BY <1>1, <1>3, <2>1
<1>. QED  BY <1>2, <1>3

\* Calls of other operations leave it alone, and so does every answer.
LEMMA SteadyCalls ==
    ASSUME SlotsOK, NEW op, op # "free"
    PROVE  /\ calls' = calls => Steady(op) /\ Unanswered(op)
           /\ \A d : Sent(d) /\ d.op # op => Steady(op) /\ Unanswered(op)
           /\ \A i \in Slot : /\ calls' = Done(i) /\ calls[i].op # op => Steady(op) /\ Unanswered(op)
                              /\ \A r : calls' = Answering(i, r) => Steady(op)
                              /\ \A r : calls' = Answering(i, r) /\ calls[i].op # op => Unanswered(op)
           /\ \A ops : Leaves(calls', ops) /\ op \in ops => Steady(op) /\ Unanswered(op)
           /\ \A ops : Fade(ops) /\ op \in ops => Steady(op) /\ Unanswered(op)
<1>1. calls = [i \in Slot |-> calls[i]] /\ Free.op = "free" /\ ~Free.live
  BY DEF SlotsOK, Free
<1>2. ASSUME calls' = calls PROVE Steady(op) /\ Unanswered(op)
  BY <1>2 DEF Steady, Unanswered, Awaited
<1>3. ASSUME NEW d, Sent(d), d.op # op PROVE Steady(op) /\ Unanswered(op)
  BY <1>1, <1>3 DEF Sent, Steady, Unanswered, Awaited
<1>4. ASSUME NEW i \in Slot, calls' = Done(i), calls[i].op # op PROVE Steady(op) /\ Unanswered(op)
  BY <1>1, <1>4 DEF Done, Steady, Unanswered, Awaited
<1>5. ASSUME NEW i \in Slot, NEW r, calls' = Answering(i, r)
      PROVE  Steady(op) /\ (calls[i].op # op => Unanswered(op))
  <2>1. CASE calls[i].live
    BY <1>5, <2>1, AnswerIs DEF Steady, Unanswered, Awaited
  <2>2. CASE ~calls[i].live
    BY <1>1, <1>5, <2>2, AnswerIs DEF Steady, Unanswered, Awaited
  <2>. QED  BY <2>1, <2>2
<1>6. ASSUME NEW ops, Leaves(calls', ops), op \in ops PROVE Steady(op) /\ Unanswered(op)
  BY <1>6 DEF Leaves, Same, Steady, Unanswered, Awaited
<1>7. ASSUME NEW ops, Fade(ops), op \in ops PROVE Steady(op) /\ Unanswered(op)
  <2>1. \A i \in Slot : i \in Awaited(op) => /\ calls'[i].live /\ calls'[i].op = op
                                             /\ calls'[i].arg = calls[i].arg
                                             /\ calls'[i].reply \in {calls[i].reply, Failed}
    BY <1>7 DEF Fade, Waited, Awaited
  <2>2. \A i \in Slot : i \in Awaited(op)' => i \in Awaited(op)
    BY <1>7 DEF Fade, Waited, Awaited
  <2>. QED  BY <2>1, <2>2 DEF Steady, Unanswered, Awaited, Answered
<1>. QED  BY <1>2, <1>3, <1>4, <1>5, <1>6, <1>7

-----------------------------------------------------------------------------
(* The jobs and the viewer of the migrations page *)

\* Exactly one call while the page is busy with it.
One(busy, set) == IF busy THEN \E i \in Slot : set = {i} ELSE set = {}

Owned == {i \in Awaited("write") : calls[i].arg.own}

StatusBusy == One(mig.busy, Awaited("status"))
FormBusy == One(form.submitting, Owned) /\ (form.submitting => mig.creating)

\* A viewer that was opened when no other file was on its way waits for its own alone.
Viewer ==
    mig.viewing # NoFile /\ mig.alone =>
       IF mig.loading
       THEN \E i \in Slot : /\ Awaited("file") = {i} /\ calls[i].arg.file = mig.viewing
                            /\ Answered(calls[i]) => calls[i].reply.content = mig.viewing
       ELSE Awaited("file") = {} /\ (mig.viewError \/ mig.content = mig.viewing)

\* What stays when nothing happens to it.
LEMMA MigrationsFrames ==
    /\ StatusBusy /\ Steady("status") /\ mig'.busy = mig.busy => StatusBusy'
    /\ FormBusy /\ Steady("write") /\ form' = form /\ mig'.creating = mig.creating
       => FormBusy'
    /\ /\ Viewer /\ Steady("file") /\ Unanswered("file")
       /\ mig'.viewing = mig.viewing /\ mig'.alone = mig.alone /\ mig'.loading = mig.loading
       /\ mig'.viewError = mig.viewError /\ mig'.content = mig.content
       => Viewer'
<1>1. ASSUME NEW op, Steady(op)
      PROVE  /\ Awaited(op)' = Awaited(op)
             /\ \A i \in Awaited(op) : i \in Slot /\ calls'[i].arg = calls[i].arg
  <2>1. Awaited(op) \subseteq Slot /\ Awaited(op)' \subseteq Slot
    BY DEF Awaited
  <2>. QED  BY <1>1, <2>1 DEF Steady
<1>2. ASSUME StatusBusy, Steady("status"), mig'.busy = mig.busy PROVE StatusBusy'
  BY <1>1, <1>2 DEF StatusBusy, One
<1>3. ASSUME FormBusy, Steady("write"), form' = form, mig'.creating = mig.creating
      PROVE  FormBusy'
  <2>1. Owned' = Owned
    BY <1>1, <1>3 DEF Owned
  <2>. QED  BY <1>3, <2>1 DEF FormBusy, One
<1>4. ASSUME Viewer, Steady("file"), Unanswered("file"),
             mig'.viewing = mig.viewing, mig'.alone = mig.alone, mig'.loading = mig.loading,
             mig'.viewError = mig.viewError, mig'.content = mig.content
      PROVE  Viewer'
  <2> SUFFICES ASSUME mig.viewing # NoFile, mig.alone
               PROVE  (IF mig.loading
                       THEN \E i \in Slot :
                               /\ Awaited("file") = {i} /\ calls[i].arg.file = mig.viewing
                               /\ Answered(calls[i]) => calls[i].reply.content = mig.viewing
                       ELSE Awaited("file") = {} /\ (mig.viewError \/ mig.content = mig.viewing))'
    BY <1>4 DEF Viewer
  <2>1. Awaited("file")' = Awaited("file")
    BY <1>1, <1>4
  <2>2. CASE mig.loading
    <3>1. PICK i \in Slot : /\ Awaited("file") = {i} /\ calls[i].arg.file = mig.viewing
                            /\ Answered(calls[i]) => calls[i].reply.content = mig.viewing
      BY <1>4, <2>2 DEF Viewer
    <3>2. /\ calls'[i].arg = calls[i].arg
          /\ Answered(calls'[i]) => calls'[i].reply = calls[i].reply
      BY <1>1, <1>4, <3>1 DEF Unanswered
    <3>3. Answered(calls'[i]) => calls'[i].reply.content = mig'.viewing
      BY <1>4, <3>1, <3>2 DEF Answered
    <3>. QED  BY <1>4, <2>1, <2>2, <3>1, <3>2, <3>3
  <2>3. CASE ~mig.loading
    BY <1>4, <2>1, <2>3 DEF Viewer
  <2>. QED  BY <2>2, <2>3
<1>. QED  BY <1>2, <1>3, <1>4

MigInv == MigShaped /\ StatusBusy /\ FormBusy /\ Viewer

\* What the operator does.
LEMMA MigrationsActsBusy ==
    ASSUME SlotsOK, MigInv, MigrationsActs
    PROVE  StatusBusy' /\ FormBusy' /\ Viewer'
<1> USE DEF MigInv
<1>1. calls = [i \in Slot |-> calls[i]] /\ Free.op = "free" /\ ~Free.live
  BY DEF SlotsOK, Free
<1>2. CASE ClickStatus
  <2>1. /\ ~mig.busy /\ mig' = [mig EXCEPT !.busy = TRUE] /\ form' = form
        /\ Sent(Request("status", NoArg))
    BY <1>2, Sends DEF ClickStatus
  <2>2. /\ mig'.busy /\ mig'.creating = mig.creating
        /\ mig'.viewing = mig.viewing /\ mig'.alone = mig.alone /\ mig'.loading = mig.loading
        /\ mig'.viewError = mig.viewError /\ mig'.content = mig.content
    BY <2>1 DEF MigShaped
  <2>3. Request("status", NoArg).op = "status" /\ Request("status", NoArg).live
    BY DEF Request
  <2>4. StatusBusy'
    <3>1. PICK k \in Slot : calls[k] = Free /\ calls' = [calls EXCEPT ![k] = Request("status", NoArg)]
      BY <2>1 DEF Sent
    <3>2. Awaited("status") = {}
      BY <2>1 DEF StatusBusy, One
    <3>3. Awaited("status")' = {k}
      BY <1>1, <2>3, <3>1, <3>2 DEF Awaited
    <3>. QED  BY <2>2, <3>3 DEF StatusBusy, One
  <2>. QED  BY <2>1, <2>2, <2>3, <2>4, SteadyCalls, MigrationsFrames
<1>3. CASE Submit
  <2>1. /\ ~form.submitting /\ mig.creating /\ mig' = mig /\ form'.submitting
        /\ Sent(Request("write", [own |-> TRUE]))
    BY <1>3, Sends DEF Submit
  <2>2. /\ Request("write", [own |-> TRUE]).op = "write" /\ Request("write", [own |-> TRUE]).live
        /\ Request("write", [own |-> TRUE]).arg.own
    BY DEF Request
  <2>3. FormBusy'
    <3>1. PICK k \in Slot : /\ calls[k] = Free
                            /\ calls' = [calls EXCEPT ![k] = Request("write", [own |-> TRUE])]
      BY <2>1 DEF Sent
    <3>2. Owned = {}
      BY <2>1 DEF FormBusy, One
    <3>3. Owned' = {k}
      BY <1>1, <2>2, <3>1, <3>2 DEF Owned, Awaited
    <3>. QED  BY <2>1, <3>3 DEF FormBusy, One
  <2>. QED  BY <2>1, <2>2, <2>3, SteadyCalls, MigrationsFrames
<1>4. ASSUME NEW file \in TabFiles, OpenFile(file) PROVE StatusBusy' /\ FormBusy' /\ Viewer'
  <2>1. /\ mig' = [mig EXCEPT !.viewing = file, !.loading = TRUE, !.viewError = FALSE,
                              !.alone = (Awaited("file") = {})]
        /\ form' = form /\ Sent(Request("file", [file |-> file]))
    BY <1>4, Sends DEF OpenFile
  <2>2. /\ mig'.busy = mig.busy /\ mig'.creating = mig.creating /\ mig'.viewing = file
        /\ mig'.loading /\ mig'.alone = (Awaited("file") = {})
    BY <2>1 DEF MigShaped
  <2>3. /\ Request("file", [file |-> file]).op = "file" /\ Request("file", [file |-> file]).live
        /\ Request("file", [file |-> file]).arg.file = file
        /\ ~Answered(Request("file", [file |-> file]))
    BY DEF Request, Answered
  <2>4. Viewer'
    <3>1. PICK k \in Slot : /\ calls[k] = Free
                            /\ calls' = [calls EXCEPT ![k] = Request("file", [file |-> file])]
      BY <2>1 DEF Sent
    <3>2. ASSUME Awaited("file") = {} PROVE Awaited("file")' = {k}
      BY <1>1, <2>3, <3>1, <3>2 DEF Awaited
    <3>3. calls'[k] = Request("file", [file |-> file])
      BY <1>1, <3>1
    <3>. QED  BY <2>2, <2>3, <3>2, <3>3 DEF Viewer
  <2>. QED  BY <2>1, <2>2, <2>3, <2>4, SteadyCalls, MigrationsFrames
<1>5. CASE CloseForm
  <2>1. /\ mig' = [mig EXCEPT !.creating = FALSE] /\ form' = FormFresh /\ calls' = Disowned
    BY <1>5 DEF CloseForm
  <2>2. /\ mig'.busy = mig.busy
        /\ mig'.viewing = mig.viewing /\ mig'.alone = mig.alone /\ mig'.loading = mig.loading
        /\ mig'.viewError = mig.viewError /\ mig'.content = mig.content
    BY <2>1 DEF MigShaped
  <2>3. \A op : op # "write" => Steady(op) /\ Unanswered(op)
    BY <2>1, DisownedIs DEF Steady, Unanswered, Awaited
  <2>4. FormBusy'
    <3>1. Owned' = {}
      BY <2>1, DisownedIs DEF Owned, Awaited
    <3>. QED  BY <2>1, <3>1 DEF FormBusy, One, FormFresh
  <2>. QED  BY <2>2, <2>3, <2>4, MigrationsFrames
<1>6. CASE ClickNew
  <2>1. /\ ~mig.creating /\ mig' = [mig EXCEPT !.creating = TRUE, !.created = FALSE]
        /\ form' = FormFresh /\ calls' = calls
    BY <1>6 DEF ClickNew, Uncovered
  <2>2. /\ mig'.busy = mig.busy
        /\ mig'.viewing = mig.viewing /\ mig'.alone = mig.alone /\ mig'.loading = mig.loading
        /\ mig'.viewError = mig.viewError /\ mig'.content = mig.content
    BY <2>1 DEF MigShaped
  <2>3. FormBusy'
    <3>1. Owned = {} /\ Owned' = Owned
      BY <2>1 DEF FormBusy, One, Owned, Awaited
    <3>. QED  BY <2>1, <3>1 DEF FormBusy, One, FormFresh
  <2>. QED  BY <2>1, <2>2, <2>3, SteadyCalls, MigrationsFrames
<1>7. CASE CloseFile
  <2>1. /\ mig' = [mig EXCEPT !.viewing = NoFile, !.content = NoFile, !.viewError = FALSE]
        /\ form' = form /\ calls' = calls
    BY <1>7 DEF CloseFile
  <2>2. mig'.busy = mig.busy /\ mig'.creating = mig.creating /\ mig'.viewing = NoFile
    BY <2>1 DEF MigShaped
  <2>3. Viewer'
    BY <2>2 DEF Viewer
  <2>. QED  BY <2>1, <2>2, <2>3, SteadyCalls, MigrationsFrames
<1>8. CASE CloseToast \/ MigUp \/ \E db \in Db : SelectTab(db)
  <2>1. form' = form /\ calls' = calls
    BY <1>8 DEF CloseToast, MigUp, SelectTab
  <2>2. /\ mig'.busy = mig.busy /\ mig'.creating = mig.creating
        /\ mig'.viewing = mig.viewing /\ mig'.alone = mig.alone /\ mig'.loading = mig.loading
        /\ mig'.viewError = mig.viewError /\ mig'.content = mig.content
    <3>1. CASE CloseToast
      BY <3>1 DEF CloseToast, MigShaped
    <3>2. CASE MigUp
      BY <3>2 DEF MigUp
    <3>3. CASE \E db \in Db : SelectTab(db)
      BY <3>3 DEF SelectTab, MigShaped
    <3>. QED  BY <1>8, <3>1, <3>2, <3>3
  <2>. QED  BY <2>1, <2>2, SteadyCalls, MigrationsFrames
<1>. QED  BY <1>2, <1>3, <1>4, <1>5, <1>6, <1>7, <1>8 DEF MigrationsActs

\* The answers of the server: the content of a file is the one that was asked for.
LEMMA MigrationsServesBusy ==
    ASSUME SlotsOK, MigInv, NEW i \in Slot, MigrationsServes(i)
    PROVE  StatusBusy' /\ FormBusy' /\ Viewer'
<1> USE DEF MigInv
<1>1. mig' = mig /\ form' = form
  BY DEF MigrationsServes
<1>2. \E r : /\ calls' = Answering(i, r)
             /\ calls[i].op = "file" => r.content = calls[i].arg.file
  <2>1. CASE ServeStatus(i)
    <3>1. PICK bad : calls' = Answering(i, [is |-> "status", at |-> runs, bad |-> bad])
      BY <2>1 DEF ServeStatus
    <3>. QED  BY <2>1, <3>1 DEF ServeStatus, Unserved
  <2>2. CASE ServeInfo(i) \/ ServeWrite(i)
    BY <2>2 DEF ServeInfo, ServeWrite, Unserved
  <2>3. CASE ServeFile(i)
    BY <2>3 DEF ServeFile
  <2>. QED  BY <2>1, <2>2, <2>3 DEF MigrationsServes
<1>3. PICK r : /\ calls' = Answering(i, r)
               /\ calls[i].op = "file" => r.content = calls[i].arg.file
  BY <1>2
<1>4. Steady("status") /\ Steady("write") /\ Steady("file")
  BY <1>3, SteadyCalls
<1>5. Viewer'
  <2>1. CASE calls[i].op # "file"
    BY <1>1, <1>3, <1>4, <2>1, SteadyCalls, MigrationsFrames
  <2>2. CASE calls[i].op = "file"
    <3> SUFFICES ASSUME mig.viewing # NoFile, mig.alone
                 PROVE  (IF mig.loading
                         THEN \E j \in Slot :
                                 /\ Awaited("file") = {j} /\ calls[j].arg.file = mig.viewing
                                 /\ Answered(calls[j]) => calls[j].reply.content = mig.viewing
                         ELSE Awaited("file") = {} /\ (mig.viewError \/ mig.content = mig.viewing))'
      BY <1>1 DEF Viewer
    <3>1. Awaited("file")' = Awaited("file")
      BY <1>4 DEF Steady, Awaited
    <3>2. CASE mig.loading
      <4>1. PICK j \in Slot : /\ Awaited("file") = {j} /\ calls[j].arg.file = mig.viewing
                              /\ Answered(calls[j]) => calls[j].reply.content = mig.viewing
        BY <3>2 DEF Viewer
      <4>2. calls'[j].arg = calls[j].arg /\ calls[j].live
        BY <1>4, <4>1 DEF Steady, Awaited
      <4>3. Answered(calls'[j]) => calls'[j].reply.content = mig.viewing
        <5>1. CASE j = i
          BY <1>3, <2>2, <4>1, <4>2, <5>1, AnswerIs
        <5>2. CASE j # i
          BY <1>3, <4>1, <5>2, AnswerIs
        <5>. QED  BY <5>1, <5>2
      <4>. QED  BY <1>1, <3>1, <3>2, <4>1, <4>2, <4>3 DEF Answered
    <3>3. CASE ~mig.loading
      BY <1>1, <3>1, <3>3 DEF Viewer
    <3>. QED  BY <3>2, <3>3
  <2>. QED  BY <2>1, <2>2
<1>. QED  BY <1>1, <1>4, <1>5, MigrationsFrames

\* What returns.
LEMMA MigrationsReturnsBusy ==
    ASSUME SlotsOK, MigInv, NEW i \in Slot, MigrationsReturns(i)
    PROVE  StatusBusy' /\ FormBusy' /\ Viewer'
<1> USE DEF MigInv
<1>1. /\ calls = [j \in Slot |-> calls[j]] /\ Free.op = "free" /\ ~Free.live
      /\ calls' = Done(i) => calls'[i] = Free /\ \A j \in Slot \ {i} : calls'[j] = calls[j]
  BY DEF SlotsOK, Free, Done
<1>2. CASE StatusReturns(i)
  <2>1. /\ calls[i].op = "status" /\ i \in Awaited("status") /\ calls' = Done(i) /\ form' = form
        /\ \/ mig' = [mig EXCEPT !.busy = FALSE]
           \/ mig' = [mig EXCEPT !.status = calls[i].reply, !.busy = FALSE,
                                 !.tab = IF @ = NoDb THEN GameDb ELSE @]
    BY <1>2 DEF StatusReturns, Returns, Awaited
  <2>2. /\ ~mig'.busy /\ mig'.creating = mig.creating
        /\ mig'.viewing = mig.viewing /\ mig'.alone = mig.alone /\ mig'.loading = mig.loading
        /\ mig'.viewError = mig.viewError /\ mig'.content = mig.content
    BY <2>1 DEF MigShaped
  <2>3. StatusBusy'
    <3>1. Awaited("status") = {i}
      BY <2>1 DEF StatusBusy, One
    <3>2. Awaited("status")' = {}
      BY <1>1, <2>1, <3>1 DEF Awaited
    <3>. QED  BY <2>2, <3>2 DEF StatusBusy, One
  <2>. QED  BY <2>1, <2>2, <2>3, SteadyCalls, MigrationsFrames
<1>3. CASE InfoReturns(i)
  <2>1. /\ calls[i].op = "info" /\ calls' = Done(i) /\ form' = form
        /\ \E s : mig' = [mig EXCEPT !.stage = s]
    BY <1>3 DEF InfoReturns, Returns
  <2>2. /\ mig'.busy = mig.busy /\ mig'.creating = mig.creating
        /\ mig'.viewing = mig.viewing /\ mig'.alone = mig.alone /\ mig'.loading = mig.loading
        /\ mig'.viewError = mig.viewError /\ mig'.content = mig.content
    BY <2>1 DEF MigShaped
  <2>. QED  BY <2>1, <2>2, SteadyCalls, MigrationsFrames
<1>4. CASE FileReturns(i)
  <2>1. /\ calls[i].op = "file" /\ i \in Awaited("file") /\ calls' = Done(i) /\ form' = form
        /\ calls[i].reply # Failed => Answered(calls[i])
        /\ mig' = IF calls[i].reply = Failed
                  THEN [mig EXCEPT !.viewError = TRUE, !.loading = FALSE]
                  ELSE [mig EXCEPT !.content = calls[i].reply.content, !.loading = FALSE]
    BY <1>4 DEF FileReturns, Returns, Awaited, Answered
  <2>2. /\ mig'.busy = mig.busy /\ mig'.creating = mig.creating
        /\ mig'.viewing = mig.viewing /\ mig'.alone = mig.alone /\ ~mig'.loading
        /\ calls[i].reply = Failed => mig'.viewError
        /\ calls[i].reply # Failed => mig'.content = calls[i].reply.content
    <3>1. CASE calls[i].reply = Failed
      BY <2>1, <3>1 DEF MigShaped
    <3>2. CASE calls[i].reply # Failed
      BY <2>1, <3>2 DEF MigShaped
    <3>. QED  BY <3>1, <3>2
  <2>3. Viewer'
    <3> SUFFICES ASSUME mig.viewing # NoFile, mig.alone
                 PROVE  Awaited("file")' = {} /\ (mig'.viewError \/ mig'.content = mig'.viewing)
      BY <2>2 DEF Viewer
    <3>1. Awaited("file") = {i} /\ (Answered(calls[i]) => calls[i].reply.content = mig.viewing)
      BY <2>1 DEF Viewer
    <3>2. Awaited("file")' = {}
      BY <1>1, <2>1, <3>1 DEF Awaited
    <3>. QED  BY <2>1, <2>2, <3>1, <3>2
  <2>. QED  BY <2>1, <2>2, <2>3, SteadyCalls, MigrationsFrames
<1>5. CASE WriteSucceeds(i)
  <2>1. /\ calls[i].op = "write" /\ calls' = [Disowned EXCEPT ![i] = Free] /\ form' = FormFresh
        /\ mig' = [mig EXCEPT !.created = TRUE, !.creating = FALSE]
    BY <1>5 DEF WriteSucceeds, Succeeds, Returns
  <2>2. /\ mig'.busy = mig.busy
        /\ mig'.viewing = mig.viewing /\ mig'.alone = mig.alone /\ mig'.loading = mig.loading
        /\ mig'.viewError = mig.viewError /\ mig'.content = mig.content
    BY <2>1 DEF MigShaped
  <2>3. calls'[i] = Free /\ \A j \in Slot \ {i} : calls'[j] = Disowned[j]
    BY <2>1, DisownedIs
  <2>4. \A op : op # "write" => Steady(op) /\ Unanswered(op)
    BY <1>1, <2>1, <2>3, DisownedIs DEF Steady, Unanswered, Awaited
  <2>5. FormBusy'
    <3>1. Owned' = {}
      BY <1>1, <2>3, DisownedIs DEF Owned, Awaited
    <3>. QED  BY <2>1, <3>1 DEF FormBusy, One, FormFresh
  <2>. QED  BY <2>2, <2>4, <2>5, MigrationsFrames
<1>6. CASE WriteThrows(i)
  <2>1. /\ calls[i].op = "write" /\ i \in Awaited("write") /\ calls' = Done(i) /\ mig' = mig
        /\ form' = IF calls[i].arg.own THEN FormFresh ELSE form
    BY <1>6 DEF WriteThrows, Throws, Returns, Awaited
  <2>2. FormBusy'
    <3>1. \A j : j \in Owned' <=> j \in Owned /\ j # i
      BY <1>1, <2>1 DEF Owned, Awaited
    <3>2. CASE calls[i].arg.own
      <4>1. i \in Owned
        BY <2>1, <3>2 DEF Owned
      <4>2. Owned = {i}
        BY <4>1 DEF FormBusy, One
      <4>3. Owned' = {}
        BY <3>1, <4>2
      <4>. QED  BY <2>1, <3>2, <4>3 DEF FormBusy, One, FormFresh
    <3>3. CASE ~calls[i].arg.own
      <4>1. i \notin Owned
        BY <3>3 DEF Owned
      <4>2. Owned' = Owned
        BY <3>1, <4>1
      <4>. QED  BY <2>1, <3>3, <4>2 DEF FormBusy, One
    <3>. QED  BY <3>2, <3>3
  <2>. QED  BY <2>1, <2>2, SteadyCalls, MigrationsFrames
<1>. QED  BY <1>2, <1>3, <1>4, <1>5, <1>6 DEF MigrationsReturns

\* A page that is mounted has its first reading under way, and nothing else.
LEMMA MigrationsMountBusy ==
    ASSUME SlotsOK, NEW page \in Routes, Navigate(page)
    PROVE  StatusBusy' /\ FormBusy' /\ Viewer'
<1>1. /\ Abandoned = [i \in Slot |-> Abandoned[i]] /\ \A i \in Slot : ~Abandoned[i].live
      /\ Free.op = "free" /\ ~Free.live
  BY AbandonedIs DEF Free
<1>2. /\ form' = FormFresh
      /\ mig' = IF page = "migrations" THEN [MigrationsFresh EXCEPT !.busy = TRUE]
                ELSE MigrationsFresh
  BY MountIs
<1>3. mig'.viewing = NoFile /\ mig'.busy = (page = "migrations")
  BY <1>2 DEF MigrationsFresh
<1>4. \A op, arg : Request(op, arg).op = op /\ Request(op, arg).live
  BY DEF Request
<1>5. CASE page = "migrations"
  <2>1. PICK k, l \in Slot :
            /\ k # l
            /\ calls' = [Abandoned EXCEPT ![k] = Request("status", NoArg),
                                          ![l] = Request("info", NoArg)]
    BY <1>5, MountIs DEF Both
  <2>2. /\ calls'[k] = Request("status", NoArg) /\ calls'[l] = Request("info", NoArg)
        /\ \A j \in Slot \ {k, l} : calls'[j] = Abandoned[j]
    BY <1>1, <2>1
  <2>3. Awaited("status")' = {k} /\ Awaited("write")' = {}
    BY <1>1, <1>4, <2>1, <2>2 DEF Awaited
  <2>4. Owned' = {}
    BY <2>3 DEF Owned
  <2>. QED
    BY <1>2, <1>3, <1>5, <2>3, <2>4 DEF StatusBusy, FormBusy, Viewer, One, FormFresh
<1>6. CASE page # "migrations"
  <2>1. calls' = Abandoned \/ \E k \in Slot, op \in {"list", "clock"} :
                                  calls' = [Abandoned EXCEPT ![k] = FirstRead(op)]
    BY <1>6, MountIs DEF Alone, Routes
  <2>2. \A op : FirstRead(op).op = op
    BY <1>4 DEF FirstRead
  <2>3. Awaited("status")' = {} /\ Awaited("write")' = {}
    <3>1. CASE calls' = Abandoned
      BY <1>1, <3>1 DEF Awaited
    <3>2. ASSUME NEW k \in Slot, NEW op \in {"list", "clock"},
                 calls' = [Abandoned EXCEPT ![k] = FirstRead(op)]
          PROVE  Awaited("status")' = {} /\ Awaited("write")' = {}
      BY <1>1, <2>2, <3>2 DEF Awaited
    <3>. QED  BY <2>1, <3>1, <3>2
  <2>4. Owned' = {}
    BY <2>3 DEF Owned
  <2>. QED
    BY <1>2, <1>3, <1>6, <2>3, <2>4 DEF StatusBusy, FormBusy, Viewer, One, FormFresh
<1>. QED  BY <1>5, <1>6

LEMMA MigrationsInvariance == Spec => [](IInv /\ SlotsOK /\ MigInv)
<1>1. Init => MigInv
  <2> SUFFICES ASSUME Init PROVE MigInv
    OBVIOUS
  <2>1. Free.op = "free"
    BY DEF Free
  <2>2. Awaited("status") = {} /\ Awaited("write") = {}
    BY <2>1 DEF Init, Awaited
  <2>3. mig = MigrationsFresh /\ form = FormFresh
    BY DEF Init, MigrationsInit
  <2>4. Owned = {}
    BY <2>2 DEF Owned
  <2>. QED
    BY <2>2, <2>3, <2>4
    DEF MigrationsFresh, FormFresh, MigInv, MigShaped, StatusBusy, FormBusy, Viewer, One
<1>2. IInv /\ SlotsOK /\ MigInv /\ [Next]_vars => MigInv'
  <2> SUFFICES ASSUME IInv, SlotsOK, MigInv, [Next]_vars PROVE MigInv'
    OBVIOUS
  <2> DEFINE ops == {"status", "info", "file", "write"}
  <2>1. ASSUME UNCHANGED <<mig, form>>,
               \A op \in {"status", "file", "write"} : Steady(op) /\ Unanswered(op)
        PROVE  MigInv'
    BY <2>1, MigrationsFrames DEF MigInv, MigShaped
  <2>2. ASSUME UNCHANGED <<mig, form>>, Leaves(calls', ops) \/ Fade(ops) PROVE MigInv'
    BY <2>1, <2>2, SteadyCalls
  <2>3. ASSUME MigrationsActs \/ \E i \in Slot : MigrationsServes(i) \/ MigrationsReturns(i)
        PROVE  MigInv'
    BY <2>3, MigrationsKeepsShape, MigrationsActsBusy, MigrationsServesBusy,
       MigrationsReturnsBusy DEF MigInv
  <2>4. CASE UNCHANGED vars
    BY <2>1, <2>4, SteadyCalls DEF vars, migrations
  <2>5. ASSUME NEW page \in Routes, Navigate(page) PROVE MigInv'
    <3>1. MigShaped'
      <4>1. mig' = [MigrationsFresh EXCEPT !.busy = TRUE] \/ mig' = MigrationsFresh
        BY <2>5, MountIs
      <4>. QED  BY <4>1 DEF MigShaped, MigrationsFresh
    <3>. QED  BY <2>5, <3>1, MigrationsMountBusy DEF MigInv
  <2>6. CASE Acts
    <3>1. CASE VersionActs /\ OnlyVersion
      BY <2>2, <3>1, VersionLeaves DEF OnlyVersion, VersionOps, IInv, PagesOK, migrations
    <3>2. CASE ClockActs /\ OnlyClock
      BY <2>2, <3>2, ClockLeaves DEF OnlyClock, migrations
    <3>. QED  BY <2>3, <2>6, <3>1, <3>2 DEF Acts
  <2>7. ASSUME NEW i \in Slot, Proceeds(i) PROVE MigInv'
    <3>1. CASE VersionServes(i) /\ OnlyVersion
      BY <2>2, <3>1, VersionLeaves DEF OnlyVersion, VersionOps, migrations
    <3>2. CASE ClockServes(i) /\ OnlyClock
      BY <2>2, <3>2, ClockLeaves DEF OnlyClock, migrations
    <3>3. CASE (Lose(i) \/ LoseContact(i)) /\ UNCHANGED migrations
      BY <2>2, <3>3, LossFades DEF migrations
    <3>. QED  BY <2>3, <2>7, <3>1, <3>2, <3>3 DEF Proceeds
  <2>8. ASSUME NEW i \in Slot, Handled(i) PROVE MigInv'
    <3>1. CASE VersionReturns(i) /\ OnlyVersion
      BY <2>2, <3>1, VersionLeaves DEF OnlyVersion, VersionOps, migrations
    <3>2. CASE ClockReturns(i) /\ OnlyClock
      BY <2>2, <3>2, ClockLeaves DEF OnlyClock, migrations
    <3>. QED  BY <2>3, <2>8, <3>1, <3>2 DEF Handled
  <2>. QED  BY <2>4, <2>5, <2>6, <2>7, <2>8 DEF Next
<1>. QED  BY SlotsInvariance, <1>1, <1>2, PTL DEF Spec

\* The viewer shows the file whose name is above it (MigrationsPage.tsx:334-361), or that
\* it failed, if no other file was on its way when it was opened: however long the file is
\* on its way, and whatever is opened and closed meanwhile.
THEOREM ViewerIsRight == Spec => []ViewerShowsFile
<1>1. MigInv => ViewerShowsFile
  BY DEF MigInv, Viewer, ViewerShowsFile
<1>. QED  BY MigrationsInvariance, <1>1, PTL

-----------------------------------------------------------------------------
(* Reads that a job waits for *)

\* A read that is alone comes with what the last job made, or is under way; and as long as
\* the page has not shown that, the read that ends the job is under way.
DueIn(cs, op, due, sure) ==
    LET reads == {i \in Slot : cs[i].op = op /\ cs[i].live} IN
    /\ \A i \in reads : cs[i].arg.alone /\ Answered(cs[i]) /\ due # 0 =>
          cs[i].reply.at \in Int /\ cs[i].reply.at >= due
    /\ sure /\ due # 0 => \E i \in reads : cs[i].arg.ends

\* Where a read starts, the others of its page get company.
Joins(c, d, op) ==
    /\ d.op = c.op /\ d.live = c.live /\ d.reply = c.reply
    /\ c.op = op /\ c.live => ~d.arg.alone /\ d.arg.ends = c.arg.ends
    /\ ~(c.op = op /\ c.live) => d.arg = c.arg

LEMMA ReadsJoin ==
    ASSUME SlotsOK, NEW op \in {"list", "clock"}, NEW k \in Slot, NEW c,
           calls' = [WithCompany(op) EXCEPT ![k] = c]
    PROVE  calls'[k] = c /\ \A j \in Slot \ {k} : Joins(calls[j], calls'[j], op)
<1>1. calls'[k] = c /\ \A j \in Slot \ {k} : calls'[j] = WithCompany(op)[j]
  BY CompanyIs
<1>2. ASSUME NEW j \in Slot \ {k} PROVE Joins(calls[j], calls'[j], op)
  <2>1. Accompanied(calls[j], calls'[j], op)
    BY <1>1, CompanyIs
  <2>2. CASE calls[j].op = op /\ calls[j].live
    <3>1. calls'[j].arg = [ends |-> calls[j].arg.ends, alone |-> FALSE]
      BY <2>1, <2>2 DEF Accompanied
    <3>2. calls'[j].arg.ends = calls[j].arg.ends /\ ~calls'[j].arg.alone
      BY <3>1
    <3>. QED  BY <2>1, <2>2, <3>2 DEF Accompanied, Joins
  <2>3. CASE ~(calls[j].op = op /\ calls[j].live)
    BY <2>1, <2>3 DEF Accompanied, Joins
  <2>. QED  BY <2>2, <2>3
<1>. QED  BY <1>1, <1>2

LEMMA ReadIs ==
    ASSUME NEW op, NEW ends
    PROVE  /\ Read(op, ends).op = op /\ Read(op, ends).live
           /\ Read(op, ends).arg.ends = ends /\ ~Answered(Read(op, ends))
BY DEF Read, Request, Answered

\* Nothing happens to the reads.
LEMMA DueStays ==
    ASSUME NEW op, NEW due, NEW sure, DueIn(calls, op, due, sure), Steady(op), Unanswered(op)
    PROVE  DueIn(calls', op, due, sure)
<1>1. ASSUME NEW i \in Slot
      PROVE  /\ calls'[i].op = op /\ calls'[i].live <=> calls[i].op = op /\ calls[i].live
             /\ calls[i].op = op /\ calls[i].live => calls'[i].arg = calls[i].arg
             /\ calls[i].op = op /\ calls[i].live /\ Answered(calls'[i]) => calls'[i].reply = calls[i].reply
  BY DEF Steady, Unanswered, Awaited
<1>. QED  BY <1>1 DEF DueIn, Answered

\* The server answers a read with the present.
LEMMA DueServed ==
    ASSUME SlotsOK, NEW op, NEW due, NEW sure, DueIn(calls, op, due, sure),
           NEW i \in Slot, NEW r, calls' = Answering(i, r), r.at \in Int, due # 0 => r.at >= due
    PROVE  DueIn(calls', op, due, sure)
<1>1. Free.op = "free" /\ ~Free.live
  BY DEF Free
<1>2. \A j \in Slot \ {i} : calls'[j] = calls[j]
  BY AnswerIs
<1>3. CASE calls[i].live
  <2>1. /\ calls'[i].op = calls[i].op /\ calls'[i].arg = calls[i].arg
        /\ calls'[i].live /\ calls'[i].reply = r
    BY <1>3, AnswerIs
  <2>. QED  BY <1>2, <1>3, <2>1 DEF DueIn
<1>4. CASE ~calls[i].live
  <2>1. calls'[i] = Free
    BY <1>4, AnswerIs
  <2>. QED  BY <1>1, <1>2, <1>4, <2>1 DEF DueIn
<1>. QED  BY <1>3, <1>4

\* A read starts: it has no answer yet, and no other is alone any more.
LEMMA DueJoins ==
    ASSUME SlotsOK, NEW op \in {"list", "clock"}, NEW k \in Slot, NEW ends,
           calls' = [WithCompany(op) EXCEPT ![k] = Read(op, ends)]
    PROVE  /\ \A j \in Slot : calls'[j].op = op /\ calls'[j].live =>
                 ~calls'[j].arg.alone \/ ~Answered(calls'[j])
           /\ ends => \E j \in Slot : calls'[j].op = op /\ calls'[j].live /\ calls'[j].arg.ends
           /\ \A j \in Slot \ {k} : calls[j].op = op /\ calls[j].live /\ calls[j].arg.ends =>
                 calls'[j].op = op /\ calls'[j].live /\ calls'[j].arg.ends
<1>1. calls'[k] = Read(op, ends) /\ \A j \in Slot \ {k} : Joins(calls[j], calls'[j], op)
  BY ReadsJoin
<1>2. /\ calls'[k].op = op /\ calls'[k].live /\ calls'[k].arg.ends = ends
      /\ ~Answered(calls'[k])
  BY <1>1, ReadIs
<1>3. ASSUME NEW j \in Slot, calls'[j].op = op, calls'[j].live
      PROVE  ~calls'[j].arg.alone \/ ~Answered(calls'[j])
  <2>1. CASE j = k
    BY <1>2, <2>1
  <2>2. CASE j # k
    BY <1>1, <1>3, <2>2 DEF Joins
  <2>. QED  BY <2>1, <2>2
<1>4. \A j \in Slot \ {k} : calls[j].op = op /\ calls[j].live /\ calls[j].arg.ends =>
          calls'[j].op = op /\ calls'[j].live /\ calls'[j].arg.ends
  BY <1>1 DEF Joins
<1>. QED  BY <1>2, <1>3, <1>4

\* The operator reads again.
LEMMA DueJoined ==
    ASSUME SlotsOK, NEW op \in {"list", "clock"}, NEW due, NEW sure,
           DueIn(calls, op, due, sure), ReadSent(op)
    PROVE  DueIn(calls', op, due, sure)
<1>1. PICK k \in Slot : /\ calls[k] = Free
                        /\ calls' = [WithCompany(op) EXCEPT ![k] = Read(op, FALSE)]
  BY DEF ReadSent
<1>2. ~calls[k].live
  BY <1>1 DEF Free
<1>3. /\ \A j \in Slot : calls'[j].op = op /\ calls'[j].live =>
            ~calls'[j].arg.alone \/ ~Answered(calls'[j])
      /\ \A j \in Slot \ {k} : calls[j].op = op /\ calls[j].live /\ calls[j].arg.ends =>
            calls'[j].op = op /\ calls'[j].live /\ calls'[j].arg.ends
  BY <1>1, DueJoins
<1>4. ASSUME sure, due # 0
      PROVE  \E j \in Slot : calls'[j].op = op /\ calls'[j].live /\ calls'[j].arg.ends
  <2>1. PICK j \in Slot : calls[j].op = op /\ calls[j].live /\ calls[j].arg.ends
    BY <1>4 DEF DueIn
  <2>. QED  BY <1>2, <1>3, <2>1
<1>. QED  BY <1>3, <1>4 DEF DueIn

\* A job reads again at its end.
LEMMA DueNext ==
    ASSUME SlotsOK, NEW op \in {"list", "clock"}, NEW due, NEW sure,
           NEW i \in Slot, calls' = ReadingNext(i, op)
    PROVE  DueIn(calls', op, due, sure)
<1>1. calls' = [WithCompany(op) EXCEPT ![i] = Read(op, TRUE)]
  BY DEF ReadingNext
<1>2. /\ \A j \in Slot : calls'[j].op = op /\ calls'[j].live =>
            ~calls'[j].arg.alone \/ ~Answered(calls'[j])
      /\ \E j \in Slot : calls'[j].op = op /\ calls'[j].live /\ calls'[j].arg.ends
  BY <1>1, DueJoins
<1>. QED  BY <1>2 DEF DueIn

\* A read returns: when it was alone, it shows what was due.
LEMMA DueReturns ==
    ASSUME SlotsOK, NEW op, op # "free", NEW due, NEW sure, DueIn(calls, op, due, sure),
           NEW i \in Slot, Returns(i, op), calls' = Done(i)
    PROVE  /\ DueIn(calls', op, due, FALSE)
           /\ calls[i].reply # Failed =>
                 DueIn(calls', op, IF calls[i].reply.at >= due THEN 0 ELSE due, calls[i].arg.alone)
<1>1. /\ calls'[i].op = "free" /\ \A j \in Slot \ {i} : calls'[j] = calls[j]
  BY DEF Done, SlotsOK, Free
<1>2. calls[i].op = op /\ calls[i].live /\ (calls[i].reply # Failed => Answered(calls[i]))
  BY DEF Returns, Answered
<1>3. DueIn(calls', op, due, FALSE)
  BY <1>1 DEF DueIn
<1>4. ASSUME NEW shown, shown \in {0, due}, NEW alone, alone => shown = 0
      PROVE  DueIn(calls', op, shown, alone)
  BY <1>1, <1>4 DEF DueIn
<1>5. calls[i].reply # Failed /\ calls[i].arg.alone /\ due # 0 => calls[i].reply.at >= due
  BY <1>2 DEF DueIn
<1>. QED  BY <1>3, <1>4, <1>5

-----------------------------------------------------------------------------
(* Jobs *)

\* The calls of a job stay, start and are over.
LEMMA JobStays ==
    ASSUME NEW ops, NEW read, \A op \in ops \cup {read} : Steady(op)
    PROVE  Job(ops, read)' = Job(ops, read)
<1>1. ASSUME NEW i \in Slot
      PROVE  i \in Job(ops, read)' <=> i \in Job(ops, read)
  BY DEF Steady, Awaited, Job
<1>. QED  BY <1>1 DEF Job

LEMMA JobDone ==
    ASSUME SlotsOK, NEW ops, NEW read, NEW i \in Slot, calls' = Done(i)
    PROVE  Job(ops, read)' = Job(ops, read) \ {i}
<1>1. ~calls'[i].live /\ \A j \in Slot \ {i} : calls'[j] = calls[j]
  BY DEF Done, SlotsOK, Free
<1>. QED  BY <1>1 DEF Job

LEMMA JobStarts ==
    ASSUME SlotsOK, NEW ops, NEW read, NEW c, Sent(c), c.live, c.op \in ops
    PROVE  \E k \in Slot : Job(ops, read)' = Job(ops, read) \cup {k}
<1>1. PICK k \in Slot : calls[k] = Free /\ calls' = [calls EXCEPT ![k] = c]
  BY DEF Sent
<1>2. calls'[k] = c /\ \A j \in Slot \ {k} : calls'[j] = calls[j]
  BY <1>1 DEF SlotsOK
<1>. QED  BY <1>2 DEF Job

LEMMA JobReads ==
    ASSUME SlotsOK, NEW op \in {"list", "clock"}, NEW ops, op \notin ops,
           NEW k \in Slot, NEW ends, calls' = [WithCompany(op) EXCEPT ![k] = Read(op, ends)]
    PROVE  /\ k \in Job(ops, op)' <=> ends
           /\ \A j : j # k => (j \in Job(ops, op)' <=> j \in Job(ops, op))
<1>1. calls'[k] = Read(op, ends) /\ \A j \in Slot \ {k} : Joins(calls[j], calls'[j], op)
  BY ReadsJoin
<1>2. k \in Job(ops, op)' <=> ends
  BY <1>1, ReadIs DEF Job
<1>3. ASSUME NEW j \in Slot \ {k} PROVE j \in Job(ops, op)' <=> j \in Job(ops, op)
  BY <1>1 DEF Job, Joins
<1>4. Job(ops, op)' \subseteq Slot /\ Job(ops, op) \subseteq Slot
  BY DEF Job
<1>. QED  BY <1>2, <1>3, <1>4

\* A read that the operator asks for belongs to no job.
LEMMA JobBeside ==
    ASSUME SlotsOK, NEW op \in {"list", "clock"}, NEW ops, op \notin ops, ReadSent(op)
    PROVE  Job(ops, op)' = Job(ops, op)
<1>1. PICK k \in Slot : /\ calls[k] = Free
                        /\ calls' = [WithCompany(op) EXCEPT ![k] = Read(op, FALSE)]
  BY DEF ReadSent
<1>2. k \notin Job(ops, op)
  BY <1>1 DEF Job, Free
<1>3. k \notin Job(ops, op)' /\ \A j : j # k => (j \in Job(ops, op)' <=> j \in Job(ops, op))
  BY <1>1, JobReads
<1>. QED  BY <1>2, <1>3

\* A page that was left or has just come has no job.
LEMMA JobMounts ==
    ASSUME SlotsOK, NEW page \in Routes, Navigate(page), NEW ops,
           ops \cap {"list", "clock", "status", "info"} = {}, NEW read \in {"list", "clock"}
    PROVE  Job(ops, read)' = {}
<1>1. /\ Abandoned = [i \in Slot |-> Abandoned[i]] /\ \A i \in Slot : ~Abandoned[i].live
  BY AbandonedIs
<1>2. ASSUME NEW i \in Slot
      PROVE  \/ ~calls'[i].live
             \/ calls'[i].op \in {"list", "clock"} /\ ~calls'[i].arg.ends
             \/ calls'[i].op \in {"status", "info"}
  <2>1. CASE page \in {"version", "clock"}
    <3>1. PICK op \in {"list", "clock"} : Alone(FirstRead(op))
      BY <2>1, MountIs
    <3>2. PICK k \in Slot : calls' = [Abandoned EXCEPT ![k] = FirstRead(op)]
      BY <3>1 DEF Alone
    <3>3. FirstRead(op).op = op /\ ~FirstRead(op).arg.ends
      BY DEF FirstRead, Request
    <3>. QED  BY <1>1, <3>2, <3>3
  <2>2. CASE page = "migrations"
    <3>1. PICK k, l \in Slot :
            /\ k # l
            /\ calls' = [Abandoned EXCEPT ![k] = Request("status", NoArg),
                                          ![l] = Request("info", NoArg)]
      BY <2>2, MountIs DEF Both
    <3>2. Request("status", NoArg).op = "status" /\ Request("info", NoArg).op = "info"
      BY DEF Request
    <3>. QED  BY <1>1, <3>1, <3>2
  <2>3. CASE page = "not found"
    BY <1>1, <2>3, MountIs
  <2>. QED  BY <2>1, <2>2, <2>3 DEF Routes
<1>. QED  BY <1>2 DEF Job

\* A call that nobody waits for.
LEMMA Unheard ==
    ASSUME SlotsOK, NEW c, Sent(c), ~c.live, NEW op
    PROVE  Steady(op) /\ Unanswered(op)
<1>1. PICK k \in Slot : calls[k] = Free /\ calls' = [calls EXCEPT ![k] = c]
  BY DEF Sent
<1>2. /\ calls'[k] = c /\ ~calls[k].live
      /\ \A j \in Slot \ {k} : calls'[j] = calls[j]
  BY <1>1 DEF SlotsOK, Free
<1>. QED  BY <1>2 DEF Steady, Unanswered, Awaited

-----------------------------------------------------------------------------
(* The job of the clock page *)

ClockJob == Job({"jump"}, "clock")

\* The page is busy with one jump or the reading after it, and shows what the last one made
\* or waits for the reading that will.
ClockInv ==
    /\ jumps \in Nat /\ clk.due \in Nat /\ clk.due <= jumps
    /\ One(clk.busy, ClockJob)
    /\ DueIn(calls, "clock", clk.due, clk.sure)

LEMMA ClockFrames ==
    ASSUME ClockInv, jumps' \in Nat, jumps' >= jumps,
           clk'.busy = clk.busy, clk'.due = clk.due, clk'.sure = clk.sure,
           Steady("jump"), Steady("clock"), Unanswered("clock")
    PROVE  ClockInv'
<1>1. ClockJob' = ClockJob
  BY JobStays DEF ClockJob
<1>2. One(clk.busy, ClockJob)'
  BY <1>1 DEF ClockInv, One
<1>3. DueIn(calls', "clock", clk.due, clk.sure)
  BY DueStays DEF ClockInv
<1>4. DueIn(calls, "clock", clk.due, clk.sure)'
  BY <1>3
<1>. QED  BY <1>2, <1>4 DEF ClockInv

LEMMA ClockActsBusy ==
    ASSUME IInv, SlotsOK, ClockInv, ClockActs
    PROVE  ClockInv'
<1>1. clk = [info |-> clk.info, picked |-> clk.picked, busy |-> clk.busy, due |-> clk.due,
             sure |-> clk.sure] /\ jumps \in Nat
  BY DEF IInv, PagesOK, ClockInv
<1>2. CASE \/ ClickApplyTarget \/ ClickReset
           \/ \E seconds \in Typed : ClickApply(seconds)
           \/ \E seconds \in Preset : ClickPreset(seconds)
  <2>1. ~clk.busy /\ HasRoom(1)
    BY <1>2 DEF ClickApplyTarget, ClickReset, ClickApply, ClickPreset, ClockIdle
  <2>2. PICK page, seconds, goal :
            page \in {clk, [clk EXCEPT !.picked = NoTarget]} /\ Apply(page, seconds, goal)
    BY <1>2 DEF ClickApplyTarget, ClickReset, ClickApply, ClickPreset
  <2>3. clk'.busy /\ clk'.due = clk.due /\ clk'.sure = clk.sure /\ jumps' = jumps
    BY <1>1, <2>2 DEF Apply, server
  <2>4. PICK c : Sent(c) /\ c.op = "jump" /\ c.live
    <3>1. PICK c : c = Request("jump", [value |-> seconds, goal |-> goal])
      OBVIOUS
    <3>2. Sent(c)
      BY <2>1, <2>2, <3>1, Sends DEF Apply
    <3>. QED  BY <3>1, <3>2 DEF Request
  <2>5. One(clk.busy, ClockJob)'
    <3>1. ClockJob = {}
      BY <2>1 DEF ClockInv, One
    <3>2. \E k \in Slot : ClockJob' = ClockJob \cup {k}
      BY <2>4, JobStarts DEF ClockJob
    <3>. QED  BY <2>3, <3>1, <3>2 DEF One
  <2>6. DueIn(calls', "clock", clk.due, clk.sure)
    BY <2>4, SteadyCalls, DueStays DEF ClockInv
  <2>7. DueIn(calls, "clock", clk.due, clk.sure)'
    BY <2>3, <2>6
  <2>. QED  BY <2>3, <2>5, <2>7 DEF ClockInv
<1>3. CASE ClickReading
  <2>1. ReadSent("clock") /\ clk' = clk /\ jumps' = jumps
    BY <1>3, Sends DEF ClickReading, server
  <2>2. ClockJob' = ClockJob
    BY <2>1, JobBeside DEF ClockJob
  <2>3. DueIn(calls', "clock", clk.due, clk.sure)
    BY <2>1, DueJoined DEF ClockInv
  <2>4. DueIn(calls, "clock", clk.due, clk.sure)'
    BY <2>1, <2>3
  <2>. QED  BY <2>1, <2>2, <2>4 DEF ClockInv, One
<1>4. CASE Tick \/ \E target \in Target : PickTarget(target)
  <2>1. /\ calls' = calls /\ jumps' = jumps
        /\ clk'.busy = clk.busy /\ clk'.due = clk.due /\ clk'.sure = clk.sure
    <3>1. CASE Tick
      BY <3>1 DEF Tick, server
    <3>2. ASSUME NEW target \in Target, PickTarget(target)
          PROVE  /\ calls' = calls /\ jumps' = jumps
                 /\ clk'.busy = clk.busy /\ clk'.due = clk.due /\ clk'.sure = clk.sure
      <4> DEFINE goal == [time |-> target, add |-> Rounded(1000 * target - Reference),
                          read |-> clk.info # NoReading]
      <4>1. clk' = [clk EXCEPT !.picked = goal] /\ UNCHANGED <<server, calls>>
        BY <3>2 DEF PickTarget
      <4> HIDE DEF goal
      <4>. QED  BY <1>1, <4>1 DEF server
    <3>. QED  BY <1>4, <3>1, <3>2
  <2>. QED  BY <1>1, <2>1, SteadyCalls, ClockFrames
<1>5. CASE ClockElsewhere
  <2>1. clk' = clk /\ jumps' = jumps /\ \E c : Sent(c) /\ ~c.live
    BY <1>5, Sends, ForeignIs DEF ClockElsewhere, FromElsewhere, server
  <2>. QED  BY <1>1, <2>1, Unheard, ClockFrames
<1>. QED  BY <1>2, <1>3, <1>4, <1>5 DEF ClockActs

\* A reading of the server shows every jump that was reported done.
LEMMA ClockServesBusy ==
    ASSUME SlotsOK, ClockInv, NEW i \in Slot, ClockServes(i)
    PROVE  ClockInv'
<1>1. clk' = clk /\ jumps \in Nat
  BY DEF ClockServes, ClockInv
<1>2. CASE ServeClock(i)
  <2>1. jumps' = jumps
    BY <1>2 DEF ServeClock, server
  <2>2. PICK r : calls' = Answering(i, r) /\ r.at = jumps
    BY <1>2 DEF ServeClock
  <2>3. ClockJob' = ClockJob
    BY <2>2, SteadyCalls, JobStays DEF ClockJob
  <2>4. DueIn(calls', "clock", clk.due, clk.sure)
    <3>1. r.at \in Int /\ r.at >= clk.due
      BY <1>1, <2>2 DEF ClockInv
    <3>. QED  BY <2>2, <3>1, DueServed DEF ClockInv
  <2>5. DueIn(calls, "clock", clk.due, clk.sure)'
    BY <1>1, <2>4
  <2>. QED  BY <1>1, <2>1, <2>3, <2>5 DEF ClockInv, One
<1>3. CASE InsertRow(i)
  <2>1. jumps' = jumps /\ calls' = [calls EXCEPT ![i].reply = Inserted] /\ calls[i].op = "jump"
    BY <1>3 DEF InsertRow, Unserved
  <2>2. /\ calls'[i].op = "jump" /\ calls'[i].live = calls[i].live /\ calls'[i].arg = calls[i].arg
        /\ \A j \in Slot \ {i} : calls'[j] = calls[j]
    BY <2>1 DEF SlotsOK, Shaped
  <2>3. Steady("jump") /\ Steady("clock") /\ Unanswered("clock")
    BY <2>1, <2>2 DEF Steady, Unanswered, Awaited
  <2>. QED  BY <1>1, <2>1, <2>3, ClockFrames
<1>4. CASE InsertRowFails(i) \/ SetOffset(i)
  <2>1. jumps' \in {jumps, jumps + 1} /\ calls[i].op = "jump" /\ \E r : calls' = Answering(i, r)
    BY <1>4 DEF InsertRowFails, SetOffset, Unserved
  <2>2. jumps' \in Nat /\ jumps' >= jumps
    BY <1>1, <2>1
  <2>3. Steady("jump") /\ Steady("clock") /\ Unanswered("clock")
    BY <2>1, SteadyCalls
  <2>. QED  BY <1>1, <2>2, <2>3, ClockFrames
<1>. QED  BY <1>2, <1>3, <1>4 DEF ClockServes

\* The jump that is over is the page's job, and so is the reading that follows it.
LEMMA ClockReturnsBusy ==
    ASSUME IInv, SlotsOK, ClockInv, NEW i \in Slot, ClockReturns(i)
    PROVE  ClockInv'
<1>1. /\ clk = [info |-> clk.info, picked |-> clk.picked, busy |-> clk.busy, due |-> clk.due,
                sure |-> clk.sure]
      /\ jumps' = jumps /\ jumps \in Nat /\ clk.due \in Nat /\ clk.due <= jumps
  BY DEF IInv, PagesOK, ClockInv, ClockReturns, ReadingReturns, JumpSucceeds, JumpThrows, server
<1>2. i \in ClockJob => clk.busy /\ ClockJob = {i}
  BY DEF ClockInv, One
<1>3. CASE ReadingReturns(i)
  <2>1. Returns(i, "clock") /\ calls' = Done(i) /\ calls[i].op = "clock" /\ calls[i].live
    BY <1>3 DEF ReadingReturns, Returns
  <2>2. ClockJob' = ClockJob \ {i}
    BY <2>1, JobDone DEF ClockJob
  <2>3. calls[i].arg.ends <=> i \in ClockJob
    BY <2>1 DEF ClockJob, Job
  <2> DEFINE due == IF calls[i].reply.at >= clk.due THEN 0 ELSE clk.due
  <2>4. /\ calls[i].arg.ends => ~clk'.busy
        /\ ~calls[i].arg.ends => clk'.busy = clk.busy
        /\ calls[i].reply = Failed => clk'.due = clk.due /\ clk'.sure = FALSE
        /\ calls[i].reply # Failed => clk'.due = due /\ clk'.sure = calls[i].arg.alone
    <3>1. PICK shown : shown = [clk EXCEPT !.info = calls[i].reply, !.due = due, !.sure = calls[i].arg.alone]
      OBVIOUS
    <3>2. PICK read : read = IF calls[i].reply = Failed THEN [clk EXCEPT !.sure = FALSE] ELSE shown
      OBVIOUS
    <3>3. clk' = IF calls[i].arg.ends THEN [read EXCEPT !.busy = FALSE] ELSE read
      BY <1>3, <3>1, <3>2 DEF ReadingReturns
    <3>4. /\ read = [info |-> read.info, picked |-> read.picked, busy |-> clk.busy,
                     due |-> read.due, sure |-> read.sure]
          /\ calls[i].reply = Failed => read.due = clk.due /\ read.sure = FALSE
          /\ calls[i].reply # Failed => read.due = due /\ read.sure = calls[i].arg.alone
      BY <1>1, <3>1, <3>2
    <3>5. CASE calls[i].arg.ends
      BY <3>3, <3>4, <3>5
    <3>6. CASE ~calls[i].arg.ends
      BY <3>3, <3>4, <3>6
    <3>. QED  BY <3>5, <3>6
  <2>5. One(clk.busy, ClockJob)'
    BY <1>2, <2>2, <2>3, <2>4 DEF ClockInv, One
  <2>6. DueIn(calls', "clock", clk'.due, clk'.sure)
    <3>1. CASE calls[i].reply = Failed
      <4>1. DueIn(calls', "clock", clk.due, FALSE)
        BY <2>1, DueReturns DEF ClockInv
      <4>. QED  BY <2>4, <3>1, <4>1
    <3>2. CASE calls[i].reply # Failed
      <4>1. DueIn(calls', "clock", due, calls[i].arg.alone)
        BY <2>1, <3>2, DueReturns DEF ClockInv
      <4>. QED  BY <2>4, <3>2, <4>1
    <3>. QED  BY <3>1, <3>2
  <2>7. clk'.due \in Nat /\ clk'.due <= jumps'
    BY <1>1, <2>4
  <2>. QED  BY <1>1, <2>5, <2>6, <2>7 DEF ClockInv
<1>4. CASE JumpSucceeds(i)
  <2>1. /\ calls[i].op = "jump" /\ calls[i].live /\ calls' = ReadingNext(i, "clock")
        /\ clk' = [clk EXCEPT !.due = jumps]
    BY <1>4 DEF JumpSucceeds, Succeeds, Returns
  <2>2. clk'.busy = clk.busy /\ clk'.due = jumps /\ clk'.sure = clk.sure
    BY <1>1, <2>1
  <2>3. i \in ClockJob
    BY <2>1 DEF ClockJob, Job
  <2>4. ClockJob' = {i}
    <3>1. calls' = [WithCompany("clock") EXCEPT ![i] = Read("clock", TRUE)]
      BY <2>1 DEF ReadingNext
    <3>2. i \in ClockJob' /\ \A j : j # i => (j \in ClockJob' <=> j \in ClockJob)
      BY <3>1, JobReads DEF ClockJob
    <3>. QED  BY <1>2, <2>3, <3>2
  <2>5. DueIn(calls', "clock", clk'.due, clk'.sure)
    BY <2>1, DueNext
  <2>. QED  BY <1>1, <1>2, <2>2, <2>3, <2>4, <2>5 DEF ClockInv, One
<1>5. CASE JumpThrows(i)
  <2>1. /\ calls[i].op = "jump" /\ calls[i].live /\ calls' = Done(i)
        /\ clk' = [clk EXCEPT !.busy = FALSE]
    BY <1>5 DEF JumpThrows, Throws, Returns
  <2>2. ~clk'.busy /\ clk'.due = clk.due /\ clk'.sure = clk.sure
    BY <1>1, <2>1
  <2>3. ClockJob' = {}
    <3>1. i \in ClockJob
      BY <2>1 DEF ClockJob, Job
    <3>2. ClockJob' = ClockJob \ {i}
      BY <2>1, JobDone DEF ClockJob
    <3>. QED  BY <1>2, <3>1, <3>2
  <2>4. DueIn(calls', "clock", clk'.due, clk'.sure)
    BY <2>1, <2>2, SteadyCalls, DueStays DEF ClockInv
  <2>. QED  BY <1>1, <2>2, <2>3, <2>4 DEF ClockInv, One
<1>. QED  BY <1>3, <1>4, <1>5 DEF ClockReturns

LEMMA ClockMountBusy ==
    ASSUME SlotsOK, ClockInv, NEW page \in Routes, Navigate(page)
    PROVE  ClockInv'
<1>1. clk' = ClockFresh /\ jumps' = jumps
  BY MountIs DEF server
<1>2. ~clk'.busy /\ clk'.due = 0
  BY <1>1 DEF ClockFresh
<1>3. ClockJob' = {}
  BY JobMounts DEF ClockJob
<1>4. DueIn(calls', "clock", clk'.due, clk'.sure)
  BY <1>2 DEF DueIn
<1>. QED  BY <1>1, <1>2, <1>3, <1>4 DEF ClockInv, One

LEMMA ClockInvariance == Spec => [](IInv /\ SlotsOK /\ ClockInv)
<1>1. Init => ClockInv
  <2> SUFFICES ASSUME Init PROVE ClockInv
    OBVIOUS
  <2>1. clk.due = 0 /\ ~clk.busy /\ jumps = 0
    BY DEF Init, ClockInit, ClockFresh
  <2>2. ClockJob = {}
    BY DEF Init, ClockJob, Job, Free
  <2>. QED  BY <2>1, <2>2 DEF ClockInv, One, DueIn
<1>2. IInv /\ SlotsOK /\ ClockInv /\ [Next]_vars => ClockInv'
  <2> SUFFICES ASSUME IInv, SlotsOK, ClockInv, [Next]_vars PROVE ClockInv'
    OBVIOUS
  <2> DEFINE ops == {"clock", "jump"}
  <2>1. ASSUME UNCHANGED <<jumps, clk>>,
               \A op \in ops : Steady(op) /\ Unanswered(op)
        PROVE  ClockInv'
    <3>1. jumps' \in Nat /\ jumps' >= jumps
      BY <2>1 DEF ClockInv
    <3>. QED  BY <2>1, <3>1, ClockFrames
  <2>2. ASSUME UNCHANGED <<server, clk>>, Leaves(calls', ops) \/ Fade(ops) PROVE ClockInv'
    BY <2>1, <2>2, SteadyCalls DEF server
  <2>3. ASSUME ClockActs \/ \E i \in Slot : ClockServes(i) \/ ClockReturns(i) PROVE ClockInv'
    BY <2>3, ClockActsBusy, ClockServesBusy, ClockReturnsBusy
  <2>4. CASE UNCHANGED vars
    BY <2>1, <2>4, SteadyCalls DEF vars, server
  <2>5. CASE \E page \in Routes : Navigate(page)
    BY <2>5, ClockMountBusy
  <2>6. CASE Acts
    <3>1. CASE VersionActs /\ OnlyVersion
      BY <2>2, <3>1, VersionLeaves DEF OnlyVersion, VersionOps, IInv, PagesOK
    <3>2. CASE MigrationsActs /\ OnlyMigrations
      BY <2>2, <3>2, MigrationsLeave DEF OnlyMigrations
    <3>. QED  BY <2>3, <2>6, <3>1, <3>2 DEF Acts
  <2>7. ASSUME NEW i \in Slot, Proceeds(i) PROVE ClockInv'
    <3>1. CASE VersionServes(i) /\ OnlyVersion
      BY <2>2, <3>1, VersionLeaves DEF OnlyVersion, VersionOps
    <3>2. CASE MigrationsServes(i) /\ OnlyMigrations
      BY <2>2, <3>2, MigrationsLeave DEF OnlyMigrations
    <3>3. CASE (Lose(i) \/ LoseContact(i)) /\ UNCHANGED <<server, clk>>
      BY <2>2, <3>3, LossFades
    <3>. QED  BY <2>3, <2>7, <3>1, <3>2, <3>3 DEF Proceeds
  <2>8. ASSUME NEW i \in Slot, Handled(i) PROVE ClockInv'
    <3>1. CASE VersionReturns(i) /\ OnlyVersion
      BY <2>2, <3>1, VersionLeaves DEF OnlyVersion, VersionOps
    <3>2. CASE MigrationsReturns(i) /\ OnlyMigrations
      BY <2>2, <3>2, MigrationsLeave DEF OnlyMigrations
    <3>. QED  BY <2>3, <2>8, <3>1, <3>2 DEF Handled
  <2>. QED  BY <2>4, <2>5, <2>6, <2>7, <2>8 DEF Next
<1>. QED  BY SlotsInvariance, <1>1, <1>2, PTL DEF Spec

-----------------------------------------------------------------------------
(* The job of the version page *)

VersionJob == Job({"create", "reload", "delete"}, "list")

\* The page is busy with one request, or the list after it, or the deletions of one batch.
VersionBusy ==
    /\ ver.busy <=> VersionJob # {}
    /\ \A i \in VersionJob \ Awaited("delete") : VersionJob = {i}

\* It shows what the last job made, or waits for the list that will.
VersionInv ==
    /\ ver.due \in Int /\ (ver.due = 0 \/ ver.due <= Edition)
    /\ VersionBusy
    /\ DueIn(calls, "list", ver.due, ver.sure)

\* Every change of the table makes it a later edition.
LEMMA EditionGrows ==
    ASSUME IInv, UNCHANGED <<table, lastIdx>> \/ \E i \in Slot : VersionServes(i)
    PROVE  Edition \in Int /\ Edition' \in Int /\ Edition' >= Edition
<1>1. IsFiniteSet(table) /\ Cardinality(table) \in Nat /\ lastIdx \in Nat
  BY FS_CardinalityType DEF IInv, TableOK
<1>2. CASE UNCHANGED <<table, lastIdx>>
  BY <1>1, <1>2 DEF Edition
<1>3. ASSUME NEW input, table' = table \cup {NewRow(input)}, lastIdx' = lastIdx + 1
      PROVE  Edition' \in Int /\ Edition' >= Edition
  <2>1. NewRow(input).idx = lastIdx + 1
    BY DEF NewRow, NextIdx
  <2>2. NewRow(input) \notin table
    <3>1. \A r \in table : r.idx \in Nat /\ r.idx <= lastIdx
      BY DEF IInv, TableOK, Known
    <3>. QED  BY <1>1, <2>1, <3>1
  <2>3. Cardinality(table') = Cardinality(table) + 1
    BY <1>1, <1>3, <2>2, FS_AddElement
  <2>. QED  BY <1>1, <1>3, <2>3 DEF Edition
<1>4. ASSUME NEW gone, table' = table \ gone, lastIdx' = lastIdx
      PROVE  Edition' \in Int /\ Edition' >= Edition
  <2>1. table' \in SUBSET table
    BY <1>4
  <2>2. IsFiniteSet(table') /\ Cardinality(table') <= Cardinality(table)
    BY <1>1, <2>1, FS_Subset
  <2>3. Cardinality(table') \in Nat
    BY <2>2, FS_CardinalityType
  <2>. QED  BY <1>1, <1>4, <2>2, <2>3 DEF Edition
<1>5. ASSUME NEW i \in Slot, VersionServes(i)
      PROVE  Edition' \in Int /\ Edition' >= Edition
  <2>1. CASE ServeList(i) \/ ServeReload(i)
    BY <1>1, <2>1 DEF ServeList, ServeReload, Edition
  <2>2. CASE ServeCreate(i)
    BY <1>1, <1>3, <2>2 DEF ServeCreate, Edition
  <2>3. CASE ServeDelete(i)
    BY <1>4, <2>3 DEF ServeDelete
  <2>. QED  BY <1>5, <2>1, <2>2, <2>3 DEF VersionServes
<1>6. Edition \in Int
  BY <1>1 DEF Edition
<1>. QED  BY <1>2, <1>5, <1>6

LEMMA VersionFrames ==
    ASSUME VersionInv, Edition \in Int, Edition' \in Int, Edition' >= Edition,
           ver'.busy = ver.busy, ver'.due = ver.due, ver'.sure = ver.sure,
           \A op \in VersionOps : Steady(op), Unanswered("list")
    PROVE  VersionInv'
<1>1. VersionJob' = VersionJob
  BY JobStays DEF VersionJob, VersionOps
<1>2. Awaited("delete")' = Awaited("delete")
  BY DEF VersionOps, Steady, Awaited
<1>3. VersionBusy'
  BY <1>1, <1>2 DEF VersionInv, VersionBusy
<1>4. DueIn(calls', "list", ver.due, ver.sure)
  BY DueStays DEF VersionInv, VersionOps
<1>5. DueIn(calls, "list", ver.due, ver.sure)'
  BY <1>4
<1>. QED  BY <1>3, <1>5 DEF VersionInv

\* What the page's state says of its job.
VersionFieldsStay ==
    ver'.busy = ver.busy /\ ver'.due = ver.due /\ ver'.sure = ver.sure

LEMMA VersionActsBusy ==
    ASSUME IInv, SlotsOK, VersionInv, VersionActs
    PROVE  VersionInv'
<1>1. ver = [rows |-> ver.rows, loading |-> ver.loading, selection |-> ver.selection,
             busy |-> ver.busy, info |-> ver.info, due |-> ver.due, sure |-> ver.sure]
  BY DEF IInv, PagesOK
<1>2. Edition \in Int /\ Edition' \in Int /\ Edition' >= Edition /\ Edition' = Edition
  <2>1. UNCHANGED <<table, lastIdx>>
    BY DEF VersionActs, ClickRefresh, ClickReload, ClickDelete, ToggleAll, ClickCreate, ToggleRow,
           VersionElsewhere, version
  <2>. QED  BY <2>1, EditionGrows DEF Edition
<1>3. CASE ClickRefresh
  <2>1. ReadSent("list") /\ ver' = ver
    BY <1>3, Sends DEF ClickRefresh, version
  <2>2. VersionJob' = VersionJob
    BY <2>1, JobBeside DEF VersionJob
  <2>3. Awaited("delete")' = Awaited("delete")
    <3>1. Leaves(calls', {"delete"})
      BY <1>3, LeavesReads DEF ClickRefresh
    <3>2. Steady("delete")
      BY <3>1, SteadyCalls
    <3>. QED  BY <3>2 DEF Steady, Awaited
  <2>4. DueIn(calls', "list", ver.due, ver.sure)
    BY <2>1, DueJoined DEF VersionInv
  <2>5. DueIn(calls, "list", ver.due, ver.sure)'
    BY <2>1, <2>4
  <2>. QED  BY <1>2, <2>1, <2>2, <2>3, <2>5 DEF VersionInv, VersionBusy
<1>4. CASE ClickReload \/ \E input \in Input : ClickCreate(input)
  <2>1. ~ver.busy /\ HasRoom(1) /\ ver' = [ver EXCEPT !.busy = TRUE]
    BY <1>4 DEF ClickReload, ClickCreate, VersionIdle, Started
  <2>2. PICK c : Sent(c) /\ c.op \in {"reload", "create"} /\ c.live
    <3>1. \A op, arg : calls' = Sending(calls, Request(op, arg)) => Sent(Request(op, arg))
      BY <2>1, Sends
    <3>2. \A op, arg : Request(op, arg).op = op /\ Request(op, arg).live
      BY DEF Request
    <3>3. CASE ClickReload
      BY <3>1, <3>2, <3>3 DEF ClickReload
    <3>4. CASE \E input \in Input : ClickCreate(input)
      BY <3>1, <3>2, <3>4 DEF ClickCreate
    <3>. QED  BY <1>4, <3>3, <3>4
  <2>3. ver'.busy /\ ver'.due = ver.due /\ ver'.sure = ver.sure
    BY <1>1, <2>1
  <2>4. VersionBusy'
    <3>1. VersionJob = {}
      BY <2>1 DEF VersionInv, VersionBusy
    <3>2. \E k \in Slot : VersionJob' = VersionJob \cup {k}
      BY <2>2, JobStarts DEF VersionJob
    <3>. QED  BY <2>3, <3>1, <3>2 DEF VersionBusy
  <2>5. DueIn(calls', "list", ver.due, ver.sure)
    BY <2>2, SteadyCalls, DueStays DEF VersionInv
  <2>6. DueIn(calls, "list", ver.due, ver.sure)'
    BY <2>3, <2>5
  <2>. QED  BY <1>2, <2>3, <2>4, <2>6 DEF VersionInv
<1>5. CASE ToggleAll \/ \E r \in ver.rows : ToggleRow(r)
  <2>1. PICK selection : calls' = calls /\ ver' = [ver EXCEPT !.selection = selection]
    BY <1>5 DEF ToggleAll, ToggleRow
  <2>2. VersionFieldsStay
    BY <1>1, <2>1 DEF VersionFieldsStay
  <2>3. \A op \in VersionOps : Steady(op) /\ Unanswered(op)
    BY <2>1, SteadyCalls DEF VersionOps
  <2>. QED  BY <1>2, <2>2, <2>3, VersionFrames DEF VersionFieldsStay, VersionOps
<1>6. CASE ClickDelete
  <2>1. ~ver.busy /\ ver.selection # {} /\ ver' = [ver EXCEPT !.busy = TRUE]
    BY <1>6 DEF ClickDelete, VersionIdle, Started
  <2>2. ver'.busy /\ ver'.due = ver.due /\ ver'.sure = ver.sure
    BY <1>1, <2>1
  <2>3. IsFiniteSet(ver.rows) /\ Targets # {}
    BY <2>1 DEF IInv, PagesOK, Targets, IdxOf
  <2>4. PICK slot \in [Targets -> Slot] :
                 /\ \A r \in Targets : calls[slot[r]] = Free /\ calls'[slot[r]] = Deletion(r)
                 /\ \A i \in Slot : calls'[i] = calls[i] \/ \E r \in Targets : i = slot[r]
    BY <1>6, <2>3, DeletesSent
  <2>5. \A r : Deletion(r).op = "delete" /\ Deletion(r).live
    BY DEF Deletion, Request
  <2>6. VersionJob = {}
    BY <2>1 DEF VersionInv, VersionBusy
  <2>7. \A i \in VersionJob' : i \in Awaited("delete")'
    <3>1. ASSUME NEW i \in Slot, calls'[i] = calls[i] PROVE i \notin VersionJob'
      BY <2>6, <3>1 DEF VersionJob, Job
    <3>2. ASSUME NEW r \in Targets PROVE slot[r] \in Awaited("delete")'
      BY <2>4, <2>5 DEF Awaited
    <3>3. VersionJob' \subseteq Slot
      BY DEF VersionJob, Job
    <3>. QED  BY <2>4, <3>1, <3>2, <3>3
  <2>8. VersionJob' # {}
    <3>1. \A r \in Targets : slot[r] \in Slot /\ slot[r] \in VersionJob'
      BY <2>4, <2>5 DEF VersionJob, Job
    <3>. QED  BY <2>3, <3>1
  <2>9. Steady("list") /\ Unanswered("list")
    <3>1. \A i \in Slot : \/ calls'[i] = calls[i]
                          \/ calls[i].op = "free" /\ calls'[i].op = "delete"
      BY <2>4, <2>5 DEF Free
    <3>. QED  BY <3>1 DEF Steady, Unanswered, Awaited
  <2>10. DueIn(calls', "list", ver.due, ver.sure)
    BY <2>9, DueStays DEF VersionInv
  <2>11. DueIn(calls, "list", ver.due, ver.sure)'
    BY <2>2, <2>10
  <2>12. VersionBusy'
    BY <2>2, <2>7, <2>8 DEF VersionBusy
  <2>. QED  BY <1>2, <2>2, <2>11, <2>12 DEF VersionInv
<1>7. CASE VersionElsewhere
  <2>1. ver' = ver /\ \E c : Sent(c) /\ ~c.live
    <3>1. ver' = ver /\ \E op, arg : FromElsewhere(op, arg)
      BY <1>7 DEF VersionElsewhere, version
    <3>2. PICK op, arg : HasRoom(1) /\ calls' = Sending(calls, Foreign(op, arg))
      BY <3>1 DEF FromElsewhere
    <3>3. Sent(Foreign(op, arg))
      BY <3>2, Sends
    <3>. QED  BY <3>1, <3>3, ForeignIs
  <2>2. \A op \in VersionOps : Steady(op) /\ Unanswered(op)
    BY <2>1, Unheard
  <2>. QED  BY <1>2, <2>1, <2>2, VersionFrames DEF VersionOps
<1>. QED  BY <1>3, <1>4, <1>5, <1>6, <1>7 DEF VersionActs

\* A list of the server shows every job that was reported done.
LEMMA VersionServesBusy ==
    ASSUME IInv, SlotsOK, VersionInv, NEW i \in Slot, VersionServes(i)
    PROVE  VersionInv'
<1>1. ver' = ver /\ Edition \in Int /\ Edition' \in Int /\ Edition' >= Edition
  BY EditionGrows DEF VersionServes
<1>2. CASE ServeList(i)
  <2>1. PICK r : calls' = Answering(i, r) /\ r.at = Edition
    BY <1>2 DEF ServeList
  <2>2. Steady("delete") /\ VersionJob' = VersionJob
    BY <2>1, SteadyCalls, JobStays DEF VersionJob
  <2>3. Awaited("delete")' = Awaited("delete")
    BY <2>2 DEF Steady, Awaited
  <2>4. DueIn(calls', "list", ver.due, ver.sure)
    <3>1. r.at \in Int /\ (ver.due # 0 => r.at >= ver.due)
      BY <1>1, <2>1 DEF VersionInv
    <3>. QED  BY <2>1, <3>1, DueServed DEF VersionInv
  <2>5. DueIn(calls, "list", ver.due, ver.sure)'
    BY <1>1, <2>4
  <2>6. ver.due \in Int /\ (ver.due = 0 \/ ver.due <= Edition')
    BY <1>1 DEF VersionInv
  <2>. QED  BY <1>1, <2>2, <2>3, <2>5, <2>6 DEF VersionInv, VersionBusy
<1>3. CASE ServeCreate(i) \/ ServeDelete(i) \/ ServeReload(i)
  <2>1. calls[i].op # "list" /\ \E r : calls' = Answering(i, r)
    BY <1>3 DEF ServeCreate, ServeDelete, ServeReload, Unserved
  <2>2. Unanswered("list") /\ \A op \in VersionOps : Steady(op)
    BY <2>1, SteadyCalls DEF VersionOps
  <2>. QED  BY <1>1, <2>2, VersionFrames
<1>. QED  BY <1>2, <1>3 DEF VersionServes

\* What returns is of the page's job, or a list beside it.
LEMMA VersionReturnsBusy ==
    ASSUME IInv, SlotsOK, VersionInv, NEW i \in Slot, VersionReturns(i)
    PROVE  VersionInv'
<1>1. /\ ver = [rows |-> ver.rows, loading |-> ver.loading, selection |-> ver.selection,
                busy |-> ver.busy, info |-> ver.info, due |-> ver.due, sure |-> ver.sure]
      /\ ver.due \in Int /\ (ver.due = 0 \/ ver.due <= Edition)
  BY DEF IInv, PagesOK, VersionInv
<1>2. Edition \in Int /\ Edition' = Edition
  <2>1. UNCHANGED <<table, lastIdx>>
    BY DEF VersionReturns, ListReturns, CreateSucceeds, CreateThrows, ReloadReturns,
           DeleteSucceeds, DeleteThrows
  <2>. QED  BY <2>1, EditionGrows DEF Edition
<1>3. /\ i \in VersionJob => ver.busy
      /\ \A j \in VersionJob : j \in Awaited("delete") \/ VersionJob = {j}
  BY DEF VersionInv, VersionBusy
<1>4. CASE ListReturns(i)
  <2>1. Returns(i, "list") /\ calls' = Done(i) /\ calls[i].op = "list" /\ calls[i].live
    BY <1>4 DEF ListReturns, Returns
  <2>2. VersionJob' = VersionJob \ {i}
    BY <2>1, JobDone DEF VersionJob
  <2>3. calls[i].arg.ends <=> i \in VersionJob
    BY <2>1 DEF VersionJob, Job
  <2> DEFINE due == IF calls[i].reply.at >= ver.due THEN 0 ELSE ver.due
  <2>4. /\ calls[i].arg.ends => ~ver'.busy
        /\ ~calls[i].arg.ends => ver'.busy = ver.busy
        /\ calls[i].reply = Failed => ver'.due = ver.due /\ ver'.sure = FALSE
        /\ calls[i].reply # Failed => ver'.due = due /\ ver'.sure = calls[i].arg.alone
    <3>1. PICK shown, read :
              /\ shown = [ver EXCEPT !.rows = calls[i].reply.rows,
                                     !.loading = (calls[i].reply.rows = {}), !.selection = {},
                                     !.due = due, !.sure = calls[i].arg.alone]
              /\ read = IF calls[i].reply = Failed THEN [ver EXCEPT !.sure = FALSE] ELSE shown
      OBVIOUS
    <3>2. ver' = IF calls[i].arg.ends THEN [read EXCEPT !.busy = FALSE] ELSE read
      BY <1>4, <3>1 DEF ListReturns
    <3>3. /\ read = [rows |-> read.rows, loading |-> read.loading, selection |-> read.selection,
                     busy |-> ver.busy, info |-> read.info, due |-> read.due,
                     sure |-> read.sure]
          /\ calls[i].reply = Failed => read.due = ver.due /\ read.sure = FALSE
          /\ calls[i].reply # Failed => read.due = due /\ read.sure = calls[i].arg.alone
      BY <1>1, <3>1
    <3>4. CASE calls[i].arg.ends
      BY <3>2, <3>3, <3>4
    <3>5. CASE ~calls[i].arg.ends
      BY <3>2, <3>3, <3>5
    <3>. QED  BY <3>4, <3>5
  <2>5. VersionBusy'
    <3>1. CASE calls[i].arg.ends
      <4>1. i \notin Awaited("delete")
        BY <2>1 DEF Awaited
      <4>2. VersionJob' = {}
        BY <1>3, <2>2, <2>3, <3>1, <4>1
      <4>. QED  BY <2>4, <3>1, <4>2 DEF VersionBusy
    <3>2. CASE ~calls[i].arg.ends
      <4>1. VersionJob' = VersionJob
        BY <2>2, <2>3, <3>2
      <4>2. Steady("delete")
        BY <2>1, SteadyCalls
      <4>3. Awaited("delete")' = Awaited("delete")
        BY <4>2 DEF Steady, Awaited
      <4>. QED  BY <2>4, <3>2, <4>1, <4>3 DEF VersionInv, VersionBusy
    <3>. QED  BY <3>1, <3>2
  <2>6. DueIn(calls', "list", ver'.due, ver'.sure)
    <3>1. CASE calls[i].reply = Failed
      <4>1. DueIn(calls', "list", ver.due, FALSE)
        BY <2>1, DueReturns DEF VersionInv
      <4>. QED  BY <2>4, <3>1, <4>1
    <3>2. CASE calls[i].reply # Failed
      <4>1. DueIn(calls', "list", due, calls[i].arg.alone)
        BY <2>1, <3>2, DueReturns DEF VersionInv
      <4>. QED  BY <2>4, <3>2, <4>1
    <3>. QED  BY <3>1, <3>2
  <2>7. ver'.due \in Int /\ (ver'.due = 0 \/ ver'.due <= Edition')
    BY <1>1, <1>2, <2>4
  <2>. QED  BY <2>5, <2>6, <2>7 DEF VersionInv
<1>5. CASE CreateSucceeds(i) \/ (DeleteSucceeds(i) /\ Awaited("delete") = {i})
  <2>1. /\ calls[i].op \in {"create", "delete"} /\ calls[i].live
        /\ calls' = ReadingNext(i, "list")
        /\ \E info : ver' = [ver EXCEPT !.info = info, !.due = Edition]
    BY <1>5 DEF CreateSucceeds, DeleteSucceeds, Succeeds, Returns
  <2>2. ver'.busy = ver.busy /\ ver'.due = Edition /\ ver'.sure = ver.sure
    BY <1>1, <2>1
  <2>3. VersionJob = {i}
    <3>1. i \in VersionJob
      BY <2>1 DEF VersionJob, Job
    <3>2. i \in Awaited("delete") => Awaited("delete") = {i}
      BY <1>5, <2>1 DEF CreateSucceeds, Succeeds, Returns, Awaited
    <3>. QED  BY <1>3, <3>1, <3>2
  <2>4. VersionJob' = {i}
    <3>1. calls' = [WithCompany("list") EXCEPT ![i] = Read("list", TRUE)]
      BY <2>1 DEF ReadingNext
    <3>2. i \in VersionJob' /\ \A j : j # i => (j \in VersionJob' <=> j \in VersionJob)
      BY <3>1, JobReads DEF VersionJob
    <3>. QED  BY <2>3, <3>2
  <2>5. DueIn(calls', "list", ver'.due, ver'.sure)
    BY <2>1, DueNext
  <2>6. VersionBusy'
    BY <1>3, <2>2, <2>3, <2>4 DEF VersionBusy
  <2>. QED  BY <1>2, <2>2, <2>5, <2>6 DEF VersionInv
<1>6. CASE DeleteSucceeds(i) /\ Awaited("delete") # {i}
  <2>1. /\ ver' = ver /\ calls' = Done(i) /\ calls[i].op = "delete" /\ calls[i].live
        /\ i \in Awaited("delete") /\ Awaited("delete") # {i}
    BY <1>6 DEF DeleteSucceeds, Succeeds, Returns, Awaited
  <2>2. i \in VersionJob /\ VersionJob' = VersionJob \ {i}
    <3>1. i \in VersionJob
      BY <2>1 DEF VersionJob, Job
    <3>2. VersionJob' = VersionJob \ {i}
      BY <2>1, JobDone DEF VersionJob
    <3>. QED  BY <3>1, <3>2
  <2>3. PICK j \in Awaited("delete") : j # i
    BY <2>1
  <2>4. j \in VersionJob
    BY DEF Awaited, VersionJob, Job
  <2>5. \A k \in VersionJob' : k \in Awaited("delete")'
    <3>1. \A k \in VersionJob : k \in Awaited("delete")
      BY <1>3, <2>2, <2>3, <2>4
    <3>2. \A k \in Slot \ {i} : calls'[k] = calls[k]
      BY <2>1 DEF Done, SlotsOK
    <3>. QED  BY <2>2, <3>1, <3>2 DEF Awaited
  <2>6. VersionBusy'
    BY <1>3, <2>1, <2>2, <2>3, <2>4, <2>5 DEF VersionBusy
  <2>7. DueIn(calls', "list", ver'.due, ver'.sure)
    BY <2>1, SteadyCalls, DueStays DEF VersionInv
  <2>. QED  BY <1>1, <1>2, <2>1, <2>6, <2>7 DEF VersionInv
<1>7. ASSUME ~ver'.busy, ver'.due = ver.due, ver'.sure = ver.sure, VersionJob' = {},
             Steady("list"), Unanswered("list")
      PROVE  VersionInv'
  <2>1. DueIn(calls', "list", ver'.due, ver'.sure)
    BY <1>7, DueStays DEF VersionInv
  <2>. QED  BY <1>1, <1>2, <1>7, <2>1 DEF VersionInv, VersionBusy
<1>8. CASE CreateThrows(i) \/ ReloadReturns(i)
  <2>1. /\ calls[i].op \in {"create", "reload"} /\ calls[i].live /\ calls' = Done(i)
        /\ \/ ver' = [ver EXCEPT !.busy = FALSE]
           \/ ver' = [ver EXCEPT !.info = NoInfo, !.busy = FALSE]
    BY <1>8 DEF CreateThrows, ReloadReturns, JobThrows, Throws, Returns
  <2>2. ~ver'.busy /\ ver'.due = ver.due /\ ver'.sure = ver.sure
    BY <1>1, <2>1
  <2>3. VersionJob' = {}
    <3>1. i \in VersionJob /\ i \notin Awaited("delete")
      BY <2>1 DEF VersionJob, Job, Awaited
    <3>2. VersionJob' = VersionJob \ {i}
      BY <2>1, JobDone DEF VersionJob
    <3>. QED  BY <1>3, <3>1, <3>2
  <2>4. Steady("list") /\ Unanswered("list")
    BY <2>1, SteadyCalls
  <2>. QED  BY <1>7, <2>2, <2>3, <2>4
<1>9. CASE DeleteThrows(i)
  <2>1. /\ i \in Awaited("delete") /\ ver' = [ver EXCEPT !.busy = FALSE]
        /\ calls[i].op = "delete" /\ calls[i].live
    BY <1>9 DEF DeleteThrows, JobThrows, Throws, Returns, Awaited
  <2>2. ~ver'.busy /\ ver'.due = ver.due /\ ver'.sure = ver.sure
    BY <1>1, <2>1
  <2>3. ASSUME NEW j \in Slot
        PROVE  IF j \in Awaited("delete") THEN ~calls'[j].live ELSE calls'[j] = calls[j]
    <3>1. CASE j \in Awaited("delete")
      <4>1. calls'[j] = Free \/ calls'[j] = [calls[j] EXCEPT !.live = FALSE]
        BY <1>9, <3>1 DEF DeleteThrows
      <4>2. Shaped(calls[j]) /\ ~Free.live
        BY DEF SlotsOK, Free
      <4>. QED  BY <3>1, <4>1, <4>2 DEF Shaped
    <3>2. CASE j \notin Awaited("delete")
      <4>1. j # i
        BY <2>1, <3>2
      <4>. QED  BY <1>9, <3>2, <4>1 DEF DeleteThrows
    <3>. QED  BY <3>1, <3>2
  <2>4. VersionJob' = {}
    <3>1. i \in VersionJob
      BY <2>1 DEF VersionJob, Job
    <3>2. \A j \in VersionJob : j \in Awaited("delete")
      BY <1>3, <2>1, <3>1
    <3>3. \A j \in Slot : j \in VersionJob' => j \in VersionJob /\ j \notin Awaited("delete")
      BY <2>3 DEF VersionJob, Job
    <3>4. VersionJob' \subseteq Slot
      BY DEF VersionJob, Job
    <3>. QED  BY <3>2, <3>3, <3>4
  <2>5. Steady("list") /\ Unanswered("list")
    BY <2>3 DEF Steady, Unanswered, Awaited
  <2>. QED  BY <1>7, <2>2, <2>4, <2>5
<1>. QED  BY <1>4, <1>5, <1>6, <1>8, <1>9 DEF VersionReturns

LEMMA VersionMountBusy ==
    ASSUME IInv, SlotsOK, VersionInv, NEW page \in Routes, Navigate(page)
    PROVE  VersionInv'
<1>1. ver' = VersionFresh
  BY MountIs
<1>2. ~ver'.busy /\ ver'.due = 0
  BY <1>1 DEF VersionFresh
<1>3. VersionJob' = {}
  BY JobMounts DEF VersionJob
<1>4. DueIn(calls', "list", ver'.due, ver'.sure)
  BY <1>2 DEF DueIn
<1>. QED  BY <1>2, <1>3, <1>4 DEF VersionInv, VersionBusy

LEMMA VersionInvariance == Spec => [](IInv /\ SlotsOK /\ VersionInv)
<1>1. Init => VersionInv
  <2> SUFFICES ASSUME Init PROVE VersionInv
    OBVIOUS
  <2>1. ver.due = 0 /\ ~ver.busy
    BY DEF Init, VersionInit, VersionFresh
  <2>2. VersionJob = {}
    BY DEF Init, VersionJob, Job, Free
  <2>. QED  BY <2>1, <2>2 DEF VersionInv, VersionBusy, DueIn
<1>2. IInv /\ SlotsOK /\ VersionInv /\ [Next]_vars => VersionInv'
  <2> SUFFICES ASSUME IInv, SlotsOK, VersionInv, [Next]_vars PROVE VersionInv'
    OBVIOUS
  <2>1. ASSUME UNCHANGED version, \A op \in VersionOps : Steady(op) /\ Unanswered(op)
        PROVE  VersionInv'
    <3>1. Edition \in Int /\ Edition' \in Int /\ Edition' >= Edition
      BY <2>1, EditionGrows DEF version
    <3>. QED  BY <2>1, <3>1, VersionFrames DEF version, VersionOps
  <2>2. ASSUME UNCHANGED version, Leaves(calls', VersionOps) \/ Fade(VersionOps)
        PROVE  VersionInv'
    <3>1. \A op \in VersionOps : op # "free"
      BY DEF VersionOps
    <3>. QED  BY <2>1, <2>2, <3>1, SteadyCalls
  <2>3. ASSUME VersionActs \/ \E i \in Slot : VersionServes(i) \/ VersionReturns(i)
        PROVE  VersionInv'
    BY <2>3, VersionActsBusy, VersionServesBusy, VersionReturnsBusy
  <2>4. CASE UNCHANGED vars
    <3>1. \A op \in VersionOps : op # "free"
      BY DEF VersionOps
    <3>. QED  BY <2>1, <2>4, <3>1, SteadyCalls DEF vars
  <2>5. CASE \E page \in Routes : Navigate(page)
    BY <2>5, VersionMountBusy
  <2>6. CASE Acts
    <3>1. CASE ClockActs /\ OnlyClock
      BY <2>2, <3>1, ClockLeaves DEF OnlyClock, VersionOps
    <3>2. CASE MigrationsActs /\ OnlyMigrations
      BY <2>2, <3>2, MigrationsLeave DEF OnlyMigrations, VersionOps
    <3>. QED  BY <2>3, <2>6, <3>1, <3>2 DEF Acts
  <2>7. ASSUME NEW i \in Slot, Proceeds(i) PROVE VersionInv'
    <3>1. CASE ClockServes(i) /\ OnlyClock
      BY <2>2, <3>1, ClockLeaves DEF OnlyClock, VersionOps
    <3>2. CASE MigrationsServes(i) /\ OnlyMigrations
      BY <2>2, <3>2, MigrationsLeave DEF OnlyMigrations, VersionOps
    <3>3. CASE (Lose(i) \/ LoseContact(i)) /\ UNCHANGED version
      BY <2>2, <3>3, LossFades
    <3>. QED  BY <2>3, <2>7, <3>1, <3>2, <3>3 DEF Proceeds
  <2>8. ASSUME NEW i \in Slot, Handled(i) PROVE VersionInv'
    <3>1. CASE ClockReturns(i) /\ OnlyClock
      BY <2>2, <3>1, ClockLeaves DEF OnlyClock, VersionOps
    <3>2. CASE MigrationsReturns(i) /\ OnlyMigrations
      BY <2>2, <3>2, MigrationsLeave DEF OnlyMigrations, VersionOps
    <3>. QED  BY <2>3, <2>8, <3>1, <3>2 DEF Handled
  <2>. QED  BY <2>4, <2>5, <2>6, <2>7, <2>8 DEF Next
<1>. QED  BY SlotsInvariance, <1>1, <1>2, PTL DEF Spec

\* Once a job is over, its page shows the effect: the list of versions (VersionPage.tsx:59,
\* 109), and the offset to which the presets add (ClockPage.tsx:61, 174), for whatever the
\* other operators do and in whatever order the answers come.
THEOREM PagesShow == Spec => []PagesShowOwnWork
<1>1. ASSUME NEW op, NEW due, NEW sure, NEW ops, DueIn(calls, op, due, sure), sure, due # 0
      PROVE  Job(ops, op) # {}
  BY <1>1 DEF DueIn, Job
<1>2. VersionInv => ShowsOwnVersions
  BY <1>1 DEF VersionInv, VersionBusy, VersionJob, ShowsOwnVersions, VersionIdle
<1>3. ClockInv => ShowsOwnJump
  BY <1>1 DEF ClockInv, One, ClockJob, ShowsOwnJump
<1>4. VersionInv /\ ClockInv => PagesShowOwnWork
  BY <1>2, <1>3 DEF PagesShowOwnWork
<1>. QED  BY VersionInvariance, ClockInvariance, <1>4, PTL

\* A page is busy exactly while the one job it has started is not over (VersionPage.tsx:
\* 53-113, ClockPage.tsx:54-65, MigrationsPage.tsx:40-48 and 420-437): no answer, failure,
\* loss or change of page leaves it busy without one or lets a second begin.
THEOREM OneJobIsBusy == Spec => []BusyIsOneJob
<1>1. ASSUME NEW busy, NEW set, One(busy, set)
      PROVE  Cardinality(set) = IF busy THEN 1 ELSE 0
  BY <1>1, FS_EmptySet, FS_Singleton DEF One
<1>2. ClockInv => Cardinality(Job({"jump"}, "clock")) = IF clk.busy THEN 1 ELSE 0
  BY <1>1 DEF ClockInv, ClockJob
<1>3. MigInv => /\ Cardinality(Awaited("status")) = IF mig.busy THEN 1 ELSE 0
                /\ Cardinality({i \in Awaited("write") : calls[i].arg.own})
                     = IF form.submitting THEN 1 ELSE 0
  BY <1>1 DEF MigInv, StatusBusy, FormBusy, Owned
<1>4. VersionInv => LET job == Job({"create", "reload", "delete"}, "list") IN
                    /\ ver.busy <=> job # {}
                    /\ \A i, j \in job : i = j \/ {calls[i].op, calls[j].op} = {"delete"}
  BY DEF VersionInv, VersionBusy, VersionJob, Awaited
<1>5. VersionInv /\ ClockInv /\ MigInv => BusyIsOneJob
  BY <1>2, <1>3, <1>4 DEF BusyIsOneJob
<1>. QED  BY VersionInvariance, ClockInvariance, MigrationsInvariance, <1>5, PTL

-----------------------------------------------------------------------------
(* What the version page reports *)

\* No row has the idx, and none will.
Gone(r, rows, last) == r.idx \in Nat /\ r.idx <= last /\ r.idx \notin IdxOf(rows)

\* Every row of a batch that the page waits for is gone, or its deletion is not reported yet.
Pending(cs, r) ==
    \E j \in Slot : cs[j].op = "delete" /\ cs[j].live /\ cs[j].arg.row = r /\ ~Answered(cs[j])
Batches ==
    \A i \in Awaited("delete") : \A r \in calls[i].arg.batch :
        Gone(r, table, lastIdx) \/ Pending(calls, r)

\* What the server says it added is known.
Created ==
    \A i \in Awaited("create") : Answered(calls[i]) => Known(calls[i].reply.row, table, lastIdx)

Shown(info, rows, last) ==
    /\ info.is = "deleted" => \A r \in info.rows : Gone(r, rows, last)
    /\ info.is = "created" => Known(info.row, rows, last)

ReportsInv == Shown(ver.info, table, lastIdx) /\ Created /\ Batches

TableGrows == Later(table, lastIdx, 0, table', lastIdx', 0)

LEMMA GoneStays ==
    ASSUME TableGrows
    PROVE  /\ \A r : Gone(r, table, lastIdx) => Gone(r, table', lastIdx')
           /\ \A r : Known(r, table, lastIdx) => Known(r, table', lastIdx')
           /\ \A info : Shown(info, table, lastIdx) => Shown(info, table', lastIdx')
<1>1. \A r : Gone(r, table, lastIdx) => Gone(r, table', lastIdx')
  BY DEF Gone, IdxOf, TableGrows, Later
<1>2. \A r : Known(r, table, lastIdx) => Known(r, table', lastIdx')
  BY KnownStays DEF TableGrows
<1>. QED  BY <1>1, <1>2 DEF Shown

\* The table stays, or the server adds a row, or takes one away.
LEMMA TableMoves ==
    ASSUME IInv, UNCHANGED <<table, lastIdx>> \/ \E i \in Slot : VersionServes(i)
    PROVE  TableGrows
<1>1. lastIdx \in Nat
  BY DEF IInv, TableOK
<1>2. CASE UNCHANGED <<table, lastIdx>>
  BY <1>1, <1>2 DEF TableGrows, Later
<1>3. ASSUME NEW i \in Slot, VersionServes(i) PROVE TableGrows
  <2>1. CASE ServeList(i) \/ ServeReload(i)
    BY <1>2, <2>1 DEF ServeList, ServeReload
  <2>2. CASE ServeCreate(i)
    <3>1. CASE UNCHANGED <<table, lastIdx>>
      BY <1>2, <3>1
    <3>2. ASSUME NEW input, table' = table \cup {NewRow(input)}, lastIdx' = lastIdx + 1
          PROVE  TableGrows
      <4>1. NewRow(input).idx = lastIdx + 1
        BY DEF NewRow, NextIdx
      <4>. QED  BY <1>1, <3>2, <4>1 DEF TableGrows, Later
    <3>. QED  BY <2>2, <3>1, <3>2 DEF ServeCreate
  <2>3. CASE ServeDelete(i)
    <3>1. table' \subseteq table /\ lastIdx' = lastIdx
      BY <2>3 DEF ServeDelete
    <3>. QED  BY <1>1, <3>1 DEF TableGrows, Later
  <2>. QED  BY <1>3, <2>1, <2>2, <2>3 DEF VersionServes
<1>. QED  BY <1>2, <1>3

\* Rows of which nothing new is answered.
LEMMA CreatedStays ==
    ASSUME Created, TableGrows, Steady("create"), Unanswered("create")
    PROVE  Created'
<1>1. ASSUME NEW i \in Awaited("create")', Answered(calls'[i])
      PROVE  Known(calls'[i].reply.row, table', lastIdx')
  <2>1. i \in Awaited("create") /\ calls'[i].reply = calls[i].reply
    BY <1>1 DEF Steady, Unanswered, Awaited
  <2>2. Known(calls[i].reply.row, table, lastIdx)
    BY <1>1, <2>1 DEF Created, Answered
  <2>. QED  BY <2>1, <2>2, GoneStays
<1>. QED  BY <1>1 DEF Created, Answered

LEMMA BatchesStay ==
    ASSUME Batches, TableGrows, Steady("delete"),
           \A i \in Awaited("delete") : Answered(calls'[i]) =>
              Answered(calls[i]) \/ Gone(calls[i].arg.row, table', lastIdx')
    PROVE  Batches'
<1>1. ASSUME NEW i \in Awaited("delete")', NEW r \in calls'[i].arg.batch
      PROVE  Gone(r, table', lastIdx') \/ Pending(calls', r)
  <2>1. i \in Awaited("delete") /\ r \in calls[i].arg.batch
    BY <1>1 DEF Steady, Awaited
  <2>2. CASE Gone(r, table, lastIdx)
    BY <2>2, GoneStays
  <2>3. CASE Pending(calls, r)
    <3>1. PICK j \in Slot : /\ calls[j].op = "delete" /\ calls[j].live /\ calls[j].arg.row = r
                            /\ ~Answered(calls[j])
      BY <2>3 DEF Pending
    <3>2. j \in Awaited("delete")
      BY <3>1 DEF Awaited
    <3>3. calls'[j].op = "delete" /\ calls'[j].live /\ calls'[j].arg.row = r
      BY <3>1, <3>2 DEF Steady, Awaited
    <3>4. CASE Answered(calls'[j])
      BY <3>1, <3>2, <3>4
    <3>5. CASE ~Answered(calls'[j])
      BY <3>3, <3>5 DEF Pending
    <3>. QED  BY <3>4, <3>5
  <2>. QED  BY <2>1, <2>2, <2>3 DEF Batches
<1>. QED  BY <1>1 DEF Batches, Pending, Answered

LEMMA ReportsFrames ==
    ASSUME ReportsInv, TableGrows, ver'.info = ver.info,
           \A op \in {"create", "delete"} : Steady(op) /\ Unanswered(op)
    PROVE  ReportsInv'
<1>1. Shown(ver'.info, table', lastIdx')
  BY GoneStays DEF ReportsInv
<1>2. Created'
  BY CreatedStays DEF ReportsInv
<1>3. \A i \in Awaited("delete") : Answered(calls'[i]) => Answered(calls[i])
  BY DEF Unanswered, Answered
<1>4. Batches'
  BY <1>3, BatchesStay DEF ReportsInv
<1>. QED  BY <1>1, <1>2, <1>4 DEF ReportsInv

\* The batch that is confirmed is all that the page waits for, and nothing of it is answered.
LEMMA VersionActsReports ==
    ASSUME IInv, SlotsOK, VersionInv, ReportsInv, VersionActs
    PROVE  ReportsInv'
<1>1. ver = [rows |-> ver.rows, loading |-> ver.loading, selection |-> ver.selection,
             busy |-> ver.busy, info |-> ver.info, due |-> ver.due, sure |-> ver.sure]
  BY DEF IInv, PagesOK
<1>2. UNCHANGED <<table, lastIdx>> /\ TableGrows
  <2>1. UNCHANGED <<table, lastIdx>>
    BY DEF VersionActs, ClickRefresh, ClickReload, ClickDelete, ToggleAll, ClickCreate, ToggleRow,
           VersionElsewhere, version
  <2>. QED  BY <2>1, TableMoves
<1>3. ver'.info = ver.info
  BY <1>1
  DEF VersionActs, ClickRefresh, ClickReload, ClickDelete, ToggleAll, ClickCreate, ToggleRow,
      VersionElsewhere, version, Started
<1>4. CASE ClickRefresh
  <2>1. Leaves(calls', {"create", "delete"})
    BY <1>4, LeavesReads DEF ClickRefresh
  <2>. QED  BY <1>2, <1>3, <2>1, SteadyCalls, ReportsFrames
<1>5. CASE ClickReload
  <2>1. Sent(Request("reload", NoArg)) /\ Request("reload", NoArg).op = "reload"
    BY <1>5, Sends DEF ClickReload, Request
  <2>. QED  BY <1>2, <1>3, <2>1, SteadyCalls, ReportsFrames
<1>6. CASE ToggleAll \/ \E r \in ver.rows : ToggleRow(r)
  <2>1. calls' = calls
    BY <1>6 DEF ToggleAll, ToggleRow
  <2>. QED  BY <1>2, <1>3, <2>1, SteadyCalls, ReportsFrames
<1>7. CASE VersionElsewhere
  <2>1. PICK op, arg : HasRoom(1) /\ calls' = Sending(calls, Foreign(op, arg))
    BY <1>7 DEF VersionElsewhere, FromElsewhere
  <2>2. Sent(Foreign(op, arg)) /\ ~Foreign(op, arg).live
    BY <2>1, Sends, ForeignIs
  <2>. QED  BY <1>2, <1>3, <2>2, Unheard, ReportsFrames
<1>8. ASSUME NEW input \in Input, ClickCreate(input) PROVE ReportsInv'
  <2>1. PICK k \in Slot : /\ calls[k] = Free
                          /\ calls' = [calls EXCEPT ![k] = Request("create", [input |-> input])]
    <3>1. Sent(Request("create", [input |-> input]))
      BY <1>8, Sends DEF ClickCreate
    <3>. QED  BY <3>1 DEF Sent
  <2>2. /\ calls'[k].op = "create" /\ ~Answered(calls'[k]) /\ ~calls[k].live
        /\ \A j \in Slot \ {k} : calls'[j] = calls[j]
    BY <2>1 DEF SlotsOK, Request, Answered, Free
  <2>3. Steady("delete") /\ Unanswered("delete")
    BY <2>2 DEF Steady, Unanswered, Awaited
  <2>4. Batches'
    BY <1>2, <2>3, BatchesStay DEF ReportsInv, Unanswered, Answered
  <2>5. Created'
    <3>1. ASSUME NEW i \in Awaited("create")', Answered(calls'[i])
          PROVE  Known(calls'[i].reply.row, table, lastIdx)
      BY <2>2, <3>1 DEF Awaited, ReportsInv, Created
    <3>. QED  BY <1>2, <3>1 DEF Created, Answered
  <2>6. Shown(ver'.info, table', lastIdx')
    BY <1>2, <1>3 DEF ReportsInv
  <2>. QED  BY <2>4, <2>5, <2>6 DEF ReportsInv
<1>9. CASE ClickDelete
  <2>1. Awaited("delete") = {}
    <3>1. VersionJob = {}
      BY <1>9 DEF ClickDelete, VersionIdle, VersionInv, VersionBusy
    <3>. QED  BY <3>1 DEF VersionJob, Job, Awaited
  <2>2. PICK slot \in [Targets -> Slot] :
                 /\ \A r \in Targets : calls[slot[r]] = Free /\ calls'[slot[r]] = Deletion(r)
                 /\ \A i \in Slot : calls'[i] = calls[i] \/ \E r \in Targets : i = slot[r]
    BY <1>9, DeletesSent DEF IInv, PagesOK
  <2>3. \A r : /\ Deletion(r).op = "delete" /\ Deletion(r).live /\ ~Answered(Deletion(r))
               /\ Deletion(r).arg.row = r /\ Deletion(r).arg.batch = Targets
    BY DEF Deletion, Request, Answered
  <2>4. \A r \in Targets : Pending(calls', r)
    BY <2>2, <2>3 DEF Pending
  <2>5. \A i \in Awaited("delete")' : calls'[i].arg.batch = Targets
    BY <2>1, <2>2, <2>3 DEF Awaited
  <2>6. Batches'
    BY <2>4, <2>5 DEF Batches, Pending, Answered
  <2>7. Steady("create") /\ Unanswered("create")
    <3>1. \A i \in Slot : \/ calls'[i] = calls[i]
                          \/ calls[i].op = "free" /\ calls'[i].op = "delete"
      BY <2>2, <2>3 DEF Free
    <3>. QED  BY <3>1 DEF Steady, Unanswered, Awaited
  <2>8. Created'
    BY <1>2, <2>7, CreatedStays DEF ReportsInv
  <2>9. Shown(ver'.info, table', lastIdx')
    BY <1>2, <1>3 DEF ReportsInv
  <2>. QED  BY <2>6, <2>8, <2>9 DEF ReportsInv
<1>. QED  BY <1>4, <1>5, <1>6, <1>7, <1>8, <1>9 DEF VersionActs

\* The server adds a row under a new idx, and of what it deleted it says so.
LEMMA VersionServesReports ==
    ASSUME IInv, SlotsOK, ReportsInv, NEW i \in Slot, VersionServes(i)
    PROVE  ReportsInv'
<1>1. ver' = ver /\ TableGrows
  BY TableMoves DEF VersionServes
<1>2. Shown(ver'.info, table', lastIdx')
  BY <1>1, GoneStays DEF ReportsInv
<1>3. CASE ServeList(i) \/ ServeReload(i)
  <2>1. calls[i].op \in {"list", "reload"} /\ \E r : calls' = Answering(i, r)
    BY <1>3 DEF ServeList, ServeReload, Unserved
  <2>2. \A op \in {"create", "delete"} : Steady(op) /\ Unanswered(op)
    BY <2>1, SteadyCalls
  <2>. QED  BY <1>1, <2>2, ReportsFrames
<1>4. CASE ServeCreate(i)
  <2>1. PICK r : /\ calls' = Answering(i, r)
                 /\ r = Failed \/ Known(r.row, table', lastIdx')
    <3>1. CASE Refuses(calls[i].arg.input)
      BY <1>4, <3>1 DEF ServeCreate
    <3>2. CASE ~Refuses(calls[i].arg.input)
      <4>1. PICK row : row = NewRow(calls[i].arg.input)
        OBVIOUS
      <4>2. /\ table' = table \cup {row} /\ lastIdx' = lastIdx + 1 /\ row.idx = lastIdx + 1
            /\ calls' = Answering(i, [is |-> "row", row |-> row])
        BY <1>4, <3>2, <4>1 DEF ServeCreate, NewRow, NextIdx
      <4>3. lastIdx \in Nat /\ \A s \in table : s.idx \in Nat /\ s.idx <= lastIdx
        BY DEF IInv, TableOK, Known
      <4>4. Known(row, table', lastIdx')
        BY <4>2, <4>3 DEF Known
      <4>. QED  BY <4>2, <4>4
    <3>. QED  BY <3>1, <3>2
  <2>2. calls[i].op = "create"
    BY <1>4 DEF ServeCreate, Unserved
  <2>3. Steady("create") /\ Steady("delete") /\ Unanswered("delete")
    BY <2>1, <2>2, SteadyCalls
  <2>4. Batches'
    <3>1. \A j \in Awaited("delete") : Answered(calls'[j]) => Answered(calls[j])
      BY <2>3 DEF Unanswered, Answered
    <3>. QED  BY <1>1, <2>3, <3>1, BatchesStay DEF ReportsInv
  <2>5. Created'
    <3>1. ASSUME NEW j \in Awaited("create")', Answered(calls'[j])
          PROVE  Known(calls'[j].reply.row, table', lastIdx')
      <4>1. j \in Slot /\ calls'[j].live /\ calls'[j].op = "create"
        BY DEF Awaited
      <4>2. CASE j = i
        <5>1. calls'[j].reply = r
          BY <2>1, <4>1, <4>2, AnswerIs DEF Free
        <5>. QED  BY <2>1, <3>1, <5>1 DEF Answered
      <4>3. CASE j # i
        <5>1. calls'[j] = calls[j]
          BY <2>1, <4>1, <4>3, AnswerIs
        <5>2. Known(calls[j].reply.row, table, lastIdx)
          BY <3>1, <4>1, <5>1 DEF ReportsInv, Created, Awaited
        <5>. QED  BY <1>1, <5>1, <5>2, GoneStays
      <4>. QED  BY <4>2, <4>3
    <3>. QED  BY <3>1 DEF Created, Answered
  <2>. QED  BY <1>2, <2>4, <2>5 DEF ReportsInv
<1>5. CASE ServeDelete(i)
  <2>1. calls[i].op = "delete" /\ lastIdx' = lastIdx /\ \E r : calls' = Answering(i, r)
    BY <1>5 DEF ServeDelete, Unserved
  <2>2. Gone(calls[i].arg.row, table', lastIdx')
    <3>1. Known(calls[i].arg.row, table, lastIdx)
      BY <2>1 DEF IInv, CallsOK, CallOK
    <3>2. table' = table \ {r \in table : r.idx = calls[i].arg.row.idx}
      BY <1>5 DEF ServeDelete
    <3>. QED  BY <2>1, <3>1, <3>2 DEF Known, Gone, IdxOf
  <2>3. Steady("delete") /\ Steady("create") /\ Unanswered("create")
    BY <2>1, SteadyCalls
  <2>4. \A j \in Slot \ {i} : calls'[j] = calls[j]
    BY <2>1, AnswerIs
  <2>5. Created'
    BY <1>1, <2>3, CreatedStays DEF ReportsInv
  <2>6. Batches'
    <3>1. \A j \in Awaited("delete") : Answered(calls'[j]) =>
              Answered(calls[j]) \/ Gone(calls[j].arg.row, table', lastIdx')
      BY <2>2, <2>4 DEF Awaited, Answered
    <3>. QED  BY <1>1, <2>3, <3>1, BatchesStay DEF ReportsInv
  <2>. QED  BY <1>2, <2>5, <2>6 DEF ReportsInv
<1>. QED  BY <1>3, <1>4, <1>5 DEF VersionServes

\* The page says so when the last answer of the batch has come.
LEMMA VersionReturnsReports ==
    ASSUME IInv, SlotsOK, ReportsInv, NEW i \in Slot, VersionReturns(i)
    PROVE  ReportsInv'
<1>1. ver = [rows |-> ver.rows, loading |-> ver.loading, selection |-> ver.selection,
             busy |-> ver.busy, info |-> ver.info, due |-> ver.due, sure |-> ver.sure]
  BY DEF IInv, PagesOK
<1>2. UNCHANGED <<table, lastIdx>> /\ TableGrows
  <2>1. UNCHANGED <<table, lastIdx>>
    BY DEF VersionReturns, ListReturns, CreateSucceeds, CreateThrows, ReloadReturns,
           DeleteSucceeds, DeleteThrows
  <2>. QED  BY <2>1, TableMoves
<1>3. /\ Free.op = "free" /\ ~Free.live
      /\ calls' = Done(i) => calls'[i] = Free /\ \A j \in Slot \ {i} : calls'[j] = calls[j]
  BY DEF SlotsOK, Free, Done
<1>4. ASSUME \A j \in Awaited("create")' : j \in Awaited("create") /\ calls'[j].reply = calls[j].reply
      PROVE  Created'
  BY <1>2, <1>4 DEF ReportsInv, Created, Answered
<1>5. CASE ListReturns(i) \/ ReloadReturns(i) \/ CreateThrows(i)
  <2>1. /\ calls[i].op \in {"list", "reload", "create"} /\ calls' = Done(i)
        /\ \/ ver'.info = ver.info \/ ver'.info = NoInfo
    BY <1>1, <1>5
    DEF ListReturns, ReloadReturns, CreateThrows, JobThrows, Throws, Returns
  <2>2. Created'
    BY <1>3, <1>4, <2>1 DEF Awaited
  <2>3. Steady("delete") /\ Unanswered("delete")
    BY <2>1, SteadyCalls
  <2>4. Batches'
    <3>1. \A j \in Awaited("delete") : Answered(calls'[j]) => Answered(calls[j])
      BY <2>3 DEF Unanswered, Answered
    <3>. QED  BY <1>2, <2>3, <3>1, BatchesStay DEF ReportsInv
  <2>5. Shown(ver'.info, table', lastIdx')
    BY <1>2, <2>1 DEF ReportsInv, Shown, NoInfo
  <2>. QED  BY <2>2, <2>4, <2>5 DEF ReportsInv
<1>6. CASE CreateSucceeds(i)
  <2>1. /\ calls[i].op = "create" /\ i \in Awaited("create") /\ Answered(calls[i])
        /\ calls' = ReadingNext(i, "list")
        /\ ver' = [ver EXCEPT !.info = [is |-> "created", row |-> calls[i].reply.row],
                              !.due = Edition]
    BY <1>6 DEF CreateSucceeds, Succeeds, Returns, Awaited, Answered
  <2>2. ver'.info = [is |-> "created", row |-> calls[i].reply.row]
    BY <1>1, <2>1
  <2>3. Known(calls[i].reply.row, table, lastIdx)
    BY <2>1 DEF ReportsInv, Created
  <2>4. Shown(ver'.info, table', lastIdx')
    BY <1>2, <2>2, <2>3 DEF Shown
  <2>5. Created'
    <3>1. /\ calls'[i] = Read("list", TRUE)
          /\ \A j \in Slot \ {i} : Joins(calls[j], calls'[j], "list")
      BY <2>1, ReadsJoin DEF ReadingNext
    <3>2. calls'[i].op = "list"
      BY <3>1 DEF Read, Request
    <3>. QED  BY <1>4, <3>1, <3>2 DEF Joins, Awaited
  <2>6. Steady("delete") /\ Unanswered("delete")
    <3>1. Leaves(calls', {"delete"})
      BY <2>1, LeavesReads
    <3>. QED  BY <3>1, SteadyCalls
  <2>7. Batches'
    <3>1. \A j \in Awaited("delete") : Answered(calls'[j]) => Answered(calls[j])
      BY <2>6 DEF Unanswered, Answered
    <3>. QED  BY <1>2, <2>6, <3>1, BatchesStay DEF ReportsInv
  <2>. QED  BY <2>4, <2>5, <2>7 DEF ReportsInv
<1>7. CASE DeleteSucceeds(i) /\ Awaited("delete") = {i}
  <2>1. /\ calls[i].op = "delete" /\ Answered(calls[i]) /\ calls' = ReadingNext(i, "list")
        /\ ver' = [ver EXCEPT !.info = [is |-> "deleted", rows |-> calls[i].arg.batch],
                              !.due = Edition]
    BY <1>7 DEF DeleteSucceeds, Succeeds, Returns, Answered
  <2>2. ver'.info = [is |-> "deleted", rows |-> calls[i].arg.batch]
    BY <1>1, <2>1
  <2>3. \A r \in calls[i].arg.batch : Gone(r, table, lastIdx)
    <3>1. \A r : ~Pending(calls, r)
      BY <1>7, <2>1 DEF Pending, Awaited
    <3>. QED  BY <1>7, <3>1 DEF ReportsInv, Batches
  <2>4. Shown(ver'.info, table', lastIdx')
    BY <1>2, <2>2, <2>3 DEF Shown
  <2>5. /\ calls'[i] = Read("list", TRUE)
        /\ \A j \in Slot \ {i} : Joins(calls[j], calls'[j], "list")
    BY <2>1, ReadsJoin DEF ReadingNext
  <2>6. calls'[i].op = "list"
    BY <2>5 DEF Read, Request
  <2>7. Created'
    BY <1>4, <2>5, <2>6 DEF Joins, Awaited
  <2>8. Awaited("delete")' = {}
    <3>1. \A j \in Slot \ {i} : j \in Awaited("delete")' => j \in Awaited("delete")
      BY <2>5 DEF Joins, Awaited
    <3>2. i \notin Awaited("delete")'
      BY <2>6 DEF Awaited
    <3>3. Awaited("delete")' \subseteq Slot
      BY DEF Awaited
    <3>. QED  BY <1>7, <3>1, <3>2, <3>3
  <2>9. Batches'
    BY <2>8 DEF Batches
  <2>. QED  BY <2>4, <2>7, <2>9 DEF ReportsInv
<1>8. CASE DeleteSucceeds(i) /\ Awaited("delete") # {i}
  <2>1. calls[i].op = "delete" /\ Answered(calls[i]) /\ calls' = Done(i) /\ ver' = ver
    BY <1>8 DEF DeleteSucceeds, Succeeds, Returns, Answered
  <2>2. Created'
    BY <1>3, <1>4, <2>1 DEF Awaited
  <2>3. ASSUME NEW r, Pending(calls, r) PROVE Pending(calls', r)
    BY <1>3, <2>1, <2>3 DEF Pending
  <2>4. \A j \in Awaited("delete")' : j \in Awaited("delete") /\ calls'[j] = calls[j]
    BY <1>3, <2>1 DEF Awaited
  <2>5. Batches'
    <3>1. ASSUME NEW j \in Awaited("delete")', NEW r \in calls'[j].arg.batch
          PROVE  Gone(r, table', lastIdx') \/ Pending(calls', r)
      BY <1>2, <2>3, <2>4 DEF ReportsInv, Batches
    <3>. QED  BY <3>1 DEF Batches, Pending, Answered
  <2>. QED  BY <1>2, <2>1, <2>2, <2>5 DEF ReportsInv
<1>9. CASE DeleteThrows(i)
  <2>1. /\ i \in Awaited("delete") /\ ver' = [ver EXCEPT !.busy = FALSE]
    BY <1>9 DEF DeleteThrows, JobThrows, Throws, Returns, Awaited
  <2>2. ver'.info = ver.info
    BY <1>1, <2>1
  <2>3. ASSUME NEW j \in Slot
        PROVE  IF j \in Awaited("delete") THEN ~calls'[j].live ELSE calls'[j] = calls[j]
    <3>1. CASE j \in Awaited("delete")
      <4>1. calls'[j] = Free \/ calls'[j] = [calls[j] EXCEPT !.live = FALSE]
        BY <1>9, <3>1 DEF DeleteThrows
      <4>2. Shaped(calls[j]) /\ ~Free.live
        BY DEF SlotsOK, Free
      <4>. QED  BY <3>1, <4>1, <4>2 DEF Shaped
    <3>2. CASE j \notin Awaited("delete")
      <4>1. j # i
        BY <2>1, <3>2
      <4>. QED  BY <1>9, <3>2, <4>1 DEF DeleteThrows
    <3>. QED  BY <3>1, <3>2
  <2>4. Awaited("delete")' = {}
    BY <2>3 DEF Awaited
  <2>5. Created'
    <3>1. \A j \in Awaited("create")' : j \in Awaited("create") /\ calls'[j].reply = calls[j].reply
      BY <2>3 DEF Awaited
    <3>. QED  BY <1>4, <3>1
  <2>. QED  BY <1>2, <2>2, <2>4, <2>5 DEF ReportsInv, Batches
<1>. QED  BY <1>5, <1>6, <1>7, <1>8, <1>9 DEF VersionReturns

\* What the page says was deleted is gone for good, and what it says was added is there or
\* deleted (VersionPage.tsx:57, 107-108): in whatever order the answers of a batch come,
\* some of them lost, while other operators add and delete.
THEOREM ReportsHold == Spec => []ReportsAreTrue
<1>1. Init => ReportsInv
  <2> SUFFICES ASSUME Init PROVE ReportsInv
    OBVIOUS
  <2>1. ver.info.is = "nothing"
    BY DEF Init, VersionInit, VersionFresh, NoInfo
  <2>2. Awaited("create") = {} /\ Awaited("delete") = {}
    BY DEF Init, Awaited, Free
  <2>. QED  BY <2>1, <2>2 DEF ReportsInv, Shown, Created, Batches
<1>2. IInv /\ SlotsOK /\ VersionInv /\ ReportsInv /\ [Next]_vars => ReportsInv'
  <2> SUFFICES ASSUME IInv, SlotsOK, VersionInv, ReportsInv, [Next]_vars PROVE ReportsInv'
    OBVIOUS
  <2> DEFINE ops == {"create", "delete"}
  <2>1. ASSUME UNCHANGED version,
               \/ calls' = calls \/ Leaves(calls', ops) \/ Fade(ops)
        PROVE  ReportsInv'
    <3>1. UNCHANGED <<table, lastIdx>> /\ ver'.info = ver.info
      BY <2>1 DEF version
    <3>2. TableGrows
      BY <3>1, TableMoves
    <3>3. \A op \in ops : Steady(op) /\ Unanswered(op)
      BY <2>1, SteadyCalls
    <3>. QED  BY <3>1, <3>2, <3>3, ReportsFrames
  <2>2. CASE UNCHANGED vars
    BY <2>1, <2>2 DEF vars
  <2>3. ASSUME NEW page \in Routes, Navigate(page) PROVE ReportsInv'
    <3>1. ver' = VersionFresh
      BY <2>3, MountIs
    <3>2. ver'.info.is = "nothing"
      BY <3>1 DEF VersionFresh, NoInfo
    <3>3. Job(ops, "list")' = {}
      BY <2>3, JobMounts
    <3>4. Awaited("create")' = {} /\ Awaited("delete")' = {}
      BY <3>3 DEF Job, Awaited
    <3>. QED  BY <3>2, <3>4 DEF ReportsInv, Shown, Created, Batches
  <2>4. CASE Acts
    <3>1. CASE ClockActs /\ OnlyClock
      BY <2>1, <3>1, ClockLeaves DEF OnlyClock
    <3>2. CASE MigrationsActs /\ OnlyMigrations
      BY <2>1, <3>2, MigrationsLeave DEF OnlyMigrations
    <3>. QED  BY <2>4, <3>1, <3>2, VersionActsReports DEF Acts
  <2>5. ASSUME NEW i \in Slot, Proceeds(i) PROVE ReportsInv'
    <3>1. CASE ClockServes(i) /\ OnlyClock
      BY <2>1, <3>1, ClockLeaves DEF OnlyClock
    <3>2. CASE MigrationsServes(i) /\ OnlyMigrations
      BY <2>1, <3>2, MigrationsLeave DEF OnlyMigrations
    <3>3. CASE (Lose(i) \/ LoseContact(i)) /\ UNCHANGED version
      BY <2>1, <3>3, LossFades
    <3>. QED  BY <2>5, <3>1, <3>2, <3>3, VersionServesReports DEF Proceeds
  <2>6. ASSUME NEW i \in Slot, Handled(i) PROVE ReportsInv'
    <3>1. CASE ClockReturns(i) /\ OnlyClock
      BY <2>1, <3>1, ClockLeaves DEF OnlyClock
    <3>2. CASE MigrationsReturns(i) /\ OnlyMigrations
      BY <2>1, <3>2, MigrationsLeave DEF OnlyMigrations
    <3>. QED  BY <2>6, <3>1, <3>2, VersionReturnsReports DEF Handled
  <2>. QED  BY <2>2, <2>3, <2>4, <2>5, <2>6 DEF Next
<1>3. ReportsInv => ReportsAreTrue
  BY DEF ReportsInv, Shown, Gone, Known, IdxOf, ReportsAreTrue
<1>. QED  BY VersionInvariance, <1>1, <1>2, <1>3, PTL DEF Spec
=============================================================================
