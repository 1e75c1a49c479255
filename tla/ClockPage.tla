------------------------------ MODULE ClockPage ------------------------------
(***************************************************************************)
(* The admin page of the logical clock (web/admin/src/pages/ClockPage.tsx) *)
(* and the handlers it calls on the server it is served by                 *)
(* (registerClockAdmin in router/admin.go).  ResourceSync has the other    *)
(* servers and their starts; here the jumps of several operators overlap.  *)
(* The lines that show a result or an error are left out.                  *)
(***************************************************************************)
EXTENDS AdminApi, Integers

CONSTANTS
    Preset,         \* PRESETS, the relative ones
    Typed,          \* what may be typed for add_second
    Target,         \* the times that may be picked, in seconds
    BrowserAhead,   \* how far the browser's clock is ahead of the server's, in milliseconds
    Pauses,         \* the milliseconds that may pass at once
    MaxJumps,       \* bound on the jumps the server makes
    MaxTime         \* bound on the time

ASSUME ClockAssumption ==
    /\ Preset \cup Typed \cup Target \subseteq Int
    /\ BrowserAhead \in Int /\ Pauses \subseteq Nat
    /\ MaxJumps \in Nat /\ MaxTime \in Nat

VARIABLES
    now,            \* time.Now() of the server, in milliseconds
    offset,         \* clock.offsetNs of the server, in seconds
    stored,         \* add_second of the last row of TB_ADD_SERVER_TIME, 0 without one
    jumps,          \* number of SetOffsets
    raced,          \* two jumps overlapped, or one left a row and no offset (history)
    clk             \* the state of the page

NoTarget == [is |-> "nothing"]
NoReading == [is |-> "nothing"]

\* picked: the target with the seconds computed from it, and whether that was from a reading
\* (history); due and sure as on the version page (history).
ClockFresh ==
    [info |-> NoReading, picked |-> NoTarget, busy |-> FALSE, due |-> 0, sure |-> TRUE]

ClockInit ==
    /\ now = 0 /\ offset = 0 /\ stored = 0 /\ jumps = 0 /\ raced = FALSE
    /\ clk = ClockFresh

server == <<offset, stored, jumps, raced>>

\* Jumps that the bound counts.
Jumping == Cardinality({i \in Slot : calls[i].op = "jump" /\ calls[i].reply \in {NotYet, Inserted}})

-----------------------------------------------------------------------------
(* The handlers of the server *)

\* real_time is formatted as RFC3339, in whole seconds.
ServeClock(i) ==
    /\ Unserved(i, "clock")
    /\ calls' = Answering(i, [is |-> "clock", offset |-> offset, real |-> now \div 1000,
                              at |-> jumps])
    /\ UNCHANGED server

\* Of two jumps the second row is in before the first has set the offset.
Between == {i \in Slot : calls[i].op = "jump" /\ calls[i].reply = Inserted}

\* AddServerTimeRepository.Create.
InsertRow(i) ==
    /\ Unserved(i, "jump")
    /\ stored' = calls[i].arg.value
    /\ raced' = (Between # {})
    /\ calls' = [calls EXCEPT ![i].reply = Inserted]
    /\ UNCHANGED <<offset, jumps>>

\* It reports an error, although the row may be there.
InsertRowFails(i) ==
    /\ Unserved(i, "jump")
    /\ \/ stored' = calls[i].arg.value /\ raced' = TRUE
       \/ UNCHANGED <<stored, raced>>
    /\ calls' = Answering(i, Failed)
    /\ UNCHANGED <<offset, jumps>>

\* Mutant of SetOffset: the seconds are added to the offset.
SetOffsetAdds(i) ==
    /\ calls[i].op = "jump" /\ calls[i].reply = Inserted
    /\ offset' = offset + calls[i].arg.value
    /\ jumps' = jumps + 1
    /\ calls' = Answering(i, [is |-> "jumped"])
    /\ UNCHANGED <<stored, raced>>

\* clock.SetOffset.
SetOffset(i) ==
    /\ calls[i].op = "jump" /\ calls[i].reply = Inserted
    /\ offset' = calls[i].arg.value
    /\ jumps' = jumps + 1
    /\ calls' = Answering(i, [is |-> "jumped"])
    /\ UNCHANGED <<stored, raced>>

ClockServes(i) ==
    /\ ServeClock(i) \/ InsertRow(i) \/ InsertRowFails(i) \/ SetOffset(i)
    /\ UNCHANGED <<now, clk>>

Tick ==
    /\ \E pause \in Pauses : now' = now + pause
    /\ now' <= MaxTime
    /\ UNCHANGED <<server, clk, calls>>

-----------------------------------------------------------------------------
(* What the operator does *)

OnClockPage == route = "clock"

ClockMount(cs) ==
    /\ clk' = ClockFresh
    /\ calls' = Sending(cs, Request("clock", [ends |-> FALSE, alone |-> TRUE]))

\* The refresh button is there while the page is busy.
ClickReading ==
    /\ OnClockPage /\ HasRoom(1)
    /\ calls' = SendingRead("clock")
    /\ UNCHANGED <<now, server, clk>>

\* Mutant of Reference: the time that the page shows in bold.
ReferenceLogical ==
    IF clk.info = NoReading THEN now + BrowserAhead
    ELSE 1000 * (clk.info.real + clk.info.offset)

\* refMs: real_time as it was read, without a reading Date.now().
Reference ==
    IF clk.info = NoReading THEN now + BrowserAhead ELSE 1000 * clk.info.real

\* Math.round(ms / 1000), which rounds a half up.
Rounded(ms) == (ms + 500) \div 1000

\* onTargetChange.
PickTarget(target) ==
    /\ OnClockPage
    /\ clk' = [clk EXCEPT !.picked = [time |-> target,
                                      add |-> Rounded(1000 * target - Reference),
                                      read |-> clk.info # NoReading]]
    /\ UNCHANGED <<now, server, calls>>

\* The buttons, which are disabled while the page is busy.
ClockIdle == OnClockPage /\ ~clk.busy /\ HasRoom(1) /\ jumps + Jumping < MaxJumps

\* apply, with a user in its field, without one it sends nothing; page is what the
\* fields are by now.
Apply(page, seconds, goal) ==
    /\ clk' = [page EXCEPT !.busy = TRUE]
    /\ calls' = Sending(calls, Request("jump", [value |-> seconds, goal |-> goal]))
    /\ UNCHANGED <<now, server>>

\* onApply, with the seconds computed from the target.
ClickApplyTarget ==
    /\ ClockIdle /\ clk.picked # NoTarget
    /\ Apply(clk, clk.picked.add, clk.picked)

\* onApply, with seconds typed over them: parseInt(addSecond, 10) || 0.
ClickApply(seconds) ==
    /\ ClockIdle
    /\ Apply([clk EXCEPT !.picked = NoTarget], seconds, NoTarget)

\* The offset that a preset adds to: info?.offset_sec ?? 0.
ShownOffset == IF clk.info = NoReading THEN 0 ELSE clk.info.offset

ClickPreset(seconds) == ClockIdle /\ Apply(clk, ShownOffset + seconds, NoTarget)

\* The preset that is absolute.
ClickReset == ClockIdle /\ Apply(clk, 0, NoTarget)

-----------------------------------------------------------------------------
(* The answers *)

ReadingReturns(i) ==
    /\ Returns(i, "clock")
    /\ LET reply == calls[i].reply
           arg == calls[i].arg
           shown == [clk EXCEPT !.info = reply, !.due = IF reply.at >= @ THEN 0 ELSE @,
                                !.sure = arg.alone]
           read == IF reply = Failed THEN [clk EXCEPT !.sure = FALSE]
                   ELSE shown IN
       clk' = IF arg.ends THEN [read EXCEPT !.busy = FALSE] ELSE read
    /\ calls' = Done(i)
    /\ UNCHANGED <<now, server>>

JumpSucceeds(i) ==
    /\ Succeeds(i, "jump")
    /\ clk' = [clk EXCEPT !.due = jumps]
    /\ calls' = ReadingNext(i, "clock")
    /\ UNCHANGED <<now, server>>

JumpThrows(i) ==
    /\ Throws(i, "jump")
    /\ clk' = [clk EXCEPT !.busy = FALSE]
    /\ calls' = Done(i)
    /\ UNCHANGED <<now, server>>

ClockReturns(i) == ReadingReturns(i) \/ JumpSucceeds(i) \/ JumpThrows(i)

-----------------------------------------------------------------------------
\* Another operator's jump.
ClockElsewhere ==
    /\ jumps + Jumping < MaxJumps
    /\ \E seconds \in Typed : FromElsewhere("jump", [value |-> seconds, goal |-> NoTarget])
    /\ UNCHANGED <<now, server, clk>>

ClockActs ==
    \/ ClickReading \/ ClickApplyTarget \/ ClickReset
    \/ \E seconds \in Typed : ClickApply(seconds)
    \/ \E target \in Target : PickTarget(target)
    \/ \E seconds \in Preset : ClickPreset(seconds)
    \/ ClockElsewhere \/ Tick

-----------------------------------------------------------------------------
(* Properties *)

\* The running offset is the one of the last row, which the next start takes (admin.go:
\* 345-348), whenever no jump is between its row and its offset: unless two jumps crossed
\* there, or an insert that reported an error left its row behind.
OffsetIsLastRow == Between = {} /\ ~raced => offset = stored

\* Once a jump of the page is over, the page shows an offset read after it, to which the
\* presets add (ClockPage.tsx:61, 174), unless its readings overlapped or the last failed.
ShowsOwnJump == OnClockPage /\ ~clk.busy /\ clk.sure => clk.due = 0

\* What the page can miss a target by: nothing when it has a reading, which is in whole
\* seconds; else the half second that is rounded off, and what its own clock is ahead.
Leeway(goal) == IF goal.read THEN 0 ELSE 500 + BrowserAhead

\* A target picked on the page is not undershot: when the jump that was computed from it is
\* made, the logical clock is at the target or, by the age of the reading, past it
\* (ClockPage.tsx:25-34).
NeverShortOfTarget ==
    [][\A i \in Slot : SetOffset(i) /\ calls[i].arg.goal # NoTarget
          => now + 1000 * offset' >= 1000 * calls[i].arg.goal.time - Leeway(calls[i].arg.goal)
      ]_<<offset, jumps, calls>>
=============================================================================
