------------------------------ MODULE AdminApi ------------------------------
(***************************************************************************)
(* The requests of the admin client (web/admin/src/api/client.ts): every   *)
(* call of fetch that has not been answered is in a slot of calls.  The    *)
(* server may handle the calls in any order and the answers may arrive in  *)
(* any order.  A call can fail for the client before or after the server   *)
(* has done its work, or while the server still has it to do.              *)
(*                                                                         *)
(* The client is one browser tab, which shows one page at a time.  Other   *)
(* operators are there as calls that no page of this tab waits for.        *)
(***************************************************************************)
EXTENDS Naturals, FiniteSets, Functions

CONSTANTS
    Slot            \* bound on the calls in flight at a time

ASSUME SlotAssumption == IsFiniteSet(Slot) /\ Slot \subseteq Nat

VARIABLES
    route,          \* the page that is mounted
    calls           \* the calls in flight: what is asked, who waits, what came back

NotYet == [is |-> "nothing"]
Failed == [is |-> "failed"]

\* POST /admin/clock/jump: the row is inserted, the offset is not set yet.
Inserted == [is |-> "inserted"]

NoArg == [of |-> "nothing"]
Free == [op |-> "free", arg |-> NoArg, live |-> FALSE, reply |-> NotYet]

\* The requests that change something beside what their page shows.
Writes == {"create", "delete", "jump", "write"}

\* A call of one of the functions of client.ts by the page that is mounted.
Request(op, arg) == [op |-> op, arg |-> arg, live |-> TRUE, reply |-> NotYet]

\* Slots are taken in order.
Unused(cs) == {i \in Slot : cs[i] = Free}
NextSlot(cs) == CHOOSE i \in Unused(cs) : \A j \in Unused(cs) : i <= j
Sending(cs, call) == [cs EXCEPT ![NextSlot(cs)] = call]
HasRoom(n) == Cardinality(Unused(calls)) >= n

Awaited(op) == {i \in Slot : calls[i].op = op /\ calls[i].live}
Unserved(i, op) == calls[i].op = op /\ calls[i].reply = NotYet

\* A read, which ends the job of its page or not.  When another one is in flight neither
\* is alone: the older answer may come last.
Read(op, ends) == Request(op, [ends |-> ends, alone |-> Awaited(op) = {}])
WithCompany(op) == [i \in Slot |-> IF i \in Awaited(op) THEN [calls[i] EXCEPT !.arg.alone = FALSE]
                                   ELSE calls[i]]
SendingRead(op) == Sending(WithCompany(op), Read(op, FALSE))

\* The last thing a job does is to read again.
ReadingNext(i, op) == [WithCompany(op) EXCEPT ![i] = Read(op, TRUE)]

\* The server's answer to a call, which nobody reads when its page is gone.
Answering(i, reply) ==
    [calls EXCEPT ![i] = IF @.live THEN [@ EXCEPT !.reply = reply] ELSE Free]

\* request() returned or threw.
Returns(i, op) ==
    /\ calls[i].op = op /\ calls[i].live
    /\ calls[i].reply \notin {NotYet, Inserted}
Succeeds(i, op) == Returns(i, op) /\ calls[i].reply # Failed
Throws(i, op) == Returns(i, op) /\ calls[i].reply = Failed

\* What a page that is left leaves behind: the server still does its work.
Abandoned ==
    [i \in Slot |->
        IF ~calls[i].live THEN calls[i]
        ELSE IF calls[i].op \in Writes /\ calls[i].reply \in {NotYet, Inserted}
             THEN [calls[i] EXCEPT !.live = FALSE] ELSE Free]

\* Another operator sends a request, which no page of this tab waits for.
Foreign(op, arg) == [Request(op, arg) EXCEPT !.live = FALSE]
FromElsewhere(op, arg) == HasRoom(1) /\ calls' = Sending(calls, Foreign(op, arg))

\* The call fails for the client: it did not reach the server, the server refused it
\* with an error, or its answer was lost.
Lose(i) ==
    /\ calls[i].op # "free" /\ calls[i].reply \notin {Failed, Inserted}
    /\ calls' = Answering(i, Failed)

\* The connection breaks while the server has the call and goes on with it.
LoseContact(i) ==
    /\ calls[i].op \in Writes /\ calls[i].live /\ calls[i].reply \in {NotYet, Inserted}
    /\ HasRoom(1)
    /\ calls' = [Sending(calls, [calls[i] EXCEPT !.live = FALSE]) EXCEPT ![i].reply = Failed]

\* A call is over.
Done(i) == [calls EXCEPT ![i] = Free]
=============================================================================
