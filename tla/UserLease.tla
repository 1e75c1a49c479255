----------------------------- MODULE UserLease -----------------------------
(***************************************************************************)
(* What the per-user lock promises to the requests that use it, with Redis *)
(* abstracted away.  A request is outside, inside its critical section, or *)
(* has left it.  The lock is a lease: it excludes others only while the    *)
(* lease runs, so a request that is still inside when its lease runs out   *)
(* becomes "lapsed" and no longer keeps anybody out.                       *)
(***************************************************************************)
EXTENDS FiniteSets

CONSTANTS
    Request,    \* requests of one user, on any server
    MayLapse    \* TRUE when a request may stay inside for longer than a lease

ASSUME MayLapseAssumption == MayLapse \in BOOLEAN

VARIABLES
    phase,      \* phase[r] \in {"out", "in", "left"}
    lapsed      \* the requests inside whose lease has run out

leaseVars == <<phase, lapsed>>

LeaseTypeOK ==
    /\ phase \in [Request -> {"out", "in", "left"}]
    /\ lapsed \subseteq Request

LeaseInit ==
    /\ phase = [r \in Request |-> "out"]
    /\ lapsed = {}

Inside == {r \in Request : phase[r] = "in"}

\* Acquire returns a token and the lease behind it is running.
Enter(r) ==
    /\ phase[r] = "out"
    /\ Inside \subseteq lapsed
    /\ phase' = [phase EXCEPT ![r] = "in"]
    /\ UNCHANGED lapsed

\* Acquire returns a token so late that its lease has run out already.
EnterLate(r) ==
    /\ MayLapse
    /\ phase[r] = "out"
    /\ phase' = [phase EXCEPT ![r] = "in"]
    /\ lapsed' = lapsed \cup {r}

\* Acquire returns an error: the request never enters.
GiveUp(r) ==
    /\ phase[r] = "out"
    /\ phase' = [phase EXCEPT ![r] = "left"]
    /\ UNCHANGED lapsed

\* The lease of a request runs out while it is inside.
Lapse(r) ==
    /\ MayLapse
    /\ r \in Inside \ lapsed
    /\ lapsed' = lapsed \cup {r}
    /\ UNCHANGED phase

Leave(r) ==
    /\ phase[r] = "in"
    /\ phase' = [phase EXCEPT ![r] = "left"]
    /\ lapsed' = lapsed \ {r}

LeaseNext ==
    \E r \in Request :
        Enter(r) \/ EnterLate(r) \/ GiveUp(r) \/ Lapse(r) \/ Leave(r)

LeaseSpec == LeaseInit /\ [][LeaseNext]_leaseVars
=============================================================================
