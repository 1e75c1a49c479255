------------------------------ MODULE UserLock ------------------------------
(***************************************************************************)
(* The Redis lock on one user (internal/cache/user_lock.go) as dispatch    *)
(* uses it: a key set with SET NX and a time to live, polled a bounded     *)
(* number of times, and deleted by a script that compares the token.       *)
(* ClubLock (club_lock.go) is the same code on another key.                *)
(*                                                                         *)
(* A token is drawn from 16 random bytes by each call of Acquire, so the   *)
(* request that drew it stands for it.  Redis executes a command and the   *)
(* caller learns its result in two steps, between which the reply may be   *)
(* delayed or lost.  Time advances in ticks: `ttl' is what is left of the  *)
(* key's time to live and age[r] the time since the SET of r took effect.  *)
(***************************************************************************)
EXTENDS Naturals

CONSTANTS
    Request,       \* requests of the user, each calls Acquire once
    NoToken,       \* the key does not exist
    TTL,           \* userLockTTL, in ticks
    MaxRetries,    \* userLockMaxRetries
    HoldBound      \* the longest a request takes from its SET to its Release

ASSUME NoTokenAssumption == NoToken \notin Request
ASSUME BoundsAssumption ==
    /\ TTL \in Nat \ {0}
    /\ MaxRetries \in Nat \ {0}
    /\ HoldBound \in Nat

VARIABLES
    key,        \* the token stored under lock:user:{id}, or NoToken
    ttl,        \* ticks until Redis deletes the key
    pc,         \* where each request is
    tries,      \* attempts left in the loop of Acquire
    age,        \* ticks since the request's SET NX succeeded
    disturbed   \* requests that met a lost reply, an error or a crash

vars == <<key, ttl, pc, tries, age, disturbed>>

PC == {"idle", "trying", "granted", "held", "releasing", "done", "failed"}

TypeOK ==
    /\ key \in Request \cup {NoToken}
    /\ ttl \in 0 .. TTL
    /\ pc \in [Request -> PC]
    /\ tries \in [Request -> 0 .. MaxRetries]
    /\ age \in [Request -> 0 .. HoldBound]
    /\ disturbed \subseteq Request

Init ==
    /\ key = NoToken
    /\ ttl = 0
    /\ pc = [r \in Request |-> "idle"]
    /\ tries = [r \in Request |-> 0]
    /\ age = [r \in Request |-> 0]
    /\ disturbed = {}

\* The requests whose SET took effect and that have not reached Release.
Timed == {r \in Request : pc[r] \in {"granted", "held"}}

-----------------------------------------------------------------------------
(* Acquire *)

\* newToken, then the first turn of the loop.
Call(r) ==
    /\ pc[r] = "idle"
    /\ pc' = [pc EXCEPT ![r] = "trying"]
    /\ tries' = [tries EXCEPT ![r] = MaxRetries]
    /\ UNCHANGED <<key, ttl, age, disturbed>>

\* Mutant of SetNX: a plain SET.
SetOverwriting(r) ==
    /\ pc[r] = "trying"
    /\ key' = r
    /\ ttl' = TTL
    /\ age' = [age EXCEPT ![r] = 0]
    /\ pc' = [pc EXCEPT ![r] = "granted"]
    /\ UNCHANGED <<tries, disturbed>>

\* SET key token NX finds no key.
SetNX(r) ==
    /\ pc[r] = "trying"
    /\ key = NoToken
    /\ key' = r
    /\ ttl' = TTL
    /\ age' = [age EXCEPT ![r] = 0]
    /\ pc' = [pc EXCEPT ![r] = "granted"]
    /\ UNCHANGED <<tries, disturbed>>

\* Mutant of UseAttempt: the loop starts over.
UseAttemptRestarting(r) ==
    /\ tries' = [tries EXCEPT ![r] = IF @ > 1 THEN @ - 1 ELSE MaxRetries]
    /\ pc' = [pc EXCEPT ![r] = "trying"]

\* One attempt is used up; after the last one Acquire returns
\* ErrLockAcquireTimeout.
UseAttempt(r) ==
    /\ tries' = [tries EXCEPT ![r] = tries[r] - 1]
    /\ pc' = [pc EXCEPT ![r] = IF tries[r] > 1 THEN "trying" ELSE "failed"]

\* SET NX answers redis.Nil, and the 50ms sleep ends before the context does.
Refused(r) ==
    /\ pc[r] = "trying"
    /\ key # NoToken
    /\ UseAttempt(r)
    /\ UNCHANGED <<key, ttl, age, disturbed>>

\* The command fails before it reaches Redis, the context ends during the
\* sleep, or newToken fails: Acquire returns the error at once.
AcquireFails(r) ==
    /\ pc[r] \in {"idle", "trying"}
    /\ pc' = [pc EXCEPT ![r] = "failed"]
    /\ UNCHANGED <<key, ttl, tries, age, disturbed>>

\* The reply to a successful SET arrives: Acquire returns the token.
ReplyArrives(r) ==
    /\ pc[r] = "granted"
    /\ pc' = [pc EXCEPT ![r] = "held"]
    /\ UNCHANGED <<key, ttl, tries, age, disturbed>>

\* The reply is lost.  Acquire sees an error that is not redis.Nil and returns,
\* or the Redis client repeats the command first: the repeat meets whatever key
\* is there, the request's own token included.
ReplyLost(r) ==
    /\ pc[r] = "granted"
    /\ disturbed' = disturbed \cup {r}
    /\ \/ pc' = [pc EXCEPT ![r] = "failed"] /\ UNCHANGED tries
       \/ UseAttempt(r)
    /\ UNCHANGED <<key, ttl, age>>

-----------------------------------------------------------------------------
(* The critical section and Release *)

\* Mutant of Leave: a path out of dispatch without the deferred Release.
LeaveWithoutRelease(r) ==
    /\ pc[r] = "held"
    /\ pc' = [pc EXCEPT ![r] = "done"]
    /\ UNCHANGED <<key, ttl, tries, age, disturbed>>

\* dispatch returns, by whatever path, and runs the deferred Release.
Leave(r) ==
    /\ pc[r] = "held"
    /\ pc' = [pc EXCEPT ![r] = "releasing"]
    /\ UNCHANGED <<key, ttl, tries, age, disturbed>>

\* Mutant of Release: DEL without comparing the token.
ReleaseAnyToken(r) ==
    /\ pc[r] = "releasing"
    /\ pc' = [pc EXCEPT ![r] = "done"]
    /\ key' = NoToken /\ ttl' = 0
    /\ UNCHANGED <<tries, age, disturbed>>

\* releaseScript: compare the token, then delete, in one step of Redis.
Release(r) ==
    /\ pc[r] = "releasing"
    /\ pc' = [pc EXCEPT ![r] = "done"]
    /\ IF key = r
         THEN key' = NoToken /\ ttl' = 0
         ELSE UNCHANGED <<key, ttl>>
    /\ UNCHANGED <<tries, age, disturbed>>

\* The script never runs: the request's context, which Release is given, was
\* cancelled by the client, or Redis cannot be reached.  The error is ignored.
ReleaseFails(r) ==
    /\ pc[r] = "releasing"
    /\ pc' = [pc EXCEPT ![r] = "done"]
    /\ disturbed' = disturbed \cup {r}
    /\ UNCHANGED <<key, ttl, tries, age>>

\* The server dies in the critical section.
Crash(r) ==
    /\ pc[r] = "held"
    /\ pc' = [pc EXCEPT ![r] = "failed"]
    /\ disturbed' = disturbed \cup {r}
    /\ UNCHANGED <<key, ttl, tries, age>>

-----------------------------------------------------------------------------
(* Time *)

\* One tick passes.  Redis deletes the key with the last tick of its TTL.
Tick ==
    /\ ttl > 0 \/ Timed # {}
    /\ \A r \in Timed : age[r] < HoldBound
    /\ age' = [r \in Request |-> IF r \in Timed THEN age[r] + 1 ELSE age[r]]
    /\ ttl' = IF ttl > 0 THEN ttl - 1 ELSE 0
    /\ key' = IF ttl > 1 THEN key ELSE NoToken
    /\ UNCHANGED <<pc, tries, disturbed>>

-----------------------------------------------------------------------------
\* A step of the request itself that is neither its start nor a crash.
Progress(r) ==
    \/ SetNX(r) \/ Refused(r) \/ ReplyArrives(r) \/ ReplyLost(r)
    \/ Leave(r) \/ Release(r) \/ ReleaseFails(r)

Next ==
    \/ \E r \in Request : Call(r) \/ AcquireFails(r) \/ Progress(r) \/ Crash(r)
    \/ Tick

Spec == Init /\ [][Next]_vars

\* The loop of Acquire and dispatch run on their own goroutine and take their
\* next step unless the process dies; Redis expires keys.
Fairness == WF_vars(Tick) /\ \A r \in Request : WF_vars(Progress(r))

FairSpec == Spec /\ Fairness

-----------------------------------------------------------------------------
(* Properties *)

\* user_lock.go:14-15: concurrent requests of one user are serialised.  Two
\* requests are never both between Acquire and Release.
SerialisesRequests ==
    \A r, s \in Request : pc[r] = "held" /\ pc[s] = "held" => r = s

\* user_lock.go:14-15,22: what is left of it for requests that may be slow.  When
\* two are inside together, one of them has outlived its TTL.
SerialisesWithinTTL ==
    \A r, s \in Request :
        pc[r] = "held" /\ pc[s] = "held" /\ r # s => age[r] >= TTL \/ age[s] >= TTL

\* The key and its time to live exist together.
KeyHasTTL == (key = NoToken) <=> (ttl = 0)

\* The lease of a request that is inside runs with the request: either its
\* token is still stored and the key's remaining life is TTL minus the time
\* the request has used, or the request has used up a whole TTL.
LeaseTracksHolder ==
    \A r \in Timed :
        \/ key = r /\ ttl + age[r] = TTL
        \/ key # r /\ age[r] >= TTL

\* A request that asks Redis still has an attempt to spend.
AttemptsLeft ==
    \A r \in Request : pc[r] \in {"trying", "granted"} => tries[r] > 0

\* What the lock keeps true at every step, and what exclusion rests on.
LockInv == KeyHasTTL /\ LeaseTracksHolder /\ AttemptsLeft

\* user_lock.go:81: nobody releases a lock that is not his.  A stored token
\* goes away only with the end of its life or by the Release of its owner.
OnlyOwnerReleases ==
    [][\A r \in Request :
          key = r /\ key' # r =>
              \/ ttl = 1
              \/ pc[r] = "releasing" /\ pc'[r] = "done"]_vars

\* Every way out of dispatch releases: a request that is over has left its
\* token behind only if a reply, a release or the process was lost.
OrphanOnlyAfterFault ==
    \A r \in Request : key = r /\ pc[r] \in {"done", "failed"} => r \in disturbed

\* user_lock.go:47: Acquire retries for a bounded time.  Every call returns,
\* even when the token in the way is an orphan.
AcquireReturns ==
    \A r \in Request : pc[r] = "trying" ~> pc[r] \in {"held", "failed"}

-----------------------------------------------------------------------------
(* The abstract lease that this lock implements *)

LeasePhase ==
    [r \in Request |->
        IF pc[r] = "held" THEN "in"
        ELSE IF pc[r] \in {"idle", "trying", "granted"} THEN "out" ELSE "left"]

\* A lease runs for the first TTL ticks.
LeaseLapsed == {r \in Request : pc[r] = "held" /\ age[r] >= TTL}

Lease == INSTANCE UserLease
            WITH phase <- LeasePhase, lapsed <- LeaseLapsed,
                 MayLapse <- (HoldBound >= TTL)

LeaseSpec == Lease!LeaseSpec
=============================================================================
