-------------------------- MODULE UserLock_proofs --------------------------
(***************************************************************************)
(* Proofs about the user lock for any set of requests and any bounds.      *)
(***************************************************************************)
EXTENDS UserLock, TLAPS

\* The inductive invariant: LockInv strengthens exclusion enough for Tick to
\* preserve it, and TypeOK makes its arithmetic meaningful.
IInv == TypeOK /\ LockInv

\* The initial state, in which no token is stored, satisfies the invariant.
LEMMA InitIInv == Init => IInv
BY BoundsAssumption, NoTokenAssumption
DEF Init, IInv, TypeOK, PC, LockInv, KeyHasTTL, LeaseTracksHolder, AttemptsLeft,
    Timed

\* The steps of Acquire keep the invariant.  SetNX is the only one that stores
\* a token, and it starts the lease and the request's age together.
LEMMA AcquireKeepsIInv ==
    ASSUME IInv, NEW r \in Request,
           \/ Call(r) \/ SetNX(r) \/ Refused(r) \/ AcquireFails(r)
           \/ ReplyArrives(r) \/ ReplyLost(r)
    PROVE  IInv'
<1> USE BoundsAssumption, NoTokenAssumption
    DEF IInv, TypeOK, PC, LockInv, KeyHasTTL, LeaseTracksHolder, AttemptsLeft,
        Timed
<1>1. CASE Call(r)
  BY <1>1 DEF Call
<1>2. CASE SetNX(r)
  <2>1. TypeOK' /\ KeyHasTTL' /\ AttemptsLeft'
    BY <1>2 DEF SetNX
  <2>2. LeaseTracksHolder'
    BY <1>2 DEF SetNX
  <2>. QED  BY <2>1, <2>2
<1>3. CASE Refused(r)
  BY <1>3 DEF Refused, UseAttempt
<1>4. CASE AcquireFails(r)
  BY <1>4 DEF AcquireFails
<1>5. CASE ReplyArrives(r)
  BY <1>5 DEF ReplyArrives
<1>6. CASE ReplyLost(r)
  BY <1>6 DEF ReplyLost, UseAttempt
<1>. QED  BY <1>1, <1>2, <1>3, <1>4, <1>5, <1>6

\* The steps from Leave on keep the invariant: Release deletes a token only
\* together with the critical section it protected.
LEMMA ReleaseKeepsIInv ==
    ASSUME IInv, NEW r \in Request,
           Leave(r) \/ Release(r) \/ ReleaseFails(r) \/ Crash(r)
    PROVE  IInv'
<1> USE BoundsAssumption, NoTokenAssumption
    DEF IInv, TypeOK, PC, LockInv, KeyHasTTL, LeaseTracksHolder, AttemptsLeft,
        Timed
<1>1. CASE Leave(r)
  BY <1>1 DEF Leave
<1>2. CASE Release(r)
  BY <1>2 DEF Release
<1>3. CASE ReleaseFails(r)
  BY <1>3 DEF ReleaseFails
<1>4. CASE Crash(r)
  BY <1>4 DEF Crash
<1>. QED  BY <1>1, <1>2, <1>3, <1>4

\* A tick keeps the invariant: it takes from the key's life what it adds to the
\* age of its owner.
LEMMA TickKeepsIInv ==
    ASSUME IInv, Tick
    PROVE  IInv'
<1> USE BoundsAssumption, NoTokenAssumption
    DEF IInv, TypeOK, PC, LockInv, Tick, Timed
<1>1. TypeOK'
  OBVIOUS
<1>2. KeyHasTTL'
  BY DEF KeyHasTTL
<1>3. LeaseTracksHolder'
  BY DEF LeaseTracksHolder, KeyHasTTL
<1>4. AttemptsLeft'
  BY DEF AttemptsLeft
<1>. QED  BY <1>1, <1>2, <1>3, <1>4

\* The invariant is inductive.
LEMMA NextKeepsIInv == IInv /\ [Next]_vars => IInv'
<1> SUFFICES ASSUME IInv, [Next]_vars PROVE IInv'
  OBVIOUS
<1>1. CASE Tick
  BY <1>1, TickKeepsIInv
<1>2. ASSUME NEW r \in Request,
             Call(r) \/ AcquireFails(r) \/ Progress(r) \/ Crash(r)
      PROVE  IInv'
  BY <1>2, AcquireKeepsIInv, ReleaseKeepsIInv DEF Progress
<1>3. CASE UNCHANGED vars
  BY <1>3
  DEF vars, IInv, TypeOK, LockInv, KeyHasTTL, LeaseTracksHolder, AttemptsLeft,
      Timed
<1>. QED  BY <1>1, <1>2, <1>3 DEF Next

\* The invariant holds throughout every behaviour of the lock.
THEOREM Invariance == Spec => []IInv
<1>1. QED  BY InitIInv, NextKeepsIInv, PTL DEF Spec

\* Type correctness.
THEOREM TypeCorrect == Spec => []TypeOK
<1>1. IInv => TypeOK
  BY DEF IInv
<1>. QED  BY <1>1, Invariance, PTL

\* The lease of a request between its SET and its Release is accounted for
\* exactly: user_lock.go sets the TTL in the command that stores the token.
THEOREM LeaseAccounting == Spec => []LockInv
<1>1. IInv => LockInv
  BY DEF IInv
<1>. QED  BY <1>1, Invariance, PTL

\* If no request stays between its SET and its Release for as long as the TTL,
\* the requests of one user are serialised (user_lock.go:14-15).
THEOREM Exclusion == HoldBound < TTL => (Spec => []SerialisesRequests)
<1> SUFFICES ASSUME HoldBound < TTL PROVE Spec => []SerialisesRequests
  OBVIOUS
<1>1. IInv => SerialisesRequests
  BY BoundsAssumption
  DEF IInv, TypeOK, LockInv, LeaseTracksHolder, Timed, SerialisesRequests
<1>. QED  BY <1>1, Invariance, PTL

\* Whatever the bounds, two requests are inside together only when one of them
\* has outlived its TTL (user_lock.go:22).
THEOREM ExclusionWithinTTL == Spec => []SerialisesWithinTTL
<1>1. IInv => SerialisesWithinTTL
  BY DEF IInv, TypeOK, LockInv, LeaseTracksHolder, Timed, SerialisesWithinTTL
<1>. QED  BY <1>1, Invariance, PTL

\* A stored token belongs to a request that will still release it, or to one
\* that met a fault.
Owned ==
    \A r \in Request :
        key = r => pc[r] \in {"granted", "held", "releasing"} \/ r \in disturbed

LEMMA NextKeepsOwned == TypeOK /\ Owned /\ [Next]_vars => Owned'
<1> SUFFICES ASSUME TypeOK, Owned, [Next]_vars,
                    NEW s \in Request, key' = s,
                    pc'[s] \notin {"granted", "held", "releasing"}
             PROVE  s \in disturbed'
  BY DEF Owned
<1> USE NoTokenAssumption DEF TypeOK, Owned
<1>1. ASSUME NEW r \in Request, Call(r) \/ AcquireFails(r) \/ Refused(r)
      PROVE  s \in disturbed'
  BY <1>1 DEF Call, AcquireFails, Refused, UseAttempt
<1>2. ASSUME NEW r \in Request, SetNX(r) \/ ReplyArrives(r)
      PROVE  s \in disturbed'
  BY <1>2 DEF SetNX, ReplyArrives
<1>3. ASSUME NEW r \in Request, ReplyLost(r) \/ Crash(r) \/ ReleaseFails(r)
      PROVE  s \in disturbed'
  BY <1>3 DEF ReplyLost, UseAttempt, Crash, ReleaseFails
<1>4. ASSUME NEW r \in Request, Leave(r) \/ Release(r)
      PROVE  s \in disturbed'
  BY <1>4 DEF Leave, Release
<1>5. CASE Tick
  BY <1>5 DEF Tick
<1>6. CASE UNCHANGED vars
  BY <1>6 DEF vars
<1>. QED  BY <1>1, <1>2, <1>3, <1>4, <1>5, <1>6 DEF Next, Progress

\* A request that is over has left its token behind only after a lost reply, a
\* lost release or a crash: no other way out of dispatch skips Release.
THEOREM Orphans == Spec => []OrphanOnlyAfterFault
<1>1. Init => Owned
  BY NoTokenAssumption DEF Init, Owned
<1>2. TypeOK /\ Owned /\ [Next]_vars => Owned'
  BY NextKeepsOwned
<1>3. Owned => OrphanOnlyAfterFault
  BY DEF Owned, OrphanOnlyAfterFault
<1>. QED  BY <1>1, <1>2, <1>3, TypeCorrect, PTL DEF Spec

-----------------------------------------------------------------------------
\* A stored token goes away only with its life or by its owner's Release
\* (user_lock.go:81), whatever the bounds and faults.
THEOREM TokenSafety == Spec => OnlyOwnerReleases
<1> DEFINE A == \A r \in Request :
                   key = r /\ key' # r =>
                       \/ ttl = 1
                       \/ pc[r] = "releasing" /\ pc'[r] = "done"
<1>1. IInv /\ [Next]_vars => [A]_vars
  <2> SUFFICES ASSUME IInv, Next PROVE A
    OBVIOUS
  <2> SUFFICES ASSUME NEW s \in Request, key = s, key' # s, ttl # 1
               PROVE  pc[s] = "releasing" /\ pc'[s] = "done"
    OBVIOUS
  <2> USE NoTokenAssumption, BoundsAssumption DEF IInv, TypeOK
  <2>1. CASE Tick
    BY <2>1 DEF Tick, LockInv, KeyHasTTL
  <2>2. ASSUME NEW r \in Request, Release(r)
        PROVE  pc[s] = "releasing" /\ pc'[s] = "done"
    BY <2>2 DEF Release
  <2>3. ASSUME NEW r \in Request,
               \/ Call(r) \/ AcquireFails(r) \/ Crash(r) \/ SetNX(r)
               \/ Refused(r) \/ ReplyArrives(r) \/ ReplyLost(r)
               \/ Leave(r) \/ ReleaseFails(r)
        PROVE  FALSE
    BY <2>3 DEF Call, AcquireFails, Crash, SetNX, Refused, ReplyArrives,
                ReplyLost, Leave, ReleaseFails
  <2>. QED  BY <2>1, <2>2, <2>3 DEF Next, Progress
<1>2. QED  BY <1>1, Invariance, PTL DEF Spec, OnlyOwnerReleases

-----------------------------------------------------------------------------
(* The lock implements UserLease *)

\* An unused lock is an unused lease.
LEMMA LeaseInitMaps == Init => Lease!LeaseInit
BY DEF Init, Lease!LeaseInit, LeasePhase, LeaseLapsed

\* A step that moves no request into or out of the critical section and stores
\* or deletes no holder's token is a stutter of the lease.
LEMMA LeaseStutters ==
    ASSUME IInv, NEW r \in Request,
           Call(r) \/ SetNX(r) \/ Release(r) \/ ReleaseFails(r)
    PROVE  LeasePhase' = LeasePhase /\ LeaseLapsed' = LeaseLapsed
<1> USE NoTokenAssumption, BoundsAssumption DEF IInv, TypeOK, PC
<1>1. LeasePhase' = LeasePhase
  BY DEF LeasePhase, Call, SetNX, Release, ReleaseFails
<1>2. LeaseLapsed' = LeaseLapsed
  BY DEF LeaseLapsed, Call, SetNX, Release, ReleaseFails
<1>. QED  BY <1>1, <1>2

\* So is an attempt that is refused, or that the client repeats, before the last.
LEMMA LeaseRetries ==
    ASSUME IInv, NEW r \in Request, Refused(r) \/ ReplyLost(r),
           pc'[r] = "trying"
    PROVE  LeasePhase' = LeasePhase /\ LeaseLapsed' = LeaseLapsed
<1> USE NoTokenAssumption, BoundsAssumption DEF IInv, TypeOK, PC
<1>1. LeasePhase' = LeasePhase
  BY DEF LeasePhase, Refused, ReplyLost, UseAttempt
<1>2. LeaseLapsed' = LeaseLapsed
  BY DEF LeaseLapsed, Refused, ReplyLost, UseAttempt
<1>. QED  BY <1>1, <1>2

\* Acquire returns an error: the request gives up, whatever is stored.
LEMMA LeaseGiveUp ==
    ASSUME IInv, NEW r \in Request,
           AcquireFails(r) \/ Refused(r) \/ ReplyLost(r),
           pc'[r] = "failed"
    PROVE  Lease!GiveUp(r)
<1> USE NoTokenAssumption, BoundsAssumption DEF IInv, TypeOK, PC
<1>1. LeasePhase[r] = "out"
  BY DEF LeasePhase, AcquireFails, Refused, ReplyLost
<1>2. pc' = [pc EXCEPT ![r] = "failed"] /\ age' = age
  BY DEF AcquireFails, Refused, ReplyLost, UseAttempt
<1>3. LeasePhase' = [LeasePhase EXCEPT ![r] = "left"]
  BY <1>2 DEF LeasePhase
<1>4. LeaseLapsed' = LeaseLapsed
  BY <1>1, <1>2 DEF LeaseLapsed, LeasePhase
<1>. QED  BY <1>1, <1>3, <1>4 DEF Lease!GiveUp

\* Acquire returns a token.  If that took less than the TTL, the token is still
\* stored and every other holder has lost its own.
LEMMA LeaseEnter ==
    ASSUME IInv, NEW r \in Request, ReplyArrives(r)
    PROVE  Lease!Enter(r) \/ Lease!EnterLate(r)
<1> USE NoTokenAssumption, BoundsAssumption DEF IInv, TypeOK, PC
<1>1. LeasePhase[r] = "out" /\ LeasePhase' = [LeasePhase EXCEPT ![r] = "in"]
  BY DEF LeasePhase, ReplyArrives
<1>2. CASE age[r] < TTL
  <2>0. key = r
    BY <1>2 DEF LockInv, LeaseTracksHolder, Timed, ReplyArrives
  <2>1. Lease!Inside \subseteq LeaseLapsed
    BY <2>0 DEF Lease!Inside, LeasePhase, LeaseLapsed, LockInv, LeaseTracksHolder,
           Timed, ReplyArrives
  <2>2. LeaseLapsed' = LeaseLapsed
    BY <1>2 DEF LeaseLapsed, ReplyArrives
  <2>. QED  BY <1>1, <2>1, <2>2 DEF Lease!Enter
<1>3. CASE age[r] >= TTL
  <2>1. HoldBound >= TTL
    BY <1>3
  <2>2. LeaseLapsed' = LeaseLapsed \cup {r}
    BY <1>3 DEF LeaseLapsed, ReplyArrives
  <2>. QED  BY <1>1, <2>1, <2>2 DEF Lease!EnterLate
<1>. QED  BY <1>2, <1>3

\* Whoever leaves the lock leaves the lease.
LEMMA LeaseLeave ==
    ASSUME IInv, NEW r \in Request, Leave(r) \/ Crash(r)
    PROVE  Lease!Leave(r)
<1> USE NoTokenAssumption DEF IInv, TypeOK, PC
<1>1. LeasePhase[r] = "in" /\ LeasePhase' = [LeasePhase EXCEPT ![r] = "left"]
  BY DEF LeasePhase, Leave, Crash
<1>2. LeaseLapsed' = LeaseLapsed \ {r}
  BY DEF LeaseLapsed, Leave, Crash
<1>. QED  BY <1>1, <1>2 DEF Lease!Leave

\* A tick with which a holder has used up a whole TTL is that holder's lapse, and no
\* other's, because only one of them had its token stored; every other tick is a
\* stutter.
LEMMA LeaseTick ==
    ASSUME IInv, Tick
    PROVE  (\E r \in Request : Lease!Lapse(r)) \/ UNCHANGED Lease!leaseVars
<1> USE NoTokenAssumption, BoundsAssumption DEF IInv, TypeOK, PC
<1>1. LeasePhase' = LeasePhase
  BY DEF LeasePhase, Tick
<1>. DEFINE Ends(r) == pc[r] = "held" /\ age[r] + 1 = TTL
<1>2. CASE \E r \in Request : Ends(r)
  <2>1. PICK r \in Request : Ends(r)
    BY <1>2
  <2>2. r \in Timed /\ age[r] < HoldBound
    BY <2>1 DEF Timed, Tick
  <2>3. HoldBound >= TTL
    BY <2>1, <2>2
  <2>4. \A s \in Request \ {r} : pc[s] = "held" => age[s] >= TTL
    BY <2>1 DEF LockInv, LeaseTracksHolder, Timed
  <2>5. LeaseLapsed' = LeaseLapsed \cup {r}
    BY <2>1, <2>4 DEF LeaseLapsed, Tick, Timed
  <2>6. r \in Lease!Inside \ LeaseLapsed
    BY <2>1 DEF Lease!Inside, LeasePhase, LeaseLapsed
  <2>7. Lease!Lapse(r)
    BY <1>1, <2>3, <2>5, <2>6 DEF Lease!Lapse
  <2>. QED  BY <2>7
<1>3. CASE ~ \E r \in Request : Ends(r)
  <2>1. LeaseLapsed' = LeaseLapsed
    BY <1>3 DEF LeaseLapsed, Tick, Timed
  <2>. QED  BY <1>1, <2>1 DEF Lease!leaseVars
<1>. QED  BY <1>2, <1>3

\* Every step of the lock is a step of the lease or leaves it alone.
LEMMA LeaseStepMaps ==
    IInv /\ [Next]_vars => [Lease!LeaseNext]_(Lease!leaseVars)
<1> SUFFICES ASSUME IInv, [Next]_vars
             PROVE  Lease!LeaseNext \/ UNCHANGED Lease!leaseVars
  OBVIOUS
<1>1. CASE UNCHANGED vars
  BY <1>1 DEF vars, Lease!leaseVars, LeasePhase, LeaseLapsed
<1>2. CASE Tick
  BY <1>2, LeaseTick DEF Lease!LeaseNext
<1>3. ASSUME NEW r \in Request,
             Call(r) \/ AcquireFails(r) \/ Progress(r) \/ Crash(r)
      PROVE  Lease!LeaseNext \/ UNCHANGED Lease!leaseVars
  <2>1. CASE Call(r) \/ SetNX(r) \/ Release(r) \/ ReleaseFails(r)
    <3>1. LeasePhase' = LeasePhase /\ LeaseLapsed' = LeaseLapsed
      BY <2>1, LeaseStutters
    <3>. QED  BY <3>1 DEF Lease!leaseVars
  <2>2. CASE ReplyArrives(r)
    BY <2>2, LeaseEnter DEF Lease!LeaseNext
  <2>3. CASE AcquireFails(r)
    <3>1. pc'[r] = "failed"
      BY <2>3 DEF AcquireFails, IInv, TypeOK
    <3>. QED  BY <2>3, <3>1, LeaseGiveUp DEF Lease!LeaseNext
  <2>4. CASE Leave(r) \/ Crash(r)
    BY <2>4, LeaseLeave DEF Lease!LeaseNext
  <2>5. CASE Refused(r) \/ ReplyLost(r)
    <3>1. pc'[r] = "failed" \/ pc'[r] = "trying"
      BY <2>5 DEF Refused, ReplyLost, UseAttempt, IInv, TypeOK
    <3>2. CASE pc'[r] = "failed"
      BY <2>5, <3>2, LeaseGiveUp DEF Lease!LeaseNext
    <3>3. CASE pc'[r] = "trying"
      <4>1. LeasePhase' = LeasePhase /\ LeaseLapsed' = LeaseLapsed
        BY <2>5, <3>3, LeaseRetries
      <4>. QED  BY <4>1 DEF Lease!leaseVars
    <3>. QED  BY <3>1, <3>2, <3>3
  <2>. QED  BY <1>3, <2>1, <2>2, <2>3, <2>4, <2>5 DEF Progress
<1>. QED  BY <1>1, <1>2, <1>3 DEF Next

\* The lock implements the lease, with lapses possible exactly when a request
\* may stay inside for a whole TTL.
THEOREM Refinement == Spec => LeaseSpec
<1>1. QED
  BY LeaseInitMaps, LeaseStepMaps, Invariance, PTL
  DEF Spec, LeaseSpec, Lease!LeaseSpec
=============================================================================
