-------------------------- MODULE Dispatch_proofs --------------------------
(***************************************************************************)
(* Proofs about concurrent requests of one user, for any set of requests.  *)
(***************************************************************************)
EXTENDS Dispatch, TLAPS

-----------------------------------------------------------------------------
(* Types, and what a store holds at each stage *)

\* Every request has one entity to change.
LEMMA WantedIsEntity == \A r \in Request : Wanted(r) \in Entity
BY DEF Wanted, Entity

\* The initial states are as the invariants want them.
LEMMA InitHolds ==
    Init => TypeOK /\ FaultInv /\ NothingUncommittedIsSeen /\ AnswerTellsOutcome
<1> SUFFICES ASSUME Init
             PROVE  TypeOK /\ FaultInv /\ NothingUncommittedIsSeen /\ AnswerTellsOutcome
  OBVIOUS
<1> USE DEF Init
<1>1. TypeOK
  BY WantedIsEntity DEF LeaseInit, TypeOK, LeaseTypeOK, Stage, Entity, Content
<1>2. Loaded
  BY KindsAssumption DEF Loaded, Wanted, LoginRequests, Entity
<1>3. Answered
  BY KindsAssumption DEF Answered
<1>4. Committed /\ NothingUncommittedIsSeen /\ AnswerTellsOutcome
  BY DEF Committed, NothingUncommittedIsSeen, AnswerTellsOutcome
<1>. QED  BY <1>1, <1>2, <1>3, <1>4 DEF FaultInv

\* Where a request goes after a load is a stage and an entity.
LEMMA OnwardTyped ==
    ASSUME TypeOK, NEW r \in Request, NEW s, Onward(r, s)
    PROVE  stage' \in [Request -> Stage] /\ focus' \in [Request -> Entity]
BY DEF Onward, Go, TypeOK, Stage, Entity

\* A transaction writes rows, because by then the handler's row was loaded.
LEMMA CommitTyped ==
    ASSUME TypeOK, Loaded, NEW r \in Request, CommitTx(r) \/ CommitFails(r)
    PROVE  TypeOK'
<1> USE DEF TypeOK, LeaseTypeOK, leaseVars, data, replies, Go
<1>1. stage[r] = "commit"
  BY DEF CommitTx, CommitFails
<1>2. store[r][Wanted(r)] \in Content
  BY <1>1, WantedIsEntity DEF Loaded
<1>3. db' \in [Entity -> Content] /\ applied' \subseteq Request
  BY <1>2 DEF CommitTx, CommitFails, WriteRow
<1>4. stage' \in [Request -> Stage]
  BY DEF CommitTx, CommitFails, Stage
<1>. QED  BY <1>3, <1>4 DEF CommitTx, CommitFails

\* A request's own steps are type correct.
LEMMA StepTyped ==
    ASSUME TypeOK, Loaded, NEW r \in Request, Step(r)
    PROVE  TypeOK'
<1> USE DEF TypeOK, LeaseTypeOK, leaseVars, data, replies, Go, Tell
<1>1. CASE Admit(r) \/ Refuse(r)
  BY <1>1 DEF Admit, Refuse, Stage
<1>2. CASE Acquire(r) \/ Busy(r)
  BY <1>2 DEF Acquire, Busy, Enter, EnterLate, GiveUp, Stage
<1>3. CASE CacheHit(r)
  BY <1>3, OnwardTyped DEF CacheHit
<1>4. CASE CacheMiss(r)
  BY <1>4 DEF CacheMiss, Stage, Entity
<1>5. CASE ReadRow(r)
  BY <1>5 DEF ReadRow, Stage
<1>6. CASE Fill(r)
  <2>1. cache' \in [Entity -> {Miss} \cup Content]
    BY <1>6 DEF Fill
  <2>. QED  BY <1>6, <2>1, OnwardTyped DEF Fill
<1>7. CASE Handle(r)
  <2>1. CASE r \in Reads
    BY <1>7, <2>1 DEF Handle, Stage
  <2>2. CASE r \notin Reads
    <3>1. store[r][Wanted(r)] \in Content
      BY <1>7, WantedIsEntity DEF Handle, Loaded
    <3>2. store[r][Wanted(r)] \cup {r} \in Content
      BY <3>1 DEF Content
    <3>3. store' \in [Request -> [Entity -> {Miss} \cup Content]]
      <4> DEFINE e == Wanted(r)
                 row == [store[r] EXCEPT ![e] = store[r][e] \cup {r}]
      <4>1. row \in [Entity -> {Miss} \cup Content]
        <5> HIDE DEF e
        <5>. QED  BY <3>2 DEF e
      <4>2. store' = [store EXCEPT ![r] = row]
        BY <1>7, <2>2 DEF Handle
      <4> HIDE DEF row
      <4>. QED  BY <4>1, <4>2
    <3>. QED  BY <1>7, <2>2, <3>3 DEF Handle, Stage
  <2>. QED  BY <2>1, <2>2
<1>8. CASE HandlerFails(r)
  BY <1>8 DEF HandlerFails, Stage
<1>9. CASE Reply(r)
  <2>1. store[r]["cards"] \in {Miss} \cup Content
    BY DEF Entity
  <2>. QED  BY <1>9, <2>1 DEF Reply, Stage
<1>10. CASE Finish(r)
  BY <1>10 DEF Finish, Leave, Stage
<1>11. CASE CommitTx(r) \/ CommitFails(r)
  BY <1>11, CommitTyped
<1>12. CASE Publish(r) \/ PublishFails(r)
  <2>1. cache' \in [Entity -> {Miss} \cup Content]
    BY <1>12 DEF Publish, PublishFails, SetMulti
  <2>. QED  BY <1>12, <2>1 DEF Publish, PublishFails, Stage
<1>13. CASE Invalidate(r) \/ ReplyFails(r)
  BY <1>13 DEF Invalidate, ReplyFails, Stage
<1>. QED
  BY <1>1, <1>2, <1>3, <1>4, <1>5, <1>6, <1>7, <1>8, <1>9, <1>10, <1>11,
     <1>12, <1>13 DEF Step

\* So are the steps of the environment.
LEMMA EnvironmentTyped ==
    ASSUME TypeOK,
           (\E r \in Request : Crash(r) \/ Overrun(r)) \/ CacheExpires
    PROVE  TypeOK'
BY DEF Crash, Overrun, CacheExpires, Leave, Lapse, Inside, TypeOK, LeaseTypeOK,
       leaseVars, data, replies, Go, Stage

\* Every step keeps the stores loaded as far as the requests are.
LEMMA StepKeepsLoaded ==
    ASSUME TypeOK, Loaded, NEW r \in Request, Step(r)
    PROVE  Loaded'
<1> USE DEF TypeOK, Loaded, data, replies, Go, Tell, Entity
<1>1. CASE Admit(r) \/ Refuse(r) \/ Acquire(r) \/ Busy(r)
  BY <1>1 DEF Admit, Refuse, Acquire, Busy
<1>2. CASE CacheHit(r)
  BY <1>2, KindsAssumption DEF CacheHit, Onward, Wanted, LoginRequests, Locked
<1>3. CASE CacheMiss(r) \/ ReadRow(r)
  BY <1>3, MissAssumption DEF CacheMiss, ReadRow, Content
<1>4. CASE Fill(r)
  BY <1>4, KindsAssumption DEF Fill, Onward, Wanted, LoginRequests, Locked
<1>5. CASE Handle(r)
  BY <1>5, MissAssumption, WantedIsEntity DEF Handle, Content, Wanted
<1>6. CASE HandlerFails(r) \/ CommitTx(r) \/ CommitFails(r)
  BY <1>6 DEF HandlerFails, CommitTx, CommitFails
<1>7. CASE Publish(r) \/ PublishFails(r) \/ Invalidate(r)
  BY <1>7 DEF Publish, PublishFails, Invalidate
<1>8. CASE Reply(r) \/ ReplyFails(r) \/ Finish(r)
  BY <1>8 DEF Reply, ReplyFails, Finish
<1>. QED  BY <1>1, <1>2, <1>3, <1>4, <1>5, <1>6, <1>7, <1>8 DEF Step

\* A step of one request leaves the others where they are.
LEMMA StepIsLocal ==
    ASSUME TypeOK, Loaded, NEW r \in Request, Step(r), NEW s \in Request, s # r
    PROVE  stage'[s] = stage[s] /\ store'[s] = store[s] /\ answer'[s] = answer[s]
<1> USE DEF TypeOK, Go, Tell, data, replies
<1>1. CASE Admit(r) \/ Refuse(r) \/ Acquire(r) \/ Busy(r)
  BY <1>1 DEF Admit, Refuse, Acquire, Busy
<1>2. CASE CacheHit(r) \/ CacheMiss(r) \/ ReadRow(r) \/ Fill(r)
  BY <1>2 DEF CacheHit, CacheMiss, ReadRow, Fill, Onward
<1>3. CASE Handle(r) \/ HandlerFails(r) \/ CommitTx(r) \/ CommitFails(r)
  BY <1>3 DEF Handle, HandlerFails, CommitTx, CommitFails
<1>4. CASE Publish(r) \/ PublishFails(r) \/ Invalidate(r) \/ Reply(r)
            \/ ReplyFails(r) \/ Finish(r)
  BY <1>4 DEF Publish, PublishFails, Invalidate, Reply, ReplyFails, Finish
<1>. QED  BY <1>1, <1>2, <1>3, <1>4 DEF Step

\* A committed request stays committed, and a step commits no other request.
LEMMA StepAddsItself ==
    ASSUME NEW r \in Request, Step(r)
    PROVE  \/ applied' = applied
           \/ applied' = applied \cup {r} /\ CommitTx(r)
           \/ applied' = applied \cup {r} /\ CommitFails(r)
<1> USE DEF data, replies
<1>1. CASE CommitTx(r) \/ CommitFails(r)
  BY <1>1 DEF CommitTx, CommitFails, WriteRow
<1>2. CASE ~(CommitTx(r) \/ CommitFails(r))
  BY <1>2 DEF Step, Admit, Refuse, Acquire, Busy, CacheHit, CacheMiss, ReadRow,
     Fill, Handle, HandlerFails, Publish, PublishFails, Invalidate, Reply,
     ReplyFails, Finish
<1>. QED  BY <1>1, <1>2

\* A request's own steps keep its stage in line with its commit and its answer.
LEMMA StepKeepsAnswered ==
    ASSUME TypeOK, Loaded, Answered, NEW r \in Request, Step(r)
    PROVE  Answered'
<1> USE DEF TypeOK, data, replies, Go, Tell
<1>1. \A q \in Reads : q \notin applied' /\ stage'[q] # "commit"
  <2> SUFFICES ASSUME NEW q \in Reads PROVE q \notin applied' /\ stage'[q] # "commit"
    OBVIOUS
  <2>1. q \in Request /\ q \notin applied /\ stage[q] # "commit"
    BY KindsAssumption DEF Answered
  <2>2. q \notin applied'
    <3>1. ~(CommitTx(q) \/ CommitFails(q))
      BY <2>1 DEF CommitTx, CommitFails
    <3>. QED  BY <2>1, <3>1, StepAddsItself
  <2>3. CASE q # r
    BY <2>1, <2>2, <2>3, StepIsLocal
  <2>4. CASE q = r
    BY <2>1, <2>2, <2>4 DEF Step, Admit, Refuse, Acquire, Busy, CacheHit, CacheMiss,
       ReadRow, Fill, Onward, Handle, HandlerFails, CommitTx, CommitFails, Publish,
       PublishFails, Invalidate, Reply, ReplyFails, Finish
  <2>. QED  BY <2>3, <2>4
<1>2. \A q \in applied' :
          stage'[q] \in {"publish", "invalidate", "reply", "leaving", "over"}
  <2> SUFFICES ASSUME NEW q \in applied'
               PROVE  stage'[q] \in {"publish", "invalidate", "reply", "leaving", "over"}
    OBVIOUS
  <2>1. CASE q # r
    <3>1. q \in applied
      BY <2>1, StepAddsItself
    <3>. QED  BY <2>1, <3>1, StepIsLocal DEF Answered
  <2>2. CASE q = r /\ (CommitTx(r) \/ CommitFails(r))
    BY <2>2 DEF CommitTx, CommitFails
  <2>3. CASE q = r /\ ~(CommitTx(r) \/ CommitFails(r))
    <3>1. stage[r] \in {"publish", "invalidate", "reply", "leaving", "over"}
      BY <2>3, StepAddsItself DEF Answered
    <3>. QED  BY <2>3, <3>1 DEF Step, Admit, Refuse, Acquire, Busy, CacheHit,
           CacheMiss, ReadRow, Fill, Handle, HandlerFails, Publish, PublishFails,
           Invalidate, Reply, ReplyFails, Finish
  <2>. QED  BY <2>1, <2>2, <2>3
<1>3. \A q \in Request :
          /\ stage'[q] \notin {"leaving", "over"} => answer'[q] = "none"
          /\ stage'[q] \in {"publish", "reply"} => q \in Reads \cup applied'
  <2>1. applied \subseteq applied'
    BY StepAddsItself
  <2>2. ASSUME NEW q \in Request, q # r
        PROVE  /\ stage'[q] \notin {"leaving", "over"} => answer'[q] = "none"
               /\ stage'[q] \in {"publish", "reply"} => q \in Reads \cup applied'
    BY <2>1, <2>2, StepIsLocal DEF Answered
  <2>3. stage'[r] \notin {"leaving", "over"} => answer'[r] = "none"
    BY DEF Answered, Step, Admit, Refuse, Acquire, Busy, CacheHit, CacheMiss, ReadRow,
       Fill, Onward, Handle, HandlerFails, CommitTx, CommitFails, Publish,
       PublishFails, Invalidate, Reply, ReplyFails, Finish
  <2>4. stage'[r] \in {"publish", "reply"} => r \in Reads \cup applied'
    BY <2>1 DEF Answered, Step, Admit, Refuse, Acquire, Busy, CacheHit, CacheMiss,
       ReadRow, Fill, Onward, Handle, HandlerFails, CommitTx, WriteRow, CommitFails,
       Publish, PublishFails, Invalidate, Reply, ReplyFails, Finish
  <2>. QED  BY <2>2, <2>3, <2>4
<1>. QED  BY <1>1, <1>2, <1>3 DEF Answered

\* No step brings a change into a store, a row or the cache other than its own.
LEMMA StepKeepsCommitted ==
    ASSUME TypeOK, FaultInv, NothingUncommittedIsSeen, NEW r \in Request, Step(r)
    PROVE  Committed' /\ NothingUncommittedIsSeen'
<1> USE DEF TypeOK, FaultInv, data, replies, Go, Tell
<1>1. CASE Admit(r) \/ Refuse(r) \/ Acquire(r) \/ Busy(r)
  BY <1>1 DEF Admit, Refuse, Acquire, Busy, Committed, NothingUncommittedIsSeen
<1>2. CASE CacheHit(r)
  BY <1>2 DEF CacheHit, Onward, Committed, NothingUncommittedIsSeen
<1>3. CASE CacheMiss(r)
  BY <1>3 DEF CacheMiss, Committed, NothingUncommittedIsSeen
<1>4. CASE ReadRow(r)
  BY <1>4 DEF ReadRow, Committed, NothingUncommittedIsSeen
<1>5. CASE Fill(r)
  <2>1. stage[r] = "fill" /\ UNCHANGED <<store, db, applied, shown>>
    BY <1>5 DEF Fill
  <2>2. \A q \in Request : q = r \/ stage'[q] = stage[q]
    BY <1>5 DEF Fill, Onward
  <2>3. Committed'
    <3>1. \A e \in Entity : db'[e] \subseteq applied'
      BY <2>1 DEF Committed
    <3>2. stage'[r] # "commit"
      BY <1>5 DEF Fill, Onward
    <3>. QED  BY <2>1, <2>2, <3>1, <3>2 DEF Committed
  <2>4. \A e \in Entity : cache'[e] \in {cache[e], store[r][e]}
    BY <1>5 DEF Fill
  <2>5. ASSUME NEW e \in Entity, cache'[e] # Miss PROVE cache'[e] \subseteq applied
    BY <2>1, <2>4, <2>5 DEF Committed, NothingUncommittedIsSeen
  <2>. QED  BY <2>1, <2>3, <2>5 DEF NothingUncommittedIsSeen
<1>6. CASE Handle(r) \/ HandlerFails(r)
  BY <1>6, WantedIsEntity DEF Handle, HandlerFails, Loaded, Committed,
     NothingUncommittedIsSeen
<1>7. CASE CommitTx(r) \/ CommitFails(r)
  <2>1. stage[r] = "commit" /\ UNCHANGED <<store, cache, shown>>
        /\ applied \subseteq applied'
    BY <1>7 DEF CommitTx, CommitFails, WriteRow
  <2>2. \A e \in Entity : db'[e] \subseteq applied'
    <3>1. CASE WriteRow(r)
      <4>1. store[r][Wanted(r)] \subseteq applied'
        BY <2>1, <3>1, WantedIsEntity DEF WriteRow, Loaded, Committed
      <4>. QED  BY <2>1, <3>1, <4>1 DEF WriteRow, Committed
    <3>2. CASE UNCHANGED <<db, applied>>
      BY <3>2 DEF Committed
    <3>. QED  BY <1>7, <3>1, <3>2 DEF CommitTx, CommitFails
  <2>3. ASSUME NEW q \in Request, NEW e \in Entity, store[q][e] # Miss,
               stage'[q] \notin {"invalidate", "leaving", "over"}
        PROVE  store[q][e] \subseteq
                   IF stage'[q] = "commit" THEN applied' \cup {q} ELSE applied'
    <3>1. CASE q = r
      <4>1. CommitTx(r)
        BY <1>7, <2>3, <3>1 DEF CommitFails
      <4>. QED  BY <2>1, <2>3, <3>1, <4>1 DEF CommitTx, WriteRow, Committed
    <3>2. CASE q # r
      BY <2>1, <2>3, <3>2, StepIsLocal DEF Committed
    <3>. QED  BY <3>1, <3>2
  <2>. QED  BY <2>1, <2>2, <2>3 DEF Committed, NothingUncommittedIsSeen
<1>8. CASE Publish(r) \/ PublishFails(r)
  <2>1. \A e \in Entity : cache'[e] \in {cache[e], store[r][e]}
    BY <1>8 DEF Publish, PublishFails, SetMulti
  <2>2. \A e \in Entity : store[r][e] # Miss => store[r][e] \subseteq applied
    BY <1>8 DEF Publish, PublishFails, Committed
  <2>3. UNCHANGED <<store, db, applied, shown>>
    BY <1>8 DEF Publish, PublishFails
  <2>4. Committed'
    BY <1>8, <2>3 DEF Publish, PublishFails, Committed
  <2>. QED  BY <2>1, <2>2, <2>3, <2>4 DEF NothingUncommittedIsSeen
<1>9. CASE Invalidate(r)
  BY <1>9 DEF Invalidate, Committed, NothingUncommittedIsSeen
<1>10. CASE Reply(r) \/ ReplyFails(r) \/ Finish(r)
  BY <1>10 DEF Reply, ReplyFails, Finish, Committed, NothingUncommittedIsSeen, Entity
<1>. QED
  BY <1>1, <1>2, <1>3, <1>4, <1>5, <1>6, <1>7, <1>8, <1>9, <1>10 DEF Step

\* An answer is final, and given when its outcome is.
LEMMA StepKeepsAnswers ==
    ASSUME TypeOK, FaultInv, AnswerTellsOutcome, NEW r \in Request, Step(r)
    PROVE  AnswerTellsOutcome'
<1> USE DEF TypeOK, FaultInv, Answered, AnswerTellsOutcome, data, replies, Go, Tell
<1>1. CASE CommitTx(r) \/ CommitFails(r)
  BY <1>1 DEF CommitTx, CommitFails, WriteRow
<1>2. CASE Refuse(r) \/ Busy(r) \/ HandlerFails(r)
  BY <1>2 DEF Refuse, Busy, HandlerFails
<1>3. CASE Invalidate(r) \/ Reply(r) \/ ReplyFails(r)
  BY <1>3 DEF Invalidate, Reply, ReplyFails
<1>4. CASE Admit(r) \/ Acquire(r) \/ CacheHit(r) \/ CacheMiss(r) \/ ReadRow(r)
            \/ Fill(r) \/ Handle(r) \/ Publish(r) \/ PublishFails(r) \/ Finish(r)
  BY <1>4 DEF Admit, Acquire, CacheHit, CacheMiss, ReadRow, Fill, Handle, Publish,
     PublishFails, Finish
<1>. QED  BY <1>1, <1>2, <1>3, <1>4 DEF Step

\* Nothing that the environment does disturbs the invariants.
LEMMA EnvironmentKeeps ==
    ASSUME TypeOK, FaultInv, NothingUncommittedIsSeen, AnswerTellsOutcome,
           \/ \E r \in Request : Crash(r) \/ Overrun(r)
           \/ CacheExpires
           \/ UNCHANGED vars
    PROVE  FaultInv' /\ NothingUncommittedIsSeen' /\ AnswerTellsOutcome'
<1> USE DEF TypeOK, FaultInv, Loaded, Answered, Committed, NothingUncommittedIsSeen,
            AnswerTellsOutcome, data, replies, Go
<1>1. CASE \E r \in Request : Crash(r)
  BY <1>1 DEF Crash
<1>2. CASE (\E r \in Request : Overrun(r)) \/ UNCHANGED vars
  BY <1>2 DEF Overrun, vars
<1>3. CASE CacheExpires
  BY <1>3 DEF CacheExpires
<1>. QED  BY <1>1, <1>2, <1>3

\* Together they are inductive, whatever the requests, the lease and the faults.
LEMMA FaultInvIsKept ==
    ASSUME TypeOK, FaultInv, NothingUncommittedIsSeen, AnswerTellsOutcome, [Next]_vars
    PROVE  (TypeOK /\ FaultInv /\ NothingUncommittedIsSeen /\ AnswerTellsOutcome)'
<1>1. CASE \E r \in Request : Step(r)
  BY <1>1, StepTyped, StepKeepsLoaded, StepKeepsAnswered, StepKeepsCommitted,
     StepKeepsAnswers DEF FaultInv
<1>2. CASE (\E r \in Request : Crash(r) \/ Overrun(r)) \/ CacheExpires
  BY <1>2, EnvironmentTyped, EnvironmentKeeps
<1>3. CASE UNCHANGED vars
  <2>1. TypeOK'
    BY <1>3 DEF TypeOK, LeaseTypeOK, vars, leaseVars
  <2>. QED  BY <1>3, <2>1, EnvironmentKeeps
<1>. QED  BY <1>1, <1>2, <1>3 DEF Next

\* The same, as an invariant of the specification.
LEMMA Invariance ==
    Spec => [](TypeOK /\ FaultInv /\ NothingUncommittedIsSeen /\ AnswerTellsOutcome)
<1>1. TypeOK /\ FaultInv /\ NothingUncommittedIsSeen /\ AnswerTellsOutcome /\ [Next]_vars
        => (TypeOK /\ FaultInv /\ NothingUncommittedIsSeen /\ AnswerTellsOutcome)'
  BY FaultInvIsKept
<1>. QED  BY <1>1, InitHolds, PTL DEF Spec

\* dispatch, whatever fails: the state is well formed.
THEOREM TypeCorrect == Spec => []TypeOK
BY Invariance, PTL

\* Whatever fails, the handler finds the rows it works on in the store of its unit
\* of work, a request has committed or not as its stage says, and nothing but
\* committed changes is in a row, or in a store outside its own transaction.
THEOREM UnitOfWorkState == Spec => []FaultInv
BY Invariance, PTL

\* uow.go:273-276: whatever fails (a lapsed lease, a crash, a lost commit, SetMulti
\* or DeleteAll), a change that is not committed is never seen by anybody.
THEOREM OnlyCommittedIsSeen == Spec => []NothingUncommittedIsSeen
BY Invariance, PTL

\* dispatch.go:111-137: whatever fails, "ok" is true, and an error other than
\* "commit failed" and "marshal error" can be retried.
THEOREM HonestAnswers == Spec => []AnswerTellsOutcome
BY Invariance, PTL

-----------------------------------------------------------------------------
(* Serialisation, when leases outlast requests and nothing is lost *)

NoFaults == ~MayLapse /\ ~MayCrash /\ ~MayLoseDelete

\* Two requests between Acquire and Release are one.
LEMMA OnlyOne ==
    ASSUME Alone, NEW r \in Locked, NEW s \in Locked,
           stage[r] \in Running, stage[s] \in Running
    PROVE  r = s
BY DEF Alone, Inside, Locked

\* The initial states satisfy the invariant.
LEMMA InitSerial == Init => SerialInv
<1> SUFFICES ASSUME Init PROVE SerialInv
  OBVIOUS
<1>1. Loaded /\ Answered
  BY InitHolds DEF FaultInv
<1>2. Guarded \subseteq Entity
  BY DEF Guarded, Entity
<1>3. Alone /\ StoreFresh
  BY <1>2 DEF Init, LeaseInit, Alone, StoreFresh, Inside, Running, Locked
<1>4. CacheCoherent
  BY <1>2 DEF Init, CacheCoherent
<1>5. Accounted
  BY <1>2 DEF Init, Accounted
<1>. QED  BY <1>1, <1>3, <1>4, <1>5 DEF SerialInv

\* A transaction writes one row, that of its request.
LEMMA StepWritesItsRow ==
    ASSUME TypeOK, NEW r \in Request, Step(r), NEW e \in Entity, e # Wanted(r)
    PROVE  db'[e] = db[e]
<1> USE DEF TypeOK, data, replies
<1>1. CASE CommitTx(r) \/ CommitFails(r)
  BY <1>1 DEF CommitTx, CommitFails, WriteRow
<1>2. CASE ~(CommitTx(r) \/ CommitFails(r))
  BY <1>2 DEF Step, Admit, Refuse, Acquire, Busy, CacheHit, CacheMiss, ReadRow,
     Fill, Handle, HandlerFails, Publish, PublishFails, Invalidate, Reply,
     ReplyFails, Finish
<1>. QED  BY <1>1, <1>2

\* A request enters the lock alone and stays inside while it runs.
LEMMA StepKeepsAlone ==
    ASSUME NoFaults, TypeOK, Alone, NEW r \in Request, Step(r)
    PROVE  Alone'
<1> USE DEF TypeOK, LeaseTypeOK, Alone, Running, Stage, Inside, leaseVars,
            data, replies, Go, Tell
<1>1. CASE Admit(r) \/ Refuse(r)
  BY <1>1 DEF Admit, Refuse, Locked
<1>2. CASE Acquire(r) \/ Busy(r)
  <2>1. CASE Acquire(r)
    <3>1. Inside = {} /\ phase' = [phase EXCEPT ![r] = "in"] /\ UNCHANGED lapsed
      BY <2>1 DEF Acquire, Enter, EnterLate, NoFaults
    <3>2. r \in Locked
      BY <2>1 DEF Acquire
    <3>3. stage' = [stage EXCEPT ![r] = "get"]
      BY <2>1 DEF Acquire
    <3>4. \A s \in Request : phase'[s] = "in" => s = r
      BY <3>1
    <3>5. \A s \in Request : phase'[s] = "in" <=> s \in Locked /\ stage'[s] \in Running
      BY <3>1, <3>2, <3>3
    <3>. QED  BY <3>1, <3>2, <3>3, <3>4, <3>5
  <2>2. CASE Busy(r)
    BY <2>2 DEF Busy, GiveUp
  <2>. QED  BY <1>2, <2>1, <2>2
<1>3. CASE CacheHit(r) \/ CacheMiss(r) \/ ReadRow(r) \/ Fill(r)
  <2>1. stage[r] \in Running /\ stage'[r] \in Running /\ UNCHANGED <<phase, lapsed>>
    BY <1>3 DEF CacheHit, CacheMiss, ReadRow, Fill, Onward
  <2>2. \A s \in Request \ {r} : stage'[s] = stage[s]
    BY <1>3 DEF CacheHit, CacheMiss, ReadRow, Fill, Onward
  <2>3. \A s \in Request : stage'[s] \in Running <=> stage[s] \in Running
    BY <2>1, <2>2
  <2>4. \A s \in Request : stage'[s] = "waiting" => stage[s] = "waiting"
    BY <2>1, <2>2
  <2>. QED  BY <2>1, <2>3, <2>4
<1>4. CASE Handle(r) \/ HandlerFails(r) \/ CommitTx(r) \/ CommitFails(r)
  BY <1>4 DEF Handle, HandlerFails, CommitTx, CommitFails
<1>5. CASE Publish(r) \/ PublishFails(r) \/ Invalidate(r) \/ Reply(r) \/ ReplyFails(r)
  BY <1>5 DEF Publish, PublishFails, Invalidate, Reply, ReplyFails
<1>6. CASE Finish(r)
  BY <1>6 DEF Finish, Leave
<1>. QED  BY <1>1, <1>2, <1>3, <1>4, <1>5, <1>6 DEF Step

\* What a locked request has loaded is what the database holds: nobody else can
\* have changed the row since.
LEMMA StepKeepsStoreFresh ==
    ASSUME TypeOK, SerialInv, NEW r \in Request, Step(r)
    PROVE  StoreFresh'
<1> USE DEF TypeOK, SerialInv, data, replies, Go, Tell
<1> SUFFICES ASSUME NEW s \in Locked, NEW e \in Guarded,
                    stage'[s] \in Running \ {"invalidate", "leaving"},
                    store'[s][e] # Miss
             PROVE  store'[s][e] = IF stage'[s] = "commit" /\ e = Wanted(s)
                                     THEN db'[e] \cup {s} ELSE db'[e]
  BY DEF StoreFresh
<1>0. e \in Entity /\ s \in Request
  BY DEF Guarded, Entity, Locked
<1>1. CASE s # r
  <2>1. stage'[s] = stage[s] /\ store'[s] = store[s]
    BY <1>0, <1>1, StepIsLocal
  <2>2. db'[e] = db[e]
    <3>1. CASE r \in Locked
      <4>1. stage[r] \notin Running
        BY <1>1, <2>1, <3>1, OnlyOne
      <4>. QED  BY <4>1 DEF Step, Admit, Refuse, Acquire, Busy, CacheHit, CacheMiss,
             ReadRow, Fill, Handle, HandlerFails, CommitTx, CommitFails, Publish,
             PublishFails, Invalidate, Reply, ReplyFails, Finish, Running, Stage
    <3>2. CASE r \notin Locked
      <4>1. e # Wanted(r)
        BY <3>2 DEF Locked, Guarded, Wanted, LoginRequests
      <4>. QED  BY <1>0, <4>1, StepWritesItsRow
    <3>. QED  BY <3>1, <3>2
  <2>. QED  BY <2>1, <2>2 DEF StoreFresh
<1>2. CASE s = r
  <2>1. CASE Admit(r) \/ Refuse(r) \/ Acquire(r) \/ Busy(r)
    BY <1>0, <1>2, <2>1 DEF Admit, Refuse, Acquire, Busy, Loaded
  <2>2. CASE CacheHit(r)
    <3>1. stage[r] = "get" /\ stage'[r] # "commit" /\ db' = db
      BY <2>2 DEF CacheHit, Onward
    <3>2. cache[e] \in {Miss, db[e]}
      <4>1. \A q \in Locked : stage[q] \in Running => q = r
        BY <1>2, <3>1, OnlyOne DEF Running, Stage
      <4>. QED  BY <3>1, <4>1 DEF CacheCoherent, Running, Stage
    <3>3. CASE e = focus[r]
      BY <1>0, <1>2, <2>2, <3>1, <3>2, <3>3 DEF CacheHit
    <3>4. CASE e # focus[r]
      <4>1. store'[r][e] = store[r][e]
        BY <1>0, <2>2, <3>4 DEF CacheHit
      <4>. QED  BY <1>2, <3>1, <4>1 DEF StoreFresh, Running, Stage
    <3>. QED  BY <3>3, <3>4
  <2>3. CASE CacheMiss(r)
    BY <1>0, <1>2, <2>3 DEF CacheMiss, StoreFresh, Running, Stage
  <2>4. CASE ReadRow(r)
    BY <1>0, <1>2, <2>4 DEF ReadRow, StoreFresh, Running, Stage
  <2>5. CASE Fill(r)
    <3>1. stage[r] = "fill" /\ stage'[r] # "commit" /\ UNCHANGED <<db, store>>
      BY <2>5 DEF Fill, Onward
    <3>. QED  BY <1>2, <3>1 DEF StoreFresh, Running, Stage
  <2>6. CASE Handle(r)
    <3>1. store[r][e] # Miss => store[r][e] = db[e]
      BY <1>2, <2>6 DEF Handle, StoreFresh, Running, Stage
    <3>2. CASE r \in Reads
      BY <1>0, <1>2, <2>6, <3>1, <3>2 DEF Handle
    <3>3. CASE r \notin Reads /\ e = Wanted(r)
      <4>1. store[r][e] # Miss
        BY <2>6, <3>3 DEF Handle, Loaded
      <4>2. store'[r][e] = store[r][e] \cup {r} /\ stage'[r] = "commit" /\ db' = db
        BY <1>0, <2>6, <3>3 DEF Handle
      <4>. QED  BY <1>2, <3>1, <3>3, <4>1, <4>2
    <3>4. CASE r \notin Reads /\ e # Wanted(r)
      <4>1. store'[r][e] = store[r][e] /\ db' = db
        BY <1>0, <2>6, <3>4, WantedIsEntity DEF Handle
      <4>. QED  BY <1>2, <3>1, <3>4, <4>1
    <3>. QED  BY <3>2, <3>3, <3>4
  <2>7. CASE CommitTx(r)
    <3>1. stage[r] = "commit" /\ stage'[r] = "publish" /\ store' = store
      BY <2>7 DEF CommitTx
    <3>2. CASE e = Wanted(r)
      BY <1>0, <1>2, <2>7, <3>1, <3>2 DEF CommitTx, WriteRow
    <3>3. CASE e # Wanted(r)
      <4>1. db'[e] = db[e]
        BY <1>0, <3>3, StepWritesItsRow
      <4>. QED  BY <1>2, <3>1, <3>3, <4>1 DEF StoreFresh, Running, Stage
    <3>. QED  BY <3>2, <3>3
  <2>8. CASE HandlerFails(r) \/ CommitFails(r) \/ PublishFails(r) \/ Invalidate(r)
    BY <1>2, <2>8 DEF HandlerFails, CommitFails, PublishFails, Invalidate
  <2>9. CASE Publish(r)
    <3>1. stage[r] = "publish" /\ stage'[r] = "reply" /\ UNCHANGED <<db, store>>
      BY <2>9 DEF Publish
    <3>. QED  BY <1>2, <3>1 DEF StoreFresh, Running, Stage
  <2>10. CASE Reply(r) \/ ReplyFails(r) \/ Finish(r)
    BY <1>2, <2>10 DEF Reply, ReplyFails, Finish, Running
  <2>. QED  BY <2>1, <2>2, <2>3, <2>4, <2>5, <2>6, <2>7, <2>8, <2>9, <2>10 DEF Step
<1>. QED  BY <1>1, <1>2

\* The cache follows the database: the only writes of a guarded field put there
\* what the database holds, or come from the one request inside the lock.
LEMMA StepKeepsCacheCoherent ==
    ASSUME NoFaults, TypeOK, SerialInv, NEW r \in Request, Step(r)
    PROVE  CacheCoherent'
<1> USE DEF TypeOK, SerialInv, data, replies, Go, Tell
<1> SUFFICES ASSUME NEW e \in Guarded
             PROVE  \/ cache'[e] \in {Miss, db'[e]}
                    \/ \E q \in Locked \cap applied' :
                         Wanted(q) = e /\ stage'[q] \in {"publish", "invalidate"}
  BY DEF CacheCoherent
<1>0. e \in Entity
  BY DEF Guarded, Entity
<1>1. CASE r \notin Locked
  <2>1. e = "cards" /\ Wanted(r) = "account" /\ r \in LoginRequests
    BY <1>1 DEF Locked, Guarded, Wanted, LoginRequests
  <2>2. focus[r] # "cards" /\ store[r]["cards"] = Miss
    BY <2>1 DEF Loaded
  <2>3. cache'["cards"] \in {Miss, cache["cards"]}
    <3>1. CASE Fill(r)
      BY <1>0, <2>1, <2>2, <3>1 DEF Fill, Entity
    <3>2. CASE Publish(r) \/ PublishFails(r)
      BY <1>0, <2>1, <2>2, <3>2 DEF Publish, PublishFails, SetMulti
    <3>3. CASE Invalidate(r)
      BY <1>0, <2>1, <3>3 DEF Invalidate
    <3>4. CASE ~(Fill(r) \/ Publish(r) \/ PublishFails(r) \/ Invalidate(r))
      BY <3>4 DEF Step, Admit, Refuse, Acquire, Busy, CacheHit, CacheMiss, ReadRow,
         Handle, HandlerFails, CommitTx, CommitFails, Reply, ReplyFails, Finish
    <3>. QED  BY <3>1, <3>2, <3>3, <3>4
  <2>4. db'["cards"] = db["cards"]
    BY <1>0, <2>1, StepWritesItsRow
  <2>5. \A q \in Locked \cap applied : stage'[q] = stage[q] /\ q \in applied'
    <3>1. \A q \in Locked : q # r /\ q \in Request
      BY <1>1 DEF Locked
    <3>2. applied \subseteq applied'
      BY StepAddsItself
    <3>. QED  BY <3>1, <3>2, StepIsLocal
  <2>. QED  BY <2>1, <2>3, <2>4, <2>5 DEF CacheCoherent
<1>2. CASE r \in Locked /\ stage[r] \notin Running
  <2>1. Admit(r) \/ Refuse(r) \/ Acquire(r) \/ Busy(r)
    BY <1>2 DEF Step, CacheHit, CacheMiss, ReadRow, Fill, Handle, HandlerFails,
       CommitTx, CommitFails, Publish, PublishFails, Invalidate, Reply, ReplyFails,
       Finish, Running, Stage
  <2>. QED  BY <1>0, <1>2, <2>1, StepIsLocal DEF Admit, Refuse, Acquire, Busy, CacheCoherent
<1>3. CASE r \in Locked /\ stage[r] \in Running
  <2>0. \A q \in Locked : stage[q] \in Running => q = r
    BY <1>3, OnlyOne
  <2>1. \/ cache[e] \in {Miss, db[e]}
        \/ r \in applied /\ Wanted(r) = e /\ stage[r] \in {"publish", "invalidate"}
    BY <2>0 DEF CacheCoherent, Running, Stage
  <2>2. CASE CacheHit(r) \/ CacheMiss(r) \/ ReadRow(r) \/ Handle(r) \/ HandlerFails(r)
    BY <2>1, <2>2 DEF CacheHit, CacheMiss, ReadRow, Handle, HandlerFails
  <2>3. CASE Fill(r)
    <3>1. store[r][e] \in {Miss, db[e]}
      BY <1>3, <2>3 DEF StoreFresh, Fill, Running, Stage
    <3>. QED  BY <1>0, <2>1, <2>3, <3>1 DEF Fill
  <2>4. CASE CommitTx(r) \/ CommitFails(r)
    <3>1. CASE e = Wanted(r)
      <4>1. \/ r \in applied' /\ stage'[r] \in {"publish", "invalidate"}
            \/ db' = db
        BY <2>4 DEF CommitTx, CommitFails, WriteRow
      <4>2. cache' = cache /\ stage[r] = "commit"
        BY <2>4 DEF CommitTx, CommitFails
      <4>. QED  BY <1>3, <2>1, <3>1, <4>1, <4>2
    <3>2. CASE e # Wanted(r)
      BY <1>0, <2>1, <2>4, <3>2, StepWritesItsRow DEF CommitTx, CommitFails
    <3>. QED  BY <3>1, <3>2
  <2>5. CASE Publish(r) \/ PublishFails(r)
    <3>1. stage[r] = "publish" /\ db' = db /\ applied' = applied
      BY <2>5 DEF Publish, PublishFails
    <3>2. store[r][e] \in {Miss, db[e]}
      BY <1>3, <3>1 DEF StoreFresh, Running, Stage
    <3>3. CASE SetMulti(r)
      <4>1. CASE store[r][e] = Miss
        <5>1. e # Wanted(r)
          BY <3>1, <4>1 DEF Loaded
        <5>. QED  BY <1>0, <2>1, <3>1, <3>3, <4>1, <5>1 DEF SetMulti
      <4>2. CASE store[r][e] # Miss
        BY <1>0, <3>1, <3>2, <3>3, <4>2 DEF SetMulti
      <4>. QED  BY <4>1, <4>2
    <3>4. CASE ~SetMulti(r)
      <4>1. cache' = cache /\ stage'[r] = "invalidate"
        BY <2>5, <3>4 DEF Publish, PublishFails
      <4>. QED  BY <1>3, <2>1, <3>1, <4>1
    <3>. QED  BY <3>3, <3>4
  <2>6. CASE Invalidate(r)
    BY <1>0, <2>6 DEF Invalidate, NoFaults
  <2>7. CASE Reply(r) \/ ReplyFails(r) \/ Finish(r)
    BY <2>1, <2>7 DEF Reply, ReplyFails, Finish
  <2>8. CASE Admit(r) \/ Refuse(r) \/ Acquire(r) \/ Busy(r)
    BY <1>3, <2>8 DEF Admit, Refuse, Acquire, Busy, Running
  <2>. QED  BY <2>2, <2>3, <2>4, <2>5, <2>6, <2>7, <2>8 DEF Step
<1>. QED  BY <1>1, <1>2, <1>3

\* What is in the database is what was committed.
LEMMA StepKeepsAccounted ==
    ASSUME TypeOK, SerialInv, NEW r \in Request, Step(r)
    PROVE  Accounted'
<1> USE DEF TypeOK, SerialInv, data, replies, Go, Tell
<1> SUFFICES ASSUME NEW e \in Guarded
             PROVE  db'[e] = {q \in applied' : Wanted(q) = e}
  BY DEF Accounted
<1>1. e \in Entity
  BY DEF Guarded, Entity
<1>2. CASE (CommitTx(r) \/ CommitFails(r)) /\ e = Wanted(r)
  <2>1. r \in Locked
    BY <1>2 DEF Guarded, Wanted, LoginRequests, Locked
  <2>2. stage[r] = "commit" /\ ((db' = db /\ applied' = applied) \/ WriteRow(r))
    BY <1>2 DEF CommitTx, CommitFails
  <2>3. store[r][e] = db[e] \cup {r}
    BY <1>2, <2>1, <2>2 DEF StoreFresh, Loaded, Running, Stage
  <2>4. CASE WriteRow(r)
    BY <1>1, <1>2, <2>3, <2>4 DEF WriteRow, Accounted
  <2>. QED  BY <2>2, <2>4 DEF Accounted
<1>3. CASE e # Wanted(r)
  <2>1. db'[e] = db[e]
    BY <1>1, <1>3, StepWritesItsRow
  <2>2. applied' \in {applied, applied \cup {r}}
    BY StepAddsItself
  <2>. QED  BY <1>3, <2>1, <2>2 DEF Accounted
<1>4. CASE ~(CommitTx(r) \/ CommitFails(r))
  <2>1. db' = db
    BY <1>4 DEF Step, Admit, Refuse, Acquire, Busy, CacheHit, CacheMiss, ReadRow,
       Fill, Handle, HandlerFails, Publish, PublishFails, Invalidate, Reply,
     ReplyFails, Finish
  <2>2. applied' = applied
    BY <1>4, StepAddsItself
  <2>. QED  BY <2>1, <2>2 DEF Accounted
<1>. QED  BY <1>2, <1>3, <1>4

\* Without faults the invariant is inductive.
LEMMA SerialInvIsKept ==
    ASSUME NoFaults, TypeOK, SerialInv, [Next]_vars
    PROVE  SerialInv'
<1>1. CASE \E r \in Request : Step(r)
  BY <1>1, StepKeepsAlone, StepKeepsLoaded, StepKeepsAnswered, StepKeepsStoreFresh,
     StepKeepsAccounted, StepKeepsCacheCoherent DEF SerialInv
<1>2. CASE \E r \in Request : Crash(r) \/ Overrun(r)
  BY <1>2 DEF Crash, Overrun, Lapse, NoFaults
<1>3. CASE CacheExpires
  <2>1. UNCHANGED <<leaseVars, stage, focus, store, db, applied, answer>>
    BY <1>3 DEF CacheExpires, data, replies
  <2>2. Alone' /\ Loaded' /\ StoreFresh' /\ Accounted' /\ Answered'
    BY <2>1 DEF SerialInv, Alone, Inside, Loaded, StoreFresh, Accounted, Answered,
       leaseVars
  <2>3. Guarded \subseteq Entity
    BY DEF Guarded, Entity
  <2>4. CacheCoherent'
    BY <1>3, <2>3 DEF CacheExpires, CacheCoherent
  <2>. QED  BY <2>2, <2>4 DEF SerialInv
<1>4. CASE UNCHANGED vars
  BY <1>4 DEF SerialInv, Alone, Inside, Loaded, StoreFresh, Accounted, Answered,
     CacheCoherent, vars, leaseVars, data, replies
<1>. QED  BY <1>1, <1>2, <1>3, <1>4 DEF Next

\* dispatch.go:84-95 with uow.go: as long as leases outlast requests, no server
\* dies and DeleteAll works, every request of a user runs alone on fresh rows.
THEOREM Serialised == ASSUME NoFaults PROVE Spec => []SerialInv
<1>1. Init => TypeOK /\ SerialInv
  BY InitHolds, InitSerial
<1>2. TypeOK /\ SerialInv /\ [Next]_vars => SerialInv'
  BY SerialInvIsKept
<1>. QED  BY <1>1, <1>2, TypeCorrect, PTL DEF Spec

\* dispatch.go:84: under the same conditions no committed change is overwritten by
\* a request that had read the row before it.
THEOREM KeepsUpdates == ASSUME NoFaults PROVE Spec => []NoLostUpdate
<1>1. SerialInv => NoLostUpdate
  BY DEF SerialInv, Accounted, NoLostUpdate
<1>. QED  BY <1>1, Serialised, PTL

\* uow.go:273-276: under the same conditions the cache never keeps a field that
\* the database does not.
THEOREM Coherent == ASSUME NoFaults PROVE Spec => []CacheCoherent
<1>1. SerialInv => CacheCoherent
  BY DEF SerialInv
<1>. QED  BY <1>1, Serialised, PTL

-----------------------------------------------------------------------------
(* The cards behave as one copy *)

\* The rows of the cards are the upgrades that committed.
LEMMA CardsAreUpgrades ==
    ASSUME TypeOK, SerialInv
    PROVE  db["cards"] = applied \cap Upgrades
<1>1. "cards" \in Guarded
  BY DEF Guarded, Entity
<1>2. \A r \in applied : Wanted(r) = "cards" <=> r \in Upgrades
  BY KindsAssumption DEF TypeOK, SerialInv, Answered, Wanted, LoginRequests
<1>. QED  BY <1>1, <1>2 DEF SerialInv, Accounted

\* A step of a request is a step of the single copy, or leaves it alone.
LEMMA StepIsRecordStep ==
    ASSUME TypeOK, SerialInv, NEW r \in Request, Step(r)
    PROVE  [Records!RecordNext]_(Records!recordVars)
<1> USE DEF TypeOK, data, replies, Go, Tell
<1>0. Cardholders \subseteq Request /\ Cardholders \subseteq Locked
      /\ "cards" \in Guarded /\ \A c \in Cardholders : Wanted(c) = "cards"
  BY KindsAssumption DEF Cardholders, Locked, Guarded, Entity, Wanted, LoginRequests
<1>1. CASE CommitTx(r) \/ CommitFails(r)
  <2>1. stage[r] = "commit" /\ UNCHANGED <<answer, shown>>
    BY <1>1 DEF CommitTx, CommitFails
  <2>2. CASE UNCHANGED db
    BY <2>1, <2>2 DEF Records!recordVars
  <2>3. CASE WriteRow(r) /\ r \in Upgrades
    <3>1. r \notin applied /\ answer[r] = "none"
      BY <2>1 DEF SerialInv, Answered
    <3>2. store[r]["cards"] = db["cards"] \cup {r}
      <4>1. r \in Locked /\ Wanted(r) = "cards"
        BY <1>0, <2>3 DEF Cardholders
      <4>2. store[r]["cards"] # Miss
        BY <2>1, <4>1 DEF SerialInv, Loaded
      <4>3. stage[r] \in Running \ {"invalidate", "leaving"}
        BY <2>1 DEF Running, Stage
      <4>. QED  BY <1>0, <2>1, <4>1, <4>2, <4>3 DEF SerialInv, StoreFresh
    <3>3. db'["cards"] = db["cards"] \cup {r}
      BY <1>0, <2>3, <3>2 DEF WriteRow, Cardholders, Entity
    <3>4. r \notin db["cards"]
      BY <3>1, CardsAreUpgrades
    <3>5. Records!Write(r)
      BY <2>1, <2>3, <3>1, <3>3, <3>4 DEF Records!Write, Cardholders
    <3>. QED  BY <2>3, <3>5 DEF Records!RecordNext, Cardholders
  <2>4. CASE WriteRow(r) /\ r \notin Upgrades
    <3>1. r \notin Reads
      BY <2>1 DEF SerialInv, Answered
    <3>2. Wanted(r) = "account"
      BY <2>4, <3>1, KindsAssumption DEF Wanted, LoginRequests
    <3>3. db'["cards"] = db["cards"]
      BY <2>4, <3>2 DEF WriteRow, Entity
    <3>. QED  BY <2>1, <3>3 DEF Records!recordVars
  <2>. QED  BY <1>1, <2>2, <2>3, <2>4 DEF CommitTx, CommitFails
<1>2. CASE Reply(r)
  <2>1. stage[r] = "reply" /\ db' = db /\ answer' = [answer EXCEPT ![r] = "ok"]
        /\ shown' = [shown EXCEPT ![r] = store[r]["cards"]]
    BY <1>2 DEF Reply
  <2>2. CASE r \in Cardholders
    <3>1. answer[r] = "none" /\ (r \in Upgrades => r \in db["cards"])
      BY <2>1, CardsAreUpgrades, KindsAssumption DEF SerialInv, Answered
    <3>2. store[r]["cards"] = db["cards"]
      <4>1. r \in Locked /\ Wanted(r) = "cards"
        BY <1>0, <2>2
      <4>2. store[r]["cards"] # Miss
        BY <2>1, <4>1 DEF SerialInv, Loaded
      <4>3. stage[r] \in Running \ {"invalidate", "leaving"}
        BY <2>1 DEF Running, Stage
      <4>. QED  BY <1>0, <2>1, <4>1, <4>2, <4>3 DEF SerialInv, StoreFresh
    <3>3. Records!AnswerOk(r)
      BY <1>0, <2>1, <2>2, <3>1, <3>2 DEF Records!AnswerOk
    <3>. QED  BY <2>2, <3>3 DEF Records!RecordNext
  <2>3. CASE r \notin Cardholders
    BY <1>0, <2>1, <2>3 DEF Records!recordVars
  <2>. QED  BY <2>2, <2>3
<1>3. CASE Refuse(r) \/ Busy(r) \/ HandlerFails(r)
  <2>1. stage[r] \in {"new", "waiting", "read", "handle"} /\ UNCHANGED <<db, shown>>
        /\ answer' = [answer EXCEPT ![r] = "rejected"]
    BY <1>3 DEF Refuse, Busy, HandlerFails
  <2>2. CASE r \in Cardholders
    <3>1. answer[r] = "none" /\ r \notin db["cards"]
      BY <2>1, CardsAreUpgrades DEF SerialInv, Answered
    <3>2. Records!AnswerRejected(r)
      BY <1>0, <2>1, <2>2, <3>1 DEF Records!AnswerRejected
    <3>. QED  BY <2>2, <3>2 DEF Records!RecordNext
  <2>3. CASE r \notin Cardholders
    BY <1>0, <2>1, <2>3 DEF Records!recordVars
  <2>. QED  BY <2>2, <2>3
<1>4. CASE Invalidate(r) \/ ReplyFails(r)
  <2>1. stage[r] \in {"invalidate", "reply"} /\ UNCHANGED <<db, shown>>
        /\ answer' = [answer EXCEPT ![r] = "failed"]
    BY <1>4 DEF Invalidate, ReplyFails
  <2>2. CASE r \in Cardholders
    <3>1. answer[r] = "none"
      BY <2>1 DEF SerialInv, Answered
    <3>2. Records!AnswerFailed(r)
      BY <1>0, <2>1, <2>2, <3>1 DEF Records!AnswerFailed
    <3>. QED  BY <2>2, <3>2 DEF Records!RecordNext
  <2>3. CASE r \notin Cardholders
    BY <1>0, <2>1, <2>3 DEF Records!recordVars
  <2>. QED  BY <2>2, <2>3
<1>5. CASE Admit(r) \/ Acquire(r) \/ CacheHit(r) \/ CacheMiss(r) \/ ReadRow(r)
            \/ Fill(r) \/ Handle(r) \/ Publish(r) \/ PublishFails(r) \/ Finish(r)
  <2>1. UNCHANGED <<db, answer, shown>>
    BY <1>5 DEF Admit, Acquire, CacheHit, CacheMiss, ReadRow, Fill, Handle, Publish,
       PublishFails, Finish
  <2>. QED  BY <2>1 DEF Records!recordVars
<1>. QED  BY <1>1, <1>2, <1>3, <1>4, <1>5 DEF Step

\* README.md "Unit of Work": for its clients, the system without faults is a single
\* copy of the user's cards.
THEOREM Refinement == ASSUME NoFaults PROVE Spec => SingleCopy
<1>1. Init => Records!RecordInit
  BY KindsAssumption DEF Init, Records!RecordInit, Entity, Cardholders
<1>2. TypeOK /\ SerialInv /\ [Next]_vars => [Records!RecordNext]_(Records!recordVars)
  <2> SUFFICES ASSUME TypeOK, SerialInv, [Next]_vars
               PROVE  [Records!RecordNext]_(Records!recordVars)
    OBVIOUS
  <2>1. CASE \E r \in Request : Step(r)
    BY <2>1, StepIsRecordStep
  <2>2. CASE \E r \in Request : Crash(r) \/ Overrun(r)
    BY <2>2 DEF Crash, Overrun, Lapse, NoFaults
  <2>3. CASE CacheExpires \/ UNCHANGED vars
    BY <2>3 DEF CacheExpires, vars, data, replies, Records!recordVars
  <2>. QED  BY <2>1, <2>2, <2>3 DEF Next
<1>3. Spec => [](TypeOK /\ SerialInv)
  BY TypeCorrect, Serialised, PTL
<1>. QED  BY <1>1, <1>2, <1>3, PTL DEF Spec, SingleCopy, Records!RecordSpec
=============================================================================
