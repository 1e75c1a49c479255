------------------------------ MODULE Dispatch ------------------------------
(***************************************************************************)
(* Concurrent requests of one user through dispatch (handler/dispatch.go): *)
(* the per-user lock, the unit of work that loads rows through the Redis   *)
(* user cache (uow/uow.go), the handler, the commit to MySQL followed by   *)
(* the write of the cache, and CommitOrRollback when that fails.           *)
(*                                                                         *)
(* The lock is the lease of UserLease, which UserLock is shown to          *)
(* implement.  Each call to Redis or MySQL is a step.  The content of a    *)
(* row is the set of requests whose change it contains, so an overwritten  *)
(* change is visible as a missing member.  One card stands for the cards.  *)
(***************************************************************************)
EXTENDS UserLease

CONSTANTS
    Upgrades,       \* UpgradeCardLevel: read and change the cards (ShardDB)
    Reads,          \* GetCardList: read the cards
    Logins,         \* Login with user_id 0 in the envelope: no lock
    Relogins,       \* Login with the user's id in the envelope: under the lock
    Miss,           \* no such field in the cache, nothing in the store
    MayCrash,       \* TRUE when a server may die
    MayLoseDelete   \* TRUE when the DeleteAll after a failed commit may fail

ASSUME KindsAssumption ==
    /\ Request = Upgrades \cup Reads \cup Logins \cup Relogins
    /\ Upgrades \cap Reads = {}
    /\ (Upgrades \cup Reads) \cap (Logins \cup Relogins) = {}
    /\ Logins \cap Relogins = {}
ASSUME MissAssumption == \A C \in SUBSET Request : C # Miss
ASSUME FaultsAssumption == MayCrash \in BOOLEAN /\ MayLoseDelete \in BOOLEAN

VARIABLES
    stage,      \* how far dispatch is with each request
    focus,      \* the entity that the unit of work is loading
    store,      \* store[r][e]: UnitOfWork.store, Miss when not loaded
    db,         \* db[e]: the committed rows
    cache,      \* cache[e]: the fields of the hash user:{id}
    applied,    \* the requests whose transaction committed (history)
    answer,     \* what the client was told
    shown       \* the cards behind a successful answer

vars == <<leaseVars, stage, focus, store, db, cache, applied, answer, shown>>
data == <<db, cache, applied>>
replies == <<answer, shown>>

Entity == {"account", "cards"}
Content == SUBSET Request
Stage == {"new", "waiting", "get", "read", "fill", "handle", "commit",
          "publish", "invalidate", "reply", "leaving", "over"}
Locked == Request \ Logins
LoginRequests == Logins \cup Relogins

TypeOK ==
    /\ LeaseTypeOK
    /\ stage \in [Request -> Stage]
    /\ focus \in [Request -> Entity]
    /\ store \in [Request -> [Entity -> {Miss} \cup Content]]
    /\ db \in [Entity -> Content]
    /\ cache \in [Entity -> {Miss} \cup Content]
    /\ applied \subseteq Request
    /\ answer \in [Request -> {"none", "ok", "rejected", "failed"}]
    /\ shown \in [Request -> {Miss} \cup Content]

\* The entity a handler loads first, and the one it changes.
Wanted(r) == IF r \in LoginRequests THEN "account" ELSE "cards"

\* The user exists; its cache may or may not be warm.
Init ==
    /\ LeaseInit
    /\ stage = [r \in Request |-> "new"]
    /\ focus = [r \in Request |-> Wanted(r)]
    /\ store = [r \in Request |-> [e \in Entity |-> Miss]]
    /\ db = [e \in Entity |-> {}]
    /\ cache \in [Entity -> {{}, Miss}]
    /\ applied = {}
    /\ answer = [r \in Request |-> "none"]
    /\ shown = [r \in Request |-> {}]

Go(r, s) == stage' = [stage EXCEPT ![r] = s]
Tell(r, a) == answer' = [answer EXCEPT ![r] = a] /\ UNCHANGED shown

-----------------------------------------------------------------------------
(* Before the handler *)

\* Mutant of Admit: no request takes the lock.
AdmitUnlocked(r) ==
    /\ stage[r] = "new"
    /\ Go(r, "get")
    /\ UNCHANGED <<leaseVars, focus, store, data, replies>>

\* Envelope, action, design catalog and session are in order.
Admit(r) ==
    /\ stage[r] = "new"
    /\ Go(r, IF r \in Locked THEN "waiting" ELSE "get")
    /\ UNCHANGED <<leaseVars, focus, store, data, replies>>

\* One of them is not: an error answer without a lock or a unit of work.
Refuse(r) ==
    /\ stage[r] = "new"
    /\ Go(r, "over")
    /\ Tell(r, "rejected")
    /\ UNCHANGED <<leaseVars, focus, store, data>>

Acquire(r) ==
    /\ stage[r] = "waiting"
    /\ Enter(r) \/ EnterLate(r)
    /\ Go(r, "get")
    /\ UNCHANGED <<focus, store, data, replies>>

\* Acquire fails: "busy, retry later".
Busy(r) ==
    /\ stage[r] = "waiting"
    /\ GiveUp(r)
    /\ Go(r, "over")
    /\ Tell(r, "rejected")
    /\ UNCHANGED <<focus, store, data>>

-----------------------------------------------------------------------------
(* LoadOne and LoadList: store, then cache, then database *)

\* What is left to load once s is in the store: after the account, the cards
\* whose cache miss asked for the shard; after the cards, for an Update, the
\* account that knows the shard.
Onward(r, s) ==
    IF r \in Locked /\ r \notin Relogins /\ s["cards"] = Miss
      THEN /\ Go(r, "read")
           /\ focus' = [focus EXCEPT ![r] = "cards"]
    ELSE IF r \in Upgrades /\ s["account"] = Miss
      THEN /\ Go(r, "get")
           /\ focus' = [focus EXCEPT ![r] = "account"]
    ELSE /\ Go(r, "handle")
         /\ UNCHANGED focus

CacheHit(r) ==
    LET e == focus[r]  s == [store[r] EXCEPT ![e] = cache[e]] IN
    /\ stage[r] = "get"
    /\ cache[e] # Miss
    /\ store' = [store EXCEPT ![r] = s]
    /\ Onward(r, s)
    /\ UNCHANGED <<leaseVars, data, replies>>

\* HGET finds nothing or fails: any error of Get is a miss.  The cards are in the
\* ShardDB, and ShardDB() loads the account first.
CacheMiss(r) ==
    /\ stage[r] = "get"
    /\ IF focus[r] = "cards" /\ store[r]["account"] = Miss
         THEN /\ focus' = [focus EXCEPT ![r] = "account"]
              /\ UNCHANGED stage
         ELSE Go(r, "read") /\ UNCHANGED focus
    /\ UNCHANGED <<leaseVars, store, data, replies>>

\* SELECT from the database.
ReadRow(r) ==
    /\ stage[r] = "read"
    /\ store' = [store EXCEPT ![r][focus[r]] = db[focus[r]]]
    /\ Go(r, "fill")
    /\ UNCHANGED <<leaseVars, focus, data, replies>>

\* The row that was read goes to the cache; an error of Set is ignored.
Fill(r) ==
    /\ stage[r] = "fill"
    /\ \/ cache' = [cache EXCEPT ![focus[r]] = store[r][focus[r]]]
       \/ UNCHANGED cache
    /\ Onward(r, store[r])
    /\ UNCHANGED <<leaseVars, store, db, applied, replies>>

-----------------------------------------------------------------------------
(* The handler *)

\* Mutant of Handle: the change goes to the cache at once.
HandleWritingThrough(r) ==
    /\ stage[r] = "handle"
    /\ store' = [store EXCEPT ![r][Wanted(r)] = @ \cup {r}]
    /\ cache' = [cache EXCEPT ![Wanted(r)] = store[r][Wanted(r)] \cup {r}]
    /\ Go(r, IF r \in Reads THEN "publish" ELSE "commit")
    /\ UNCHANGED <<leaseVars, focus, db, applied, replies>>

\* The handler changes the model in the store and queues its UPDATE; a read
\* queues nothing, so its Commit goes straight to the cache.
Handle(r) ==
    /\ stage[r] = "handle"
    /\ IF r \in Reads
         THEN Go(r, "publish") /\ UNCHANGED store
         ELSE /\ store' = [store EXCEPT ![r][Wanted(r)] = @ \cup {r}]
              /\ Go(r, "commit")
    /\ UNCHANGED <<leaseVars, focus, data, replies>>

\* Mutant of HandlerFails: an error path of dispatch that answers nothing.
HandlerFailsSilently(r) ==
    /\ stage[r] \in {"read", "handle"}
    /\ Go(r, "leaving")
    /\ UNCHANGED <<leaseVars, focus, store, data, replies>>

\* A SELECT fails, the handler returns an error or panics: the queued operations
\* are dropped with the unit of work.
HandlerFails(r) ==
    /\ stage[r] \in {"read", "handle"}
    /\ Go(r, "leaving")
    /\ Tell(r, "rejected")
    /\ UNCHANGED <<leaseVars, focus, store, data>>

-----------------------------------------------------------------------------
(* Commit and CommitOrRollback *)

\* The transaction of the one database the handler wrote to: the UPDATE writes
\* the row as the store has it.
WriteRow(r) ==
    /\ db' = [db EXCEPT ![Wanted(r)] = store[r][Wanted(r)]]
    /\ applied' = applied \cup {r}

CommitTx(r) ==
    /\ stage[r] = "commit"
    /\ WriteRow(r)
    /\ Go(r, "publish")
    /\ UNCHANGED <<leaseVars, focus, store, cache, replies>>

\* Mutant of CommitFails: a transaction whose error is dropped.
CommitErrorDropped(r) ==
    /\ stage[r] = "commit"
    /\ Go(r, "publish")
    /\ UNCHANGED <<leaseVars, focus, store, data, replies>>

\* The transaction is rolled back, or it commits and the confirmation is lost.
CommitFails(r) ==
    /\ stage[r] = "commit"
    /\ WriteRow(r) \/ UNCHANGED <<db, applied>>
    /\ Go(r, "invalidate")
    /\ UNCHANGED <<leaseVars, focus, store, cache, replies>>

\* SetMulti writes everything the request loaded, changed or not.
SetMulti(r) ==
    cache' = [e \in Entity |-> IF store[r][e] = Miss THEN cache[e]
                                                    ELSE store[r][e]]

Publish(r) ==
    /\ stage[r] = "publish"
    /\ SetMulti(r)
    /\ Go(r, "reply")
    /\ UNCHANGED <<leaseVars, focus, store, db, applied, replies>>

\* An error of SetMulti, or the loss of its reply, is an error of Commit after
\* the database committed.
PublishFails(r) ==
    /\ stage[r] = "publish"
    /\ SetMulti(r) \/ UNCHANGED cache
    /\ Go(r, "invalidate")
    /\ UNCHANGED <<leaseVars, focus, store, db, applied, replies>>

\* Mutant of Invalidate: CommitOrRollback without DeleteAll.
InvalidateNothing(r) ==
    /\ stage[r] = "invalidate"
    /\ Go(r, "leaving")
    /\ Tell(r, "failed")
    /\ UNCHANGED <<leaseVars, focus, store, data>>

\* Mutant of Invalidate: a failed SetMulti is told as if nothing had happened.
InvalidateRejecting(r) ==
    /\ stage[r] = "invalidate"
    /\ cache' = [e \in Entity |-> Miss]
    /\ Go(r, "leaving")
    /\ Tell(r, "rejected")
    /\ UNCHANGED <<leaseVars, focus, store, db, applied>>

\* DeleteAll, and "commit failed" to the client; an error of DeleteAll is ignored.
Invalidate(r) ==
    /\ stage[r] = "invalidate"
    /\ \/ cache' = [e \in Entity |-> Miss]
       \/ MayLoseDelete /\ UNCHANGED cache
    /\ Go(r, "leaving")
    /\ Tell(r, "failed")
    /\ UNCHANGED <<leaseVars, focus, store, db, applied>>

-----------------------------------------------------------------------------
(* The answer and the deferred Release *)

Reply(r) ==
    /\ stage[r] = "reply"
    /\ answer' = [answer EXCEPT ![r] = "ok"]
    /\ shown' = [shown EXCEPT ![r] = store[r]["cards"]]
    /\ Go(r, "leaving")
    /\ UNCHANGED <<leaseVars, focus, store, data>>

\* The result cannot be marshalled: an error, after the commit and with the new
\* rows in the cache.
ReplyFails(r) ==
    /\ stage[r] = "reply"
    /\ Go(r, "leaving")
    /\ Tell(r, "failed")
    /\ UNCHANGED <<leaseVars, focus, store, data>>

Finish(r) ==
    /\ stage[r] = "leaving"
    /\ IF r \in Locked THEN Leave(r) ELSE UNCHANGED leaseVars
    /\ Go(r, "over")
    /\ UNCHANGED <<focus, store, data, replies>>

-----------------------------------------------------------------------------
(* The environment *)

\* The server dies.  The key of the lock goes with its time to live, which for
\* the others is no different from a Release.
Crash(r) ==
    /\ MayCrash
    /\ stage[r] \notin {"new", "over"}
    /\ IF phase[r] = "in" THEN Leave(r) ELSE UNCHANGED leaseVars
    /\ Go(r, "over")
    /\ UNCHANGED <<focus, store, data, replies>>

\* The lease of a request runs out before its Release.
Overrun(r) ==
    /\ Lapse(r)
    /\ UNCHANGED <<stage, focus, store, data, replies>>

\* The hash user:{id} reaches its time to live.
CacheExpires ==
    /\ cache' = [e \in Entity |-> Miss]
    /\ UNCHANGED <<leaseVars, stage, focus, store, db, applied, replies>>

Step(r) ==
    \/ Admit(r) \/ Refuse(r) \/ Acquire(r) \/ Busy(r)
    \/ CacheHit(r) \/ CacheMiss(r) \/ ReadRow(r) \/ Fill(r)
    \/ Handle(r) \/ HandlerFails(r)
    \/ CommitTx(r) \/ CommitFails(r) \/ Publish(r) \/ PublishFails(r)
    \/ Invalidate(r) \/ Reply(r) \/ ReplyFails(r) \/ Finish(r)

Next ==
    \/ \E r \in Request : Step(r) \/ Crash(r) \/ Overrun(r)
    \/ CacheExpires

Spec == Init /\ [][Next]_vars

\* Each request runs on its own goroutine; its calls return or time out.
FairSpec == Spec /\ \A r \in Request : WF_vars(Step(r))

-----------------------------------------------------------------------------
(* Properties *)

\* The entities that only requests under the lock change.
Guarded == IF Logins = {} THEN Entity ELSE {"cards"}

\* uow.go:25,273: the cache follows the database.  A field of a guarded entity
\* that differs from its row is about to be rewritten or deleted by the request
\* that changed the row.
CacheCoherent ==
    \A e \in Guarded :
        cache[e] \in {Miss, db[e]} \/
            \E r \in Locked \cap applied :
                Wanted(r) = e /\ stage[r] \in {"publish", "invalidate"}

\* dispatch.go:84: requests under the lock are serialised, so that none writes
\* back a row it read before another one changed it.
NoLostUpdate ==
    \A r \in applied : Wanted(r) \in Guarded => r \in db[Wanted(r)]

\* uow.go:273-276: the cache is written after the commit.  Whatever fails, no
\* change that is not committed is ever in the cache or in an answer.
NothingUncommittedIsSeen ==
    /\ \A e \in Entity : cache[e] # Miss => cache[e] \subseteq applied
    /\ \A r \in Request : shown[r] # Miss => shown[r] \subseteq applied

\* dispatch.go:111-137: "ok" comes after the commit, and any other error than
\* "commit failed" and "marshal error" means that the request changed nothing and
\* may be retried.
AnswerTellsOutcome ==
    \A r \in Request \ Reads :
        /\ answer[r] = "ok" => r \in applied
        /\ answer[r] = "rejected" => r \notin applied

\* Every request is answered, whatever Redis and MySQL do, unless its server dies.
EveryRequestIsAnswered ==
    \A r \in Request : stage[r] # "new" ~> answer[r] # "none"

\* What serialisation rests on, part by part.  A request is inside the lock from
\* Acquire to Release and is alone there;
Running == Stage \ {"new", "waiting", "over"}
Alone ==
    /\ lapsed = {}
    /\ \A r \in Request :
           /\ phase[r] = "in" <=> r \in Locked /\ stage[r] \in Running
           /\ stage[r] = "waiting" => r \in Locked
    /\ \A r, s \in Inside : r = s

\* its store holds what it needs, and nothing that its kind does not load;
Loaded ==
    \A r \in Request :
        /\ focus[r] = "cards" \/ store[r]["cards"] # Miss => r \notin LoginRequests
        /\ stage[r] \in {"new", "waiting"} => \A e \in Entity : store[r][e] = Miss
        /\ stage[r] = "fill" => store[r][focus[r]] # Miss
        /\ stage[r] \in {"handle", "commit", "publish", "reply"} =>
               store[r][Wanted(r)] # Miss

\* what it holds of the guarded entities is what the database holds, but for its
\* own change between the handler and the transaction;
StoreFresh ==
    \A r \in Locked, e \in Guarded :
        stage[r] \in Running \ {"invalidate", "leaving"} /\ store[r][e] # Miss =>
            store[r][e] = IF stage[r] = "commit" /\ e = Wanted(r)
                            THEN db[e] \cup {r} ELSE db[e]

\* and a change is in the database from the commit of its request on.
Accounted == \A e \in Guarded : db[e] = {r \in applied : Wanted(r) = e}

\* Whatever fails: the stage of a request tells whether it has committed and
\* whether it has been answered,
Answered ==
    /\ \A r \in Reads : r \notin applied /\ stage[r] # "commit"
    /\ \A r \in applied :
           stage[r] \in {"publish", "invalidate", "reply", "leaving", "over"}
    /\ \A r \in Request :
           /\ stage[r] \notin {"leaving", "over"} => answer[r] = "none"
           /\ stage[r] \in {"publish", "reply"} => r \in Reads \cup applied

\* and rows, fields and stores hold committed changes only, but for the request's
\* own between the handler and the transaction.
Committed ==
    /\ \A e \in Entity : db[e] \subseteq applied
    /\ \A r \in Request, e \in Entity :
           store[r][e] # Miss /\ stage[r] \notin {"invalidate", "leaving", "over"} =>
               store[r][e] \subseteq
                   IF stage[r] = "commit" THEN applied \cup {r} ELSE applied

SerialInv == Alone /\ Loaded /\ StoreFresh /\ Accounted /\ Answered /\ CacheCoherent
FaultInv == Loaded /\ Answered /\ Committed

\* The cards behave as one copy.
Cardholders == Upgrades \cup Reads

Records == INSTANCE UserRecords
              WITH Client <- Cardholders, Writer <- Upgrades,
                   rows <- db["cards"],
                   answer <- [c \in Cardholders |-> answer[c]],
                   shown <- [c \in Cardholders |-> shown[c]]

\* README.md "Unit of Work": what clients see of the cards is what a single copy
\* of the cards would show.
SingleCopy == Records!RecordSpec
=============================================================================
