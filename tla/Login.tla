------------------------------- MODULE Login --------------------------------
(***************************************************************************)
(* Logins of one channel_uid: handler/account/login.go with the account    *)
(* service and repository, the session token and the choice of a shard.    *)
(*                                                                         *)
(* The client of a login does not know its user id, so dispatch takes no   *)
(* lock (Dispatch has the logins that do): every call to MySQL and Redis   *)
(* is a step, and a failure of a call may hide that it took effect.  When  *)
(* a login has been answered, its client goes on playing with the token.   *)
(***************************************************************************)
EXTENDS Integers, Sequences, FiniteSets

CONSTANTS
    Logins,         \* requests for LOGIN
    None,           \* no token
    Shards,         \* the databases in the order of RegisterShard: [id, weight]; no id is 0
    SessionTTL,     \* the lifetime of a token (8h), in ticks
    MayFail         \* TRUE when calls may fail and servers may die

Users == 1..Cardinality(Logins)

ASSUME LoginAssumption ==
    /\ IsFiniteSet(Logins) /\ None \notin Logins
    /\ Shards \in Seq([id : Int \ {0}, weight : Nat])
    /\ \E i \in DOMAIN Shards : Shards[i].weight > 0
    /\ SessionTTL \in Nat \ {0}
    /\ MayFail \in BOOLEAN

VARIABLES
    stage,      \* where a login, and then its client, is
    uid,        \* account.UserID of a login, 0 before it is known
    isNew,      \* the logins that have inserted their account
    home,       \* db_shard_id of the accounts of the channel_uid, 0 where there is none
    granted,    \* granted[s][u]: how often user u got the initial asset and item on shard s
    session,    \* session:user:{id}
    ttl,        \* its remaining lifetime
    \* what has happened, for the properties
    raced,      \* TRUE when two logins have ever been in progress at once
    overtaken,  \* the logins whose token was followed by another one of the user
    idle        \* ticks since the token of a login was issued or used last

history == <<raced, overtaken, idle>>
redis == <<session, ttl>>
vars == <<stage, uid, isNew, home, granted, redis, history>>

Busy == {"find", "insert", "grant", "session", "commit"}
Stage == Busy \cup {"idle", "in", "out", "failed", "dead"}
ShardIds == {Shards[i].id : i \in DOMAIN Shards}
rows == {u \in Users : home[u] # 0}

\* A login that is past its lookup works on an account that exists.
TypeOK ==
    /\ stage \in [Logins -> Stage] /\ isNew \subseteq Logins
    /\ \A l \in Logins :
          uid[l] \in IF stage[l] \in {"grant", "session", "commit", "in", "out"}
                     THEN rows ELSE Users \cup {0}
    /\ home \in [Users -> ShardIds \cup {0}]
    /\ granted \in [ShardIds -> [Users -> 0..Cardinality(Logins)]]
    /\ session \in [Users -> Logins \cup {None}]
    /\ ttl \in [Users -> 0..SessionTTL]
    /\ raced \in BOOLEAN /\ overtaken \subseteq Logins /\ idle \in [Logins -> 0..SessionTTL]

Init ==
    /\ stage = [l \in Logins |-> "idle"] /\ uid = [l \in Logins |-> 0] /\ isNew = {}
    /\ home = [u \in Users |-> 0]
    /\ granted = [s \in ShardIds |-> [u \in Users |-> 0]]
    /\ session = [u \in Users |-> None] /\ ttl = [u \in Users |-> 0]
    /\ raced = FALSE /\ overtaken = {} /\ idle = [l \in Logins |-> 0]

Go(l, s) == stage' = [stage EXCEPT ![l] = s]

-----------------------------------------------------------------------------
(* Shards *)

\* totalWeight after RegisterShard of the first i databases.
CumWeight[i \in 0 .. Len(Shards)] ==
    IF i = 0 THEN 0 ELSE CumWeight[i - 1] + Shards[i].weight
TotalWeight == CumWeight[Len(Shards)]

\* shardPool: the databases with a weight, each with the weight up to it.
Pool == {i \in DOMAIN Shards : Shards[i].weight > 0}

\* Mutant of PickShard: <= for <.
PickShardAtMost(r) ==
    Shards[CHOOSE i \in Pool : r <= CumWeight[i] /\ \A j \in Pool : r <= CumWeight[j] => i <= j].id

\* The shard for the random number r: the first of the pool whose weight is above it.
PickShard(r) ==
    Shards[CHOOSE i \in Pool : r < CumWeight[i] /\ \A j \in Pool : r < CumWeight[j] => i <= j].id

-----------------------------------------------------------------------------
(* AccountService.Login *)

Call(l) ==
    /\ stage[l] = "idle"
    /\ Go(l, "find")
    /\ raced' = (raced \/ \E k \in Logins : stage[k] \in Busy)
    /\ UNCHANGED <<uid, isNew, home, granted, redis, overtaken, idle>>

\* FindUserIdByChannelUID: no ORDER BY, one of the rows if there are several.
Find(l) ==
    /\ stage[l] = "find"
    /\ IF rows = {} THEN Go(l, "insert") /\ UNCHANGED uid
       ELSE Go(l, "session") /\ \E u \in rows : uid' = [uid EXCEPT ![l] = u]
    /\ UNCHANGED <<isNew, home, granted, redis, history>>

\* Mutant of FindFails: an error is taken for "no row".
FindFailsAsMissing(l) ==
    /\ MayFail /\ stage[l] = "find"
    /\ Go(l, "insert")
    /\ UNCHANGED <<uid, isNew, home, granted, redis, history>>

\* The query of the id, or the one of the account after it.
FindFails(l) ==
    /\ MayFail /\ stage[l] = "find"
    /\ Go(l, "failed")
    /\ UNCHANGED <<uid, isNew, home, granted, redis, history>>

\* CreateNow: the account gets the next id and is there at once.
InsertRow == \E r \in 0..(TotalWeight - 1) :
    home' = [home EXCEPT ![Cardinality(rows) + 1] = PickShard(r)]

Insert(l) ==
    /\ stage[l] = "insert" /\ InsertRow
    /\ uid' = [uid EXCEPT ![l] = Cardinality(rows) + 1]
    /\ isNew' = isNew \cup {l}
    /\ Go(l, "grant")
    /\ UNCHANGED <<granted, redis, history>>

\* The row may be there.
InsertFails(l) ==
    /\ MayFail /\ stage[l] = "insert"
    /\ InsertRow \/ UNCHANGED home
    /\ Go(l, "failed")
    /\ UNCHANGED <<uid, isNew, granted, redis, history>>

-----------------------------------------------------------------------------
(* The rest of the handler, and Commit *)

\* AddAsset, AddItem, ConsumeItem read the shard and queue two INSERTs.
Grant(l) ==
    /\ stage[l] = "grant"
    /\ \/ Go(l, "session")
       \/ MayFail /\ Go(l, "failed")
    /\ UNCHANGED <<uid, isNew, home, granted, redis, history>>

Issue(l) ==
    /\ session' = [session EXCEPT ![uid[l]] = l]
    /\ ttl' = [ttl EXCEPT ![uid[l]] = SessionTTL]
    /\ overtaken' = overtaken \cup ({k \in Logins : uid[k] = uid[l]} \ {l})
    /\ idle' = [idle EXCEPT ![l] = 0]

\* UserSession.Set.
SetSession(l) ==
    /\ stage[l] = "session"
    /\ Issue(l)
    /\ Go(l, "commit")
    /\ UNCHANGED <<uid, isNew, home, granted, raced>>

SetSessionFails(l) ==
    /\ MayFail /\ stage[l] = "session"
    /\ Issue(l) \/ UNCHANGED <<redis, overtaken, idle>>
    /\ Go(l, "failed")
    /\ UNCHANGED <<uid, isNew, home, granted, raced>>

\* Mutant of Transaction: the initial grants whenever an account logs in.
TransactionGrantingAll(l) ==
    granted' = [granted EXCEPT ![home[uid[l]]][uid[l]] = @ + 1]

\* The queue: the grants on the account's shard, or the device of a known account
\* in the game database (Dispatch).
Transaction(l) ==
    IF l \in isNew THEN granted' = [granted EXCEPT ![home[uid[l]]][uid[l]] = @ + 1]
    ELSE UNCHANGED granted

Commit(l) ==
    /\ stage[l] = "commit"
    /\ Transaction(l)
    /\ Go(l, "in")
    /\ UNCHANGED <<uid, isNew, home, redis, history>>

\* The transaction, its confirmation or the write to the cache.
CommitFails(l) ==
    /\ MayFail /\ stage[l] = "commit"
    /\ Transaction(l) \/ UNCHANGED granted
    /\ Go(l, "failed")
    /\ UNCHANGED <<uid, isNew, home, redis, history>>

\* The server dies.
Crash(l) ==
    /\ MayFail /\ stage[l] \in Busy
    /\ Go(l, "dead")
    /\ UNCHANGED <<uid, isNew, home, granted, redis, history>>

-----------------------------------------------------------------------------
(* The session in later requests: UserSession.VerifyAndRefresh *)

\* Mutant of Verify: the lifetime does not slide.
VerifyWithoutRefresh(l) ==
    /\ stage[l] = "in" /\ session[uid[l]] = l
    /\ idle' = [idle EXCEPT ![l] = 0]
    /\ UNCHANGED <<stage, uid, isNew, home, granted, redis, raced, overtaken>>

Verify(l) ==
    /\ stage[l] = "in" /\ session[uid[l]] = l
    /\ ttl' = [ttl EXCEPT ![uid[l]] = SessionTTL]
    /\ idle' = [idle EXCEPT ![l] = 0]
    /\ UNCHANGED <<stage, uid, isNew, home, granted, session, raced, overtaken>>

\* CodeUnauthorized: the client has to log in again.
VerifyRefused(l) ==
    /\ stage[l] = "in" /\ session[uid[l]] # l
    /\ Go(l, "out")
    /\ UNCHANGED <<uid, isNew, home, granted, redis, history>>

\* Time: Redis deletes the tokens whose lifetime is over.
Tick ==
    /\ \E u \in Users : session[u] # None
    /\ ttl' = [u \in Users |-> IF ttl[u] = 0 THEN 0 ELSE ttl[u] - 1]
    /\ session' = [u \in Users |-> IF ttl'[u] = 0 THEN None ELSE session[u]]
    /\ idle' = [l \in Logins |-> IF idle[l] = SessionTTL THEN SessionTTL ELSE idle[l] + 1]
    /\ UNCHANGED <<stage, uid, isNew, home, granted, raced, overtaken>>

-----------------------------------------------------------------------------
Step(l) ==
    \/ Find(l) \/ FindFails(l) \/ Insert(l) \/ InsertFails(l) \/ Grant(l)
    \/ SetSession(l) \/ SetSessionFails(l) \/ Commit(l) \/ CommitFails(l)

Next ==
    \/ \E l \in Logins :
          Call(l) \/ Step(l) \/ Crash(l) \/ Verify(l) \/ VerifyRefused(l)
    \/ Tick

Spec == Init /\ [][Next]_vars

-----------------------------------------------------------------------------
(* Properties *)

\* The channel_uid keeps one account, and every device is told the same user id, as
\* long as no two logins are in progress at once: with failed queries, an INSERT
\* whose confirmation is lost and servers that die in between (account_service.go:21
\* looks the account up and inserts it in two calls, without lock and UNIQUE key).
OneAccountUnlessRaced ==
    ~raced => /\ Cardinality(rows) <= 1
              /\ \A l, k \in Logins : {stage[l], stage[k]} \subseteq {"in", "out"}
                                      => uid[l] = uid[k]

\* The initial asset and item (login.go:31-41) are given at most once, on the shard
\* the account was placed on, and never missing where the login that made the
\* account was answered.
GrantsFollowAccount ==
    /\ \A s \in ShardIds, u \in Users :
          granted[s][u] <= IF home[u] = s THEN 1 ELSE 0
    /\ \A l \in isNew : stage[l] \in {"in", "out"} => granted[home[uid[l]]][uid[l]] = 1

\* A token that was answered (login.go:47,56) is refused only after another login of
\* the user or SessionTTL without a request (user_session.go:61, sliding).
LoggedOutForAReason ==
    \A l \in Logins : stage[l] = "out" => l \in overtaken \/ idle[l] = SessionTTL

\* Whenever an account is made, PickShard (database.go:100) gives every shard its
\* share of the random numbers, and none to one without weight.
PickIsProportional ==
    \A l \in Logins : stage[l] = "insert" =>
        \A i \in DOMAIN Shards :
            Cardinality({r \in 0..(TotalWeight - 1) : PickShard(r) = Shards[i].id})
                = Shards[i].weight
=============================================================================
