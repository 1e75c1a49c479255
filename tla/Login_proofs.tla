----------------------------- MODULE Login_proofs ----------------------------
(***************************************************************************)
(* Proofs about logins of one channel_uid, for any number of logins, any   *)
(* lifetime of tokens and any shards: what PickShard draws plays no part.  *)
(***************************************************************************)
EXTENDS Login, FiniteSetTheorems, WellFoundedInduction, TLAPS

\* The logins that have asked for the INSERT, or need not.
Past == {l \in Logins : stage[l] \notin {"idle", "find", "insert"}}

\* There are functions, and no more accounts than logins that may have made one.
Shapes ==
    /\ stage = [l \in Logins |-> stage[l]] /\ uid = [l \in Logins |-> uid[l]]
    /\ home = [u \in Users |-> home[u]]
    /\ session = [u \in Users |-> session[u]] /\ ttl = [u \in Users |-> ttl[u]]
    /\ idle = [l \in Logins |-> idle[l]]
    /\ Cardinality(rows) <= Cardinality(Past)
    /\ \A l \in Logins : stage[l] \in {"grant", "session", "commit", "in", "out"}
                         => uid[l] \in Users

\* Without a race: one login is in progress, and the account is that of the first INSERT.
OneAccount ==
    ~raced =>
        /\ rows \subseteq {1}
        /\ \A l, k \in Logins : stage[l] \in Busy /\ stage[k] \in Busy => l = k
        /\ \A l \in Logins :
              /\ stage[l] = "insert" => rows = {}
              /\ stage[l] \in {"grant", "session", "commit", "in", "out"} => uid[l] = 1

\* The token of a login is in Redis for as long as it has not been used for, or there is a
\* reason for which it is not.
Lost(l) == l \in overtaken \/ idle[l] = SessionTTL
Stored(l) == session[uid[l]] = l /\ ttl[uid[l]] + idle[l] >= SessionTTL
Tokens ==
    /\ \A u \in Users : ttl[u] \in 0 .. SessionTTL /\ (session[u] # None => ttl[u] > 0)
    /\ \A l \in Logins :
          /\ idle[l] \in 0 .. SessionTTL
          /\ stage[l] \in {"commit", "in"} => Stored(l) \/ Lost(l)
          /\ stage[l] = "out" => Lost(l)

IInv == Shapes /\ OneAccount /\ Tokens

-----------------------------------------------------------------------------
\* What the assumptions say of sets and numbers.
LEMMA Sets ==
    /\ IsFiniteSet(Users) /\ Cardinality(Users) = Cardinality(Logins)
    /\ Cardinality(Logins) \in Nat /\ Users = 1 .. Cardinality(Logins)
    /\ SessionTTL \in Nat \ {0} /\ None \notin Logins
<1>1. IsFiniteSet(Logins) /\ Cardinality(Logins) \in Nat
  BY LoginAssumption, FS_CardinalityType
<1>2. IsFiniteSet(1 .. Cardinality(Logins))
      /\ Cardinality(1 .. Cardinality(Logins)) = Cardinality(Logins)
  BY <1>1, FS_Interval
<1>. QED  BY <1>1, <1>2, LoginAssumption DEF Users

\* Accounts and the logins behind them are finite, and may only be as many as logins.
LEMMA Counts ==
    /\ IsFiniteSet(rows) /\ Cardinality(rows) \in Nat
    /\ IsFiniteSet(Past) /\ Cardinality(Past) \in Nat
    /\ \A l \in Logins \ Past : Cardinality(Past) + 1 <= Cardinality(Logins)
<1>1. rows \subseteq Users /\ Past \subseteq Logins
  BY DEF rows, Past
<1>2. IsFiniteSet(rows) /\ IsFiniteSet(Past) /\ IsFiniteSet(Logins)
  BY <1>1, Sets, LoginAssumption, FS_Subset
<1>3. ASSUME NEW l \in Logins \ Past PROVE Cardinality(Past) + 1 <= Cardinality(Logins)
  <2>1. Cardinality(Past \cup {l}) = Cardinality(Past) + 1
    BY <1>2, <1>3, FS_AddElement
  <2>2. Past \cup {l} \subseteq Logins
    BY <1>1
  <2>. QED  BY <1>2, <2>1, <2>2, FS_Subset
<1>. QED  BY <1>2, <1>3, FS_CardinalityType

\* Nobody has called and there are no accounts and no tokens.
LEMMA InitIInv == Init => IInv
<1> SUFFICES ASSUME Init PROVE IInv
  OBVIOUS
<1>1. \A l \in Logins : stage[l] = "idle" /\ idle[l] = 0
  BY DEF Init
<1>2. rows = {} /\ Past = {} /\ \A u \in Users : session[u] = None /\ ttl[u] = 0
  BY <1>1 DEF Init, rows, Past
<1>3. Shapes
  <2>1. Cardinality(rows) <= Cardinality(Past)
    BY <1>2, Counts
  <2>. QED  BY <1>1, <2>1 DEF Init, Shapes
<1>4. OneAccount
  BY <1>1, <1>2 DEF OneAccount, Busy
<1>5. Tokens
  BY <1>1, <1>2, Sets DEF Tokens
<1>. QED  BY <1>3, <1>4, <1>5 DEF IInv

-----------------------------------------------------------------------------
(* The number of accounts *)

\* A login goes on: past the INSERT it stays past it.
LEMMA PastGrows ==
    ASSUME Shapes, NEW l \in Logins, NEW s, Go(l, s),
           l \in Past => s \notin {"idle", "find", "insert"}
    PROVE  /\ stage' = [k \in Logins |-> stage'[k]]
           /\ stage'[l] = s /\ \A k \in Logins \ {l} : stage'[k] = stage[k]
           /\ Cardinality(Past) <= Cardinality(Past') /\ Cardinality(Past') \in Nat
           /\ l \notin Past /\ s \notin {"idle", "find", "insert"}
                 => Cardinality(Past') = Cardinality(Past) + 1
<1>1. /\ stage' = [k \in Logins |-> stage'[k]]
      /\ stage'[l] = s /\ \A k \in Logins \ {l} : stage'[k] = stage[k]
  BY DEF Shapes, Go
<1>2. IsFiniteSet(Past) /\ IsFiniteSet(Past')
  <2>1. Past \subseteq Logins /\ Past' \subseteq Logins
    BY DEF Past
  <2>. QED  BY <2>1, LoginAssumption, FS_Subset
<1>3. Past \subseteq Past'
  BY <1>1 DEF Past
<1>4. ASSUME l \notin Past, s \notin {"idle", "find", "insert"}
      PROVE  Cardinality(Past') = Cardinality(Past) + 1
  <2>1. Past' = Past \cup {l}
    BY <1>1, <1>4 DEF Past
  <2>. QED  BY <1>2, <1>4, <2>1, FS_AddElement
<1>. QED  BY <1>1, <1>2, <1>3, <1>4, FS_Subset, FS_CardinalityType

\* An INSERT gives the next id to an account, if any.
LEMMA RowsGrow ==
    ASSUME Shapes, InsertRow
    PROVE  /\ home' = [u \in Users |-> home'[u]]
           /\ rows' \subseteq rows \cup {Cardinality(rows) + 1}
           /\ Cardinality(rows') \in Nat
           /\ Cardinality(rows') <= Cardinality(rows) + 1
<1>1. PICK shard : home' = [home EXCEPT ![Cardinality(rows) + 1] = shard]
  BY DEF InsertRow
<1>2. home' = [u \in Users |-> home'[u]]
      /\ \A u \in Users : u # Cardinality(rows) + 1 => home'[u] = home[u]
  BY <1>1 DEF Shapes
<1>3. rows' \subseteq rows \cup {Cardinality(rows) + 1}
  BY <1>2 DEF rows
<1>4. /\ IsFiniteSet(rows \cup {Cardinality(rows) + 1})
      /\ Cardinality(rows \cup {Cardinality(rows) + 1}) <= Cardinality(rows) + 1
  <2> DEFINE n == Cardinality(rows) + 1
  <2>1. IsFiniteSet(rows) /\ Cardinality(rows) \in Nat
    BY Counts
  <2>2. /\ IsFiniteSet(rows \cup {n})
        /\ Cardinality(rows \cup {n}) \in {Cardinality(rows), Cardinality(rows) + 1}
    BY <2>1, FS_AddElement
  <2>. QED  BY <2>1, <2>2
<1>5. /\ IsFiniteSet(rows')
      /\ Cardinality(rows') <= Cardinality(rows \cup {Cardinality(rows) + 1})
  BY <1>3, <1>4, FS_Subset
<1>6. Cardinality(rows') \in Nat /\ Cardinality(rows \cup {Cardinality(rows) + 1}) \in Nat
  BY <1>4, <1>5, FS_CardinalityType
<1>. QED  BY <1>2, <1>3, <1>4, <1>5, <1>6, Counts

-----------------------------------------------------------------------------
(* The steps *)

Known == {"grant", "session", "commit", "in", "out"}

\* A step that touches neither rows nor tokens.
LEMMA GoesOn ==
    ASSUME IInv, NEW l \in Logins, NEW s, Go(l, s),
           UNCHANGED <<home, session, ttl, raced, overtaken, idle>>,
           s \notin {"idle", "find", "commit"}, s \in Busy => stage[l] \in Busy,
           s = "insert" => stage[l] = "find" /\ rows = {},
           s = "in" => stage[l] = "commit",
           s = "out" => stage[l] = "in" /\ session[uid[l]] # l,
           \/ UNCHANGED uid /\ (s \in Known => stage[l] \in Known)
           \/ s = "session" /\ \E u \in rows : uid' = [uid EXCEPT ![l] = u]
    PROVE  IInv'
<1>1. /\ stage' = [k \in Logins |-> stage'[k]]
      /\ stage'[l] = s /\ \A k \in Logins \ {l} : stage'[k] = stage[k]
      /\ Cardinality(Past) <= Cardinality(Past') /\ Cardinality(Past') \in Nat
  <2>1. l \in Past => s \notin {"idle", "find", "insert"}
    BY DEF Past
  <2>. QED  BY <2>1, PastGrows DEF IInv
<1>2. /\ uid' = [k \in Logins |-> uid'[k]]
      /\ \A k \in Logins \ {l} : uid'[k] = uid[k]
      /\ uid'[l] = uid[l] \/ (s = "session" /\ uid'[l] \in rows)
  BY DEF IInv, Shapes
<1>3. rows' = rows /\ rows \subseteq Users
  BY DEF rows
<1>4. Shapes'
  <2>1. Cardinality(rows') <= Cardinality(Past')
    BY <1>1, <1>3, Counts DEF IInv, Shapes
  <2>2. ASSUME NEW k \in Logins, stage'[k] \in Known PROVE uid'[k] \in Users
    BY <1>1, <1>2, <1>3, <2>2 DEF IInv, Shapes, Known
  <2>. QED  BY <1>1, <1>2, <2>1, <2>2 DEF IInv, Shapes, Known
<1>5. OneAccount'
  BY <1>1, <1>2, <1>3 DEF IInv, OneAccount, Known
<1>6. Tokens'
  <2>1. ASSUME NEW k \in Logins
        PROVE  /\ stage'[k] \in {"commit", "in"} => Stored(k)' \/ Lost(k)'
               /\ stage'[k] = "out" => Lost(k)'
    BY <1>1, <1>2 DEF IInv, Tokens, Stored, Lost
  <2>. QED  BY <2>1 DEF IInv, Tokens
<1>. QED  BY <1>4, <1>5, <1>6 DEF IInv

\* A login is called, and from then on may race.
LEMMA CallKeeps ==
    ASSUME IInv, NEW l \in Logins, Call(l)
    PROVE  IInv'
<1>1. /\ stage' = [k \in Logins |-> stage'[k]]
      /\ stage[l] = "idle" /\ stage'[l] = "find"
      /\ \A k \in Logins \ {l} : stage'[k] = stage[k]
      /\ Cardinality(Past) <= Cardinality(Past') /\ Cardinality(Past') \in Nat
  <2>1. l \notin Past
    BY DEF Past, Call
  <2>. QED  BY <2>1, PastGrows DEF IInv, Call
<1>2. UNCHANGED <<uid, home, session, ttl, overtaken, idle, rows>>
  BY DEF Call, redis, rows
<1>3. Shapes'
  <2>1. Cardinality(rows') <= Cardinality(Past')
    BY <1>1, <1>2, Counts DEF IInv, Shapes
  <2>. QED  BY <1>1, <1>2, <2>1 DEF IInv, Shapes
<1>4. OneAccount'
  <2>1. ~raced' => ~raced /\ \A k \in Logins : stage[k] \notin Busy
    BY DEF Call
  <2>. QED  BY <1>1, <1>2, <2>1 DEF IInv, OneAccount
<1>5. Tokens'
  BY <1>1, <1>2 DEF IInv, Tokens, Stored, Lost
<1>. QED  BY <1>3, <1>4, <1>5 DEF IInv

\* The account is made, whether the login is told or not.
LEMMA InsertKeeps ==
    ASSUME IInv, NEW l \in Logins, Insert(l) \/ InsertFails(l)
    PROVE  IInv'
<1>1. /\ stage' = [k \in Logins |-> stage'[k]]
      /\ stage[l] = "insert" /\ stage'[l] \in {"grant", "failed"}
      /\ \A k \in Logins \ {l} : stage'[k] = stage[k]
      /\ Cardinality(Past') = Cardinality(Past) + 1
      /\ Cardinality(Past) + 1 <= Cardinality(Logins)
  <2>1. PICK s \in {"grant", "failed"} : Go(l, s)
    BY DEF Insert, InsertFails
  <2>2. stage[l] = "insert" /\ l \notin Past
    BY DEF Insert, InsertFails, Past
  <2>3. Cardinality(Past') = Cardinality(Past) + 1
    BY <2>1, <2>2, PastGrows DEF IInv
  <2>. QED  BY <2>1, <2>2, <2>3, PastGrows, Counts DEF IInv
<1>2. UNCHANGED <<session, ttl, overtaken, idle, raced>>
  BY DEF Insert, InsertFails, redis, history
<1>3. /\ home' = [u \in Users |-> home'[u]]
      /\ rows' \subseteq rows \cup {Cardinality(rows) + 1}
      /\ Cardinality(rows') \in Nat
      /\ Cardinality(rows') <= Cardinality(rows) + 1
  <2>1. CASE InsertRow
    BY <2>1, RowsGrow DEF IInv
  <2>2. CASE UNCHANGED home
    <3>1. rows' = rows
      BY <2>2 DEF rows
    <3>. QED  BY <2>2, <3>1, Counts DEF IInv, Shapes
  <2>. QED  BY <2>1, <2>2 DEF Insert, InsertFails
<1>4. /\ uid' = [k \in Logins |-> uid'[k]]
      /\ \A k \in Logins \ {l} : uid'[k] = uid[k]
      /\ stage'[l] = "grant" => uid'[l] = Cardinality(rows) + 1
  BY DEF Insert, InsertFails, Go, IInv, Shapes
<1>5. Cardinality(rows) + 1 \in Users
  BY <1>1, Counts, Sets DEF IInv, Shapes
<1>6. Shapes'
  <2>1. Cardinality(rows') <= Cardinality(Past')
    BY <1>1, <1>3, Counts DEF IInv, Shapes
  <2>. QED  BY <1>1, <1>2, <1>3, <1>4, <1>5, <2>1 DEF IInv, Shapes
<1>7. OneAccount'
  <2>1. ASSUME ~raced PROVE Cardinality(rows) = 0 /\ rows' \subseteq {1}
    <3>1. rows = {}
      BY <1>1, <2>1 DEF IInv, OneAccount
    <3>2. Cardinality(rows) = 0
      BY <3>1, FS_EmptySet
    <3>. QED  BY <1>3, <3>1, <3>2
  <2>2. ASSUME ~raced, NEW k \in Logins, k # l
        PROVE  stage[k] \notin Busy
    BY <1>1, <2>2 DEF IInv, OneAccount, Busy
  <2>. QED  BY <1>1, <1>2, <1>4, <2>1, <2>2 DEF IInv, OneAccount, Busy
<1>8. Tokens'
  BY <1>1, <1>2, <1>4 DEF IInv, Tokens, Stored, Lost
<1>. QED  BY <1>6, <1>7, <1>8 DEF IInv

\* A token is issued or, when that fails, may have been.
LEMMA SessionKeeps ==
    ASSUME IInv, NEW l \in Logins, SetSession(l) \/ SetSessionFails(l)
    PROVE  IInv'
<1>1. /\ stage' = [k \in Logins |-> stage'[k]]
      /\ stage[l] = "session" /\ stage'[l] \in {"commit", "failed"}
      /\ \A k \in Logins \ {l} : stage'[k] = stage[k]
      /\ Cardinality(Past) <= Cardinality(Past') /\ Cardinality(Past') \in Nat
  <2>1. PICK s \in {"commit", "failed"} : Go(l, s)
    BY DEF SetSession, SetSessionFails
  <2>. QED  BY <2>1, PastGrows DEF IInv, SetSession, SetSessionFails
<1>2. UNCHANGED <<uid, home, raced, rows>>
  BY DEF SetSession, SetSessionFails, rows
<1>3. /\ Issue(l) \/ UNCHANGED <<session, ttl, overtaken, idle>>
      /\ stage'[l] = "commit" => Issue(l)
  BY DEF SetSession, SetSessionFails, Go, redis, IInv, Shapes
<1>4. uid[l] \in Users
  BY <1>1 DEF IInv, Shapes
<1>5. /\ session' = [u \in Users |-> session'[u]] /\ ttl' = [u \in Users |-> ttl'[u]]
      /\ idle' = [k \in Logins |-> idle'[k]]
  BY <1>3 DEF Issue, IInv, Shapes
<1>6. Shapes'
  <2>1. Cardinality(rows') <= Cardinality(Past')
    BY <1>1, <1>2, Counts DEF IInv, Shapes
  <2>. QED  BY <1>1, <1>2, <1>5, <2>1 DEF IInv, Shapes
<1>7. OneAccount'
  BY <1>1, <1>2 DEF IInv, OneAccount, Busy
<1>8. Tokens'
  <2>1. CASE Issue(l)
    <3>1. /\ session'[uid[l]] = l /\ ttl'[uid[l]] = SessionTTL /\ idle'[l] = 0
          /\ \A u \in Users \ {uid[l]} : session'[u] = session[u] /\ ttl'[u] = ttl[u]
          /\ \A k \in Logins \ {l} : idle'[k] = idle[k]
          /\ \A k \in Logins \ {l} : uid[k] = uid[l] => k \in overtaken'
          /\ overtaken \subseteq overtaken'
      BY <1>4, <2>1 DEF Issue, IInv, Shapes
    <3>2. \A u \in Users : ttl'[u] \in 0 .. SessionTTL /\ (session'[u] # None => ttl'[u] > 0)
      BY <3>1, Sets DEF IInv, Tokens
    <3>3. ASSUME NEW k \in Logins
          PROVE  /\ idle'[k] \in 0 .. SessionTTL
                 /\ stage'[k] \in {"commit", "in"} => Stored(k)' \/ Lost(k)'
                 /\ stage'[k] = "out" => Lost(k)'
      <4>1. CASE k = l
        BY <1>1, <1>2, <3>1, <4>1, Sets DEF Stored
      <4>2. CASE k # l /\ stage[k] \in {"commit", "in"}
        <5>1. uid[k] \in Users
          BY <4>2 DEF IInv, Shapes
        <5>. QED  BY <1>1, <1>2, <3>1, <4>2, <5>1 DEF IInv, Tokens, Stored, Lost
      <4>3. CASE k # l /\ stage[k] \notin {"commit", "in"}
        BY <1>1, <3>1, <4>3 DEF IInv, Tokens, Lost
      <4>. QED  BY <4>1, <4>2, <4>3
    <3>. QED  BY <3>2, <3>3 DEF Tokens
  <2>2. CASE ~Issue(l)
    BY <1>1, <1>2, <1>3, <2>2 DEF IInv, Tokens, Stored, Lost
  <2>. QED  BY <2>1, <2>2
<1>. QED  BY <1>6, <1>7, <1>8 DEF IInv

\* The client plays on, and time passes.
LEMMA TokensAge ==
    ASSUME IInv, Tick \/ \E l \in Logins : Verify(l)
    PROVE  IInv'
<1>1. UNCHANGED <<stage, uid, home, raced, overtaken, rows, Past>>
  BY DEF Tick, Verify, rows, Past
<1>2. CASE Tick
  <2>1. \A u \in Users :
            /\ ttl'[u] = IF ttl[u] = 0 THEN 0 ELSE ttl[u] - 1
            /\ session'[u] = IF ttl'[u] = 0 THEN None ELSE session[u]
    BY <1>2 DEF Tick
  <2>2. \A l \in Logins :
            idle'[l] = IF idle[l] = SessionTTL THEN SessionTTL ELSE idle[l] + 1
    BY <1>2 DEF Tick
  <2>3. /\ session' = [u \in Users |-> session'[u]] /\ ttl' = [u \in Users |-> ttl'[u]]
        /\ idle' = [l \in Logins |-> idle'[l]]
    BY <1>2 DEF Tick
  <2>4. Shapes' /\ OneAccount'
    BY <1>1, <2>3 DEF IInv, Shapes, OneAccount
  <2>5. \A u \in Users : ttl'[u] \in 0 .. SessionTTL /\ (session'[u] # None => ttl'[u] > 0)
    BY <2>1, Sets DEF IInv, Tokens
  <2>6. ASSUME NEW l \in Logins
        PROVE  /\ idle'[l] \in 0 .. SessionTTL
               /\ stage'[l] \in {"commit", "in"} => Stored(l)' \/ Lost(l)'
               /\ stage'[l] = "out" => Lost(l)'
    <3>1. idle[l] \in 0 .. SessionTTL /\ idle'[l] \in 0 .. SessionTTL
      BY <2>2, Sets DEF IInv, Tokens
    <3>2. Lost(l) => Lost(l)'
      BY <1>1, <2>2 DEF Lost
    <3>3. ASSUME stage[l] \in {"commit", "in"}, Stored(l) PROVE Stored(l)' \/ Lost(l)'
      <4>1. uid[l] \in Users /\ l # None
        BY <3>3, Sets DEF IInv, Shapes
      <4>2. ttl[uid[l]] \in 0 .. SessionTTL /\ ttl[uid[l]] > 0
        BY <3>3, <4>1 DEF IInv, Tokens, Stored
      <4>3. ttl'[uid[l]] = ttl[uid[l]] - 1
        BY <2>1, <4>1, <4>2
      <4>4. CASE ttl[uid[l]] = 1
        BY <2>2, <3>1, <3>3, <4>4, Sets DEF Stored, Lost
      <4>5. CASE ttl[uid[l]] > 1
        <5>1. session'[uid[l]] = l
          BY <2>1, <3>3, <4>1, <4>2, <4>3, <4>5 DEF Stored
        <5>2. ttl'[uid[l]] + idle'[l] >= SessionTTL
          BY <2>2, <3>1, <3>3, <4>2, <4>3, Sets DEF Stored
        <5>. QED  BY <1>1, <5>1, <5>2 DEF Stored
      <4>. QED  BY <4>2, <4>4, <4>5, Sets
    <3>. QED  BY <1>1, <3>1, <3>2, <3>3 DEF IInv, Tokens
  <2>. QED  BY <2>4, <2>5, <2>6 DEF IInv, Tokens
<1>3. ASSUME NEW l \in Logins, Verify(l) PROVE IInv'
  <2>1. stage[l] = "in" /\ session[uid[l]] = l /\ uid[l] \in Users /\ UNCHANGED session
    BY <1>3 DEF Verify, IInv, Shapes
  <2>2. /\ ttl' = [u \in Users |-> ttl'[u]] /\ idle' = [k \in Logins |-> idle'[k]]
        /\ ttl'[uid[l]] = SessionTTL /\ idle'[l] = 0
        /\ \A u \in Users : u # uid[l] => ttl'[u] = ttl[u]
        /\ \A k \in Logins : k # l => idle'[k] = idle[k]
    BY <1>3, <2>1 DEF Verify, IInv, Shapes
  <2>3. Shapes' /\ OneAccount'
    BY <1>1, <2>1, <2>2 DEF IInv, Shapes, OneAccount
  <2>4. \A u \in Users : ttl'[u] \in 0 .. SessionTTL /\ (session'[u] # None => ttl'[u] > 0)
    BY <2>1, <2>2, Sets DEF IInv, Tokens
  <2>5. ASSUME NEW k \in Logins
        PROVE  /\ idle'[k] \in 0 .. SessionTTL
               /\ stage'[k] \in {"commit", "in"} => Stored(k)' \/ Lost(k)'
               /\ stage'[k] = "out" => Lost(k)'
    <3>1. CASE k = l
      BY <1>1, <2>1, <2>2, <3>1, Sets DEF Stored
    <3>2. CASE k # l /\ stage[k] \in {"commit", "in"}
      <4>1. uid[k] \in Users
        BY <3>2 DEF IInv, Shapes
      <4>2. uid[k] = uid[l] => ~Stored(k)
        BY <2>1, <3>2 DEF Stored
      <4>. QED  BY <1>1, <2>1, <2>2, <3>2, <4>1, <4>2 DEF IInv, Tokens, Stored, Lost
    <3>3. CASE k # l /\ stage[k] \notin {"commit", "in"}
      BY <1>1, <2>2, <3>3 DEF IInv, Tokens, Lost
    <3>. QED  BY <3>1, <3>2, <3>3
  <2>. QED  BY <2>3, <2>4, <2>5 DEF IInv, Tokens
<1>. QED  BY <1>2, <1>3

-----------------------------------------------------------------------------
\* Every step of the system keeps the invariant.
LEMMA Invariance ==
    ASSUME IInv, [Next]_vars
    PROVE  IInv'
<1>1. ASSUME NEW l \in Logins,
             \/ Find(l) \/ FindFails(l) \/ Grant(l) \/ Commit(l) \/ CommitFails(l)
             \/ Crash(l) \/ VerifyRefused(l)
      PROVE  IInv'
  <2>1. UNCHANGED <<home, session, ttl, raced, overtaken, idle>>
    BY <1>1 DEF Find, FindFails, Grant, Commit, CommitFails, Crash, VerifyRefused, redis, history
  <2>2. CASE Find(l)
    <3>1. CASE rows = {}
      <4>1. Go(l, "insert") /\ stage[l] = "find" /\ UNCHANGED uid
        BY <2>2, <3>1 DEF Find
      <4>. QED  BY <2>1, <3>1, <4>1, GoesOn DEF Busy, Known
    <3>2. CASE rows # {}
      <4>1. /\ Go(l, "session") /\ stage[l] = "find"
            /\ \E u \in rows : uid' = [uid EXCEPT ![l] = u]
        BY <2>2, <3>2 DEF Find
      <4>. QED  BY <2>1, <4>1, GoesOn DEF Busy
    <3>. QED  BY <3>1, <3>2
  <2>3. CASE Go(l, "failed") /\ UNCHANGED uid
    BY <2>1, <2>3, GoesOn DEF Busy, Known
  <2>4. CASE Grant(l) /\ Go(l, "session")
    <3>1. stage[l] = "grant" /\ UNCHANGED uid
      BY <2>4 DEF Grant
    <3>. QED  BY <2>1, <2>4, <3>1, GoesOn DEF Busy, Known
  <2>5. CASE Commit(l)
    <3>1. stage[l] = "commit" /\ Go(l, "in") /\ UNCHANGED uid
      BY <2>5 DEF Commit
    <3>. QED  BY <2>1, <3>1, GoesOn DEF Busy, Known
  <2>6. CASE Crash(l)
    <3>1. Go(l, "dead") /\ UNCHANGED uid
      BY <2>6 DEF Crash
    <3>. QED  BY <2>1, <3>1, GoesOn DEF Busy, Known
  <2>7. CASE VerifyRefused(l)
    <3>1. stage[l] = "in" /\ session[uid[l]] # l /\ Go(l, "out") /\ UNCHANGED uid
      BY <2>7 DEF VerifyRefused
    <3>. QED  BY <2>1, <3>1, GoesOn DEF Busy, Known
  <2>. QED  BY <1>1, <2>2, <2>3, <2>4, <2>5, <2>6, <2>7
            DEF FindFails, Grant, CommitFails
<1>2. CASE \E l \in Logins : Call(l) \/ Step(l) \/ Crash(l) \/ Verify(l) \/ VerifyRefused(l)
  <2>1. PICK l \in Logins : Call(l) \/ Step(l) \/ Crash(l) \/ Verify(l) \/ VerifyRefused(l)
    BY <1>2
  <2>2. CASE Call(l)
    BY <2>2, CallKeeps
  <2>3. CASE Step(l) \/ Crash(l) \/ VerifyRefused(l)
    BY <1>1, <2>3, InsertKeeps, SessionKeeps DEF Step
  <2>4. CASE Verify(l)
    BY <2>4, TokensAge
  <2>. QED  BY <2>1, <2>2, <2>3, <2>4
<1>3. CASE Tick
  BY <1>3, TokensAge
<1>4. CASE UNCHANGED vars
  <2>1. UNCHANGED <<stage, uid, home, session, ttl, raced, overtaken, idle, rows, Past>>
    BY <1>4 DEF vars, redis, history, rows, Past
  <2>. QED  BY <2>1 DEF IInv, Shapes, OneAccount, Tokens, Stored, Lost
<1>. QED  BY <1>2, <1>3, <1>4 DEF Next

\* account_service.go:21: the channel_uid keeps one account, and every device is told the
\* same user id, as long as no two logins are in progress at once, whatever fails.
THEOREM OneChannelOneAccount == Spec => []OneAccountUnlessRaced
<1>1. Init => IInv
  BY InitIInv
<1>2. IInv /\ [Next]_vars => IInv'
  BY Invariance
<1>3. IInv => OneAccountUnlessRaced
  <2> SUFFICES ASSUME IInv, ~raced
               PROVE  /\ Cardinality(rows) <= 1
                      /\ \A l, k \in Logins : {stage[l], stage[k]} \subseteq {"in", "out"}
                                              => uid[l] = uid[k]
    BY DEF OneAccountUnlessRaced
  <2>1. rows \subseteq {1} /\ IsFiniteSet({1}) /\ Cardinality({1}) = 1
    BY FS_Singleton DEF IInv, OneAccount
  <2>2. Cardinality(rows) <= 1
    BY <2>1, FS_Subset
  <2>. QED  BY <2>2 DEF IInv, OneAccount
<1>. QED  BY <1>1, <1>2, <1>3, PTL DEF Spec

\* user_session.go:61: a token that was answered is refused only after another login of the
\* user or a whole SessionTTL without a request.
THEOREM LogoutsHaveReasons == Spec => []LoggedOutForAReason
<1>1. Init => IInv
  BY InitIInv
<1>2. IInv /\ [Next]_vars => IInv'
  BY Invariance
<1>3. IInv => LoggedOutForAReason
  BY DEF IInv, Tokens, Lost, LoggedOutForAReason
<1>. QED  BY <1>1, <1>2, <1>3, PTL DEF Spec

-----------------------------------------------------------------------------
(* The choice of a shard *)

\* The least counterexample stands for induction.
LEMMA Least ==
    ASSUME NEW S, S \subseteq Nat, S # {}
    PROVE  \E m \in S : \A n \in S : m <= n
<1>1. PICK m \in S : \A n \in S : <<n, m>> \notin OpToRel(<, Nat)
  BY WFMin, NatLessThanWellFounded, Zenon
<1>2. \A n \in S : ~(n < m)
  BY <1>1, Zenon DEF OpToRel
<1>. QED  BY <1>2

\* The weights of the databases are numbers.
LEMMA Weights ==
    /\ Len(Shards) \in Nat /\ DOMAIN Shards = 1 .. Len(Shards)
    /\ \A i \in 1 .. Len(Shards) : Shards[i].weight \in Nat /\ Shards[i].id # 0
<1> DEFINE R == [id : Int \ {0}, weight : Nat]
<1>1. Shards \in Seq(R)
  BY LoginAssumption
<1>2. \A r \in R : r.weight \in Nat /\ r.id # 0
  OBVIOUS
<1> HIDE DEF R
<1>3. /\ Len(Shards) \in Nat /\ DOMAIN Shards = 1 .. Len(Shards)
      /\ \A i \in 1 .. Len(Shards) : Shards[i] \in R
  BY <1>1
<1>. QED  BY <1>2, <1>3

Sums(n) == [0 .. n -> Nat]
IsSum(f, n) == \A i \in 0 .. n : f[i] = IF i = 0 THEN 0 ELSE f[i - 1] + Shards[i].weight

\* There are such sums, whatever the number of databases.
LEMMA SumsExist ==
    ASSUME NEW n \in 0 .. Len(Shards)
    PROVE  \E f \in Sums(n) : IsSum(f, n)
<1> DEFINE Bad == {k \in 0 .. Len(Shards) : ~\E f \in Sums(k) : IsSum(f, k)}
<1>1. Len(Shards) \in Nat /\ \A i \in 1 .. Len(Shards) : Shards[i].weight \in Nat
  BY Weights
<1>2. ASSUME Bad # {} PROVE FALSE
  <2>1. PICK k \in Bad : \A j \in Bad : k <= j
    <3>1. Bad \subseteq Nat
      BY <1>1
    <3> HIDE DEF Bad
    <3>. QED  BY <1>2, <3>1, Least
  <2>2. CASE k = 0
    <3> DEFINE f == [i \in 0 .. 0 |-> 0]
    <3>1. f \in Sums(k) /\ IsSum(f, k)
      BY <2>2 DEF Sums, IsSum
    <3>. QED  BY <3>1
  <2>3. CASE k # 0
    <3>1. k - 1 \in 0 .. Len(Shards) /\ k - 1 \notin Bad /\ k \in 1 .. Len(Shards)
      BY <1>1, <2>1, <2>3
    <3>2. PICK f \in Sums(k - 1) : IsSum(f, k - 1)
      BY <3>1
    <3> DEFINE g == [i \in 0 .. k |-> IF i = k THEN f[k - 1] + Shards[k].weight ELSE f[i]]
    <3>3. \A i \in 0 .. (k - 1) : g[i] = f[i] /\ f[i] \in Nat
      BY <3>1, <3>2 DEF Sums
    <3>4. g[k] = f[k - 1] + Shards[k].weight /\ f[k - 1] \in Nat
      <4>1. k \in 0 .. k /\ k - 1 \in 0 .. (k - 1)
        BY <1>1, <2>3, <3>1
      <4>2. g[k] = f[k - 1] + Shards[k].weight
        BY <4>1
      <4>. QED  BY <3>3, <4>1, <4>2
    <3>5. g \in Sums(k)
      <4>1. \A i \in 0 .. k : i = k \/ i \in 0 .. (k - 1)
        BY <1>1, <3>1
      <4>2. f[k - 1] + Shards[k].weight \in Nat
        BY <1>1, <3>1, <3>4
      <4>3. \A i \in 0 .. k : g[i] \in Nat
        BY <3>3, <3>4, <4>1, <4>2
      <4>. QED  BY <4>3 DEF Sums
    <3>6. IsSum(g, k)
      <4> SUFFICES ASSUME NEW i \in 0 .. k
                   PROVE  g[i] = IF i = 0 THEN 0 ELSE g[i - 1] + Shards[i].weight
        BY DEF IsSum
      <4> HIDE DEF g
      <4>. QED  BY <3>1, <3>2, <3>3, <3>4 DEF IsSum
    <3> HIDE DEF g
    <3>. QED  BY <3>5, <3>6
  <2>. QED  BY <2>2, <2>3
<1>. QED  BY <1>2

\* CumWeight is the sum: its definition has a solution.
LEMMA CumWeightIs ==
    /\ CumWeight \in [0 .. Len(Shards) -> Nat]
    /\ CumWeight[0] = 0
    /\ \A i \in 1 .. Len(Shards) : CumWeight[i] = CumWeight[i - 1] + Shards[i].weight
<1> DEFINE n == Len(Shards)
           Solves(f) == f = [i \in 0 .. n |-> IF i = 0 THEN 0 ELSE f[i - 1] + Shards[i].weight]
<1>1. n \in Nat
  BY Weights
<1>2. PICK f \in [0 .. n -> Nat] : IsSum(f, n)
  <2>1. n \in 0 .. Len(Shards)
    BY <1>1
  <2>. QED  BY <2>1, SumsExist DEF Sums
<1>3. Solves(f)
  BY <1>2 DEF IsSum
<1>4. CumWeight = CHOOSE g : Solves(g)
  BY DEF CumWeight
<1>5. Solves(CumWeight)
  <2> HIDE DEF Solves
  <2>. QED  BY <1>3, <1>4, Zenon
<1>6. /\ CumWeight = [i \in 0 .. n |-> CumWeight[i]]
      /\ \A i \in 0 .. n : CumWeight[i] = IF i = 0 THEN 0 ELSE CumWeight[i - 1] + Shards[i].weight
  <2> DEFINE c == CumWeight
  <2>1. c = [i \in 0 .. n |-> IF i = 0 THEN 0 ELSE c[i - 1] + Shards[i].weight]
    BY <1>5
  <2> HIDE DEF c
  <2>2. \A i \in 0 .. n : c[i] = IF i = 0 THEN 0 ELSE c[i - 1] + Shards[i].weight
    BY <2>1
  <2>3. c = [i \in 0 .. n |-> c[i]]
    BY <2>1
  <2>. QED  BY <2>2, <2>3 DEF c
<1>7. \A i \in 0 .. n : CumWeight[i] = f[i]
  <2> DEFINE Bad == {i \in 0 .. n : CumWeight[i] # f[i]}
  <2>1. ASSUME Bad # {} PROVE FALSE
    <3>1. PICK k \in Bad : \A j \in Bad : k <= j
      <4>1. Bad \subseteq Nat
        BY <1>1
      <4> HIDE DEF Bad
      <4>. QED  BY <2>1, <4>1, Least
    <3>2. k # 0
      BY <1>2, <1>6, <3>1 DEF IsSum
    <3>3. k - 1 \in 0 .. n /\ k - 1 \notin Bad
      BY <1>1, <3>1, <3>2
    <3>. QED  BY <1>2, <1>6, <3>1, <3>2, <3>3 DEF IsSum
  <2>. QED  BY <2>1
<1>8. CumWeight \in [0 .. n -> Nat]
  <2>1. \A i \in 0 .. n : CumWeight[i] \in Nat
    BY <1>2, <1>7
  <2>. QED  BY <1>6, <2>1
<1>9. CumWeight[0] = 0 /\ \A i \in 1 .. n : CumWeight[i] = CumWeight[i - 1] + Shards[i].weight
  <2>1. 0 \in 0 .. n /\ \A i \in 1 .. n : i \in 0 .. n /\ i # 0
    BY <1>1
  <2>. QED  BY <1>6, <2>1
<1>. QED  BY <1>8, <1>9

\* Sums grow with every database, by its weight.
LEMMA CumWeightGrows ==
    ASSUME NEW i \in 0 .. Len(Shards), NEW j \in 0 .. Len(Shards), i <= j
    PROVE  CumWeight[i] <= CumWeight[j]
<1> DEFINE Bad == {k \in i .. Len(Shards) : CumWeight[i] > CumWeight[k]}
<1>1. /\ Len(Shards) \in Nat /\ CumWeight \in [0 .. Len(Shards) -> Nat]
      /\ \A k \in 1 .. Len(Shards) :
            CumWeight[k] = CumWeight[k - 1] + Shards[k].weight /\ Shards[k].weight \in Nat
  BY Weights, CumWeightIs
<1>2. ASSUME Bad # {} PROVE FALSE
  <2>1. PICK k \in Bad : \A m \in Bad : k <= m
    <3>1. Bad \subseteq Nat
      BY <1>1
    <3> HIDE DEF Bad
    <3>. QED  BY <1>2, <3>1, Least
  <2>2. /\ k \in 1 .. Len(Shards) /\ k - 1 \in i .. Len(Shards)
        /\ k \in 0 .. Len(Shards) /\ k - 1 \in 0 .. Len(Shards)
    <3>1. k \in i .. Len(Shards) /\ CumWeight[i] > CumWeight[k]
      BY <2>1
    <3>2. k # i
      <4>1. CumWeight[i] \in Nat
        BY <1>1
      <4>. QED  BY <3>1, <4>1
    <3> HIDE DEF Bad
    <3>. QED  BY <1>1, <3>1, <3>2
  <2>3. k - 1 \notin Bad
    BY <2>1, <2>2
  <2>4. /\ CumWeight[k] = CumWeight[k - 1] + Shards[k].weight /\ Shards[k].weight \in Nat
        /\ CumWeight[k] \in Nat /\ CumWeight[k - 1] \in Nat /\ CumWeight[i] \in Nat
    BY <1>1, <2>2
  <2>. QED  BY <2>1, <2>2, <2>3, <2>4
<1>3. j \in i .. Len(Shards) /\ CumWeight[i] \in Nat /\ CumWeight[j] \in Nat
  BY <1>1
<1>. QED  BY <1>2, <1>3

\* A random number below the total weight falls into the share of one database, which has
\* a weight and is the one that PickShard returns.
LEMMA PickShardIs ==
    ASSUME NEW r \in 0 .. (TotalWeight - 1)
    PROVE  \E i \in Pool : /\ PickShard(r) = Shards[i].id
                           /\ CumWeight[i - 1] <= r /\ r < CumWeight[i]
<1>1. /\ Len(Shards) \in Nat /\ CumWeight \in [0 .. Len(Shards) -> Nat] /\ CumWeight[0] = 0
      /\ \A k \in 1 .. Len(Shards) :
            CumWeight[k] = CumWeight[k - 1] + Shards[k].weight /\ Shards[k].weight \in Nat
  BY Weights, CumWeightIs
<1>2. r \in Nat /\ r < CumWeight[Len(Shards)]
  BY <1>1 DEF TotalWeight
<1> DEFINE Above == {i \in 0 .. Len(Shards) : r < CumWeight[i]}
<1>3. PICK i \in Above : \A j \in Above : i <= j
  <2>1. Above \subseteq Nat /\ Above # {}
    BY <1>1, <1>2
  <2> HIDE DEF Above
  <2>. QED  BY <2>1, Least
<1>4. i \in 1 .. Len(Shards) /\ i - 1 \in 0 .. Len(Shards) /\ i - 1 \notin Above
  BY <1>1, <1>2, <1>3
<1>5. /\ CumWeight[i - 1] \in Nat /\ CumWeight[i] \in Nat
      /\ CumWeight[i] = CumWeight[i - 1] + Shards[i].weight /\ Shards[i].weight \in Nat
  BY <1>1, <1>4
<1>6. CumWeight[i - 1] <= r /\ r < CumWeight[i] /\ Shards[i].weight > 0
  BY <1>2, <1>3, <1>4, <1>5
<1>7. i \in Pool /\ Pool \subseteq 1 .. Len(Shards)
  BY <1>4, <1>6, Weights DEF Pool
<1>8. \A j \in Pool : r < CumWeight[j] => i <= j
  BY <1>1, <1>3, <1>7
<1>9. (CHOOSE k \in Pool : r < CumWeight[k] /\ \A j \in Pool : r < CumWeight[j] => k <= j) = i
  <2>1. ASSUME NEW k \in Pool, r < CumWeight[k], \A j \in Pool : r < CumWeight[j] => k <= j
        PROVE  k = i
    BY <1>1, <1>6, <1>7, <1>8, <2>1
  <2>. QED  BY <1>6, <1>7, <1>8, <2>1
<1>. QED  BY <1>6, <1>7, <1>9 DEF PickShard

\* How many random numbers fall into a share.
LEMMA Share ==
    ASSUME NEW lo \in Nat, NEW hi \in Nat, NEW total \in Nat, lo <= hi, hi <= total
    PROVE  /\ lo .. (hi - 1) \subseteq 0 .. (total - 1)
           /\ Cardinality(lo .. (hi - 1)) = hi - lo
<1>1. lo .. (hi - 1) \subseteq 0 .. (total - 1)
  OBVIOUS
<1>2. PICK top \in Int : top = hi - 1
  OBVIOUS
<1>3. Cardinality(lo .. top) = IF lo > top THEN 0 ELSE top - lo + 1
  <2>1. lo \in Int
    OBVIOUS
  <2>. QED  BY <2>1, FS_Interval
<1>4. Cardinality(lo .. top) = hi - lo
  BY <1>2, <1>3
<1>. QED  BY <1>1, <1>2, <1>4

\* Every database has a share of the random numbers that is as large as its weight, and
\* one without weight has none.
THEOREM DrawsAreFair ==
    ASSUME \A i, j \in DOMAIN Shards : Shards[i].id = Shards[j].id => i = j
    PROVE  Spec => []PickIsProportional
<1>1. /\ Len(Shards) \in Nat /\ CumWeight \in [0 .. Len(Shards) -> Nat] /\ CumWeight[0] = 0
      /\ \A k \in 1 .. Len(Shards) :
            CumWeight[k] = CumWeight[k - 1] + Shards[k].weight /\ Shards[k].weight \in Nat
      /\ DOMAIN Shards = 1 .. Len(Shards)
  BY Weights, CumWeightIs
<1>2. ASSUME NEW i \in DOMAIN Shards
      PROVE  Cardinality({r \in 0 .. (TotalWeight - 1) : PickShard(r) = Shards[i].id})
                 = Shards[i].weight
  <2>1. PICK lo \in Nat, hi \in Nat : /\ lo = CumWeight[i - 1] /\ hi = CumWeight[i]
                                      /\ hi = lo + Shards[i].weight
    BY <1>1
  <2>2. Shards[i].weight \in Nat /\ i \in 1 .. Len(Shards) /\ i - 1 \in 0 .. Len(Shards)
    BY <1>1
  <2>3. hi <= TotalWeight /\ TotalWeight \in Nat
    BY <1>1, <2>1, <2>2, CumWeightGrows DEF TotalWeight
  <2>4. ASSUME NEW r \in 0 .. (TotalWeight - 1)
        PROVE  PickShard(r) = Shards[i].id <=> r \in lo .. (hi - 1)
    <3>1. PICK j \in Pool : /\ PickShard(r) = Shards[j].id
                            /\ CumWeight[j - 1] <= r /\ r < CumWeight[j]
      BY PickShardIs
    <3>2. j \in 1 .. Len(Shards) /\ j - 1 \in 0 .. Len(Shards) /\ j \in 0 .. Len(Shards)
      BY <1>1, <3>1 DEF Pool
    <3>3. PICK low \in Nat, high \in Nat : low = CumWeight[j - 1] /\ high = CumWeight[j]
      BY <1>1, <3>2
    <3>4. PickShard(r) = Shards[i].id <=> j = i
      BY <1>1, <2>2, <3>1, <3>2
    <3>5. r \in Nat /\ low <= r /\ r < high
      BY <2>3, <3>1, <3>3
    <3>6. CASE j = i
      <4>1. lo = low /\ hi = high
        BY <2>1, <3>3, <3>6
      <4>2. r \in lo .. (hi - 1)
        BY <3>5, <4>1
      <4>. QED  BY <3>4, <3>6, <4>2
    <3>7. CASE j < i
      <4>1. high <= lo
        <5>1. j <= i - 1
          BY <2>2, <3>2, <3>7
        <5>2. CumWeight[j] <= CumWeight[i - 1]
          BY <2>2, <3>2, <5>1, CumWeightGrows
        <5>. QED  BY <2>1, <3>3, <5>2
      <4>2. r \notin lo .. (hi - 1) /\ j # i
        BY <2>2, <3>2, <3>5, <3>7, <4>1
      <4>. QED  BY <3>4, <4>2
    <3>8. CASE j > i
      <4>1. hi <= low
        <5>1. i \in 0 .. Len(Shards) /\ i <= j - 1
          BY <2>2, <3>2, <3>8
        <5>2. CumWeight[i] <= CumWeight[j - 1]
          BY <3>2, <5>1, CumWeightGrows
        <5>. QED  BY <2>1, <3>3, <5>2
      <4>2. r \notin lo .. (hi - 1) /\ j # i
        BY <2>2, <3>2, <3>5, <3>8, <4>1
      <4>. QED  BY <3>4, <4>2
    <3>. QED  BY <2>2, <3>2, <3>6, <3>7, <3>8
  <2>5. lo <= hi
    BY <2>1, <2>2
  <2>6. /\ lo .. (hi - 1) \subseteq 0 .. (TotalWeight - 1)
        /\ Cardinality(lo .. (hi - 1)) = hi - lo
    BY <2>3, <2>5, Share
  <2>7. {r \in 0 .. (TotalWeight - 1) : PickShard(r) = Shards[i].id} = lo .. (hi - 1)
    BY <2>4, <2>6
  <2>8. hi - lo = Shards[i].weight
    BY <2>1, <2>2
  <2>. QED  BY <2>6, <2>7, <2>8
<1>3. PickIsProportional
  BY <1>2 DEF PickIsProportional
<1>. QED  BY <1>3, PTL

-----------------------------------------------------------------------------
(* The grants *)

\* Ids are given one after the other, and who knows an account knows one that is there.
Placed ==
    /\ rows = 1 .. Cardinality(rows) /\ home \in [Users -> ShardIds \cup {0}]
    /\ isNew \subseteq Logins /\ \A l \in isNew : l \in Past /\ uid[l] \in rows
    /\ \A l, k \in isNew : uid[l] = uid[k] => l = k
    /\ \A l \in Logins : stage[l] \in Known => uid[l] \in rows

\* Only the transaction of the login that made an account gives to it.
Given ==
    /\ granted \in [ShardIds -> [Users -> 0 .. 1]]
    /\ \A l \in isNew : stage[l] \in {"grant", "session", "commit"} =>
          \A s \in ShardIds : granted[s][uid[l]] = 0
    /\ GrantsFollowAccount

GInv == IInv /\ Placed /\ Given

\* 0 stands for no account.
LEMMA ShardIdsAreNotZero == 0 \notin ShardIds
BY Weights DEF ShardIds

LEMMA InitGrants == Init => GInv
<1> SUFFICES ASSUME Init PROVE GInv
  OBVIOUS
<1>1. rows = {} /\ isNew = {} /\ \A l \in Logins : stage[l] \notin Known
  BY DEF Init, rows, Known
<1>2. Cardinality(rows) = 0
  BY <1>1, FS_EmptySet
<1>3. Placed
  <2>1. 1 .. Cardinality(rows) = {}
    BY <1>2
  <2>2. home \in [Users -> ShardIds \cup {0}]
    BY DEF Init
  <2>. QED  BY <1>1, <2>1, <2>2 DEF Placed
<1>4. Given
  <2>1. granted = [s \in ShardIds |-> [u \in Users |-> 0]]
    BY DEF Init
  <2>2. granted \in [ShardIds -> [Users -> 0 .. 1]]
    BY <2>1
  <2>. QED  BY <1>1, <2>1, <2>2 DEF Given, GrantsFollowAccount
<1>. QED  BY <1>3, <1>4, InitIInv DEF GInv

\* A step of one login, or of time, that makes no account and gives nothing.
LEMMA GivesNothing ==
    ASSUME GInv, IInv', UNCHANGED <<home, granted, isNew>>,
           \A l \in isNew : uid'[l] = uid[l],
           \A l \in Logins :
              /\ l \in Past => l \in Past'
              /\ stage'[l] \in Known =>
                    (stage[l] \in Known /\ uid'[l] = uid[l]) \/ uid'[l] \in rows
              /\ l \in isNew /\ stage'[l] \in {"in", "out"} => stage[l] \in {"in", "out"}
              /\ l \in isNew /\ stage'[l] \in {"grant", "session", "commit"}
                    => stage[l] \in {"grant", "session", "commit"}
    PROVE  GInv'
<1>1. rows' = rows
  BY DEF rows
<1>2. Placed'
  BY <1>1 DEF GInv, Placed
<1>3. Given'
  <2>1. isNew \subseteq Logins
    BY DEF GInv, Placed
  <2>2. GrantsFollowAccount'
    BY <2>1 DEF GInv, Given, GrantsFollowAccount
  <2>. QED  BY <2>1, <2>2 DEF GInv, Given
<1>. QED  BY <1>2, <1>3 DEF GInv

\* The account that is made has nothing yet.
LEMMA InsertGivesNothing ==
    ASSUME GInv, IInv', NEW l \in Logins, Insert(l) \/ InsertFails(l)
    PROVE  GInv'
<1> DEFINE n == Cardinality(rows) + 1
<1>1. /\ stage[l] = "insert" /\ l \notin Past /\ l \notin isNew
      /\ granted' = granted /\ stage'[l] \in {"grant", "failed"}
      /\ \A k \in Logins \ {l} : stage'[k] = stage[k]
  <2>1. PICK s \in {"grant", "failed"} : Go(l, s)
    BY DEF Insert, InsertFails
  <2>2. stage[l] = "insert" /\ granted' = granted
    BY DEF Insert, InsertFails
  <2>3. l \notin Past
    BY <2>2 DEF Past
  <2>. QED  BY <2>1, <2>2, <2>3, PastGrows DEF GInv, IInv, Placed
<1>2. n \in Users /\ n \notin rows /\ Cardinality(rows) \in Nat
  <2>1. Cardinality(rows) \in Nat /\ Cardinality(rows) + 1 <= Cardinality(Logins)
    BY <1>1, Counts, Sets DEF GInv, IInv, Shapes
  <2>. QED  BY <2>1, Sets DEF GInv, Placed
<1>3. /\ home \in [Users -> ShardIds \cup {0}] /\ home[n] = 0
      /\ rows = {u \in Users : home[u] # 0} /\ rows = 1 .. Cardinality(rows)
  BY <1>2 DEF GInv, Placed, rows
<1>4. \A s \in ShardIds : granted[s][n] = 0
  BY <1>2, <1>3, ShardIdsAreNotZero DEF GInv, Given, GrantsFollowAccount
<1>5. /\ home' \in [Users -> ShardIds \cup {0}]
      /\ \A u \in Users \ {n} : home'[u] = home[u]
      /\ InsertRow => home'[n] \in ShardIds
  <2>1. CASE InsertRow
    <3>1. PICK r \in 0 .. (TotalWeight - 1) : home' = [home EXCEPT ![n] = PickShard(r)]
      BY <2>1 DEF InsertRow
    <3>2. PickShard(r) \in ShardIds
      <4>1. PICK i \in Pool : PickShard(r) = Shards[i].id
        BY PickShardIs
      <4>. QED  BY <4>1 DEF Pool, ShardIds
    <3>. QED  BY <1>2, <1>3, <3>1, <3>2
  <2>2. CASE UNCHANGED home /\ ~InsertRow
    BY <1>3, <2>2
  <2>. QED  BY <2>1, <2>2 DEF Insert, InsertFails
<1>6. \/ rows' = rows /\ home' = home
      \/ rows' = rows \cup {n} /\ Cardinality(rows') = n /\ InsertRow
  <2>1. CASE InsertRow
    <3>1. rows' = rows \cup {n}
      BY <1>2, <1>3, <1>5, <2>1, ShardIdsAreNotZero DEF rows
    <3>2. Cardinality(rows \cup {n}) = Cardinality(rows) + 1
      BY <1>2, Counts, FS_AddElement
    <3>. QED  BY <2>1, <3>1, <3>2
  <2>2. CASE UNCHANGED home
    BY <2>2 DEF rows
  <2>. QED  BY <2>1, <2>2 DEF Insert, InsertFails
<1>7. /\ \A k \in Logins \ {l} : uid'[k] = uid[k]
      /\ \/ isNew' = isNew /\ stage'[l] = "failed"
         \/ isNew' = isNew \cup {l} /\ uid'[l] = n /\ rows' = rows \cup {n}
  <2>1. CASE Insert(l)
    <3>1. InsertRow /\ uid' = [uid EXCEPT ![l] = n] /\ isNew' = isNew \cup {l}
      BY <2>1 DEF Insert
    <3>2. rows' = rows \cup {n}
      BY <1>2, <1>3, <1>5, <3>1, ShardIdsAreNotZero DEF rows
    <3>. QED  BY <3>1, <3>2 DEF GInv, IInv, Shapes
  <2>2. CASE InsertFails(l)
    BY <2>2 DEF InsertFails, Go, GInv, IInv, Shapes
  <2>. QED  BY <2>1, <2>2
<1> HIDE DEF n
<1>8. Placed'
  <2>1. rows' = 1 .. Cardinality(rows')
    <3>1. CASE rows' = rows
      BY <1>3, <3>1
    <3>2. CASE rows' = rows \cup {n} /\ Cardinality(rows') = n
      <4> DEFINE m == Cardinality(rows)
      <4>1. m \in Nat /\ n = m + 1 /\ rows = 1 .. m
        BY <1>2, <1>3 DEF n
      <4> HIDE DEF m
      <4>2. 1 .. n = (1 .. m) \cup {n}
        BY <4>1
      <4>. QED  BY <3>2, <4>1, <4>2
    <3>. QED  BY <1>6, <3>1, <3>2
  <2>2. isNew' \subseteq Logins /\ rows \subseteq rows'
    BY <1>6, <1>7 DEF GInv, Placed
  <2>3. ASSUME NEW k \in isNew' PROVE k \in Past' /\ uid'[k] \in rows'
    BY <1>1, <1>7, <2>2, <2>3 DEF GInv, Placed, Past
  <2>4. \A j, k \in isNew' : uid'[j] = uid'[k] => j = k
    BY <1>1, <1>2, <1>7 DEF GInv, Placed
  <2>5. ASSUME NEW k \in Logins, stage'[k] \in Known PROVE uid'[k] \in rows'
    BY <1>1, <1>7, <2>2, <2>5 DEF GInv, Placed, Known
  <2>. QED  BY <1>5, <2>1, <2>2, <2>3, <2>4, <2>5 DEF Placed
<1>9. Given'
  <2>1. ASSUME NEW k \in isNew', stage'[k] \in {"grant", "session", "commit"}, NEW s \in ShardIds
        PROVE  granted[s][uid'[k]] = 0
    <3>1. CASE k = l
      BY <1>1, <1>4, <1>7, <3>1
    <3>2. CASE k # l
      BY <1>1, <1>7, <2>1, <3>2 DEF GInv, Given, Placed
    <3>. QED  BY <3>1, <3>2
  <2>2. ASSUME NEW s \in ShardIds, NEW u \in Users
        PROVE  granted[s][u] <= IF home'[u] = s THEN 1 ELSE 0
    BY <1>4, <1>5, <2>2, ShardIdsAreNotZero DEF GInv, Given, GrantsFollowAccount
  <2>3. ASSUME NEW k \in isNew', stage'[k] \in {"in", "out"}
        PROVE  granted[home'[uid'[k]]][uid'[k]] = 1
    <3>1. k \in isNew /\ k # l /\ k \in Logins /\ uid'[k] = uid[k] /\ stage'[k] = stage[k]
      BY <1>1, <1>7, <2>3 DEF GInv, Placed
    <3>2. uid[k] \in rows /\ uid[k] \in Users /\ uid[k] # n
      BY <1>2, <1>3, <3>1 DEF GInv, Placed
    <3>. QED  BY <1>5, <2>3, <3>1, <3>2 DEF GInv, Given, GrantsFollowAccount
  <2>. QED  BY <1>1, <2>1, <2>2, <2>3 DEF GInv, Given, GrantsFollowAccount
<1>. QED  BY <1>8, <1>9 DEF GInv

\* The transaction of the login that made the account gives, once.
LEMMA CommitGives ==
    ASSUME GInv, IInv', NEW l \in Logins, Commit(l) \/ CommitFails(l)
    PROVE  GInv'
<1> DEFINE u == uid[l]
           h == home[u]
<1>1. /\ stage[l] = "commit" /\ stage'[l] \in {"in", "failed"} /\ UNCHANGED <<uid, isNew, home>>
      /\ \A k \in Logins \ {l} : stage'[k] = stage[k]
  <2>1. PICK s \in {"in", "failed"} : Go(l, s)
    BY DEF Commit, CommitFails
  <2>2. stage[l] = "commit" /\ UNCHANGED <<uid, isNew, home>>
    BY DEF Commit, CommitFails
  <2>. QED  BY <2>1, <2>2, PastGrows DEF GInv, IInv, Past
<1>2. \/ UNCHANGED granted /\ (l \in isNew => stage'[l] = "failed")
      \/ l \in isNew /\ granted' = [granted EXCEPT ![h][u] = @ + 1]
  BY DEF Commit, CommitFails, Transaction, Go, GInv, IInv, Shapes
<1>3. u \in rows /\ u \in Users /\ h \in ShardIds
  BY <1>1 DEF GInv, Placed, Known, rows
<1> HIDE DEF u, h
<1>4. CASE UNCHANGED granted /\ (l \in isNew => stage'[l] = "failed")
  BY <1>1, <1>4, GivesNothing DEF Known, Past
<1>5. CASE l \in isNew /\ granted' = [granted EXCEPT ![h][u] = @ + 1]
  <2>1. rows' = rows
    BY <1>1 DEF rows
  <2>2. Placed'
    BY <1>1, <2>1 DEF GInv, Placed, Known, Past
  <2>3. granted \in [ShardIds -> [Users -> 0 .. 1]] /\ granted[h][u] = 0
    BY <1>1, <1>3, <1>5 DEF GInv, Given, u
  <2>4. /\ granted' \in [ShardIds -> [Users -> 0 .. 1]] /\ granted'[h][u] = 1
        /\ \A s \in ShardIds, v \in Users : s # h \/ v # u => granted'[s][v] = granted[s][v]
    BY <1>3, <1>5, <2>3
  <2>5. ASSUME NEW k \in isNew, k # l PROVE uid[k] # u /\ uid[k] \in Users /\ uid[k] \in rows
    BY <1>5, <2>5 DEF GInv, Placed, u, rows
  <2>6. ASSUME NEW k \in isNew, stage'[k] \in {"grant", "session", "commit"}, NEW s \in ShardIds
        PROVE  granted'[s][uid[k]] = 0
    <3>1. k # l /\ k \in Logins /\ stage'[k] = stage[k]
      BY <1>1, <2>6 DEF GInv, Placed
    <3>. QED  BY <2>4, <2>5, <2>6, <3>1 DEF GInv, Given
  <2>7. ASSUME NEW s \in ShardIds, NEW v \in Users
        PROVE  granted'[s][v] <= IF home[v] = s THEN 1 ELSE 0
    BY <2>4, <2>7 DEF GInv, Given, GrantsFollowAccount, h
  <2>8. ASSUME NEW k \in isNew, stage'[k] \in {"in", "out"}
        PROVE  granted'[home[uid[k]]][uid[k]] = 1
    <3>1. CASE k = l
      BY <2>4, <3>1 DEF u, h
    <3>2. CASE k # l
      <4>1. k \in Logins /\ stage'[k] = stage[k] /\ home[uid[k]] \in ShardIds
        BY <1>1, <2>5, <3>2 DEF GInv, Placed, rows
      <4>. QED  BY <2>4, <2>5, <2>8, <3>2, <4>1 DEF GInv, Given, GrantsFollowAccount
    <3>. QED  BY <3>1, <3>2
  <2>. QED  BY <1>1, <2>2, <2>4, <2>6, <2>7, <2>8 DEF GInv, Given, GrantsFollowAccount
<1>. QED  BY <1>2, <1>4, <1>5

\* Every step keeps ids and grants.
LEMMA GrantsKept == GInv /\ [Next]_vars => GInv'
<1> SUFFICES ASSUME GInv, [Next]_vars PROVE GInv'
  OBVIOUS
<1>1. IInv'
  BY Invariance DEF GInv
<1>2. ASSUME NEW l \in Logins,
             \/ Call(l) \/ Find(l) \/ FindFails(l) \/ Grant(l) \/ SetSession(l)
             \/ SetSessionFails(l) \/ Crash(l) \/ VerifyRefused(l)
      PROVE  GInv'
  <2>1. /\ UNCHANGED <<home, granted, isNew>>
        /\ \/ UNCHANGED uid
           \/ stage[l] = "find" /\ \E u \in rows : uid' = [uid EXCEPT ![l] = u]
    BY <1>2 DEF Call, Find, FindFails, Grant, SetSession, SetSessionFails, Crash, VerifyRefused
  <2>2. \A k \in Logins \ {l} : stage'[k] = stage[k] /\ uid'[k] = uid[k]
    <3>1. PICK s : Go(l, s)
      BY <1>2 DEF Call, Find, FindFails, Grant, SetSession, SetSessionFails, Crash, VerifyRefused
    <3>. QED  BY <2>1, <3>1 DEF Go, GInv, IInv, Shapes
  <2>3. \/ stage[l] \in {"idle", "find"} /\ stage'[l] \in {"find", "insert", "failed"} /\ UNCHANGED uid
        \/ stage[l] = "find" /\ stage'[l] = "session" /\ uid'[l] \in rows
        \/ /\ stage[l] \in {"grant", "session"} /\ stage'[l] \in {"session", "commit", "failed"}
           /\ UNCHANGED uid
        \/ stage'[l] = "dead" /\ UNCHANGED uid
        \/ stage[l] = "in" /\ stage'[l] = "out" /\ UNCHANGED uid
    <3>1. \A s : Go(l, s) => stage'[l] = s
      BY DEF Go, GInv, IInv, Shapes
    <3>2. CASE Find(l)
      BY <3>1, <3>2 DEF Find, GInv, IInv, Shapes
    <3>3. CASE Call(l) \/ FindFails(l) \/ Grant(l) \/ SetSession(l) \/ SetSessionFails(l)
      BY <3>1, <3>3 DEF Call, FindFails, Grant, SetSession, SetSessionFails
    <3>4. CASE Crash(l) \/ VerifyRefused(l)
      BY <3>1, <3>4 DEF Crash, VerifyRefused
    <3>. QED  BY <1>2, <3>2, <3>3, <3>4
  <2>4. l \in isNew => l \in Past
    BY DEF GInv, Placed
  <2>5. \A k \in isNew : uid'[k] = uid[k]
    BY <2>2, <2>3, <2>4 DEF Past, GInv, Placed
  <2>6. ASSUME NEW k \in Logins
        PROVE  /\ k \in Past => k \in Past'
               /\ stage'[k] \in Known =>
                     (stage[k] \in Known /\ uid'[k] = uid[k]) \/ uid'[k] \in rows
               /\ k \in isNew /\ stage'[k] \in {"in", "out"} => stage[k] \in {"in", "out"}
               /\ k \in isNew /\ stage'[k] \in {"grant", "session", "commit"}
                     => stage[k] \in {"grant", "session", "commit"}
    <3>1. CASE k = l
      BY <2>3, <2>4, <3>1 DEF Past, Known
    <3>2. CASE k # l
      BY <2>2, <3>2 DEF Past, Known
    <3>. QED  BY <3>1, <3>2
  <2>. QED  BY <1>1, <2>1, <2>5, <2>6, GivesNothing
<1>3. CASE UNCHANGED <<stage, uid, isNew, home, granted>>
  BY <1>1, <1>3, GivesNothing DEF Past
<1>4. ASSUME NEW l \in Logins,
             Call(l) \/ Step(l) \/ Crash(l) \/ Verify(l) \/ VerifyRefused(l)
      PROVE  GInv'
  <2>1. CASE Verify(l)
    BY <1>3, <2>1 DEF Verify
  <2>2. CASE Step(l)
    BY <1>1, <1>2, <2>2, InsertGivesNothing, CommitGives DEF Step
  <2>. QED  BY <1>2, <1>4, <2>1, <2>2
<1>5. CASE Tick \/ UNCHANGED vars
  BY <1>3, <1>5 DEF Tick, vars
<1>. QED  BY <1>4, <1>5 DEF Next

\* login.go:31-41: the initial asset and item are given at most once, on the shard of the
\* account, and never missing where the login that made the account was answered.
THEOREM InitialGrants == Spec => []GrantsFollowAccount
<1>1. GInv => GrantsFollowAccount
  BY DEF GInv, Given
<1>. QED  BY <1>1, InitGrants, GrantsKept, PTL DEF Spec
=============================================================================
