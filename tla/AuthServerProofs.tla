-------------------------- MODULE AuthServerProofs --------------------------
(***************************************************************************)
(* Proofs about AuthServer for any number of endpoints, accounts,          *)
(* characters and keys and any HEARTBEAT_TIMEOUT_SEC.  All rest on Base:   *)
(* no two sessions share a key.  Each of the three properties of the       *)
(* session hashes is then inductive with what it needs to know of the      *)
(* sessions, in the environments in which it holds.                        *)
(***************************************************************************)
EXTENDS AuthServer, TLAPS

\* No two sessions have the same key.
KeysUnique ==
    \A e, x \in DOMAIN sessionMap :
        sessionMap[e].key = sessionMap[x].key /\ sessionMap[e].key # NoKey => e = x

\* clientAddr and the key are set together, by a connect request.
AddrMeansKey ==
    \A e \in DOMAIN sessionMap : sessionMap[e].addr <=> sessionMap[e].key # NoKey

\* As long as no connect request is lost, who is logged in has a key of its own.
LoginMeansKey ==
    "unconnected" \notin Faults =>
        \A e \in DOMAIN sessionMap :
            sessionMap[e].playerId # NoPlayer => sessionMap[e].key \in Keys

\* Who has not logged in has no character.
CharMeansLogin ==
    \A e \in DOMAIN sessionMap :
        sessionMap[e].playerId = NoPlayer => sessionMap[e].charId = NoChar

Base ==
    /\ TypeOK
    /\ KeysUnique
    /\ AddrMeansKey
    /\ CharMeansLogin
    /\ LoginMeansKey

\* LiveKeyFound with the time that is left: the hash of a client that was never late
\* lasts until its next heartbeat is late.
HashOutlives ==
    \A e \in DOMAIN sessionMap :
        LET s == sessionMap[e]
        IN  s.playerId # NoPlayer /\ s.age <= HeartbeatTimeout /\ s.key \notin late
                => /\ s.key \in DOMAIN redis
                   /\ redis[s.key].playerId = s.playerId
                   /\ redis[s.key].ttl + s.age > HeartbeatTimeout

\* A hash without an account, left by a late "fd", names no character.
FieldsTogether ==
    \A k \in DOMAIN redis :
        redis[k].playerId = None => redis[k].charId = None /\ redis[k].charName = None

\* A session's character is one of its account.
SessionOwnsCharacter ==
    \A e \in DOMAIN sessionMap :
        LET s == sessionMap[e]
        IN  s.charId \in Chars
                => s.charId \in DOMAIN characters /\ characters[s.charId].owner = s.playerId

\* The hash under a session's key is of the session's account.
HashOfAccount ==
    \A e \in DOMAIN sessionMap :
        LET s == sessionMap[e]
        IN  s.key \in DOMAIN redis => redis[s.key].playerId \in {None, s.playerId}

\* Nothing is stored under the empty key.
OnlyKeys == DOMAIN redis \subseteq Keys

TimelyInv == HashOutlives /\ HashesExpire
AgreeInv == HashMatchesSession /\ FieldsTogether /\ OnlyKeys
NamesInv ==
    /\ HashNamesOwnCharacter
    /\ FieldsTogether
    /\ SessionOwnsCharacter
    /\ HashOfAccount
    /\ OnlyKeys
-----------------------------------------------------------------------------
(* Redis and the session map *)

\* Update sets one entry of a map and keeps the others.
LEMMA UpdateIs ==
    ASSUME NEW g, NEW x, NEW v
    PROVE  /\ DOMAIN Update(g, x, v) = DOMAIN g \cup {x}
           /\ Update(g, x, v)[x] = v
           /\ \A y \in DOMAIN g : y # x => Update(g, x, v)[y] = g[y]
  BY DEF Update

RedisOK(r) == DOMAIN r \subseteq Keys \cup {NoKey} /\ r \in [DOMAIN r -> Hash]

\* The fields a login or a selection writes.
Fields == [playerId : Accounts, charId : Chars \cup {NoChar}, charName : Chars \cup {None}]

\* q is r with the fields f written to the hash of k.
Written(q, r, k, f) ==
    /\ RedisOK(q)
    /\ DOMAIN q = DOMAIN r \cup {k}
    /\ \A x \in DOMAIN r : x # k => q[x] = r[x]
    /\ q[k].playerId = f.playerId
    /\ q[k].charId = f.charId
    /\ f.charName # None => q[k].charName = f.charName
    /\ f.charName = None /\ k \in DOMAIN r => q[k].charName = r[k].charName
    /\ f.charName = None /\ k \notin DOMAIN r => q[k].charName = None
    /\ k \in DOMAIN r => q[k].ttl = r[k].ttl

\* HSET writes playerId and charId, and charName if there is one; a hash that was
\* there keeps its TTL.
LEMMA HSetIs ==
    ASSUME NEW r, RedisOK(r), NEW k \in Keys \cup {NoKey}, NEW f \in Fields
    PROVE  Written(HSet(r, k, f), r, k, f)
  <1> DEFINE h == IF k \in DOMAIN r THEN r[k] ELSE NoFields
             v == [playerId |-> IF f.playerId = None THEN h.playerId ELSE f.playerId,
                   charId   |-> IF f.charId = None THEN h.charId ELSE f.charId,
                   charName |-> IF f.charName = None THEN h.charName ELSE f.charName,
                   ttl      |-> h.ttl]
  <1>1. h \in Hash
    BY DEF RedisOK, NoFields, Hash
  <1>2. f.playerId # None /\ f.charId # None
    BY AuthServerAssumption DEF Fields
  <1>3. /\ v.playerId = f.playerId
        /\ v.charId = f.charId
        /\ v.charName = IF f.charName = None THEN h.charName ELSE f.charName
        /\ v.ttl = h.ttl
    BY <1>2
  <1>4. v \in Hash
    BY <1>1, <1>2 DEF Hash, Fields
  <1>5. HSet(r, k, f) = Update(r, k, v)
    BY DEF HSet
  <1> HIDE DEF v
  <1>6. RedisOK(Update(r, k, v))
    BY <1>4 DEF RedisOK, Update
  <1>7. /\ DOMAIN Update(r, k, v) = DOMAIN r \cup {k}
        /\ Update(r, k, v)[k] = v
        /\ \A x \in DOMAIN r : x # k => Update(r, k, v)[x] = r[x]
    BY DEF Update
  <1>8. /\ k \in DOMAIN r => h = r[k]
        /\ k \notin DOMAIN r => h.charName = None
    BY DEF NoFields
  <1> HIDE DEF h
  <1>9. QED
    BY <1>3, <1>5, <1>6, <1>7, <1>8 DEF Written

\* EXPIRE changes the TTL of one hash, if that exists.
LEMMA ExpireIs ==
    ASSUME NEW r, RedisOK(r), NEW k, NEW t \in 1 .. HeartbeatTimeout + 2
    PROVE  LET q == Expire(r, k, t)
           IN  /\ RedisOK(q)
               /\ DOMAIN q = DOMAIN r
               /\ \A x \in DOMAIN r :
                     /\ q[x].playerId = r[x].playerId
                     /\ q[x].charId = r[x].charId
                     /\ q[x].charName = r[x].charName
                     /\ x # k => q[x].ttl = r[x].ttl
               /\ k \in DOMAIN r => q[k].ttl = t
  BY DEF Expire, RedisOK, Hash

\* The two expiries are TTLs.
LEMMA ExpiryTimes ==
    /\ HeartbeatTimeout + 1 \in 1 .. HeartbeatTimeout + 2
    /\ HeartbeatTimeout + 2 \in 1 .. HeartbeatTimeout + 2
  BY AuthServerAssumption

\* A session an endpoint has, or is given by its first packet.
LEMMA SessionAtIs ==
    ASSUME TypeOK, NEW e
    PROVE  /\ SessionAt(e) \in Session
           /\ e \in DOMAIN sessionMap => SessionAt(e) = sessionMap[e]
           /\ e \notin DOMAIN sessionMap => SessionAt(e) = DefaultSession
  BY AuthServerAssumption DEF SessionAt, DefaultSession, TypeOK, Session, Silent
-----------------------------------------------------------------------------
(* Base *)

\* What Base says of a session map.
BaseOf(sm) ==
    /\ DOMAIN sm \subseteq Endpoints
    /\ sm \in [DOMAIN sm -> Session]
    /\ \A e, x \in DOMAIN sm : sm[e].key = sm[x].key /\ sm[e].key # NoKey => e = x
    /\ \A e \in DOMAIN sm :
          /\ sm[e].addr <=> sm[e].key # NoKey
          /\ sm[e].playerId = NoPlayer => sm[e].charId = NoChar
          /\ "unconnected" \notin Faults /\ sm[e].playerId # NoPlayer => sm[e].key \in Keys

RowsOK(rows) ==
    /\ DOMAIN rows \subseteq Chars
    /\ rows \in [DOMAIN rows -> [owner : Accounts, alive : BOOLEAN]]

\* The explicit reading is Base, in a state and in its successor.
LEMMA BaseIs ==
    /\ Base <=> /\ BaseOf(sessionMap)
                /\ RedisOK(redis)
                /\ RowsOK(characters)
                /\ toDisconnect \subseteq Endpoints
                /\ late \subseteq Keys \cup {NoKey}
    /\ Base' <=> /\ BaseOf(sessionMap')
                 /\ RedisOK(redis')
                 /\ RowsOK(characters')
                 /\ toDisconnect' \subseteq Endpoints
                 /\ late' \subseteq Keys \cup {NoKey}
  BY DEF Base, TypeOK, KeysUnique, AddrMeansKey, CharMeansLogin, LoginMeansKey,
         BaseOf, RedisOK, RowsOK

\* A session that keeps the key and address of the endpoint's old one, and is not
\* logged in without a key, can take its place.
LEMMA KeepsBase ==
    ASSUME NEW sm, BaseOf(sm), NEW e \in Endpoints, NEW s \in Session,
           e \in DOMAIN sm => s.key = sm[e].key,
           e \notin DOMAIN sm => s.key = NoKey,
           s.addr <=> s.key # NoKey,
           s.playerId = NoPlayer => s.charId = NoChar,
           "unconnected" \notin Faults /\ s.playerId # NoPlayer => s.key \in Keys
    PROVE  BaseOf(Update(sm, e, s))
  BY DEF BaseOf, Update

\* So can a session with a key that is in no other's hands.
LEMMA NewKeyKeepsBase ==
    ASSUME NEW sm, BaseOf(sm), NEW e \in Endpoints, NEW k \in Keys,
           \A x \in DOMAIN sm : sm[x].key # k
    PROVE  BaseOf(Update(sm, e, ConnectedSession(k)))
  <1> DEFINE s == ConnectedSession(k)
  <1>1. /\ s \in Session
        /\ s.key = k /\ s.addr = TRUE /\ s.playerId = NoPlayer /\ s.charId = NoChar
    BY AuthServerAssumption DEF ConnectedSession, Session, Silent
  <1>2. k # NoKey
    BY AuthServerAssumption
  <1> DEFINE u == Update(sm, e, s)
  <1>3. /\ DOMAIN u = DOMAIN sm \cup {e}
        /\ u[e] = s
        /\ \A x \in DOMAIN sm : x # e => u[x] = sm[x]
    BY DEF Update
  <1>4. u \in [DOMAIN u -> Session]
    BY <1>1, <1>3 DEF BaseOf, Update
  <1> HIDE DEF s, u
  <1>5. ASSUME NEW x \in DOMAIN u, NEW y \in DOMAIN u,
               u[x].key = u[y].key, u[x].key # NoKey
        PROVE  x = y
    BY <1>1, <1>3, <1>5 DEF BaseOf
  <1>6. ASSUME NEW x \in DOMAIN u
        PROVE  /\ u[x].addr <=> u[x].key # NoKey
               /\ u[x].playerId = NoPlayer => u[x].charId = NoChar
               /\ "unconnected" \notin Faults /\ u[x].playerId # NoPlayer => u[x].key \in Keys
    BY <1>1, <1>2, <1>3 DEF BaseOf
  <1>7. BaseOf(u)
    BY <1>3, <1>4, <1>5, <1>6 DEF BaseOf
  <1>8. QED
    BY <1>7 DEF u, s

\* The fields a login and a selection write are fields of a hash.
LEMMA WrittenFields ==
    /\ \A a \in Accounts : \A s \in Session : LoginFields(a, s) \in Fields
    /\ \A a \in Accounts, c \in Chars : SelectFields(a, c) \in Fields
  BY DEF LoginFields, SelectFields, Fields, Session

\* Base holds at the start.
LEMMA BaseInit == Init => Base
  <1> SUFFICES ASSUME Init PROVE Base
    OBVIOUS
  <1>1. /\ BaseOf(sessionMap) /\ RedisOK(redis) /\ toDisconnect \subseteq Endpoints
        /\ late \subseteq Keys \cup {NoKey}
    BY DEF Init, BaseOf, RedisOK
  <1>2. RowsOK(characters)
    <2>1. PICK S \in SUBSET Chars : characters \in [S -> [owner : Accounts, alive : {TRUE}]]
      BY DEF Init
    <2>2. DOMAIN characters = S
      BY <2>1
    <2>3. \A c \in S : characters[c] \in [owner : Accounts, alive : BOOLEAN]
      BY <2>1
    <2>4. QED
      BY <2>1, <2>2, <2>3 DEF RowsOK
  <1>3. QED
    BY <1>1, <1>2, BaseIs

\* Every action keeps Base.
LEMMA BaseStep == Base /\ [Next]_vars => Base'
  <1> SUFFICES ASSUME Base, [Next]_vars PROVE Base'
    OBVIOUS
  <1>1. /\ BaseOf(sessionMap) /\ RedisOK(redis) /\ RowsOK(characters)
        /\ toDisconnect \subseteq Endpoints /\ late \subseteq Keys \cup {NoKey} /\ TypeOK
    BY BaseIs DEF Base
  <1> SUFFICES /\ BaseOf(sessionMap') /\ RedisOK(redis') /\ RowsOK(characters')
               /\ toDisconnect' \subseteq Endpoints /\ late' \subseteq Keys \cup {NoKey}
    BY BaseIs
  <1>2. \A e \in Endpoints :
          /\ SessionAt(e) \in Session
          /\ e \in DOMAIN sessionMap => SessionAt(e) = sessionMap[e]
          /\ e \notin DOMAIN sessionMap => SessionAt(e) = DefaultSession
    BY <1>1, SessionAtIs
  <1>3. /\ NoKey \notin Keys /\ NoPlayer \notin Accounts
        /\ DefaultSession.key = NoKey /\ ~DefaultSession.addr
        /\ DefaultSession.playerId = NoPlayer /\ DefaultSession.charId = NoChar
    BY AuthServerAssumption DEF DefaultSession
  <1>4. ASSUME NEW e \in Endpoints, DropPacket(e)
        PROVE  BaseOf(sessionMap')
    <2>1. BaseOf(Update(sessionMap, e, SessionAt(e)))
      <3>1. CASE e \in DOMAIN sessionMap
        BY <1>1, <1>2, <3>1, KeepsBase DEF BaseOf
      <3>2. CASE e \notin DOMAIN sessionMap
        BY <1>1, <1>2, <1>3, <3>2, KeepsBase
      <3>3. QED
        BY <3>1, <3>2
    <2>2. QED
      BY <1>4, <2>1 DEF DropPacket
  <1>5. ASSUME NEW e \in Endpoints, NEW k \in Keys, Connect(e, k)
        PROVE  BaseOf(sessionMap')
    BY <1>1, <1>5, NewKeyKeepsBase DEF Connect
  <1>6. ASSUME NEW e \in Endpoints, NEW a \in Accounts,
               NEW stored \in Command, NEW expiry \in Command, Login(e, a, stored, expiry)
        PROVE  BaseOf(sessionMap') /\ RedisOK(redis')
    <2> DEFINE s == SessionAt(e)
               t == LoggedIn(s, a)
               f == LoginFields(a, s)
               r == IF stored THEN HSet(redis, s.key, f) ELSE redis
    <2>1. /\ t \in Session
          /\ t.key = s.key /\ t.addr = s.addr /\ t.playerId = a /\ t.charId = s.charId
      BY <1>2 DEF LoggedIn, Session
    <2>2. "unconnected" \in Faults \/ s.key # NoKey
      BY <1>6 DEF Login
    <2>3. s.key \in Keys \cup {NoKey} /\ f \in Fields
      BY <1>2, WrittenFields DEF Session
    <2>4. RedisOK(r)
      <3>1. RedisOK(HSet(redis, s.key, f))
        BY <1>1, <2>3, HSetIs DEF Written
      <3>2. QED
        BY <1>1, <3>1
    <2>5. RedisOK(LoginExpire(r, s.key))
      BY <2>4, ExpireIs, ExpiryTimes DEF LoginExpire
    <2>6. sessionMap' = Update(sessionMap, e, t)
      BY <1>6 DEF Login
    <2>7. redis' = IF expiry THEN LoginExpire(r, s.key) ELSE r
      BY <1>6 DEF Login
    <2>8. /\ e \in DOMAIN sessionMap => s = sessionMap[e]
          /\ s.addr <=> s.key # NoKey
          /\ e \notin DOMAIN sessionMap => s.key = NoKey
      BY <1>1, <1>2, <1>3 DEF BaseOf
    <2> HIDE DEF s, t, f, r
    <2>9. BaseOf(Update(sessionMap, e, t))
      BY <1>1, <1>3, <2>1, <2>2, <2>3, <2>8, KeepsBase
    <2>10. QED
      BY <2>4, <2>5, <2>6, <2>7, <2>9
  <1>7. ASSUME NEW e \in Endpoints, NEW c \in Chars, CharCreate(e, c)
        PROVE  RowsOK(characters')
    <2> DEFINE row == [owner |-> sessionMap[e].playerId, alive |-> TRUE]
    <2>1. row \in [owner : Accounts, alive : BOOLEAN]
      BY <1>1, <1>7 DEF CharCreate, LoggedInAt, BaseOf, Session
    <2>2. characters' = Update(characters, c, row)
      BY <1>7 DEF CharCreate
    <2> HIDE DEF row
    <2>3. QED
      BY <1>1, <2>1, <2>2 DEF RowsOK, Update
  <1>8. ASSUME NEW e \in Endpoints, NEW c \in Chars, CharDelete(e, c)
        PROVE  RowsOK(characters')
    BY <1>1, <1>8 DEF CharDelete, RowsOK, RowOfAccount
  <1>9. ASSUME NEW e \in Endpoints, NEW c \in Chars, NEW stored \in Command,
               CharSelect(e, c, stored)
        PROVE  BaseOf(sessionMap') /\ RedisOK(redis')
    <2> DEFINE s == sessionMap[e]
               f == SelectFields(s.playerId, c)
    <2>1. /\ e \in DOMAIN sessionMap
          /\ s \in Session /\ s.playerId \in Accounts
      BY <1>1, <1>9 DEF CharSelect, LoggedInAt, BaseOf, Session
    <2>2. f \in Fields /\ s.key \in Keys \cup {NoKey}
      BY <2>1, WrittenFields DEF Session
    <2>3. RedisOK(HSet(redis, s.key, f))
      BY <1>1, <2>2, HSetIs DEF Written
    <2>4. sessionMap' = [sessionMap EXCEPT ![e].charId = c]
      BY <1>9 DEF CharSelect
    <2>5. /\ DOMAIN sessionMap' = DOMAIN sessionMap
          /\ \A x \in DOMAIN sessionMap :
                /\ sessionMap'[x] \in Session
                /\ sessionMap'[x].key = sessionMap[x].key
                /\ sessionMap'[x].addr = sessionMap[x].addr
                /\ sessionMap'[x].playerId = sessionMap[x].playerId
                /\ x # e => sessionMap'[x].charId = sessionMap[x].charId
      BY <1>1, <2>4 DEF BaseOf, Session
    <2>6. sessionMap' \in [DOMAIN sessionMap' -> Session]
      BY <2>4, <2>5
    <2>7. BaseOf(sessionMap')
      BY <1>1, <1>3, <2>1, <2>5, <2>6 DEF BaseOf
    <2>8. redis' = IF stored THEN HSet(redis, s.key, f) ELSE redis
      BY <1>9 DEF CharSelect
    <2>9. QED
      BY <1>1, <2>3, <2>7, <2>8
  <1>10. ASSUME NEW e \in Endpoints, NEW expiry \in Command, Heartbeat(e, expiry)
         PROVE  BaseOf(sessionMap') /\ RedisOK(redis')
    <2>1. sessionMap' = [sessionMap EXCEPT ![e].age = 0] /\ 0 \in 0 .. Silent
      BY <1>10, AuthServerAssumption DEF Heartbeat, Silent
    <2>2. /\ DOMAIN sessionMap' = DOMAIN sessionMap
          /\ \A x \in DOMAIN sessionMap :
                /\ sessionMap'[x] \in Session
                /\ sessionMap'[x].key = sessionMap[x].key
                /\ sessionMap'[x].addr = sessionMap[x].addr
                /\ sessionMap'[x].playerId = sessionMap[x].playerId
                /\ sessionMap'[x].charId = sessionMap[x].charId
      BY <1>1, <2>1 DEF BaseOf, Session
    <2>3. sessionMap' \in [DOMAIN sessionMap' -> Session]
      BY <2>1, <2>2
    <2>4. BaseOf(sessionMap')
      BY <1>1, <2>2, <2>3 DEF BaseOf
    <2>5. redis' = IF expiry THEN HeartbeatExpire(redis, sessionMap[e].key) ELSE redis
      BY <1>10 DEF Heartbeat
    <2>6. RedisOK(HeartbeatExpire(redis, sessionMap[e].key))
      BY <1>1, ExpireIs, ExpiryTimes DEF HeartbeatExpire
    <2>7. QED
      BY <1>1, <2>4, <2>5, <2>6
  <1>11. ASSUME NEW k \in Keys \cup {NoKey}, GameHeartbeat(k) \/ FdAfterExpiry(k)
         PROVE  RedisOK(redis')
    <2>1. CASE GameHeartbeat(k)
      BY <1>1, <2>1, ExpireIs, ExpiryTimes DEF GameHeartbeat, HeartbeatExpire
    <2>2. CASE FdAfterExpiry(k)
      BY <1>1, <2>2 DEF FdAfterExpiry, RedisOK, NoFields, NoTTL, Hash
    <2>3. QED
      BY <1>11, <2>1, <2>2
  <1>12. ASSUME CollectTimeouts
         PROVE  toDisconnect' \subseteq Endpoints
    BY <1>1, <1>12 DEF CollectTimeouts, BaseOf
  <1>13. ASSUME NEW e \in Endpoints, Disconnect(e)
         PROVE  BaseOf(sessionMap') /\ toDisconnect' \subseteq Endpoints
    BY <1>1, <1>13 DEF Disconnect, Restrict, BaseOf
  <1>14. ASSUME Tick
         PROVE  BaseOf(sessionMap') /\ RedisOK(redis')
    <2>1. /\ DOMAIN sessionMap' = DOMAIN sessionMap
          /\ \A e \in DOMAIN sessionMap :
                sessionMap'[e] = [sessionMap[e] EXCEPT !.age = IF @ >= Due THEN @ ELSE @ + 1]
      BY <1>14 DEF Tick
    <2>2. \A n \in 0 .. Silent : (IF n >= Due THEN n ELSE n + 1) \in 0 .. Silent
      BY AuthServerAssumption DEF Silent, Due
    <2>3. \A e \in DOMAIN sessionMap :
             /\ sessionMap'[e] \in Session
             /\ sessionMap'[e].key = sessionMap[e].key
             /\ sessionMap'[e].addr = sessionMap[e].addr
             /\ sessionMap'[e].playerId = sessionMap[e].playerId
             /\ sessionMap'[e].charId = sessionMap[e].charId
      BY <1>1, <2>1, <2>2 DEF BaseOf, Session
    <2>4. sessionMap' \in [DOMAIN sessionMap' -> Session]
      BY <1>14, <2>1, <2>3 DEF Tick
    <2>5. BaseOf(sessionMap')
      BY <1>1, <2>1, <2>3, <2>4 DEF BaseOf
    <2>6. /\ DOMAIN redis' = {x \in DOMAIN redis : redis[x].ttl # 1}
          /\ \A k \in DOMAIN redis' :
                redis'[k] = [redis[k] EXCEPT !.ttl = IF @ = NoTTL THEN @ ELSE @ - 1]
      BY <1>14 DEF Tick
    <2>7. \A n \in {NoTTL} \cup 1 .. HeartbeatTimeout + 2 :
             n # 1 => (IF n = NoTTL THEN n ELSE n - 1) \in {NoTTL} \cup 1 .. HeartbeatTimeout + 2
      BY AuthServerAssumption DEF NoTTL
    <2>8. ASSUME NEW k \in DOMAIN redis'
          PROVE  redis'[k] \in Hash
      <3> DEFINE T == {NoTTL} \cup 1 .. HeartbeatTimeout + 2
                 later(n) == IF n = NoTTL THEN n ELSE n - 1
      <3>1. k \in DOMAIN redis /\ redis[k] \in Hash /\ redis[k].ttl # 1
        BY <1>1, <2>6, <2>8 DEF RedisOK
      <3>2. redis'[k] = [redis[k] EXCEPT !.ttl = later(redis[k].ttl)]
        BY <2>6, <3>1
      <3>3. redis[k].ttl \in T
        BY <3>1 DEF Hash
      <3>4. later(redis[k].ttl) \in T
        BY <2>7, <3>1, <3>3
      <3>5. \A h \in Hash : \A t \in T : [h EXCEPT !.ttl = t] \in Hash
        BY DEF Hash
      <3> HIDE DEF T, later
      <3>6. QED
        BY <3>1, <3>2, <3>4, <3>5
    <2>9. redis' \in [DOMAIN redis' -> Hash]
      BY <1>14, <2>6, <2>8 DEF Tick
    <2>10. QED
      BY <1>1, <2>5, <2>6, <2>9 DEF RedisOK
  <1>15. CASE UNCHANGED vars
    BY <1>1, <1>15 DEF vars
  <1>silent. ASSUME NEW e \in Endpoints, FallSilent(e)
             PROVE  BaseOf(sessionMap')
    <2>1. sessionMap' = [sessionMap EXCEPT ![e].age = Silent] /\ Silent \in 0 .. Silent
      BY <1>silent, AuthServerAssumption DEF FallSilent, Silent
    <2>2. /\ DOMAIN sessionMap' = DOMAIN sessionMap
          /\ \A x \in DOMAIN sessionMap :
                /\ sessionMap'[x] \in Session
                /\ sessionMap'[x].key = sessionMap[x].key
                /\ sessionMap'[x].addr = sessionMap[x].addr
                /\ sessionMap'[x].playerId = sessionMap[x].playerId
                /\ sessionMap'[x].charId = sessionMap[x].charId
      BY <1>1, <2>1 DEF BaseOf, Session
    <2>3. sessionMap' \in [DOMAIN sessionMap' -> Session]
      BY <2>1, <2>2
    <2>4. QED
      BY <1>1, <2>2, <2>3 DEF BaseOf
  <1> DEFINE Goal == /\ BaseOf(sessionMap') /\ RedisOK(redis') /\ RowsOK(characters')
                     /\ toDisconnect' \subseteq Endpoints /\ late' \subseteq Keys \cup {NoKey}
  <1>handled. ASSUME NEW e \in DOMAIN sessionMap, Handle(e)
              PROVE  late' \subseteq Keys \cup {NoKey}
    <2>1. sessionMap[e].key \in Keys \cup {NoKey}
      BY <1>1 DEF BaseOf, Session
    <2>2. QED
      BY <1>1, <1>handled, <2>1 DEF Handle
  <1>16. ASSUME NEW e \in Endpoints, HandlePacket(e)
         PROVE  Goal
    <2>1. CASE DropPacket(e)
      BY <1>1, <1>4, <2>1 DEF DropPacket
    <2>2. CASE \E k \in Keys : Connect(e, k)
      BY <1>1, <1>5, <2>2 DEF Connect
    <2>3. CASE \E a \in Accounts, stored \in Command, expiry \in Command :
                  Login(e, a, stored, expiry)
      BY <1>1, <1>6, <2>3 DEF Login
    <2>4. CASE \E c \in Chars : CharCreate(e, c)
      BY <1>1, <1>7, <2>4 DEF CharCreate
    <2>5. CASE \E c \in Chars : CharDelete(e, c)
      BY <1>1, <1>8, <2>5 DEF CharDelete
    <2>6. CASE \E c \in Chars, stored \in Command : CharSelect(e, c, stored)
      BY <1>1, <1>9, <1>handled, <2>6 DEF CharSelect, LoggedInAt
    <2>7. CASE \E expiry \in Command : Heartbeat(e, expiry)
      BY <1>1, <1>10, <1>handled, <2>7 DEF Heartbeat
    <2> HIDE DEF Goal
    <2>8. QED
      BY <1>16, <2>1, <2>2, <2>3, <2>4, <2>5, <2>6, <2>7 DEF HandlePacket
  <1>17. ASSUME NEW e \in Endpoints, FallSilent(e) \/ Disconnect(e)
         PROVE  Goal
    BY <1>1, <1>13, <1>silent, <1>17 DEF FallSilent, Disconnect
  <1>18. ASSUME NEW k \in Keys \cup {NoKey}, GameHeartbeat(k) \/ FdAfterExpiry(k)
         PROVE  Goal
    BY <1>1, <1>11, <1>18 DEF GameHeartbeat, FdAfterExpiry
  <1>19. CASE CollectTimeouts
    BY <1>1, <1>12, <1>19 DEF CollectTimeouts
  <1>20. CASE Tick
    BY <1>1, <1>14, <1>20 DEF Tick
  <1>21. QED
    BY <1>15, <1>16, <1>17, <1>18, <1>19, <1>20 DEF Next

\* Base holds in every state of every behaviour.
LEMMA AlwaysBase == Spec => []Base
  BY BaseInit, BaseStep, PTL DEF Spec

\* The variables have the types of the code: sessionMap, the hashes of Redis, the
\* rows of the characters table and the endpoints the heartbeat check collected.
THEOREM TypeCorrect == Spec => []TypeOK
  <1>1. Base => TypeOK
    BY DEF Base
  <1>2. QED
    BY <1>1, AlwaysBase, PTL
-----------------------------------------------------------------------------
(* The hash lasts from one heartbeat to the next                           *)

\* HashOutlives for one session.
OutlivedBy(s, r, l) ==
    s.playerId # NoPlayer /\ s.age <= HeartbeatTimeout /\ s.key \notin l
        => /\ s.key \in DOMAIN r
           /\ r[s.key].playerId = s.playerId
           /\ r[s.key].ttl + s.age > HeartbeatTimeout

TimelyOf(sm, r, l) ==
    /\ \A e \in DOMAIN sm : OutlivedBy(sm[e], r, l)
    /\ \A k \in DOMAIN r \ l : r[k].ttl # NoTTL

LEMMA TimelyIs ==
    /\ TimelyInv <=> TimelyOf(sessionMap, redis, late)
    /\ TimelyInv' <=> TimelyOf(sessionMap', redis', late')
  BY DEF TimelyInv, HashOutlives, HashesExpire, TimelyOf, OutlivedBy

\* Where nothing goes wrong but logins to another account, every action keeps it.
LEMMA TimelyStep ==
    ASSUME Faults \subseteq {"relogin"}
    PROVE  Base /\ TimelyInv /\ [Next]_vars => TimelyInv'
  <1> SUFFICES ASSUME Base, TimelyInv, [Next]_vars PROVE TimelyOf(sessionMap', redis', late')
    BY TimelyIs
  <1>1. /\ BaseOf(sessionMap) /\ RedisOK(redis) /\ TypeOK
        /\ TimelyOf(sessionMap, redis, late)
    BY BaseIs, TimelyIs DEF Base
  <1>2. /\ "unconnected" \notin Faults /\ "late_fd" \notin Faults
        /\ Command = {TRUE}
    BY DEF Command
  <1>3. /\ NoPlayer \notin Accounts /\ NoKey \notin Keys /\ HeartbeatTimeout \in Nat \ {0}
        /\ DefaultSession.playerId = NoPlayer /\ DefaultSession.key = NoKey
    BY AuthServerAssumption DEF DefaultSession
  <1>4. \A e \in DOMAIN sessionMap :
           /\ sessionMap[e] \in Session
           /\ sessionMap[e].playerId # NoPlayer => sessionMap[e].key # NoKey
           /\ \A x \in DOMAIN sessionMap :
                 sessionMap[x].key = sessionMap[e].key /\ sessionMap[e].key # NoKey => x = e
    BY <1>1, <1>2, <1>3 DEF BaseOf
  <1>5. \A k \in DOMAIN redis \ late : redis[k].ttl \in 1 .. HeartbeatTimeout + 2
    BY <1>1 DEF RedisOK, Hash, TimelyOf
  <1>handled. ASSUME NEW e \in DOMAIN sessionMap, Handle(e)
              PROVE  /\ late \subseteq late'
                     /\ \A k \in late' : k # sessionMap[e].key => k \in late
                     /\ sessionMap[e].key \notin late'
                           => sessionMap[e].age \in 0 .. HeartbeatTimeout
    BY <1>3, <1>4, <1>handled DEF Handle, Session, Silent
  <1>6. ASSUME NEW e \in Endpoints, DropPacket(e)
        PROVE  TimelyOf(sessionMap', redis', late')
    BY <1>1, <1>3, <1>6 DEF DropPacket, SessionAt, TimelyOf, OutlivedBy, Update
  <1>7. ASSUME NEW e \in Endpoints, NEW k \in Keys, Connect(e, k)
        PROVE  TimelyOf(sessionMap', redis', late')
    BY <1>1, <1>7 DEF Connect, ConnectedSession, TimelyOf, OutlivedBy, Update
  <1>8. ASSUME NEW e \in Endpoints, NEW a \in Accounts, Login(e, a, TRUE, TRUE)
        PROVE  TimelyOf(sessionMap', redis', late')
    <2> DEFINE s == sessionMap[e]
               t == LoggedIn(s, a)
               f == LoginFields(a, s)
               r == HSet(redis, s.key, f)
               q == LoginExpire(r, s.key)
    <2>1. e \in DOMAIN sessionMap /\ SessionAt(e) = s
      BY <1>2, <1>3, <1>8 DEF Login, SessionAt
    <2>2. s.key # NoKey
      BY <1>2, <1>8, <2>1 DEF Login
    <2>3. s.age \in 0 .. Silent /\ Silent \in Nat
      BY <1>3, <1>4, <2>1 DEF Session, Silent
    <2>4. s.key \in Keys \cup {NoKey} /\ f \in Fields /\ f.playerId = a
      BY <1>4, <2>1, WrittenFields DEF Session, LoginFields
    <2>5. /\ RedisOK(r)
          /\ DOMAIN r = DOMAIN redis \cup {s.key}
          /\ \A k \in DOMAIN redis : k # s.key => r[k] = redis[k]
          /\ r[s.key].playerId = a
      <3> HIDE DEF s, f
      <3>1. Written(r, redis, s.key, f)
        BY <1>1, <2>4, HSetIs
      <3> HIDE DEF r
      <3>2. QED
        BY <2>4, <3>1 DEF Written
    <2>6. q = Expire(r, s.key, HeartbeatTimeout + 2)
      BY DEF LoginExpire
    <2>7. /\ t.playerId = a /\ t.key = s.key /\ t.age = s.age
      BY <1>4, <2>1 DEF LoggedIn, Session
    <2>8. sessionMap' = Update(sessionMap, e, t) /\ redis' = q /\ late' = late
      BY <1>8, <2>1 DEF Login
    <2>9. /\ DOMAIN sessionMap' = DOMAIN sessionMap
          /\ sessionMap'[e] = t
          /\ \A x \in DOMAIN sessionMap : x # e => sessionMap'[x] = sessionMap[x]
      BY <2>1, <2>8 DEF Update
    <2> HIDE DEF t, f, r, q
    <2>10. /\ DOMAIN q = DOMAIN redis \cup {s.key}
           /\ q[s.key].playerId = a /\ q[s.key].ttl = HeartbeatTimeout + 2
           /\ \A k \in DOMAIN redis : k # s.key =>
                 q[k].playerId = redis[k].playerId /\ q[k].ttl = redis[k].ttl
      BY <2>5, <2>6, ExpireIs, ExpiryTimes
    <2>11. OutlivedBy(t, q, late)
      BY <1>3, <2>3, <2>7, <2>10 DEF OutlivedBy
    <2>12. ASSUME NEW x \in DOMAIN sessionMap, x # e
           PROVE  OutlivedBy(sessionMap[x], q, late)
      BY <1>1, <1>4, <2>1, <2>10, <2>12 DEF TimelyOf, OutlivedBy
    <2>13. \A k \in DOMAIN q \ late : q[k].ttl # NoTTL
      BY <1>1, <1>3, <2>10 DEF TimelyOf, NoTTL
    <2>14. QED
      BY <2>8, <2>9, <2>11, <2>12, <2>13 DEF TimelyOf
  <1>9. ASSUME NEW e \in Endpoints, NEW c \in Chars, CharSelect(e, c, TRUE)
        PROVE  TimelyOf(sessionMap', redis', late')
    <2> DEFINE s == sessionMap[e]
               f == SelectFields(s.playerId, c)
               r == HSet(redis, s.key, f)
    <2>1. e \in DOMAIN sessionMap /\ s.playerId # NoPlayer /\ Handle(e)
      BY <1>9 DEF CharSelect, LoggedInAt
    <2>2. s.key # NoKey /\ s.key \in Keys \cup {NoKey} /\ s.playerId \in Accounts
      BY <1>4, <2>1 DEF Session
    <2>3. /\ late \subseteq late'
          /\ s.key \notin late' => s.age \in 0 .. HeartbeatTimeout
      BY <1>handled, <2>1
    <2>4. s.key \notin late' => s.key \in DOMAIN redis
      BY <1>1, <1>3, <2>1, <2>3 DEF TimelyOf, OutlivedBy
    <2>5. f \in Fields /\ f.playerId = s.playerId
      BY <2>2, WrittenFields DEF SelectFields
    <2>6. /\ DOMAIN r = DOMAIN redis \cup {s.key}
          /\ r[s.key].playerId = s.playerId
          /\ s.key \in DOMAIN redis => r[s.key].ttl = redis[s.key].ttl
          /\ \A k \in DOMAIN redis : k # s.key => r[k] = redis[k]
      <3> HIDE DEF s, f
      <3>1. Written(r, redis, s.key, f)
        BY <1>1, <2>2, <2>5, HSetIs
      <3> HIDE DEF r
      <3>2. QED
        BY <2>5, <3>1 DEF Written
    <2>7. redis' = r /\ sessionMap' = [sessionMap EXCEPT ![e].charId = c]
      BY <1>9 DEF CharSelect
    <2>8. /\ DOMAIN sessionMap' = DOMAIN sessionMap
          /\ \A x \in DOMAIN sessionMap :
                /\ sessionMap'[x].key = sessionMap[x].key
                /\ sessionMap'[x].playerId = sessionMap[x].playerId
                /\ sessionMap'[x].age = sessionMap[x].age
      BY <1>4, <2>7 DEF Session
    <2>9. \A x \in DOMAIN sessionMap : x # e => sessionMap[x].key # s.key
      BY <1>4, <2>1, <2>2
    <2> HIDE DEF r
    <2>10. OutlivedBy(sessionMap'[e], r, late')
      BY <1>1, <2>1, <2>3, <2>4, <2>6, <2>8 DEF TimelyOf, OutlivedBy
    <2>11. ASSUME NEW x \in DOMAIN sessionMap, x # e
           PROVE  OutlivedBy(sessionMap'[x], r, late')
      BY <1>1, <2>3, <2>6, <2>8, <2>9, <2>11 DEF TimelyOf, OutlivedBy
    <2>12. \A k \in DOMAIN r \ late' : r[k].ttl # NoTTL
      BY <1>1, <2>3, <2>4, <2>6 DEF TimelyOf
    <2>13. QED
      BY <2>7, <2>8, <2>10, <2>11, <2>12 DEF TimelyOf
  <1>10. ASSUME NEW e \in Endpoints, Heartbeat(e, TRUE)
         PROVE  TimelyOf(sessionMap', redis', late')
    <2> DEFINE s == sessionMap[e]
               q == Expire(redis, s.key, HeartbeatTimeout + 1)
    <2>1. e \in DOMAIN sessionMap /\ s.key # NoKey /\ Handle(e)
      BY <1>10 DEF Heartbeat
    <2>2. /\ late \subseteq late'
          /\ s.key \notin late' => s.age \in 0 .. HeartbeatTimeout
      BY <1>handled, <2>1
    <2>3. /\ DOMAIN q = DOMAIN redis
          /\ \A k \in DOMAIN redis :
                /\ q[k].playerId = redis[k].playerId
                /\ k # s.key => q[k].ttl = redis[k].ttl
                /\ k = s.key => q[k].ttl = HeartbeatTimeout + 1
      BY <1>1, ExpireIs, ExpiryTimes
    <2>4. redis' = q /\ sessionMap' = [sessionMap EXCEPT ![e].age = 0]
      BY <1>10 DEF Heartbeat, HeartbeatExpire
    <2>5. /\ DOMAIN sessionMap' = DOMAIN sessionMap
          /\ \A x \in DOMAIN sessionMap :
                /\ sessionMap'[x].key = sessionMap[x].key
                /\ sessionMap'[x].playerId = sessionMap[x].playerId
                /\ x # e => sessionMap'[x].age = sessionMap[x].age
          /\ sessionMap'[e].age = 0
      BY <1>4, <2>1, <2>4 DEF Session
    <2> HIDE DEF q
    <2>6. OutlivedBy(sessionMap'[e], q, late')
      BY <1>1, <1>3, <2>1, <2>2, <2>3, <2>5 DEF TimelyOf, OutlivedBy
    <2>7. ASSUME NEW x \in DOMAIN sessionMap, x # e
          PROVE  OutlivedBy(sessionMap'[x], q, late')
      BY <1>1, <1>4, <2>1, <2>2, <2>3, <2>5, <2>7 DEF TimelyOf, OutlivedBy
    <2>8. \A k \in DOMAIN q \ late' : q[k].ttl # NoTTL
      BY <1>1, <1>3, <2>2, <2>3 DEF TimelyOf, NoTTL
    <2>9. QED
      BY <2>4, <2>5, <2>6, <2>7, <2>8 DEF TimelyOf
  <1>11. ASSUME NEW k \in Keys \cup {NoKey}, GameHeartbeat(k)
         PROVE  TimelyOf(sessionMap', redis', late')
    <2> DEFINE q == Expire(redis, k, HeartbeatTimeout + 1)
    <2>1. /\ DOMAIN q = DOMAIN redis
          /\ \A x \in DOMAIN redis :
                /\ q[x].playerId = redis[x].playerId
                /\ x # k => q[x].ttl = redis[x].ttl
                /\ x = k => q[x].ttl = HeartbeatTimeout + 1
      BY <1>1, ExpireIs, ExpiryTimes
    <2>2. redis' = q /\ sessionMap' = sessionMap /\ late' = late
      BY <1>11 DEF GameHeartbeat, HeartbeatExpire
    <2> HIDE DEF q
    <2>3. ASSUME NEW e \in DOMAIN sessionMap
          PROVE  OutlivedBy(sessionMap[e], q, late)
      <3>1. sessionMap[e].age \in Nat
        BY <1>3, <1>4 DEF Session, Silent
      <3>2. QED
        BY <1>1, <1>3, <2>1, <3>1 DEF TimelyOf, OutlivedBy
    <2>4. \A x \in DOMAIN q \ late : q[x].ttl # NoTTL
      BY <1>1, <1>3, <2>1 DEF TimelyOf, NoTTL
    <2>5. QED
      BY <2>2, <2>3, <2>4 DEF TimelyOf
  <1>12. ASSUME Tick
         PROVE  TimelyOf(sessionMap', redis', late')
    <2>1. /\ DOMAIN redis' = {x \in DOMAIN redis : redis[x].ttl # 1}
          /\ \A k \in DOMAIN redis' :
                redis'[k] = [redis[k] EXCEPT !.ttl = IF @ = NoTTL THEN @ ELSE @ - 1]
      BY <1>12 DEF Tick
    <2>2. \A k \in DOMAIN redis' \ late :
             redis'[k].playerId = redis[k].playerId /\ redis'[k].ttl = redis[k].ttl - 1
      <3>1. \A h \in Hash : \A t \in Int :
               [h EXCEPT !.ttl = t].playerId = h.playerId /\ [h EXCEPT !.ttl = t].ttl = t
        BY DEF Hash
      <3>2. \A k \in DOMAIN redis' \ late :
               redis[k] \in Hash /\ redis[k].ttl # NoTTL /\ redis[k].ttl - 1 \in Int
        BY <1>1, <1>3, <1>5, <2>1 DEF RedisOK, TimelyOf
      <3>3. \A k \in DOMAIN redis' \ late :
               redis'[k] = [redis[k] EXCEPT !.ttl = redis[k].ttl - 1]
        BY <2>1, <3>2
      <3>4. ASSUME NEW k \in DOMAIN redis' \ late
            PROVE  redis'[k].playerId = redis[k].playerId /\ redis'[k].ttl = redis[k].ttl - 1
        <4> DEFINE h == redis[k]
                   t == redis[k].ttl - 1
        <4>1. h \in Hash /\ t \in Int /\ redis'[k] = [h EXCEPT !.ttl = t]
          BY <3>2, <3>3, <3>4
        <4> HIDE DEF h, t
        <4>2. redis'[k].playerId = h.playerId /\ redis'[k].ttl = t
          BY <3>1, <4>1
        <4>3. QED
          BY <4>2 DEF h, t
      <3>5. QED
        BY <3>4
    <2>3. /\ DOMAIN sessionMap' = DOMAIN sessionMap
          /\ \A e \in DOMAIN sessionMap :
                /\ sessionMap'[e].key = sessionMap[e].key
                /\ sessionMap'[e].playerId = sessionMap[e].playerId
                /\ sessionMap'[e].age =
                      IF sessionMap[e].age >= Due THEN sessionMap[e].age
                      ELSE sessionMap[e].age + 1
          /\ late' = late
      BY <1>4, <1>12 DEF Tick, Session
    <2>4. ASSUME NEW e \in DOMAIN sessionMap
          PROVE  OutlivedBy(sessionMap'[e], redis', late)
      <3> DEFINE s == sessionMap[e]
      <3> SUFFICES ASSUME s.playerId # NoPlayer, sessionMap'[e].age <= HeartbeatTimeout,
                          s.key \notin late
                   PROVE  /\ s.key \in DOMAIN redis'
                          /\ redis'[s.key].playerId = s.playerId
                          /\ redis'[s.key].ttl + sessionMap'[e].age > HeartbeatTimeout
        BY <2>3 DEF OutlivedBy
      <3>1. s.age \in 0 .. Silent
        BY <1>4 DEF Session
      <3>2. s.age < HeartbeatTimeout /\ sessionMap'[e].age = s.age + 1
        BY <1>3, <2>3, <3>1 DEF Silent, Due
      <3>3. /\ s.key \in DOMAIN redis
            /\ redis[s.key].playerId = s.playerId
            /\ redis[s.key].ttl + s.age > HeartbeatTimeout
        BY <1>1, <1>3, <3>1, <3>2 DEF TimelyOf, OutlivedBy
      <3>4. redis[s.key].ttl # 1
        BY <1>3, <3>1, <3>2, <3>3
      <3>5. redis[s.key].ttl \in Int
        BY <1>3, <1>5, <3>3
      <3>6. QED
        BY <1>3, <2>1, <2>2, <3>1, <3>2, <3>3, <3>4, <3>5
    <2>5. \A k \in DOMAIN redis' \ late : redis'[k].ttl # NoTTL
      <3>1. \A k \in DOMAIN redis' \ late : redis[k].ttl \in 2 .. HeartbeatTimeout + 2
        BY <1>3, <1>5, <2>1
      <3>2. QED
        BY <2>2, <3>1 DEF NoTTL
    <2>6. QED
      BY <2>3, <2>4, <2>5 DEF TimelyOf
  <1>13. ASSUME NEW e \in Endpoints, Disconnect(e)
         PROVE  TimelyOf(sessionMap', redis', late')
    BY <1>1, <1>13 DEF Disconnect, Restrict, TimelyOf
  <1>silent. ASSUME NEW e \in Endpoints, FallSilent(e)
             PROVE  TimelyOf(sessionMap', redis', late')
    <2>1. /\ DOMAIN sessionMap' = DOMAIN sessionMap
          /\ \A x \in DOMAIN sessionMap :
                /\ sessionMap'[x].key = sessionMap[x].key
                /\ sessionMap'[x].playerId = sessionMap[x].playerId
                /\ sessionMap'[x].age = sessionMap[x].age \/ sessionMap'[x].age = Silent
          /\ redis' = redis /\ late' = late
      BY <1>4, <1>silent DEF FallSilent, Session
    <2>2. ~(Silent <= HeartbeatTimeout)
      BY <1>3 DEF Silent
    <2>3. QED
      BY <1>1, <2>1, <2>2 DEF TimelyOf, OutlivedBy
  <1>14. QED
    BY <1>1, <1>2, <1>6, <1>7, <1>8, <1>9, <1>10, <1>11, <1>12, <1>13, <1>silent
    DEF Next, HandlePacket, CharCreate, CharDelete, FdAfterExpiry, CollectTimeouts, vars

LEMMA TimelyInit == Init => TimelyInv
  BY DEF Init, TimelyInv, HashOutlives, HashesExpire

LEMMA AlwaysTimely ==
    ASSUME Faults \subseteq {"relogin"}
    PROVE  Spec => [](Base /\ TimelyInv)
  <1>1. Init => Base /\ TimelyInv
    BY BaseInit, TimelyInit
  <1>2. (Base /\ TimelyInv) /\ [Next]_vars => (Base /\ TimelyInv)'
    BY BaseStep, TimelyStep
  <1>3. QED
    BY <1>1, <1>2, PTL DEF Spec

\* The key a login was answered with stays good for a client whose heartbeats are
\* never more than HEARTBEAT_TIMEOUT_SEC apart: the expiries of login and heartbeat
\* reach from each heartbeat to the next, on one server or on several.
THEOREM KeyGoodBetweenHeartbeats ==
    ASSUME Faults \subseteq {"relogin"}
    PROVE  Spec => []LiveKeyFound
  <1>1. TimelyInv => LiveKeyFound
    BY DEF TimelyInv, HashOutlives, LiveKeyFound
  <1>2. QED
    BY <1>1, AlwaysTimely, PTL

\* Every hash goes away by itself but those of clients that were late: in time, a
\* character selection, which sets no expiry, only writes to a hash that has one.
THEOREM EveryHashExpires ==
    ASSUME Faults \subseteq {"relogin"}
    PROVE  Spec => []HashesExpire
  <1>1. TimelyInv => HashesExpire
    BY DEF TimelyInv
  <1>2. QED
    BY <1>1, AlwaysTimely, PTL
-----------------------------------------------------------------------------
(* The hash says what the session says                                     *)

\* HashMatchesSession for one session.
SaysSame(s, r) ==
    s.key \in DOMAIN r /\ r[s.key].playerId # None
        => /\ r[s.key].playerId = s.playerId
           /\ r[s.key].charId = s.charId
           /\ r[s.key].charName \in {None, s.charId}

\* FieldsTogether for one hash.
Together(h) == h.playerId = None => h.charId = None /\ h.charName = None

AgreeOf(sm, r) ==
    /\ \A e \in DOMAIN sm : SaysSame(sm[e], r)
    /\ \A k \in DOMAIN r : Together(r[k])
    /\ DOMAIN r \subseteq Keys

LEMMA AgreeIs ==
    /\ AgreeInv <=> AgreeOf(sessionMap, redis)
    /\ AgreeInv' <=> AgreeOf(sessionMap', redis')
  BY DEF AgreeInv, HashMatchesSession, FieldsTogether, OnlyKeys, AgreeOf, SaysSame, Together

\* No session and no hash of sn, q says other than in sm, r: time passed, expiries
\* were set, sessions and hashes went away.
NothingNew(sn, q, sm, r) ==
    /\ DOMAIN sn \subseteq DOMAIN sm
    /\ DOMAIN q \subseteq DOMAIN r
    /\ \A e \in DOMAIN sn :
          /\ sn[e].key = sm[e].key
          /\ sn[e].playerId = sm[e].playerId
          /\ sn[e].charId = sm[e].charId
    /\ \A k \in DOMAIN q :
          \/ q[k] = NoFields
          \/ /\ q[k].playerId = r[k].playerId
             /\ q[k].charId = r[k].charId
             /\ q[k].charName = r[k].charName

\* The actions that write neither a session's player or character nor a hash's.
LEMMA NothingNewSteps ==
    ASSUME Base,
           \/ \E e \in Endpoints :
                 FallSilent(e) \/ Disconnect(e) \/ \E x \in Command : Heartbeat(e, x)
           \/ \E k \in Keys \cup {NoKey} : GameHeartbeat(k) \/ FdAfterExpiry(k)
           \/ CollectTimeouts
           \/ Tick
           \/ \E e \in Endpoints, c \in Chars : CharCreate(e, c) \/ CharDelete(e, c)
           \/ UNCHANGED vars
    PROVE  NothingNew(sessionMap', redis', sessionMap, redis)
  <1>1. /\ RedisOK(redis)
        /\ \A e \in DOMAIN sessionMap : sessionMap[e] \in Session
        /\ \A k \in DOMAIN redis : redis[k] \in Hash
    BY BaseIs DEF BaseOf, RedisOK
  <1>2. \A k, t : NothingNew(sessionMap, Expire(redis, k, t), sessionMap, redis)
    BY <1>1 DEF NothingNew, Expire, Hash
  <1>3. ASSUME NEW e \in Endpoints, Disconnect(e)
        PROVE  NothingNew(sessionMap', redis', sessionMap, redis)
    BY <1>3 DEF Disconnect, Restrict, NothingNew
  <1>4. ASSUME NEW e \in Endpoints, NEW x \in Command, Heartbeat(e, x)
        PROVE  NothingNew(sessionMap', redis', sessionMap, redis)
    <2>1. /\ DOMAIN sessionMap' = DOMAIN sessionMap
          /\ \A y \in DOMAIN sessionMap :
                /\ sessionMap'[y].key = sessionMap[y].key
                /\ sessionMap'[y].playerId = sessionMap[y].playerId
                /\ sessionMap'[y].charId = sessionMap[y].charId
      BY <1>1, <1>4 DEF Heartbeat, Session
    <2>2. redis' = redis \/ redis' = Expire(redis, sessionMap[e].key, HeartbeatTimeout + 1)
      BY <1>4 DEF Heartbeat, HeartbeatExpire
    <2>3. NothingNew(sessionMap, redis', sessionMap, redis)
      BY <1>2, <2>2 DEF NothingNew
    <2>4. QED
      BY <2>1, <2>3 DEF NothingNew
  <1>5. ASSUME NEW k \in Keys \cup {NoKey}, GameHeartbeat(k)
        PROVE  NothingNew(sessionMap', redis', sessionMap, redis)
    BY <1>2, <1>5 DEF GameHeartbeat, HeartbeatExpire
  <1>6. ASSUME NEW k \in Keys \cup {NoKey}, FdAfterExpiry(k)
        PROVE  NothingNew(sessionMap', redis', sessionMap, redis)
    BY <1>1, <1>6 DEF FdAfterExpiry, NothingNew
  <1>7. ASSUME Tick
        PROVE  NothingNew(sessionMap', redis', sessionMap, redis)
    <2>1. /\ DOMAIN sessionMap' = DOMAIN sessionMap
          /\ \A e \in DOMAIN sessionMap :
                /\ sessionMap'[e].key = sessionMap[e].key
                /\ sessionMap'[e].playerId = sessionMap[e].playerId
                /\ sessionMap'[e].charId = sessionMap[e].charId
      BY <1>1, <1>7 DEF Tick, Session
    <2>2. /\ DOMAIN redis' \subseteq DOMAIN redis
          /\ \A k \in DOMAIN redis' :
                /\ redis'[k].playerId = redis[k].playerId
                /\ redis'[k].charId = redis[k].charId
                /\ redis'[k].charName = redis[k].charName
      BY <1>1, <1>7 DEF Tick, Hash
    <2>3. QED
      BY <2>1, <2>2 DEF NothingNew
  <1>8. CASE /\ sessionMap' = sessionMap
             /\ redis' = redis
    BY <1>8 DEF NothingNew
  <1>silent. ASSUME NEW e \in Endpoints, FallSilent(e)
             PROVE  NothingNew(sessionMap', redis', sessionMap, redis)
    BY <1>1, <1>silent DEF FallSilent, Session, NothingNew
  <1>9. QED
    BY <1>3, <1>4, <1>5, <1>6, <1>7, <1>8, <1>silent DEF CollectTimeouts, CharCreate, CharDelete, vars

\* Such a step keeps the agreement.
LEMMA NothingNewAgrees ==
    ASSUME NEW sm, NEW r, NEW sn, NEW q, AgreeOf(sm, r), NothingNew(sn, q, sm, r)
    PROVE  AgreeOf(sn, q)
  <1>1. NoFields.playerId = None /\ NoFields.charId = None /\ NoFields.charName = None
    BY DEF NoFields
  <1>2. QED
    BY <1>1 DEF AgreeOf, NothingNew, SaysSame, Together

\* Where no login goes without a key and no Redis command fails, every action keeps it.
LEMMA AgreeStep ==
    ASSUME Faults \cap {"unconnected", "redis"} = {}
    PROVE  Base /\ AgreeInv /\ [Next]_vars => AgreeInv'
  <1> SUFFICES ASSUME Base, AgreeInv, [Next]_vars PROVE AgreeOf(sessionMap', redis')
    BY AgreeIs
  <1>1. BaseOf(sessionMap) /\ RedisOK(redis) /\ AgreeOf(sessionMap, redis)
    BY BaseIs, AgreeIs
  <1>2. /\ "unconnected" \notin Faults
        /\ Command = {TRUE}
    BY DEF Command
  <1>3. /\ NoPlayer \notin Accounts /\ NoKey \notin Keys /\ None \notin Accounts
        /\ None \notin Chars \cup {NoChar} /\ DefaultSession.key = NoKey
    BY AuthServerAssumption DEF DefaultSession
  <1>4. \A e \in DOMAIN sessionMap :
           /\ sessionMap[e] \in Session
           /\ sessionMap[e].playerId # NoPlayer => sessionMap[e].key # NoKey
           /\ \A x \in DOMAIN sessionMap :
                 sessionMap[x].key = sessionMap[e].key /\ sessionMap[e].key # NoKey => x = e
    BY <1>1, <1>2, <1>3 DEF BaseOf
  <1>5. ASSUME NEW e \in Endpoints, DropPacket(e)
        PROVE  AgreeOf(sessionMap', redis')
    BY <1>1, <1>3, <1>5 DEF DropPacket, SessionAt, AgreeOf, SaysSame, Update
  <1>6. ASSUME NEW e \in Endpoints, NEW k \in Keys, Connect(e, k)
        PROVE  AgreeOf(sessionMap', redis')
    BY <1>1, <1>6 DEF Connect, ConnectedSession, AgreeOf, SaysSame, Update
  <1>7. ASSUME NEW e \in Endpoints, NEW a \in Accounts, Login(e, a, TRUE, TRUE)
        PROVE  AgreeOf(sessionMap', redis')
    <2> DEFINE s == sessionMap[e]
               t == LoggedIn(s, a)
               f == LoginFields(a, s)
               r == HSet(redis, s.key, f)
               q == Expire(r, s.key, HeartbeatTimeout + 2)
    <2>1. e \in DOMAIN sessionMap /\ SessionAt(e) = s /\ s.key # NoKey
      BY <1>2, <1>3, <1>7 DEF Login, SessionAt
    <2>2. s \in Session /\ s.key \in Keys
      BY <1>4, <2>1 DEF Session
    <2>3. /\ f \in Fields /\ f.playerId = a /\ f.charId = s.charId /\ f.charName = None
      BY <2>2, WrittenFields DEF LoginFields
    <2>4. /\ t.playerId = a /\ t.key = s.key /\ t.charId = s.charId
      BY <2>2 DEF LoggedIn, Session
    <2>5. /\ sessionMap' = Update(sessionMap, e, t) /\ redis' = q
      BY <1>7, <2>1 DEF Login, LoginExpire
    <2>6. /\ DOMAIN sessionMap' = DOMAIN sessionMap
          /\ sessionMap'[e] = t
          /\ \A x \in DOMAIN sessionMap : x # e => sessionMap'[x] = sessionMap[x]
      BY <2>1, <2>5 DEF Update
    <2>7. SaysSame(s, redis) /\ \A k \in DOMAIN redis : Together(redis[k])
      BY <1>1, <2>1 DEF AgreeOf
    <2>8. \A x \in DOMAIN sessionMap : x # e => sessionMap[x].key # s.key
      BY <1>4, <2>1
    <2> HIDE DEF s, t, f
    <2>9. Written(r, redis, s.key, f)
      BY <1>1, <2>2, <2>3, HSetIs
    <2> HIDE DEF r
    <2>10. /\ DOMAIN q = DOMAIN r
           /\ \A k \in DOMAIN r :
                 /\ q[k].playerId = r[k].playerId
                 /\ q[k].charId = r[k].charId
                 /\ q[k].charName = r[k].charName
      BY <2>9, ExpireIs, ExpiryTimes DEF Written
    <2> HIDE DEF q
    <2>11. /\ DOMAIN q = DOMAIN redis \cup {s.key}
           /\ q[s.key].playerId = a /\ q[s.key].charId = s.charId
           /\ q[s.key].charName = IF s.key \in DOMAIN redis THEN redis[s.key].charName ELSE None
           /\ \A k \in DOMAIN redis : k # s.key =>
                 /\ q[k].playerId = redis[k].playerId
                 /\ q[k].charId = redis[k].charId
                 /\ q[k].charName = redis[k].charName
      BY <2>3, <2>9, <2>10 DEF Written
    <2>12. s.key \in DOMAIN redis => redis[s.key].charName \in {None, s.charId}
      BY <2>7 DEF SaysSame, Together
    <2>13. SaysSame(t, q)
      BY <2>4, <2>11, <2>12 DEF SaysSame
    <2>14. ASSUME NEW x \in DOMAIN sessionMap, x # e
           PROVE  SaysSame(sessionMap[x], q)
      BY <1>1, <2>8, <2>11, <2>14 DEF AgreeOf, SaysSame
    <2>15. \A k \in DOMAIN q : Together(q[k])
      BY <1>3, <2>7, <2>11 DEF Together
    <2>16. DOMAIN q \subseteq Keys
      BY <1>1, <2>2, <2>11 DEF AgreeOf
    <2>17. QED
      BY <2>5, <2>6, <2>13, <2>14, <2>15, <2>16 DEF AgreeOf
  <1>8. ASSUME NEW e \in Endpoints, NEW c \in Chars, CharSelect(e, c, TRUE)
        PROVE  AgreeOf(sessionMap', redis')
    <2> DEFINE s == sessionMap[e]
               f == SelectFields(s.playerId, c)
               q == HSet(redis, s.key, f)
    <2>1. e \in DOMAIN sessionMap /\ s.playerId # NoPlayer
      BY <1>8 DEF CharSelect, LoggedInAt
    <2>2. s.key \in Keys /\ s.playerId \in Accounts
      BY <1>4, <2>1 DEF Session
    <2>3. f \in Fields /\ f.playerId = s.playerId /\ f.charId = c /\ f.charName = c
      BY <2>2, WrittenFields DEF SelectFields
    <2>4. sessionMap' = [sessionMap EXCEPT ![e].charId = c] /\ redis' = q
      BY <1>8 DEF CharSelect
    <2>5. /\ DOMAIN sessionMap' = DOMAIN sessionMap
          /\ sessionMap'[e].key = s.key
          /\ sessionMap'[e].playerId = s.playerId
          /\ sessionMap'[e].charId = c
          /\ \A x \in DOMAIN sessionMap : x # e => sessionMap'[x] = sessionMap[x]
      BY <1>4, <2>1, <2>4 DEF Session
    <2>6. \A x \in DOMAIN sessionMap : x # e => sessionMap[x].key # s.key
      BY <1>4, <2>1
    <2> HIDE DEF s, f
    <2>7. Written(q, redis, s.key, f)
      BY <1>1, <2>2, <2>3, HSetIs
    <2> HIDE DEF q
    <2>8. /\ DOMAIN q = DOMAIN redis \cup {s.key}
          /\ q[s.key].playerId = s.playerId /\ q[s.key].charId = c /\ q[s.key].charName = c
          /\ \A k \in DOMAIN redis : k # s.key => q[k] = redis[k]
      BY <1>3, <2>3, <2>7 DEF Written
    <2>9. SaysSame(sessionMap'[e], q)
      BY <2>5, <2>8 DEF SaysSame
    <2>10. ASSUME NEW x \in DOMAIN sessionMap, x # e
           PROVE  SaysSame(sessionMap'[x], q)
      BY <1>1, <2>5, <2>6, <2>8, <2>10 DEF AgreeOf, SaysSame
    <2>11. \A k \in DOMAIN q : Together(q[k])
      BY <1>1, <1>3, <2>2, <2>8 DEF AgreeOf, Together
    <2>12. DOMAIN q \subseteq Keys
      BY <1>1, <2>2, <2>8 DEF AgreeOf
    <2>13. QED
      BY <2>4, <2>5, <2>9, <2>10, <2>11, <2>12 DEF AgreeOf
  <1>9. ASSUME NothingNew(sessionMap', redis', sessionMap, redis)
        PROVE  AgreeOf(sessionMap', redis')
    BY <1>1, <1>9, NothingNewAgrees
  <1>10. QED
    BY <1>2, <1>5, <1>6, <1>7, <1>8, <1>9, NothingNewSteps DEF Next, HandlePacket

LEMMA AgreeInit == Init => AgreeInv
  BY DEF Init, AgreeInv, HashMatchesSession, FieldsTogether, OnlyKeys

\* What a game server reads under a session's key is what the auth server holds of
\* the session, in whatever order logins, selections and expiries come.
THEOREM HashAgreesWithSession ==
    ASSUME Faults \cap {"unconnected", "redis"} = {}
    PROVE  Spec => []HashMatchesSession
  <1>1. Init => Base /\ AgreeInv
    BY BaseInit, AgreeInit
  <1>2. (Base /\ AgreeInv) /\ [Next]_vars => (Base /\ AgreeInv)'
    BY BaseStep, AgreeStep
  <1>3. AgreeInv => HashMatchesSession
    BY DEF AgreeInv
  <1>4. QED
    BY <1>1, <1>2, <1>3, PTL DEF Spec
-----------------------------------------------------------------------------
(* A hash names its account's characters                                   *)

OwnNames(h, rows) ==
    \A c \in {h.charId, h.charName} \cap Chars :
        c \in DOMAIN rows /\ rows[c].owner = h.playerId

OwnsCharacter(s, rows) ==
    s.charId \in Chars => s.charId \in DOMAIN rows /\ rows[s.charId].owner = s.playerId

OfAccount(s, r) == s.key \in DOMAIN r => r[s.key].playerId \in {None, s.playerId}

NamesOf(sm, r, rows) ==
    /\ \A k \in DOMAIN r : Together(r[k]) /\ OwnNames(r[k], rows)
    /\ \A e \in DOMAIN sm : OwnsCharacter(sm[e], rows) /\ OfAccount(sm[e], r)
    /\ DOMAIN r \subseteq Keys

LEMMA NamesIs ==
    /\ NamesInv <=> NamesOf(sessionMap, redis, characters)
    /\ NamesInv' <=> NamesOf(sessionMap', redis', characters')
  BY DEF NamesInv, HashNamesOwnCharacter, FieldsTogether, SessionOwnsCharacter, HashOfAccount,
         OnlyKeys, NamesOf, Together, OwnNames, OwnsCharacter, OfAccount

\* Characters come and never change hands; ids stay.
KeepsOwners(new, rows) ==
    /\ DOMAIN rows \subseteq DOMAIN new
    /\ \A c \in DOMAIN rows : new[c].owner = rows[c].owner

LEMMA OwnersKept == Base /\ [Next]_vars => KeepsOwners(characters', characters)
  <1> SUFFICES ASSUME Base, [Next]_vars PROVE KeepsOwners(characters', characters)
    OBVIOUS
  <1>1. ASSUME NEW e \in Endpoints, NEW c \in Chars, CharCreate(e, c)
        PROVE  KeepsOwners(characters', characters)
    BY <1>1 DEF CharCreate, KeepsOwners, Update
  <1>2. ASSUME NEW e \in Endpoints, NEW c \in Chars, CharDelete(e, c)
        PROVE  KeepsOwners(characters', characters)
    BY <1>2, BaseIs DEF CharDelete, KeepsOwners, RowsOK
  <1>3. CASE UNCHANGED characters
    BY <1>3 DEF KeepsOwners
  <1>4. QED
    BY <1>1, <1>2, <1>3 DEF Next, HandlePacket, DropPacket, Connect, Login, CharSelect,
        Heartbeat, GameHeartbeat, FdAfterExpiry, FallSilent, CollectTimeouts, Disconnect,
        Tick, vars

\* A step that writes no player or character keeps it.
LEMMA NothingNewNames ==
    ASSUME NEW sm, NEW r, NEW rows, NEW sn, NEW q, NEW new, NamesOf(sm, r, rows),
           NothingNew(sn, q, sm, r), KeepsOwners(new, rows)
    PROVE  NamesOf(sn, q, new)
  <1>1. /\ NoFields.playerId = None /\ NoFields.charId = None /\ NoFields.charName = None
        /\ None \notin Chars
    BY AuthServerAssumption DEF NoFields
  <1>2. ASSUME NEW k \in DOMAIN q
        PROVE  Together(q[k]) /\ OwnNames(q[k], new)
    <2>1. CASE q[k] = NoFields
      BY <1>1, <2>1 DEF Together, OwnNames
    <2>2. CASE q[k] # NoFields
      BY <1>2, <2>2 DEF NamesOf, NothingNew, KeepsOwners, Together, OwnNames
    <2>3. QED
      BY <2>1, <2>2
  <1>3. ASSUME NEW e \in DOMAIN sn
        PROVE  OwnsCharacter(sn[e], new) /\ OfAccount(sn[e], q)
    BY <1>1, <1>3 DEF NamesOf, NothingNew, KeepsOwners, OwnsCharacter, OfAccount
  <1>4. QED
    BY <1>2, <1>3 DEF NamesOf, NothingNew

\* Where nobody logs in to a second account or without a key, every action keeps it.
LEMMA NamesStep ==
    ASSUME Faults \cap {"unconnected", "relogin"} = {}
    PROVE  Base /\ NamesInv /\ [Next]_vars => NamesInv'
  <1> SUFFICES ASSUME Base, NamesInv, [Next]_vars
               PROVE  NamesOf(sessionMap', redis', characters')
    BY NamesIs
  <1>1. /\ BaseOf(sessionMap) /\ RedisOK(redis) /\ NamesOf(sessionMap, redis, characters)
        /\ KeepsOwners(characters', characters)
    BY BaseIs, NamesIs, OwnersKept
  <1>2. "unconnected" \notin Faults /\ "relogin" \notin Faults /\ Command \subseteq BOOLEAN
    BY DEF Command
  <1>3. /\ NoPlayer \notin Accounts /\ NoKey \notin Keys /\ None \notin Accounts
        /\ None \notin Chars /\ NoChar \notin Chars
        /\ DefaultSession.key = NoKey /\ DefaultSession.charId = NoChar
    BY AuthServerAssumption DEF DefaultSession
  <1>4. \A e \in DOMAIN sessionMap :
           /\ sessionMap[e] \in Session
           /\ sessionMap[e].playerId # NoPlayer => sessionMap[e].key # NoKey
           /\ sessionMap[e].playerId = NoPlayer => sessionMap[e].charId = NoChar
           /\ \A x \in DOMAIN sessionMap :
                 sessionMap[x].key = sessionMap[e].key /\ sessionMap[e].key # NoKey => x = e
    BY <1>1, <1>2, <1>3 DEF BaseOf
  <1>5. ASSUME NEW e \in Endpoints, DropPacket(e)
        PROVE  NamesOf(sessionMap', redis', characters')
    BY <1>1, <1>3, <1>5
    DEF DropPacket, SessionAt, NamesOf, OwnsCharacter, OfAccount, Update
  <1>6. ASSUME NEW e \in Endpoints, NEW k \in Keys, Connect(e, k)
        PROVE  NamesOf(sessionMap', redis', characters')
    BY <1>1, <1>3, <1>6
    DEF Connect, ConnectedSession, NamesOf, OwnsCharacter, OfAccount, Update
  <1>7. ASSUME NEW e \in Endpoints, NEW a \in Accounts,
               NEW stored \in Command, NEW expiry \in Command, Login(e, a, stored, expiry)
        PROVE  NamesOf(sessionMap', redis', characters')
    <2> DEFINE s == sessionMap[e]
               t == LoggedIn(s, a)
               f == LoginFields(a, s)
               w == HSet(redis, s.key, f)
               r == IF stored THEN w ELSE redis
               q == IF expiry THEN Expire(r, s.key, HeartbeatTimeout + 2) ELSE r
    <2>1. e \in DOMAIN sessionMap /\ SessionAt(e) = s /\ s.key # NoKey
      BY <1>2, <1>3, <1>7 DEF Login, SessionAt
    <2>2. s \in Session /\ s.key \in Keys /\ s.playerId \in {NoPlayer, a}
      BY <1>2, <1>4, <1>7, <2>1 DEF Session, Login
    <2>3. /\ f \in Fields /\ f.playerId = a /\ f.charId = s.charId /\ f.charName = None
      BY <2>2, WrittenFields DEF LoginFields
    <2>4. /\ t.playerId = a /\ t.key = s.key /\ t.charId = s.charId
      BY <2>2 DEF LoggedIn, Session
    <2>5. /\ sessionMap' = Update(sessionMap, e, t) /\ redis' = q /\ characters' = characters
      BY <1>7, <2>1 DEF Login, LoginExpire
    <2>6. /\ DOMAIN sessionMap' = DOMAIN sessionMap
          /\ sessionMap'[e] = t
          /\ \A x \in DOMAIN sessionMap : x # e => sessionMap'[x] = sessionMap[x]
      BY <2>1, <2>5 DEF Update
    <2>7. /\ OwnsCharacter(s, characters) /\ OfAccount(s, redis)
          /\ \A k \in DOMAIN redis : Together(redis[k]) /\ OwnNames(redis[k], characters)
      BY <1>1, <2>1 DEF NamesOf
    <2>8. \A x \in DOMAIN sessionMap : x # e => sessionMap[x].key # s.key
      BY <1>4, <2>1
    <2>9. s.playerId = NoPlayer => s.charId = NoChar
      BY <1>4, <2>1
    <2>10. s.key \in DOMAIN redis => redis[s.key] \in Hash
      BY <1>1 DEF RedisOK
    <2> HIDE DEF s, t, f
    <2>11. Written(w, redis, s.key, f)
      BY <1>1, <2>2, <2>3, HSetIs
    <2> HIDE DEF w
    <2>12. w[s.key].charName = IF s.key \in DOMAIN redis THEN redis[s.key].charName ELSE None
      BY <2>3, <2>11 DEF Written
    <2>13. OwnNames(w[s.key], characters)
      <3>1. w[s.key].playerId = a /\ w[s.key].charId = s.charId
        BY <2>3, <2>11 DEF Written
      <3>2. ASSUME s.charId \in Chars
            PROVE  s.charId \in DOMAIN characters /\ characters[s.charId].owner = a
        BY <1>3, <2>2, <2>7, <2>9, <3>2 DEF OwnsCharacter
      <3>3. ASSUME w[s.key].charName \in Chars
            PROVE  /\ w[s.key].charName \in DOMAIN characters
                   /\ characters[w[s.key].charName].owner = a
        <4> DEFINE h == redis[s.key]
        <4>1. s.key \in DOMAIN redis /\ w[s.key].charName = h.charName
          BY <1>3, <2>12, <3>3
        <4>2. h.playerId # None
          BY <1>3, <2>7, <3>3, <4>1 DEF Together
        <4>3. h.playerId = a
          BY <1>3, <2>2, <2>7, <2>10, <4>1, <4>2 DEF OfAccount, Hash
        <4>4. QED
          BY <2>7, <3>3, <4>1, <4>3 DEF OwnNames
      <3>4. QED
        BY <3>1, <3>2, <3>3 DEF OwnNames
    <2>14. /\ DOMAIN w \subseteq Keys
           /\ \A k \in DOMAIN w : Together(w[k]) /\ OwnNames(w[k], characters)
      BY <1>1, <1>3, <2>2, <2>3, <2>7, <2>11, <2>13 DEF Written, Together, NamesOf
    <2>15. OfAccount(t, w) /\ OfAccount(t, redis)
      <3>1. OfAccount(t, w)
        BY <2>3, <2>4, <2>11 DEF OfAccount, Written
      <3>2. OfAccount(t, redis)
        BY <1>3, <2>2, <2>4, <2>7, <2>10 DEF OfAccount, Hash
      <3>3. QED
        BY <3>1, <3>2
    <2>16. ASSUME NEW x \in DOMAIN sessionMap, x # e
           PROVE  OfAccount(sessionMap[x], w) /\ OfAccount(sessionMap[x], redis)
      BY <1>1, <2>8, <2>11, <2>16 DEF NamesOf, OfAccount, Written
    <2>17. OwnsCharacter(t, characters)
      BY <1>3, <2>2, <2>4, <2>7, <2>9 DEF OwnsCharacter
    <2>18. NamesOf(sessionMap', redis, characters) /\ NamesOf(sessionMap', w, characters)
      BY <1>1, <2>6, <2>14, <2>15, <2>16, <2>17 DEF NamesOf
    <2>19. NamesOf(sessionMap', r, characters)
      BY <2>18
    <2>20. RedisOK(r)
      BY <1>1, <2>11 DEF Written
    <2> HIDE DEF r
    <2>21. NothingNew(sessionMap', q, sessionMap', r)
      BY <2>20, ExpireIs, ExpiryTimes DEF NothingNew
    <2>22. QED
      BY <1>1, <2>5, <2>19, <2>21, NothingNewNames
  <1>8. ASSUME NEW e \in Endpoints, NEW c \in Chars, NEW stored \in Command,
               CharSelect(e, c, stored)
        PROVE  NamesOf(sessionMap', redis', characters')
    <2> DEFINE s == sessionMap[e]
               f == SelectFields(s.playerId, c)
               w == HSet(redis, s.key, f)
    <2>1. e \in DOMAIN sessionMap /\ s.playerId # NoPlayer
      BY <1>8 DEF CharSelect, LoggedInAt
    <2>2. s.key \in Keys /\ s.playerId \in Accounts
      BY <1>4, <2>1 DEF Session
    <2>3. c \in DOMAIN characters /\ characters[c].owner = s.playerId
      BY <1>8 DEF CharSelect, RowOfAccount
    <2>4. f \in Fields /\ f.playerId = s.playerId /\ f.charId = c /\ f.charName = c
      BY <2>2, WrittenFields DEF SelectFields
    <2>5. /\ sessionMap' = [sessionMap EXCEPT ![e].charId = c]
          /\ redis' = IF stored THEN w ELSE redis
          /\ characters' = characters
      BY <1>8 DEF CharSelect
    <2>6. /\ DOMAIN sessionMap' = DOMAIN sessionMap
          /\ sessionMap'[e].key = s.key
          /\ sessionMap'[e].playerId = s.playerId
          /\ sessionMap'[e].charId = c
          /\ \A x \in DOMAIN sessionMap : x # e => sessionMap'[x] = sessionMap[x]
      BY <1>4, <2>1, <2>5 DEF Session
    <2>7. \A x \in DOMAIN sessionMap : x # e => sessionMap[x].key # s.key
      BY <1>4, <2>1
    <2>8. OfAccount(s, redis)
      BY <1>1, <2>1 DEF NamesOf
    <2> HIDE DEF s, f
    <2>9. Written(w, redis, s.key, f)
      BY <1>1, <2>2, <2>4, HSetIs
    <2> HIDE DEF w
    <2>10. /\ DOMAIN w = DOMAIN redis \cup {s.key}
           /\ w[s.key].playerId = s.playerId /\ w[s.key].charId = c /\ w[s.key].charName = c
           /\ \A k \in DOMAIN redis : k # s.key => w[k] = redis[k]
      BY <1>3, <2>4, <2>9 DEF Written
    <2>11. /\ DOMAIN w \subseteq Keys
           /\ \A k \in DOMAIN w : Together(w[k]) /\ OwnNames(w[k], characters)
      BY <1>1, <1>3, <2>2, <2>3, <2>10 DEF NamesOf, Together, OwnNames
    <2>12. ASSUME NEW x \in DOMAIN sessionMap
           PROVE  /\ OwnsCharacter(sessionMap'[x], characters)
                  /\ OfAccount(sessionMap'[x], w) /\ OfAccount(sessionMap'[x], redis)
      <3>1. CASE x = e
        BY <2>3, <2>6, <2>8, <2>10, <3>1 DEF OwnsCharacter, OfAccount
      <3>2. CASE x # e
        BY <1>1, <2>6, <2>7, <2>10, <3>2 DEF NamesOf, OfAccount
      <3>3. QED
        BY <3>1, <3>2
    <2>13. NamesOf(sessionMap', w, characters) /\ NamesOf(sessionMap', redis, characters)
      BY <1>1, <2>6, <2>11, <2>12 DEF NamesOf
    <2>14. QED
      BY <2>5, <2>13
  <1>9. ASSUME NothingNew(sessionMap', redis', sessionMap, redis)
        PROVE  NamesOf(sessionMap', redis', characters')
    BY <1>1, <1>9, NothingNewNames
  <1>10. QED
    BY <1>2, <1>5, <1>6, <1>7, <1>8, <1>9, NothingNewSteps DEF Next, HandlePacket

LEMMA NamesInit == Init => NamesInv
  BY DEF Init, NamesInv, HashNamesOwnCharacter, FieldsTogether, SessionOwnsCharacter,
         HashOfAccount, OnlyKeys

\* A hash names only characters of its account, whichever Redis commands fail and
\* however late the client: a game server never loads another's character.
THEOREM HashNamesOnlyOwn ==
    ASSUME Faults \cap {"unconnected", "relogin"} = {}
    PROVE  Spec => []HashNamesOwnCharacter
  <1>1. Init => Base /\ NamesInv
    BY BaseInit, NamesInit
  <1>2. (Base /\ NamesInv) /\ [Next]_vars => (Base /\ NamesInv)'
    BY BaseStep, NamesStep
  <1>3. NamesInv => HashNamesOwnCharacter
    BY DEF NamesInv
  <1>4. QED
    BY <1>1, <1>2, <1>3, PTL DEF Spec
=============================================================================
