----------------------------- MODULE AuthServer -----------------------------
(***************************************************************************)
(* One auth server process (auth/src/main.cpp on BaseServer.cpp), the      *)
(* session_<key> hashes it keeps in Redis for the game servers, and the    *)
(* rows of the characters table.  What has to fit together is three        *)
(* clocks: a session is evicted after HEARTBEAT_TIMEOUT_SEC of silence,    *)
(* its hash expires on its own, and only a login or a heartbeat puts the   *)
(* expiry off.                                                             *)
(*                                                                         *)
(* Time is counted in whole seconds (Tick) by Redis's clock.  A heartbeat  *)
(* sends the EXPIRE before it sets lastHeartbeat, and a session is evicted *)
(* only HEARTBEAT_TIMEOUT_SEC + 1 full seconds after the latter, so the    *)
(* hash goes first and the session falls silent some time later.           *)
(* Packets are handled one at a time; the heartbeat check collects the     *)
(* endpoints that timed out and then disconnects them one by one, with     *)
(* packets in between.                                                     *)
(* The hset of "fd" in the heartbeat handler is left out: it is for a      *)
(* clientSock that changed, and an endpoint keeps its clientSock.          *)
(***************************************************************************)
EXTENDS Integers, Functions

CONSTANTS
    Endpoints,        \* client ip:port pairs, the keys of sessionMap
    Accounts,         \* ids of the accounts table
    Chars,            \* ids the characters table can give out; bounds creations
    Keys,             \* session keys, by name; bounds how many are alive at once
    NoPlayer,         \* playerId -1
    NoChar,           \* charId -1
    NoKey,            \* the empty session key of a session that never connected
    None,             \* an absent field of a hash
    HeartbeatTimeout, \* HEARTBEAT_TIMEOUT_SEC
    Faults            \* what the environment may do beyond the ordinary

FaultKinds ==
    { "unconnected", \* a login is handled whose C_ConnectRequest was lost
      "relogin",     \* a logged-in endpoint logs in to another account
      "late_fd",     \* a hash expires between a game server's HGETALL and HSET
      "redis" }      \* a Redis command fails

ASSUME AuthServerAssumption ==
    /\ HeartbeatTimeout \in Nat \ {0}
    /\ NoPlayer \notin Accounts
    /\ NoChar \notin Chars
    /\ NoKey \notin Keys
    /\ None \notin Accounts \cup Chars \cup {NoChar}
    /\ Faults \subseteq FaultKinds

VARIABLES
    sessionMap,  \* endpoint -> SessionInfo, for the endpoints that have one
    redis,       \* session key -> hash, for the keys that exist
    characters,  \* id -> row, for the ids given out so far; they are not reused
    toDisconnect, \* endpoints collected by the heartbeat check under way
    late         \* history: the keys of sessions that sent a heartbeat or selected a
                 \*   character too late, more than HEARTBEAT_TIMEOUT_SEC after
                 \*   their last heartbeat

vars == <<sessionMap, redis, characters, toDisconnect, late>>

\* What was EXPIREd by a session's last heartbeat is gone, and the session is not
\* yet silent, lastHeartbeat being later than the EXPIRE.
Due == HeartbeatTimeout + 1

\* More than HEARTBEAT_TIMEOUT_SEC have passed since lastHeartbeat.
Silent == HeartbeatTimeout + 2

\* addr: clientAddr is set; age: seconds since the EXPIRE of the last heartbeat,
\* up to Due.
Session ==
    [playerId : Accounts \cup {NoPlayer}, charId : Chars \cup {NoChar},
     key : Keys \cup {NoKey}, addr : BOOLEAN, age : 0 .. Silent]

\* TTL of a hash that has none, as Redis reports it.
NoTTL == -1

\* The fields of a session hash; charName stands for the character it is of.
Hash ==
    [playerId : Accounts \cup {None}, charId : Chars \cup {NoChar, None},
     charName : Chars \cup {None}, ttl : {NoTTL} \cup 1 .. HeartbeatTimeout + 2]

\* sessionMap[endpoint] creates this: lastHeartbeat is the epoch, clientAddr zero.
DefaultSession ==
    [playerId |-> NoPlayer, charId |-> NoChar, key |-> NoKey, addr |-> FALSE,
     age |-> Silent]

SessionAt(e) == IF e \in DOMAIN sessionMap THEN sessionMap[e] ELSE DefaultSession

Update(f, x, v) == [y \in DOMAIN f \cup {x} |-> IF y = x THEN v ELSE f[y]]

-----------------------------------------------------------------------------
(* Redis                                                                   *)

NoFields == [playerId |-> None, charId |-> None, charName |-> None, ttl |-> NoTTL]

\* HSET: fields that are None are not written; a new hash has no TTL.
HSet(r, k, f) ==
    LET h == IF k \in DOMAIN r THEN r[k] ELSE NoFields
    IN  Update(r, k,
            [playerId |-> IF f.playerId = None THEN h.playerId ELSE f.playerId,
             charId   |-> IF f.charId = None THEN h.charId ELSE f.charId,
             charName |-> IF f.charName = None THEN h.charName ELSE f.charName,
             ttl      |-> h.ttl])

\* EXPIRE: does nothing to a key that does not exist.
Expire(r, k, seconds) ==
    IF k \in DOMAIN r THEN [r EXCEPT ![k].ttl = seconds] ELSE r

\* Whether a command takes effect; no result of hset or expire is looked at.
Command == IF "redis" \in Faults THEN BOOLEAN ELSE {TRUE}

\* Mutant: the hash is given no TTL by a login.
LoginExpireForgotten(r, k) == r
LoginExpire(r, k) == Expire(r, k, HeartbeatTimeout + 2)

\* Mutant: the hash lives exactly as long as the session.
HeartbeatExpireShort(r, k) == Expire(r, k, HeartbeatTimeout)
HeartbeatExpire(r, k) == Expire(r, k, HeartbeatTimeout + 1)

-----------------------------------------------------------------------------
Init ==
    /\ late = {}
    /\ sessionMap = [e \in {} |-> DefaultSession]
    /\ redis = [k \in {} |-> NoFields]
    /\ characters \in UNION {[S -> [owner : Accounts, alive : {TRUE}]] : S \in SUBSET Chars}
    /\ toDisconnect = {}

\* A packet of the session at e is handled, in time or not.
Handle(e) ==
    late' = IF sessionMap[e].age > HeartbeatTimeout THEN late \cup {sessionMap[e].key}
            ELSE late

\* A packet that is dropped, refused or not understood still leaves a session.
DropPacket(e) ==
    /\ sessionMap' = Update(sessionMap, e, SessionAt(e))
    /\ UNCHANGED <<redis, characters, toDisconnect, late>>

\* The session of a new connection.
ConnectedSession(k) ==
    [playerId |-> NoPlayer, charId |-> NoChar, key |-> k, addr |-> TRUE, age |-> 0]

\* C_ConnectRequest: whatever session the endpoint had is replaced.  The key is
\* 64 random bits, taken to differ from every key in use.
Connect(e, k) ==
    /\ k \notin DOMAIN redis
    /\ \A x \in DOMAIN sessionMap : sessionMap[x].key # k
    /\ sessionMap' = Update(sessionMap, e, ConnectedSession(k))
    /\ late' = late \ {k}
    /\ UNCHANGED <<redis, characters, toDisconnect>>

\* The fields a login writes: the session's character stays whatever it was.
\* Mutant: the hash starts without a character, the session keeps the one it had.
LoginFieldsAfresh(a, s) ==
    [playerId |-> a, charId |-> NoChar, charName |-> None]
LoginFields(a, s) ==
    [playerId |-> a, charId |-> s.charId, charName |-> None]

\* Mutant: playerId and charId change places.
LoggedInSwapped(s, a) == [s EXCEPT !.charId = a]
LoggedIn(s, a) == [s EXCEPT !.playerId = a]

\* C_LoginRequest with the right password.  The session's age is left as it is.
Login(e, a, stored, expiry) ==
    LET s == SessionAt(e)
        r == IF stored THEN HSet(redis, s.key, LoginFields(a, s)) ELSE redis
    IN  /\ "unconnected" \in Faults \/ s.key # NoKey
        /\ "relogin" \in Faults \/ s.playerId \in {NoPlayer, a}
        /\ sessionMap' = Update(sessionMap, e, LoggedIn(s, a))
        /\ redis' = IF expiry THEN LoginExpire(r, s.key) ELSE r
        /\ UNCHANGED <<characters, toDisconnect, late>>

LoggedInAt(e) == e \in DOMAIN sessionMap /\ sessionMap[e].playerId # NoPlayer

\* SELECT ... WHERE id = c AND account_id = a finds a row.
\* Mutant: whose character it is is not asked.
RowExists(c, a) == c \in DOMAIN characters /\ characters[c].alive
RowOfAccount(c, a) ==
    c \in DOMAIN characters /\ characters[c].alive /\ characters[c].owner = a

\* C_CharCreate that passes the name checks.  The id is one never used before.
CharCreate(e, c) ==
    /\ LoggedInAt(e)
    /\ c \notin DOMAIN characters
    /\ characters' = Update(characters, c, [owner |-> sessionMap[e].playerId, alive |-> TRUE])
    /\ UNCHANGED <<sessionMap, redis, toDisconnect, late>>

\* C_CharDelete: the row goes; sessions and hashes that name it stay.
CharDelete(e, c) ==
    /\ LoggedInAt(e)
    /\ RowOfAccount(c, sessionMap[e].playerId)
    /\ characters' = [characters EXCEPT ![c].alive = FALSE]
    /\ UNCHANGED <<sessionMap, redis, toDisconnect, late>>

SelectFields(a, c) == [playerId |-> a, charId |-> c, charName |-> c]

\* C_CharSelect of an account's own character, when some game server is
\* registered with room.  No expire: the hash keeps the TTL it has, if any.
CharSelect(e, c, stored) ==
    LET s == sessionMap[e]
    IN  /\ LoggedInAt(e)
        /\ RowOfAccount(c, s.playerId)
        /\ Handle(e)
        /\ sessionMap' = [sessionMap EXCEPT ![e].charId = c]
        /\ redis' = IF stored THEN HSet(redis, s.key, SelectFields(s.playerId, c)) ELSE redis
        /\ UNCHANGED <<characters, toDisconnect>>

\* C_Heartbeat: ignored unless the session has a key.  The EXPIRE is sent first;
\* how long after it lastHeartbeat is set, FallSilent tells.
Heartbeat(e, expiry) ==
    /\ e \in DOMAIN sessionMap
    /\ sessionMap[e].key # NoKey
    /\ Handle(e)
    /\ sessionMap' = [sessionMap EXCEPT ![e].age = 0]
    /\ redis' = IF expiry THEN HeartbeatExpire(redis, sessionMap[e].key) ELSE redis
    /\ UNCHANGED <<characters, toDisconnect>>

-----------------------------------------------------------------------------
(* Game servers, which are handed the key                                  *)

\* The same heartbeat handler, in the process of a game server.
GameHeartbeat(k) ==
    /\ k \in DOMAIN redis
    /\ redis' = HeartbeatExpire(redis, k)
    /\ UNCHANGED <<sessionMap, characters, toDisconnect, late>>

\* A game server found the hash, and it expires before the game server writes
\* its "fd" back: what is left is a hash of that field alone.
FdAfterExpiry(k) ==
    /\ "late_fd" \in Faults
    /\ k \in DOMAIN redis
    /\ redis[k].ttl = 1
    /\ redis' = [redis EXCEPT ![k] = NoFields]
    /\ UNCHANGED <<sessionMap, characters, toDisconnect, late>>

-----------------------------------------------------------------------------
(* Time and the heartbeat check                                            *)

\* A second passes: hashes whose time is up vanish.
Tick ==
    /\ sessionMap' =
          [e \in DOMAIN sessionMap |->
              [sessionMap[e] EXCEPT !.age = IF @ >= Due THEN @ ELSE @ + 1]]
    /\ redis' =
          [k \in {x \in DOMAIN redis : redis[x].ttl # 1} |->
              [redis[k] EXCEPT !.ttl = IF @ = NoTTL THEN @ ELSE @ - 1]]
    /\ UNCHANGED <<characters, toDisconnect, late>>

\* HEARTBEAT_TIMEOUT_SEC + 1 seconds have passed since lastHeartbeat too.
FallSilent(e) ==
    /\ e \in DOMAIN sessionMap
    /\ sessionMap[e].age = Due
    /\ sessionMap' = [sessionMap EXCEPT ![e].age = Silent]
    /\ UNCHANGED <<redis, characters, toDisconnect, late>>

\* checkHeartbeatTimeouts, first loop.
CollectTimeouts ==
    LET silent == {e \in DOMAIN sessionMap : sessionMap[e].age = Silent}
    IN  /\ toDisconnect = {}
        /\ silent # {}
        /\ toDisconnect' = silent
        /\ UNCHANGED <<sessionMap, redis, characters, late>>

\* Second loop: the session found under the stored clientAddr is erased, which
\* is none when that is zero.  Nothing in Redis is deleted.
Disconnect(e) ==
    /\ e \in toDisconnect
    /\ toDisconnect' = toDisconnect \ {e}
    /\ sessionMap' = IF SessionAt(e).addr
                     THEN Restrict(sessionMap, DOMAIN sessionMap \ {e})
                     ELSE sessionMap
    /\ UNCHANGED <<redis, characters, late>>

-----------------------------------------------------------------------------
HandlePacket(e) ==
    \/ DropPacket(e)
    \/ \E k \in Keys : Connect(e, k)
    \/ \E a \in Accounts, stored \in Command, expiry \in Command :
          Login(e, a, stored, expiry)
    \/ \E c \in Chars :
          \/ CharCreate(e, c)
          \/ CharDelete(e, c)
          \/ \E stored \in Command : CharSelect(e, c, stored)
    \/ \E expiry \in Command : Heartbeat(e, expiry)

Next ==
    \/ \E e \in Endpoints : HandlePacket(e) \/ FallSilent(e) \/ Disconnect(e)
    \/ \E k \in Keys \cup {NoKey} : GameHeartbeat(k) \/ FdAfterExpiry(k)
    \/ CollectTimeouts
    \/ Tick

Spec == Init /\ [][Next]_vars

-----------------------------------------------------------------------------
(* Properties                                                              *)

\* Every variable has the type the code gives it.
TypeOK ==
    /\ DOMAIN sessionMap \subseteq Endpoints
    /\ sessionMap \in [DOMAIN sessionMap -> Session]
    /\ DOMAIN redis \subseteq Keys \cup {NoKey}
    /\ redis \in [DOMAIN redis -> Hash]
    /\ DOMAIN characters \subseteq Chars
    /\ characters \in [DOMAIN characters -> [owner : Accounts, alive : BOOLEAN]]
    /\ toDisconnect \subseteq Endpoints
    /\ late \subseteq Keys \cup {NoKey}

\* What a game server reads under a session's key is what the auth server holds
\* of the session: the account and the character never part company, whatever
\* order logins and selections come in and however often the hash expired.
HashMatchesSession ==
    \A e \in DOMAIN sessionMap :
        LET s == sessionMap[e]
        IN  s.key \in DOMAIN redis /\ redis[s.key].playerId # None
                => /\ redis[s.key].playerId = s.playerId
                   /\ redis[s.key].charId = s.charId
                   /\ redis[s.key].charName \in {None, s.charId}

\* A hash names only characters of the account it is for: a game server, which
\* does not ask again, never loads another account's character.
HashNamesOwnCharacter ==
    \A k \in DOMAIN redis :
        LET h == redis[k]
        IN  \A c \in {h.charId, h.charName} \cap Chars :
                c \in DOMAIN characters /\ characters[c].owner = h.playerId

\* A client that never lets more than HEARTBEAT_TIMEOUT_SEC pass between heartbeats
\* finds the key its login was answered with good, whatever else its session and the
\* game servers do with the hash: by whichever of the two expiries was set last, it
\* lasts from one heartbeat to the next.  (It does not last until the session is
\* evicted: between the two, a heartbeat keeps a session whose key is dead.)
LiveKeyFound ==
    \A e \in DOMAIN sessionMap :
        LET s == sessionMap[e]
        IN  s.playerId # NoPlayer /\ s.age <= HeartbeatTimeout /\ s.key \notin late
                => s.key \in DOMAIN redis /\ redis[s.key].playerId = s.playerId

\* Nothing ever deletes a hash, so one without a TTL stays for good.  Only a client
\* that was late leaves one, by a selection after the hash was gone; after logins,
\* selections and heartbeats in time, in any order, on any number of servers, the
\* hash goes away by itself.
HashesExpire == \A k \in DOMAIN redis \ late : redis[k].ttl # NoTTL
=============================================================================
