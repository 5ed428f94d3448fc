----------------------------- MODULE GameWorld -----------------------------
(***************************************************************************)
(* One game server process: the session map kept by the packet handler     *)
(* (GameServer.cpp) and the heartbeat check (BaseServer.cpp), the Player   *)
(* objects on its heap, the zone maps (ZoneManager.cpp), what each client  *)
(* has been told is around it, and the positions in the characters table.  *)
(*                                                                         *)
(* Packets are handled one at a time by the socket thread; the heartbeat   *)
(* check runs on the server thread, first collecting the endpoints that    *)
(* timed out and then disconnecting them one by one, so handlers run       *)
(* between its steps.  Both threads' steps are taken as atomic.            *)
(*                                                                         *)
(* Only players are placed in zones: no code creates a mob, NPC or item.   *)
(***************************************************************************)
EXTENDS Zones

CONSTANTS
    Endpoints, \* client ip:port pairs, the keys of sessionMap
    Chars,     \* ids of the characters table
    Objs,      \* heap cells for Player objects: bounds how many live at once
    Positions, \* the positions a client may ask for or the table may hold
    Landmarks, \* positions that the zone ids of Players are compared with
    NoChar,    \* charId -1
    None,      \* a null pointer, an absent field
    Dangling,  \* a SessionInfo* whose session has been erased
    Faults     \* what the environment may do beyond the ordinary

FaultKinds ==
    { "reconnect",    \* a character connects again, from any endpoint, while its
                      \*   Player is still in this process
      "partial_hash", \* the Redis hash lacks fields: it expired, or no
                      \*   character was selected
      "db",           \* a MySQL statement fails
      "late_packet",  \* packets are handled after the shutdown save
      "freed_addr",   \* the memory of an erased session is used again at once
      "crash" }       \* the process dies

ASSUME GameWorldAssumption ==
    /\ Positions \subseteq Point /\ Landmarks \subseteq Point
    /\ Origin \in Positions
    /\ NoChar \notin Chars
    /\ None \notin Objs \cup Endpoints \cup Chars \cup {NoChar}
    /\ Dangling \notin Endpoints
    /\ Faults \subseteq FaultKinds

Ids == Chars \cup {NoChar}

VARIABLES
    phase,        \* "running", "stopping" once a signal saved the players, then down
    sessionMap,   \* endpoint -> SessionInfo, for the endpoints that have one
    players,      \* heap cell -> Player, for the cells in use
    zoneEntities, \* zoneId -> (id -> heap cell)
    zonePlayers,  \* zoneId -> (id -> heap cell)
    db,           \* characters.x, y of each character
    told,         \* endpoint -> ids it was sent a spawn for and no despawn since
    toDisconnect  \* endpoints collected by the heartbeat check under way

vars == <<phase, sessionMap, players, zoneEntities, zonePlayers, db, told, toDisconnect>>

\* login: playerId is set; keyed: sessionKey is not empty; addr: clientAddr is
\* set; fresh: at most HEARTBEAT_TIMEOUT_SEC since lastHeartbeat.
Session ==
    [login : BOOLEAN, charId : Ids, keyed : BOOLEAN, addr : BOOLEAN,
     fresh : BOOLEAN, playerEntity : Objs \cup {None}]

Player ==
    [id : Ids, pos : Positions, zoneId : Int, session : Endpoints \cup {Dangling}]

\* What HGETALL session_<key> can return.  HSET writes its fields at once, so
\* either the fields of a login or a character selection are all there, or the
\* hash expired and only an "fd" write has brought it back.
Hash ==
    {h \in [playerId : BOOLEAN, charId : Ids \cup {None},
            sessionKey : BOOLEAN, charName : BOOLEAN] :
        /\ h.sessionKey <=> h.playerId
        /\ h.playerId => h.charId # None
        /\ ~h.playerId => h.charId = None /\ ~h.charName}

CompleteHash(h) == h.playerId /\ h.charName /\ h.charId \in Chars

\* sessionMap[endpoint] creates this: lastHeartbeat is the epoch, clientAddr zero.
DefaultSession ==
    [login |-> FALSE, charId |-> NoChar, keyed |-> FALSE, addr |-> FALSE,
     fresh |-> FALSE, playerEntity |-> None]

SessionAt(e) == IF e \in DOMAIN sessionMap THEN sessionMap[e] ELSE DefaultSession

-----------------------------------------------------------------------------
(* Heap: a Player lives while a session or a zone holds a shared_ptr to it *)

Held(sm, ze, zp) ==
    {sm[e].playerEntity : e \in DOMAIN sm}
        \cup (UNION {Range(ze[z]) : z \in DOMAIN ze})
        \cup (UNION {Range(zp[z]) : z \in DOMAIN zp})

Collect(pl, sm, ze, zp) == Restrict(pl, DOMAIN pl \cap Held(sm, ze, zp))

\* Erasing the sessions of es leaves the raw pointers into them behind.
Orphan(pl, es) ==
    [o \in DOMAIN pl |->
        IF pl[o].session \in es THEN [pl[o] EXCEPT !.session = Dangling] ELSE pl[o]]

-----------------------------------------------------------------------------
(* Zones and what clients are told                                         *)

\* The endpoint a packet for o's session goes to.  Through a dangling pointer
\* clientSock is read from freed memory: the packet goes to g, which is any
\* endpoint or nowhere.
Sock(pl, o, g) == IF pl[o].session = Dangling THEN g ELSE pl[o].session

Garbage == IF \E o \in DOMAIN players : players[o].session = Dangling
           THEN Endpoints \cup {None} ELSE {None}

\* The endpoints of the players in the zones near p.
SocksNear(pl, ze, zp, p, g) ==
    {Sock(pl, o, g) : o \in UNION {Range(Bucket(zp, z)) : z \in GetNearbyZones(ze, p)}}

\* The two type-specific halves of RemoveEntityFromZone's erasures.
DropEntity(ze, z, id) == EraseFromZone(ze, z, id)
\* Mutant: zonePlayers is left as it was.
DropPlayerForgotten(zp, z, id) == zp
DropPlayer(zp, z, id) == EraseFromZone(zp, z, id)

\* AddEntityToZone's packets, once o is in the maps: everybody near o learns
\* of it, and o learns of the others in its own zone.
\* Mutant: the newcomer is not told who is already there.
ToldOfSpawnOneWay(t, pl, ze, zp, z, o, g) ==
    [e \in Endpoints |->
        t[e] \cup (IF e \in SocksNear(pl, ze, zp, pl[o].pos, g) THEN {pl[o].id} ELSE {})]
ToldOfSpawn(t, pl, ze, zp, z, o, g) ==
    LET near == SocksNear(pl, ze, zp, pl[o].pos, g)
    IN  [e \in Endpoints |->
            t[e] \cup (IF e \in near THEN {pl[o].id} ELSE {})
                 \cup (IF e = Sock(pl, o, g) THEN DOMAIN Bucket(ze, z) \ {pl[o].id} ELSE {})]

\* RemoveEntityFromZone's packets: everybody left near the removed entity is
\* told to despawn it.  Its position is read from the entity, or is the origin
\* when the zone does not hold it.  The batch meant for the removed player
\* itself goes nowhere: its clientSock, a pointer, is kept in an int, so that
\* the address passed to send is not an endpoint's (send drops it when it is
\* below 4096, and reading it may crash the process), and it equals no
\* clientSock when recipients are compared with it.
ToldOfRemoval(t, pl, ze, zp, z, id, g) ==
    LET at   == IF id \in DOMAIN Bucket(ze, z) THEN pl[ze[z][id]].pos ELSE Origin
        left == SocksNear(pl, DropEntity(ze, z, id), DropPlayer(zp, z, id), at, g)
    IN  [e \in Endpoints |-> t[e] \ (IF e \in left THEN {id} ELSE {})]

-----------------------------------------------------------------------------
(* Starting, stopping and dying                                            *)

EmptyMemory ==
    /\ sessionMap' = EmptyMap
    /\ players' = EmptyMap
    /\ zoneEntities' = EmptyMap
    /\ zonePlayers' = EmptyMap
    /\ told' = [e \in Endpoints |-> {}]
    /\ toDisconnect' = {}

Init ==
    /\ phase = "running"
    /\ sessionMap = EmptyMap
    /\ players = EmptyMap
    /\ zoneEntities = EmptyMap
    /\ zonePlayers = EmptyMap
    /\ db \in [Chars -> Positions]
    /\ told = [e \in Endpoints |-> {}]
    /\ toDisconnect = {}

\* UPDATE characters SET x, y, z WHERE id = ...; a failure is only logged, and
\* no row has id -1.
\* Mutant: nothing is written.
SaveToDBSkipped(d, p, ok) == d
SaveToDB(d, p, ok) ==
    IF ok /\ p.id \in Chars THEN [d EXCEPT ![p.id] = p.pos] ELSE d

Statement == IF "db" \in Faults THEN BOOLEAN ELSE {TRUE}

\* The signal handler saves the player of every session, then stops the main
\* loop.  When two sessions hold the same character the map's iteration order
\* decides which position stays.
SignalSave ==
    LET owned    == {sessionMap[e].playerEntity : e \in DOMAIN sessionMap} \ {None}
        spots(c) == {players[o].pos : o \in {x \in owned : players[x].id = c}}
        kept(c)  == IF spots(c) = {} \/ "db" \in Faults THEN {db[c]} ELSE {}
    IN  /\ phase = "running"
        /\ phase' = "stopping"
        /\ db' \in {d \in [Chars -> Positions] : \A c \in Chars : d[c] \in spots(c) \cup kept(c)}
        /\ UNCHANGED <<sessionMap, players, zoneEntities, zonePlayers, told, toDisconnect>>

\* The main loop ends after the tick under way and the process exits; nothing
\* in memory is destroyed in order (std::_Exit).
Exit ==
    /\ phase = "stopping"
    /\ toDisconnect = {}
    /\ phase' = "exited"
    /\ EmptyMemory
    /\ UNCHANGED db

Crash ==
    /\ "crash" \in Faults
    /\ phase \in {"running", "stopping"}
    /\ phase' = "crashed"
    /\ EmptyMemory
    /\ UNCHANGED db

Restart ==
    /\ phase \in {"exited", "crashed"}
    /\ phase' = "running"
    /\ UNCHANGED <<sessionMap, players, zoneEntities, zonePlayers, db, told, toDisconnect>>

-----------------------------------------------------------------------------
(* Packets                                                                 *)

Receiving == phase = "running" \/ (phase = "stopping" /\ "late_packet" \in Faults)

\* A packet of a client that is not logged in: operator[] has created a
\* session for it by the time it is dropped.
DropPacket(e) ==
    /\ Receiving
    /\ ~SessionAt(e).login
    /\ sessionMap' = Extend(sessionMap, e, SessionAt(e))
    /\ UNCHANGED <<phase, players, zoneEntities, zonePlayers, db, told, toDisconnect>>

\* C_ConnectRequest whose key has no hash in Redis, or Redis failed: the
\* session is erased, but a player it owned stays in its zone.
ConnectRefused(e) ==
    /\ Receiving
    /\ "reconnect" \in Faults \/ SessionAt(e).playerEntity = None
    /\ LET sm == Without(sessionMap, e)
       IN  /\ sessionMap' = sm
           /\ players' = Collect(Orphan(players, {e}), sm, zoneEntities, zonePlayers)
    /\ UNCHANGED <<phase, zoneEntities, zonePlayers, db, told, toDisconnect>>

\* The session after a successful connect, from the hash h and a request whose
\* key is empty or not.  The "else" of the charName test sets sessionKey.
\* Mutant: clientAddr is not stored.
ConnectedSessionNoAddr(old, h, nonempty, o) ==
    [login |-> old.login \/ h.playerId,
     charId |-> IF h.charId = None THEN old.charId ELSE h.charId,
     keyed |-> IF h.sessionKey \/ ~h.charName THEN nonempty ELSE old.keyed,
     addr |-> old.addr, fresh |-> TRUE, playerEntity |-> o]
ConnectedSession(old, h, nonempty, o) ==
    [login |-> old.login \/ h.playerId,
     charId |-> IF h.charId = None THEN old.charId ELSE h.charId,
     keyed |-> IF h.sessionKey \/ ~h.charName THEN nonempty ELSE old.keyed,
     addr |-> TRUE, fresh |-> TRUE, playerEntity |-> o]

\* InitFromDB: the stored position, or the origin when the row cannot be read.
InitFromDB(id, ok, e) ==
    LET at == IF ok /\ id \in Chars THEN db[id] ELSE Origin
    IN  [id |-> id, pos |-> at, zoneId |-> CalculateZoneId(at), session |-> e]

\* C_ConnectRequest that finds a hash: a new Player is placed in the zone of
\* its stored position and becomes the session's.  A player the session had
\* before, or another Player of the character, stays where it is.
ConnectAccepted(e, h, nonempty, o, ok, g) ==
    LET s  == ConnectedSession(SessionAt(e), h, nonempty, o)
        p  == InitFromDB(s.charId, ok, e)
        sm == Extend(sessionMap, e, s)
        pl == Extend(players, o, p)
        ze == PutInZone(zoneEntities, p.zoneId, p.id, o)
        zp == PutInZone(zonePlayers, p.zoneId, p.id, o)
    IN  /\ Receiving
        /\ \/ "reconnect" \in Faults
           \/ \A x \in DOMAIN players : players[x].id # s.charId /\ players[x].session # e
        /\ "partial_hash" \in Faults \/ (CompleteHash(h) /\ nonempty)
        /\ sessionMap' = sm
        /\ zoneEntities' = ze
        /\ zonePlayers' = zp
        /\ players' = Collect(pl, sm, ze, zp)
        /\ told' = ToldOfSpawn(told, pl, ze, zp, p.zoneId, o, g)
        /\ UNCHANGED <<phase, db, toDisconnect>>

\* The entity after MoveTo.
\* Mutant: zoneId keeps the zone it came from.
MovedPlayerSameZone(p, to) == [p EXCEPT !.pos = to]
MovedPlayer(p, to) == [p EXCEPT !.pos = to, !.zoneId = CalculateZoneId(to)]

\* AddEntityToZone's update of a map when an entity changes zones.
\* Mutant: the entity left its zone and never enters the next.
EnterZoneLost(m, z, id, o) == m
EnterZone(m, z, id, o) == PutInZone(m, z, id, o)

\* C_Move of a session with a player.  MoveTo changes the position before it
\* takes the entity out of its old zone, so the despawns go to the players
\* near the new position.
Move(e, to, g) ==
    LET o    == sessionMap[e].playerEntity
        from == players[o]
        p    == MovedPlayer(from, to)
        pl   == [players EXCEPT ![o] = p]
        ze   == EnterZone(DropEntity(zoneEntities, from.zoneId, p.id), p.zoneId, p.id, o)
        zp   == EnterZone(DropPlayer(zonePlayers, from.zoneId, p.id), p.zoneId, p.id, o)
        gone == ToldOfRemoval(told, pl, zoneEntities, zonePlayers, from.zoneId, p.id, g)
    IN  /\ Receiving
        /\ e \in DOMAIN sessionMap
        /\ sessionMap[e].login
        /\ o # None
        /\ \/ /\ CalculateZoneId(to) # from.zoneId
              /\ zoneEntities' = ze
              /\ zonePlayers' = zp
              /\ players' = Collect(pl, sessionMap, ze, zp)
              /\ told' = ToldOfSpawn(gone, pl, ze, zp, p.zoneId, o, g)
           \/ /\ CalculateZoneId(to) = from.zoneId
              /\ players' = pl
              /\ UNCHANGED <<zoneEntities, zonePlayers, told>>
        /\ UNCHANGED <<phase, sessionMap, db, toDisconnect>>

\* C_Heartbeat: ignored unless the session has a key.
Heartbeat(e) ==
    /\ Receiving
    /\ e \in DOMAIN sessionMap
    /\ sessionMap[e].keyed
    /\ sessionMap' = [sessionMap EXCEPT ![e].fresh = TRUE]
    /\ UNCHANGED <<phase, players, zoneEntities, zonePlayers, db, told, toDisconnect>>

-----------------------------------------------------------------------------
(* Time and the heartbeat check                                            *)

\* More than HEARTBEAT_TIMEOUT_SEC pass without a heartbeat from e.
FallSilent(e) ==
    /\ e \in DOMAIN sessionMap
    /\ sessionMap[e].fresh
    /\ sessionMap' = [sessionMap EXCEPT ![e].fresh = FALSE]
    /\ UNCHANGED <<phase, players, zoneEntities, zonePlayers, db, told, toDisconnect>>

Stale(e) == e \in DOMAIN sessionMap /\ ~sessionMap[e].fresh

\* checkHeartbeatTimeouts, first loop.  The signal handler saves first and ends the
\* main loop afterwards, so that ticks still start while it saves.
CollectTimeouts ==
    /\ phase \in {"running", "stopping"}
    /\ toDisconnect = {}
    /\ {e \in Endpoints : Stale(e)} # {}
    /\ toDisconnect' = {e \in Endpoints : Stale(e)}
    /\ UNCHANGED <<phase, sessionMap, players, zoneEntities, zonePlayers, db, told>>

\* Second loop, an endpoint whose session is gone, or whose clientAddr is zero:
\* onClientDisconnected looks for the key "0.0.0.0:0" and finds nothing.
SkipTimeout(e) ==
    /\ e \in toDisconnect
    /\ e \in DOMAIN sessionMap => ~sessionMap[e].addr
    /\ toDisconnect' = toDisconnect \ {e}
    /\ UNCHANGED <<phase, sessionMap, players, zoneEntities, zonePlayers, db, told>>

\* The base class erases by clientAddr a second time, which was part of the session
\* erased before.  The freed node still holds that address, with nothing left to
\* erase, unless something else was stored there.
FreedAddr == IF "freed_addr" \in Faults THEN Endpoints \cup {None} ELSE {None}

\* Second loop, onClientDisconnected of a session with a player: save it, take
\* its id out of its zone, erase the session, and then the one of x.  Whether the
\* session is still silent is not looked at again.  (A session with an address has
\* a player: SessionOwnsPlayer.)
DisconnectPlayer(e, x, ok, g) ==
    LET o  == sessionMap[e].playerEntity
        p  == players[o]
        sm == Restrict(sessionMap, DOMAIN sessionMap \ {e, x})
        ze == DropEntity(zoneEntities, p.zoneId, p.id)
        zp == DropPlayer(zonePlayers, p.zoneId, p.id)
    IN  /\ e \in toDisconnect \cap DOMAIN sessionMap
        /\ sessionMap[e].addr
        /\ o # None
        /\ toDisconnect' = toDisconnect \ {e}
        /\ db' = SaveToDB(db, p, ok)
        /\ zoneEntities' = ze
        /\ zonePlayers' = zp
        /\ told' = ToldOfRemoval(told, players, zoneEntities, zonePlayers, p.zoneId, p.id, g)
        /\ sessionMap' = sm
        /\ players' = Collect(Orphan(players, {e, x}), sm, ze, zp)
        /\ UNCHANGED phase

-----------------------------------------------------------------------------
HeartbeatCheck ==
    \/ CollectTimeouts
    \/ \E e \in Endpoints :
        \/ SkipTimeout(e)
        \/ \E x \in FreedAddr, ok \in Statement, g \in Garbage : DisconnectPlayer(e, x, ok, g)

HandlePacket(e) ==
    \/ DropPacket(e)
    \/ ConnectRefused(e)
    \/ \E h \in Hash, nonempty \in BOOLEAN, o \in Objs \ DOMAIN players,
          ok \in Statement, g \in Garbage : ConnectAccepted(e, h, nonempty, o, ok, g)
    \/ \E to \in Positions, g \in Garbage : Move(e, to, g)
    \/ Heartbeat(e)

Next ==
    \/ \E e \in Endpoints : HandlePacket(e) \/ FallSilent(e)
    \/ HeartbeatCheck
    \/ SignalSave
    \/ Exit
    \/ Crash
    \/ Restart

Spec == Init /\ [][Next]_vars

\* The server thread keeps ticking, and ends once it is told to.
LiveSpec == Spec /\ WF_vars(HeartbeatCheck) /\ WF_vars(Exit)

-----------------------------------------------------------------------------
(* The world as AbstractWorld has it: no sessions, zones or heap cells     *)

\* The positions of the characters that have a Player.
WorldOf(pl) ==
    [c \in {pl[o].id : o \in DOMAIN pl} \cap Chars |->
        pl[CHOOSE o \in DOMAIN pl : pl[o].id = c].pos]

Abstract ==
    INSTANCE AbstractWorld WITH
        phase <- phase,
        world <- WorldOf(players),
        saved <- db
-----------------------------------------------------------------------------
(* Properties                                                              *)

ZoneMapOK(m) ==
    \A z \in DOMAIN m :
        /\ z \in Int
        /\ DOMAIN m[z] \subseteq Ids
        /\ m[z] \in [DOMAIN m[z] -> Objs]

\* Every variable has the type the code gives it.
TypeOK ==
    /\ phase \in {"running", "stopping", "exited", "crashed"}
    /\ DOMAIN sessionMap \subseteq Endpoints
    /\ sessionMap \in [DOMAIN sessionMap -> Session]
    /\ DOMAIN players \subseteq Objs
    /\ players \in [DOMAIN players -> Player]
    /\ ZoneMapOK(zoneEntities)
    /\ ZoneMapOK(zonePlayers)
    /\ db \in [Chars -> Positions]
    /\ told \in [Endpoints -> SUBSET Ids]
    /\ toDisconnect \subseteq Endpoints

\* The two indexes ZoneManager keeps by hand never drift apart, and no zone
\* outlives its last entity: GetNearbyZones takes the presence of a zone in
\* zoneEntities for the presence of somebody in it.
IndexesAgree ==
    /\ zonePlayers = zoneEntities
    /\ \A z \in DOMAIN zoneEntities : DOMAIN zoneEntities[z] # {}

\* An entity found under a zone and an id is one that has that id and believes
\* itself in that zone, and a player believes itself in the zone of its
\* position: MoveTo's remove, add and assignment never leave it in two zones or
\* under an id that is not its own, even when a character has two Players.
PlacedWhereItStands ==
    /\ \A z \in DOMAIN zoneEntities : \A id \in DOMAIN zoneEntities[z] :
        LET o == zoneEntities[z][id]
        IN  o \in DOMAIN players /\ players[o].id = id /\ players[o].zoneId = z
    /\ \A o \in DOMAIN players : players[o].zoneId = CalculateZoneId(players[o].pos)

\* The zone id a Player carries is that of the cell it stands in and of no other
\* cell, although ids are computed by division towards zero and packed into one int.
ZoneIdNamesCell ==
    \A o \in DOMAIN players, there \in Landmarks :
        players[o].zoneId = CalculateZoneId(there)
            <=> GridX(players[o].pos) = GridX(there) /\ GridY(players[o].pos) = GridY(there)

\* What happens anywhere is sent to a Player exactly when its cell touches the cell
\* where it happens: GetNearbyZones neither misses a neighbour nor admits a stranger.
NearbyIsTouching ==
    \A o \in DOMAIN players, there \in Landmarks :
        players[o].zoneId \in NearbyIds(there) <=> CellsTouch(players[o].pos, there)

\* A session that owns a player is the one the player's raw session pointer
\* points to, is of the same character, and has the address that the heartbeat
\* check needs to find it again; a session without a player never has one.
SessionOwnsPlayer ==
    \A e \in DOMAIN sessionMap :
        LET o == sessionMap[e].playerEntity
        IN  /\ sessionMap[e].addr <=> o # None
            /\ o # None => /\ o \in DOMAIN players
                           /\ players[o].session = e
                           /\ players[o].id = sessionMap[e].charId

\* The player of every session can be found in its zone: others see it, and its
\* packets reach them.
LiveInWorld ==
    \A e \in DOMAIN sessionMap :
        LET o == sessionMap[e].playerEntity
        IN  o # None => InZone(zoneEntities, players[o].zoneId, players[o].id, o)

\* No Player outlives its session in the zone maps, where its session pointer
\* would be followed after the session was erased.
PlayerHasSession ==
    \A o \in DOMAIN players :
        /\ players[o].session \in DOMAIN sessionMap
        /\ sessionMap[players[o].session].playerEntity = o

\* Two players in the same zone have each been told of the other, whoever came
\* first and however they got there.
SameZoneTold ==
    \A o, q \in DOMAIN players :
        o # q /\ players[o].zoneId = players[q].zoneId
            => players[q].id \in told[players[o].session]

\* A Player that leaves memory, by timeout or by an orderly exit, leaves its last
\* position in the characters table.
PositionSaved ==
    [][phase' # "crashed" =>
        \A o \in DOMAIN players \ DOMAIN players' :
            players[o].id \in Chars => db'[players[o].id] = players[o].pos]_vars

\* Sessions, Redis hashes, heap cells, zones and the heartbeat check add up to
\* AbstractWorld: who connects comes in where the table has it, moves where it asks,
\* and whichever way it leaves, by timeout or by the shutdown save and the exit, its
\* row holds where it stood; no other step of the server moves a character, brings one
\* in or writes a row.
ImplementsAbstractWorld == Abstract!Spec

\* A player that stops sending heartbeats does not stay: its session is evicted.
SilentPlayerLeaves ==
    \A e \in Endpoints : (Stale(e) /\ sessionMap[e].playerEntity # None) ~> ~Stale(e)

\* "zoneId -> (entityId -> shared_ptr<Entity>) for all entities" (ZoneManager.h):
\* a character's only Player is in the map.
SolePlayerInWorld ==
    \A o \in DOMAIN players :
        (\A q \in DOMAIN players \ {o} : players[q].id # players[o].id)
            => InZone(zoneEntities, players[o].zoneId, players[o].id, o)

\* "Get nearby zones for the entity's last position" (ZoneManager.cpp): when an
\* entity changes zones, a player that was near it and no longer is gets told.
DespawnedForThoseLeft ==
    [][\A o, w \in DOMAIN players \cap DOMAIN players' :
        /\ players'[o].zoneId # players[o].zoneId
        /\ w # o /\ players'[w] = players[w]
        /\ players[w].zoneId \in NearbyIds(players[o].pos)
        /\ players[w].zoneId \notin NearbyIds(players'[o].pos)
        => players[o].id \notin told'[players[w].session]]_vars
=============================================================================
