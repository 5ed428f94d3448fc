-------------------------- MODULE GameWorldProofs --------------------------
(***************************************************************************)
(* Proofs about GameWorld for any number of endpoints, characters, heap    *)
(* cells and positions, any zone size and every choice of Faults: its      *)
(* type invariant, and that the zone maps, the Player objects and the      *)
(* sessions stay consistent with each other.  The four invariants are      *)
(* inductive only together: MoveTo finds the entity's old slot through the *)
(* session (SessionOwnsPlayer), and empties exactly that slot because of   *)
(* PlacedWhereItStands.                                                    *)
(*                                                                         *)
(* Then the world in which no character connects while its Player is       *)
(* still there (Ordinary strengthens the invariant for it), in which also  *)
(* the last positions are saved; and what zone ids say about cells.        *)
(***************************************************************************)
EXTENDS GameWorld, ZonesProofs, TLAPS

IInv == TypeOK /\ IndexesAgree /\ PlacedWhereItStands /\ SessionOwnsPlayer

\* PlacedWhereItStands, on a map and a heap, in terms of slots.
Placed(m, pl) ==
    \A z, id, o : InZone(m, z, id, o)
                    => o \in DOMAIN pl /\ pl[o].id = id /\ pl[o].zoneId = z

\* Each Player of a heap believes itself in the zone of its position.
Located(pl) == \A o \in DOMAIN pl : pl[o].zoneId = CalculateZoneId(pl[o].pos)

HeapOK(pl) == DOMAIN pl \subseteq Objs /\ pl \in [DOMAIN pl -> Player]

SessionsOK(sm) == DOMAIN sm \subseteq Endpoints /\ sm \in [DOMAIN sm -> Session]

BucketsFull(m) == \A z \in DOMAIN m : DOMAIN m[z] # {}

\* SessionOwnsPlayer, on a session map and a heap.
Owns(sm, pl) ==
    \A e \in DOMAIN sm :
        /\ sm[e].addr <=> sm[e].playerEntity # None
        /\ sm[e].playerEntity # None
              => /\ sm[e].playerEntity \in DOMAIN pl
                 /\ pl[sm[e].playerEntity].session = e
                 /\ pl[sm[e].playerEntity].id = sm[e].charId

\* The invariant, on explicit values of the variables.
Consistent(ph, sm, pl, ze, zp, d, t, td) ==
    /\ ph \in {"running", "stopping", "exited", "crashed"}
    /\ SessionsOK(sm)
    /\ HeapOK(pl)
    /\ ZoneMapOK(ze)
    /\ d \in [Chars -> Positions]
    /\ t \in [Endpoints -> SUBSET Ids]
    /\ td \subseteq Endpoints
    /\ zp = ze
    /\ BucketsFull(ze)
    /\ Placed(ze, pl)
    /\ Located(pl)
    /\ Owns(sm, pl)

\* The explicit reading is the invariant, in a state and in its successor.
LEMMA IInvIsConsistent ==
    /\ IInv <=> Consistent(phase, sessionMap, players, zoneEntities, zonePlayers,
                           db, told, toDisconnect)
    /\ IInv' <=> Consistent(phase', sessionMap', players', zoneEntities', zonePlayers',
                            db', told', toDisconnect')
  BY DEF IInv, TypeOK, IndexesAgree, PlacedWhereItStands, SessionOwnsPlayer, Consistent,
         SessionsOK, HeapOK, ZoneMapOK, BucketsFull, Placed, Located, Owns, InZone
-----------------------------------------------------------------------------
(* The heap *)

\* Collecting garbage changes no Player that stays.
LEMMA CollectSame ==
    ASSUME NEW pl, NEW sm, NEW ze, NEW zp
    PROVE  /\ DOMAIN Collect(pl, sm, ze, zp) \subseteq DOMAIN pl
           /\ \A o \in DOMAIN Collect(pl, sm, ze, zp) : Collect(pl, sm, ze, zp)[o] = pl[o]
           /\ HeapOK(pl) => HeapOK(Collect(pl, sm, ze, zp))
           /\ Located(pl) => Located(Collect(pl, sm, ze, zp))
  BY DEF Collect, Restrict, HeapOK, Located

\* A Player found in a zone or owned by a session is not garbage.
LEMMA CollectKeeps ==
    ASSUME NEW pl, NEW sm, NEW ze, NEW zp
    PROVE  /\ Placed(ze, pl) => Placed(ze, Collect(pl, sm, ze, zp))
           /\ Owns(sm, pl) => Owns(sm, Collect(pl, sm, ze, zp))
  <1>1. ASSUME NEW o \in DOMAIN pl, o \in Held(sm, ze, zp)
        PROVE  o \in DOMAIN Collect(pl, sm, ze, zp)
    BY <1>1 DEF Collect, Restrict
  <1>2. ASSUME NEW z, NEW id, NEW o, InZone(ze, z, id, o)
        PROVE  o \in Held(sm, ze, zp)
    BY <1>2 DEF InZone, Held, Range
  <1>3. ASSUME NEW e \in DOMAIN sm
        PROVE  sm[e].playerEntity \in Held(sm, ze, zp)
    BY DEF Held
  <1>4. Placed(ze, pl) => Placed(ze, Collect(pl, sm, ze, zp))
    BY <1>1, <1>2, CollectSame DEF Placed
  <1>5. Owns(sm, pl) => Owns(sm, Collect(pl, sm, ze, zp))
    BY <1>1, <1>3, CollectSame DEF Owns
  <1>6. QED
    BY <1>4, <1>5

\* Erasing sessions changes nothing of a Player but where its session pointer
\* leads, and only of the Players of those sessions.
LEMMA OrphanSame ==
    ASSUME NEW pl, HeapOK(pl), NEW es
    PROVE  /\ DOMAIN Orphan(pl, es) = DOMAIN pl
           /\ HeapOK(Orphan(pl, es))
           /\ \A o \in DOMAIN pl :
                 /\ Orphan(pl, es)[o].id = pl[o].id
                 /\ Orphan(pl, es)[o].pos = pl[o].pos
                 /\ Orphan(pl, es)[o].zoneId = pl[o].zoneId
                 /\ pl[o].session \notin es => Orphan(pl, es)[o] = pl[o]
           /\ Located(pl) => Located(Orphan(pl, es))
           /\ \A m : Placed(m, pl) => Placed(m, Orphan(pl, es))
  <1>1. /\ DOMAIN Orphan(pl, es) = DOMAIN pl
        /\ HeapOK(Orphan(pl, es))
        /\ \A o \in DOMAIN pl :
              /\ Orphan(pl, es)[o].id = pl[o].id
              /\ Orphan(pl, es)[o].pos = pl[o].pos
              /\ Orphan(pl, es)[o].zoneId = pl[o].zoneId
              /\ pl[o].session \notin es => Orphan(pl, es)[o] = pl[o]
    BY DEF Orphan, HeapOK, Player
  <1>2. QED
    BY <1>1 DEF Located, Placed
-----------------------------------------------------------------------------
(* The zone maps *)

\* Putting a well-typed entity keeps a zone map well typed.
LEMMA PutType ==
    ASSUME NEW m, ZoneMapOK(m), NEW z \in Int, NEW id \in Ids, NEW o \in Objs
    PROVE  ZoneMapOK(PutInZone(m, z, id, o))
  <1> DEFINE b == Extend(Bucket(m, z), id, o)
  <1>1. DOMAIN b \subseteq Ids /\ b \in [DOMAIN b -> Objs]
    BY DEF Extend, Bucket, EmptyMap, ZoneMapOK
  <1>2. QED
    BY <1>1 DEF PutInZone, Extend, ZoneMapOK

\* Erasing a slot does too.
LEMMA EraseType ==
    ASSUME NEW m, ZoneMapOK(m), NEW z, NEW id
    PROVE  ZoneMapOK(EraseFromZone(m, z, id))
  <1> DEFINE b == Without(Bucket(m, z), id)
  <1>1. ASSUME z \in DOMAIN m
        PROVE  DOMAIN b \subseteq Ids /\ b \in [DOMAIN b -> Objs]
    BY <1>1 DEF Without, Restrict, Bucket, ZoneMapOK
  <1>2. CASE z \notin DOMAIN m
    BY <1>2 DEF EraseFromZone
  <1>3. CASE z \in DOMAIN m /\ DOMAIN b = {}
    BY <1>3 DEF EraseFromZone, Without, Restrict, ZoneMapOK
  <1>4. CASE z \in DOMAIN m /\ DOMAIN b # {}
    BY <1>1, <1>4 DEF EraseFromZone, Extend, ZoneMapOK
  <1>5. QED
    BY <1>2, <1>3, <1>4

\* What is told has the type of told.
LEMMA ToldTypes ==
    ASSUME NEW t \in [Endpoints -> SUBSET Ids], NEW pl, NEW ze, NEW zp, NEW z,
           NEW o, NEW id, NEW g, ZoneMapOK(ze)
    PROVE  /\ ToldOfRemoval(t, pl, ze, zp, z, id, g) \in [Endpoints -> SUBSET Ids]
           /\ pl[o].id \in Ids => ToldOfSpawn(t, pl, ze, zp, z, o, g) \in [Endpoints -> SUBSET Ids]
  <1>1. DOMAIN Bucket(ze, z) \subseteq Ids
    BY DEF Bucket, EmptyMap, ZoneMapOK
  <1>2. QED
    BY <1>1 DEF ToldOfRemoval, ToldOfSpawn
-----------------------------------------------------------------------------
(* Steps *)

\* A position of the model has an integer zone.
LEMMA PositionZone ==
    ASSUME NEW p \in Positions
    PROVE  CalculateZoneId(p) \in Int
  BY GameWorldAssumption, ZoneIdType

\* Empty memory satisfies it.
LEMMA EmptyIsFine ==
    /\ SessionsOK(EmptyMap)
    /\ HeapOK(EmptyMap)
    /\ ZoneMapOK(EmptyMap)
    /\ BucketsFull(EmptyMap)
    /\ Placed(EmptyMap, EmptyMap)
    /\ Located(EmptyMap)
    /\ Owns(EmptyMap, EmptyMap)
  BY DEF EmptyMap, SessionsOK, HeapOK, ZoneMapOK, BucketsFull, Placed, Located, Owns, InZone

\* The initial states satisfy the invariant.
LEMMA InitIInv == Init => IInv
  BY EmptyIsFine, IInvIsConsistent DEF Init, Consistent

\* A session map update that leaves the players' sessions alone.
LEMMA ExtendSessions ==
    ASSUME NEW sm, SessionsOK(sm), NEW e \in Endpoints, NEW s \in Session
    PROVE  SessionsOK(Extend(sm, e, s))
  BY DEF SessionsOK, Extend

\* The session a packet finds, or creates, is a session.
LEMMA SessionAtType ==
    ASSUME IInv, NEW e \in Endpoints
    PROVE  SessionAt(e) \in Session
  <1>1. DefaultSession \in Session
    BY DEF DefaultSession, Session, Ids
  <1>2. QED
    BY <1>1, IInvIsConsistent DEF SessionAt, SessionsOK, Consistent

\* A dropped packet creates at most a session without a player.
LEMMA DropPacketStep ==
    ASSUME IInv, NEW e \in Endpoints, DropPacket(e)
    PROVE  IInv'
  <1>1. SessionsOK(sessionMap')
    BY SessionAtType, ExtendSessions, IInvIsConsistent DEF DropPacket, Consistent
  <1>2. Owns(sessionMap', players)
    BY IInvIsConsistent DEF DropPacket, Owns, Extend, SessionAt, DefaultSession, Consistent
  <1>3. QED
    BY <1>1, <1>2, IInvIsConsistent DEF DropPacket, Consistent

\* A refused connect erases one session; its player, if any, loses its session
\* pointer, and nobody else's does.
LEMMA ConnectRefusedStep ==
    ASSUME IInv, NEW e \in Endpoints, ConnectRefused(e)
    PROVE  IInv'
  <1> DEFINE sm == Without(sessionMap, e)
             pl == Orphan(players, {e})
  <1>1. SessionsOK(sm)
    BY IInvIsConsistent DEF Consistent, SessionsOK, Without, Restrict
  <1>2. HeapOK(pl) /\ Located(pl) /\ Placed(zoneEntities, pl)
    BY IInvIsConsistent, OrphanSame DEF Consistent
  <1>3. Owns(sm, pl)
    BY IInvIsConsistent, OrphanSame DEF Consistent, Owns, Without, Restrict
  <1>4. QED
    BY <1>1, <1>2, <1>3, CollectSame, CollectKeeps, IInvIsConsistent
    DEF ConnectRefused, Consistent

\* The new session of an accepted connect has the type of a session.
LEMMA ConnectedSessionType ==
    ASSUME NEW old \in Session, NEW h \in Hash, NEW nonempty \in BOOLEAN, NEW o \in Objs
    PROVE  ConnectedSession(old, h, nonempty, o) \in Session
  BY DEF ConnectedSession, Session, Hash

\* The new Player is well formed and stands in the zone of its position.
LEMMA InitFromDBType ==
    ASSUME IInv, NEW id \in Ids, NEW ok \in BOOLEAN, NEW e \in Endpoints
    PROVE  /\ InitFromDB(id, ok, e) \in Player
           /\ InitFromDB(id, ok, e).zoneId = CalculateZoneId(InitFromDB(id, ok, e).pos)
           /\ InitFromDB(id, ok, e).id = id
           /\ InitFromDB(id, ok, e).session = e
  BY IInvIsConsistent, PositionZone, GameWorldAssumption DEF InitFromDB, Player, Consistent

\* An accepted connect puts a new Player in a fresh heap cell, in the slot of its
\* own zone and id, and makes it the session's.
LEMMA ConnectAcceptedStep ==
    ASSUME IInv, NEW e \in Endpoints, NEW h \in Hash, NEW nonempty \in BOOLEAN,
           NEW o \in Objs \ DOMAIN players, NEW ok \in Statement, NEW g,
           ConnectAccepted(e, h, nonempty, o, ok, g)
    PROVE  IInv'
  <1> DEFINE s  == ConnectedSession(SessionAt(e), h, nonempty, o)
             p  == InitFromDB(s.charId, ok, e)
             sm == Extend(sessionMap, e, s)
             pl == Extend(players, o, p)
             ze == PutInZone(zoneEntities, p.zoneId, p.id, o)
             zp == PutInZone(zonePlayers, p.zoneId, p.id, o)
  <1>0. Consistent(phase, sessionMap, players, zoneEntities, zonePlayers, db, told, toDisconnect)
    BY IInvIsConsistent
  <1>1. /\ sessionMap' = sm
        /\ zoneEntities' = ze
        /\ zonePlayers' = zp
        /\ players' = Collect(pl, sm, ze, zp)
        /\ told' = ToldOfSpawn(told, pl, ze, zp, p.zoneId, o, g)
        /\ UNCHANGED <<phase, db, toDisconnect>>
    BY DEF ConnectAccepted
  <1>2. /\ s \in Session
        /\ s.playerEntity = o
        /\ s.addr = TRUE
    BY SessionAtType, ConnectedSessionType DEF ConnectedSession
  <1>3. /\ p \in Player
        /\ p.zoneId = CalculateZoneId(p.pos)
        /\ p.id = s.charId
        /\ p.session = e
    <2>1. s.charId \in Ids /\ ok \in BOOLEAN
      BY <1>2 DEF Session, Statement
    <2>2. QED
      BY <2>1, InitFromDBType
  <1>4. p.zoneId \in Int /\ p.id \in Ids /\ o \in Objs /\ o # None
    BY <1>3, GameWorldAssumption DEF Player
  <1> HIDE DEF s, p
  <1>5. SessionsOK(sm)
    BY <1>0, <1>2, ExtendSessions DEF Consistent
  <1>6. HeapOK(pl) /\ Located(pl)
    BY <1>0, <1>3 DEF Consistent, HeapOK, Located, Extend
  <1>7. ZoneMapOK(ze) /\ zp = ze /\ BucketsFull(ze)
    BY <1>0, <1>4, PutType, PutKeepsBucketsFull DEF Consistent, BucketsFull
  <1>8. Placed(ze, pl)
    <2> SUFFICES ASSUME NEW z, NEW id, NEW w, InZone(ze, z, id, w)
                 PROVE  w \in DOMAIN pl /\ pl[w].id = id /\ pl[w].zoneId = z
      BY DEF Placed
    <2>1. CASE z = p.zoneId /\ id = p.id
      BY <2>1, PutLookup DEF Extend
    <2>2. CASE ~(z = p.zoneId /\ id = p.id)
      <3>1. InZone(zoneEntities, z, id, w)
        BY <2>2, PutLookup
      <3>2. w \in DOMAIN players /\ players[w].id = id /\ players[w].zoneId = z
        BY <1>0, <3>1 DEF Consistent, Placed
      <3>3. QED
        BY <3>2 DEF Extend
    <2>3. QED
      BY <2>1, <2>2
  <1>9. Owns(sm, pl)
    BY <1>0, <1>2, <1>3, <1>4 DEF Consistent, Owns, Extend
  <1>10. told' \in [Endpoints -> SUBSET Ids]
    <2>1. pl[o].id \in Ids
      BY <1>4 DEF Extend
    <2>2. told \in [Endpoints -> SUBSET Ids]
      BY <1>0 DEF Consistent
    <2>3. QED
      BY <1>1, <1>7, <2>1, <2>2, ToldTypes
  <1>11. Consistent(phase', sessionMap', players', zoneEntities', zonePlayers',
                    db', told', toDisconnect')
    BY <1>0, <1>1, <1>5, <1>6, <1>7, <1>8, <1>9, <1>10, CollectSame, CollectKeeps
    DEF Consistent
  <1>12. QED
    BY <1>11, IInvIsConsistent

\* A move takes the session's Player out of the one slot it is in and puts it in
\* the slot of its new zone; within a zone only its position changes.
LEMMA MoveStep ==
    ASSUME IInv, NEW e \in Endpoints, NEW to \in Positions, NEW g, Move(e, to, g)
    PROVE  IInv'
  <1> DEFINE o    == sessionMap[e].playerEntity
             from == players[o]
             p    == MovedPlayer(from, to)
             pl   == [players EXCEPT ![o] = p]
             ze1  == EraseFromZone(zoneEntities, from.zoneId, p.id)
             ze   == PutInZone(ze1, p.zoneId, p.id, o)
             zp   == PutInZone(EraseFromZone(zonePlayers, from.zoneId, p.id), p.zoneId, p.id, o)
             gone == ToldOfRemoval(told, pl, zoneEntities, zonePlayers, from.zoneId, p.id, g)
  <1>0. Consistent(phase, sessionMap, players, zoneEntities, zonePlayers, db, told, toDisconnect)
    BY IInvIsConsistent
  <1>1. /\ e \in DOMAIN sessionMap
        /\ o # None
        /\ UNCHANGED <<phase, sessionMap, db, toDisconnect>>
    BY DEF Move
  <1>2. o \in DOMAIN players /\ o \in Objs /\ from \in Player
    BY <1>0, <1>1 DEF Consistent, Owns, HeapOK
  <1>3. /\ p \in Player
        /\ p.id = from.id /\ p.session = from.session
        /\ p.pos = to /\ p.zoneId = CalculateZoneId(to)
        /\ p.id \in Ids /\ p.zoneId \in Int
    BY <1>2, PositionZone DEF MovedPlayer, Player
  <1>4. \/ /\ p.zoneId # from.zoneId
           /\ zoneEntities' = ze
           /\ zonePlayers' = zp
           /\ players' = Collect(pl, sessionMap, ze, zp)
           /\ told' = ToldOfSpawn(gone, pl, ze, zp, p.zoneId, o, g)
        \/ /\ p.zoneId = from.zoneId
           /\ players' = pl
           /\ UNCHANGED <<zoneEntities, zonePlayers, told>>
    BY <1>3 DEF Move, EnterZone, DropEntity, DropPlayer
  <1> HIDE DEF p
  <1>5. HeapOK(pl) /\ Located(pl) /\ DOMAIN pl = DOMAIN players /\ pl[o] = p
    BY <1>0, <1>2, <1>3 DEF Consistent, HeapOK, Located
  <1>6. Owns(sessionMap, pl)
    BY <1>0, <1>2, <1>3 DEF Consistent, Owns
  <1>7. CASE p.zoneId = from.zoneId
    <2>1. Placed(zoneEntities, pl)
      BY <1>0, <1>2, <1>3, <1>5, <1>7 DEF Consistent, Placed
    <2>2. QED
      BY <1>0, <1>1, <1>4, <1>5, <1>6, <1>7, <2>1, IInvIsConsistent DEF Consistent
  <1>8. CASE p.zoneId # from.zoneId
    <2>1. ZoneMapOK(ze) /\ zp = ze /\ BucketsFull(ze)
      <3>1. ZoneMapOK(ze1) /\ BucketsFull(ze1)
        BY <1>0, EraseType, EraseKeepsBucketsFull DEF Consistent, BucketsFull
      <3>2. QED
        BY <1>0, <1>2, <1>3, <3>1, PutType, PutKeepsBucketsFull DEF Consistent, BucketsFull
    <2>2. Placed(ze, pl)
      <3> SUFFICES ASSUME NEW z, NEW id, NEW w, InZone(ze, z, id, w)
                   PROVE  w \in DOMAIN pl /\ pl[w].id = id /\ pl[w].zoneId = z
        BY DEF Placed
      <3>1. CASE z = p.zoneId /\ id = p.id
        BY <1>2, <1>5, <3>1, PutLookup
      <3>2. CASE ~(z = p.zoneId /\ id = p.id)
        <4>1. InZone(ze1, z, id, w)
          BY <3>2, PutLookup
        <4>2. InZone(zoneEntities, z, id, w) /\ ~(z = from.zoneId /\ id = p.id)
          BY <4>1, EraseLookup
        <4>3. w \in DOMAIN players /\ players[w].id = id /\ players[w].zoneId = z
          BY <1>0, <4>2 DEF Consistent, Placed
        <4>4. w # o
          BY <1>3, <4>2, <4>3
        <4>5. QED
          BY <4>3, <4>4
      <3>3. QED
        BY <3>1, <3>2
    <2>3. told' \in [Endpoints -> SUBSET Ids]
      <3>1. gone \in [Endpoints -> SUBSET Ids]
        <4>1. told \in [Endpoints -> SUBSET Ids] /\ ZoneMapOK(zoneEntities)
          BY <1>0 DEF Consistent
        <4>2. QED
          BY <4>1, ToldTypes
      <3>2. pl[o].id \in Ids
        BY <1>3, <1>5
      <3>3. told' = ToldOfSpawn(gone, pl, ze, zp, p.zoneId, o, g)
        BY <1>4, <1>8
      <3> HIDE DEF gone, pl, ze, zp
      <3>4. QED
        BY <2>1, <3>1, <3>2, <3>3, ToldTypes
    <2>4. QED
      BY <1>0, <1>1, <1>4, <1>5, <1>6, <1>8, <2>1, <2>2, <2>3, CollectSame, CollectKeeps,
         IInvIsConsistent
      DEF Consistent
  <1>9. QED
    BY <1>7, <1>8

\* A heartbeat, or silence, changes only the age of one session.
LEMMA FreshnessStep ==
    ASSUME IInv, NEW e \in Endpoints, Heartbeat(e) \/ FallSilent(e)
    PROVE  IInv'
  <1>0. Consistent(phase, sessionMap, players, zoneEntities, zonePlayers, db, told, toDisconnect)
    BY IInvIsConsistent
  <1>1. PICK b \in BOOLEAN : sessionMap' = [sessionMap EXCEPT ![e].fresh = b]
    BY DEF Heartbeat, FallSilent
  <1> DEFINE sm == [sessionMap EXCEPT ![e].fresh = b]
  <1>2. /\ DOMAIN sm = DOMAIN sessionMap
        /\ SessionsOK(sm)
        /\ \A x \in DOMAIN sm :
              /\ sm[x].addr = sessionMap[x].addr
              /\ sm[x].playerEntity = sessionMap[x].playerEntity
              /\ sm[x].charId = sessionMap[x].charId
    <2>1. \A x \in DOMAIN sessionMap : sessionMap[x] \in Session
      BY <1>0 DEF Consistent, SessionsOK
    <2>2. /\ DOMAIN sm = DOMAIN sessionMap
          /\ \A x \in DOMAIN sm :
                /\ sm[x] \in Session
                /\ sm[x].addr = sessionMap[x].addr
                /\ sm[x].playerEntity = sessionMap[x].playerEntity
                /\ sm[x].charId = sessionMap[x].charId
      BY <2>1 DEF Session
    <2>3. SessionsOK(sm)
      BY <1>0, <2>2 DEF Consistent, SessionsOK
    <2>4. QED
      BY <2>2, <2>3
  <1> HIDE DEF sm
  <1>3. Owns(sm, players)
    BY <1>0, <1>2 DEF Consistent, Owns
  <1>4. sessionMap' = sm
    BY <1>1 DEF sm
  <1>5. QED
    BY <1>0, <1>2, <1>3, <1>4, IInvIsConsistent DEF Heartbeat, FallSilent, Consistent

\* A saved position is a position.
LEMMA SaveToDBType ==
    ASSUME NEW d \in [Chars -> Positions], NEW p \in Player, NEW ok \in BOOLEAN
    PROVE  SaveToDB(d, p, ok) \in [Chars -> Positions]
  BY DEF SaveToDB, Player

\* A disconnect empties one slot of the zone maps and erases one session, or two.
LEMMA DisconnectPlayerStep ==
    ASSUME IInv, NEW e \in Endpoints, NEW x \in FreedAddr, NEW ok \in Statement, NEW g,
           DisconnectPlayer(e, x, ok, g)
    PROVE  IInv'
  <1> DEFINE o  == sessionMap[e].playerEntity
             p  == players[o]
             sm == Restrict(sessionMap, DOMAIN sessionMap \ {e, x})
             pl == Orphan(players, {e, x})
             ze == EraseFromZone(zoneEntities, p.zoneId, p.id)
             zp == EraseFromZone(zonePlayers, p.zoneId, p.id)
  <1>0. Consistent(phase, sessionMap, players, zoneEntities, zonePlayers, db, told, toDisconnect)
    BY IInvIsConsistent
  <1>1. /\ e \in DOMAIN sessionMap
        /\ o # None
        /\ toDisconnect' = toDisconnect \ {e}
        /\ db' = SaveToDB(db, p, ok)
        /\ zoneEntities' = ze
        /\ zonePlayers' = zp
        /\ told' = ToldOfRemoval(told, players, zoneEntities, zonePlayers, p.zoneId, p.id, g)
        /\ sessionMap' = sm
        /\ players' = Collect(pl, sm, ze, zp)
        /\ phase' = phase
    BY DEF DisconnectPlayer, DropEntity, DropPlayer
  <1>2. p \in Player /\ ok \in BOOLEAN
    BY <1>0, <1>1 DEF Consistent, Owns, HeapOK, Statement
  <1>3. SessionsOK(sm)
    BY <1>0 DEF Consistent, SessionsOK, Restrict
  <1>4. HeapOK(pl) /\ Located(pl) /\ Placed(zoneEntities, pl)
    BY <1>0, OrphanSame DEF Consistent
  <1>5. Owns(sm, pl)
    BY <1>0, OrphanSame DEF Consistent, Owns, Restrict
  <1>6. ZoneMapOK(ze) /\ zp = ze /\ BucketsFull(ze) /\ Placed(ze, pl)
    <2>1. zonePlayers = zoneEntities /\ ZoneMapOK(zoneEntities) /\ BucketsFull(zoneEntities)
      BY <1>0 DEF Consistent
    <2>2. ZoneMapOK(ze) /\ zp = ze /\ BucketsFull(ze)
      BY <2>1, EraseType, EraseKeepsBucketsFull DEF BucketsFull
    <2> HIDE DEF pl
    <2>3. Placed(ze, pl)
      BY <1>4, EraseLookup DEF Placed
    <2>4. QED
      BY <2>2, <2>3
  <1>7. told' \in [Endpoints -> SUBSET Ids] /\ db' \in [Chars -> Positions]
    BY <1>0, <1>1, <1>2, ToldTypes, SaveToDBType DEF Consistent
  <1>8. Consistent(phase', sessionMap', players', zoneEntities', zonePlayers',
                   db', told', toDisconnect')
    BY <1>0, <1>1, <1>3, <1>4, <1>5, <1>6, <1>7, CollectSame, CollectKeeps DEF Consistent
  <1>9. QED
    BY <1>8, IInvIsConsistent

\* Starting, stopping, dying and collecting the silent touch none of it.
LEMMA OtherSteps ==
    ASSUME IInv,
           \/ SignalSave \/ Exit \/ Crash \/ Restart \/ CollectTimeouts
           \/ \E e \in Endpoints : SkipTimeout(e)
           \/ UNCHANGED vars
    PROVE  IInv'
  <1>0. Consistent(phase, sessionMap, players, zoneEntities, zonePlayers, db, told, toDisconnect)
    BY IInvIsConsistent
  <1>1. CASE SignalSave
    BY <1>0, <1>1, IInvIsConsistent DEF SignalSave, Consistent
  <1>2. CASE Exit \/ Crash
    BY <1>0, <1>2, EmptyIsFine, IInvIsConsistent DEF Exit, Crash, EmptyMemory, Consistent
  <1>3. CASE Restart
    BY <1>0, <1>3, IInvIsConsistent DEF Restart, Consistent
  <1>4. CASE CollectTimeouts \/ \E e \in Endpoints : SkipTimeout(e)
    BY <1>0, <1>4, IInvIsConsistent DEF CollectTimeouts, SkipTimeout, Consistent
  <1>5. CASE UNCHANGED vars
    BY <1>0, <1>5, IInvIsConsistent DEF vars, Consistent
  <1>6. QED
    BY <1>1, <1>2, <1>3, <1>4, <1>5

\* Every step keeps the invariant.
LEMMA NextIInv == IInv /\ [Next]_vars => IInv'
  BY DropPacketStep, ConnectRefusedStep, ConnectAcceptedStep, MoveStep, FreshnessStep,
     DisconnectPlayerStep, OtherSteps
  DEF Next, HandlePacket, HeartbeatCheck
-----------------------------------------------------------------------------
(* Theorems *)

\* The four invariants hold together in every reachable state.
LEMMA Invariant == Spec => []IInv
  BY InitIInv, NextIInv, PTL DEF Spec

\* Every variable keeps its type, whatever the faults.
THEOREM TypeCorrect == Spec => []TypeOK
  BY Invariant, PTL DEF IInv

\* zonePlayers and zoneEntities hold the same entities in the same slots, and a
\* zone is present exactly when somebody is in it.
THEOREM IndexesNeverDrift == Spec => []IndexesAgree
  BY Invariant, PTL DEF IInv

\* No entity is ever in two zones, in a zone it does not believe itself in, or
\* under an id that is not its own.
THEOREM EntitiesStayPlaced == Spec => []PlacedWhereItStands
  BY Invariant, PTL DEF IInv

\* A session's player points back at the session and can be evicted with it.
THEOREM SessionsOwnTheirPlayers == Spec => []SessionOwnsPlayer
  BY Invariant, PTL DEF IInv
-----------------------------------------------------------------------------
(* Where no character connects twice at a time *)

\* PlayerHasSession, on explicit values of the variables.
AllOwned(sm, pl) ==
    \A o \in DOMAIN pl :
        pl[o].session \in DOMAIN sm /\ sm[pl[o].session].playerEntity = o

\* No character has two Players.
NoTwins(pl) == \A o, q \in DOMAIN pl : pl[o].id = pl[q].id => o = q

\* Every Player is in the slot of its zone and id.
AllPlaced(m, pl) == \A o \in DOMAIN pl : InZone(m, pl[o].zoneId, pl[o].id, o)

\* SameZoneTold among the Players of S.
ToldAmong(S, t, pl) ==
    \A o, q \in S :
        o # q /\ pl[o].zoneId = pl[q].zoneId => pl[q].id \in t[pl[o].session]

Ordinary(sm, pl, ze, t) ==
    AllOwned(sm, pl) /\ NoTwins(pl) /\ AllPlaced(ze, pl) /\ ToldAmong(DOMAIN pl, t, pl)

OInv == IInv /\ Ordinary(sessionMap, players, zoneEntities, told)

\* The sockets of owned Players are endpoints.
LEMMA OwnedSock ==
    ASSUME NEW sm, NEW pl, SessionsOK(sm), AllOwned(sm, pl), NEW o \in DOMAIN pl, NEW g
    PROVE  Sock(pl, o, g) = pl[o].session /\ pl[o].session \in Endpoints
  BY GameWorldAssumption DEF SessionsOK, AllOwned, Sock

\* A heap of owned Players has no garbage.
LEMMA OwnedKept ==
    ASSUME NEW sm, NEW pl, NEW ze, NEW zp, HeapOK(pl), AllOwned(sm, pl)
    PROVE  Collect(pl, sm, ze, zp) = pl
  <1>1. \A o \in DOMAIN pl : o \in Held(sm, ze, zp)
    BY DEF AllOwned, Held
  <1>2. QED
    BY <1>1 DEF Collect, Restrict, HeapOK

\* Who is in the slot of its zone is sent what happens in that zone.
LEMMA ZoneHears ==
    ASSUME NEW sm, NEW pl, NEW ze, SessionsOK(sm), HeapOK(pl), AllOwned(sm, pl),
           AllPlaced(ze, pl), Located(pl), NEW g,
           NEW o \in DOMAIN pl, NEW w \in DOMAIN pl, pl[w].zoneId = pl[o].zoneId
    PROVE  pl[w].session \in SocksNear(pl, ze, ze, pl[o].pos, g)
  <1> DEFINE z == pl[o].zoneId
  <1>1. pl[o].pos \in Point /\ z = CalculateZoneId(pl[o].pos)
    BY GameWorldAssumption DEF HeapOK, Player, Located
  <1>2. InZone(ze, z, pl[w].id, w)
    BY DEF AllPlaced
  <1>3. w \in Range(Bucket(ze, z)) /\ z \in DOMAIN ze
    BY <1>2 DEF InZone, Bucket, Range
  <1>4. z \in GetNearbyZones(ze, pl[o].pos)
    BY <1>1, <1>3, OwnZoneIsNear DEF GetNearbyZones
  <1>5. Sock(pl, w, g) = pl[w].session
    BY OwnedSock
  <1>6. QED
    BY <1>3, <1>4, <1>5 DEF SocksNear

\* Whoever comes into a zone and those who are there are told of each other, and the
\* others forget nothing.
LEMMA NewcomerTold ==
    ASSUME NEW sm, NEW pl, NEW ze, SessionsOK(sm), HeapOK(pl), AllOwned(sm, pl),
           NoTwins(pl), AllPlaced(ze, pl), Located(pl), NEW o \in DOMAIN pl, NEW g,
           NEW t \in [Endpoints -> SUBSET Ids], ToldAmong(DOMAIN pl \ {o}, t, pl)
    PROVE  ToldAmong(DOMAIN pl, ToldOfSpawn(t, pl, ze, ze, pl[o].zoneId, o, g), pl)
  <1> DEFINE z   == pl[o].zoneId
             new == ToldOfSpawn(t, pl, ze, ze, z, o, g)
  <1> SUFFICES ASSUME NEW w \in DOMAIN pl, NEW q \in DOMAIN pl,
                      w # q, pl[w].zoneId = pl[q].zoneId
               PROVE  pl[q].id \in new[pl[w].session]
    BY DEF ToldAmong
  <1> DEFINE e == pl[w].session
  <1>1. e \in Endpoints
    BY OwnedSock
  <1>2. new[e] = t[e] \cup (IF e \in SocksNear(pl, ze, ze, pl[o].pos, g)
                            THEN {pl[o].id} ELSE {})
                      \cup (IF e = Sock(pl, o, g)
                            THEN DOMAIN Bucket(ze, z) \ {pl[o].id} ELSE {})
    BY <1>1 DEF ToldOfSpawn
  <1> HIDE DEF new
  <1>3. CASE w # o /\ q # o
    BY <1>2, <1>3 DEF ToldAmong
  <1>4. CASE q = o
    <2>1. e \in SocksNear(pl, ze, ze, pl[o].pos, g)
      BY <1>4, ZoneHears
    <2>2. QED
      BY <1>2, <1>4, <2>1
  <1>5. CASE w = o
    <2>1. e = Sock(pl, o, g)
      BY <1>5, OwnedSock
    <2>2. pl[q].id \in DOMAIN Bucket(ze, z)
      BY <1>5 DEF AllPlaced, InZone, Bucket
    <2>3. pl[q].id # pl[o].id
      BY <1>5 DEF NoTwins
    <2>4. QED
      BY <1>2, <2>1, <2>2, <2>3
  <1>6. QED
    BY <1>3, <1>4, <1>5

\* Only the one who is removed is forgotten.
LEMMA RemovalForgets ==
    ASSUME NEW t \in [Endpoints -> SUBSET Ids], NEW pl, NEW ze, NEW zp, NEW z, NEW id, NEW g
    PROVE  \A e \in Endpoints :
               t[e] \ {id} \subseteq ToldOfRemoval(t, pl, ze, zp, z, id, g)[e]
  BY DEF ToldOfRemoval

\* What IInv and Ordinary say of the variables of a step.
LEMMA OInvParts ==
    ASSUME OInv
    PROVE  /\ Consistent(phase, sessionMap, players, zoneEntities, zonePlayers,
                         db, told, toDisconnect)
           /\ Ordinary(sessionMap, players, zoneEntities, told)
  BY IInvIsConsistent DEF OInv

\* An accepted connect adds one Player and collects none.
LEMMA ConnectAcceptedOrdinary ==
    ASSUME OInv, "reconnect" \notin Faults,
           NEW e \in Endpoints, NEW h \in Hash, NEW nonempty \in BOOLEAN,
           NEW o \in Objs \ DOMAIN players, NEW ok \in Statement, NEW g,
           ConnectAccepted(e, h, nonempty, o, ok, g)
    PROVE  /\ Ordinary(sessionMap', players', zoneEntities', told')
           /\ DOMAIN players' = DOMAIN players \cup {o}
           /\ \A x \in DOMAIN players :
                 players'[x] = players[x] /\ players[x].id # players'[o].id
           /\ ok /\ players'[o].id \in Chars => players'[o].pos = db[players'[o].id]
  <1> DEFINE s  == ConnectedSession(SessionAt(e), h, nonempty, o)
             p  == InitFromDB(s.charId, ok, e)
             sm == Extend(sessionMap, e, s)
             pl == Extend(players, o, p)
             ze == PutInZone(zoneEntities, p.zoneId, p.id, o)
  <1>0. /\ Consistent(phase, sessionMap, players, zoneEntities, zonePlayers,
                      db, told, toDisconnect)
        /\ Ordinary(sessionMap, players, zoneEntities, told)
    BY OInvParts
  <1>1. /\ sessionMap' = sm
        /\ zoneEntities' = ze
        /\ players' = Collect(pl, sm, ze, zonePlayers')
        /\ told' = ToldOfSpawn(told, pl, ze, zonePlayers', p.zoneId, o, g)
        /\ zonePlayers' = ze
        /\ \A x \in DOMAIN players : players[x].id # s.charId /\ players[x].session # e
    BY <1>0 DEF ConnectAccepted, Consistent
  <1>2. s \in Session /\ s.playerEntity = o
    BY SessionAtType, ConnectedSessionType DEF ConnectedSession, OInv
  <1>3. /\ p \in Player
        /\ p.zoneId = CalculateZoneId(p.pos)
        /\ p.id = s.charId
        /\ p.session = e
    <2>1. s.charId \in Ids /\ ok \in BOOLEAN
      BY <1>2 DEF Session, Statement
    <2>2. QED
      BY <2>1, InitFromDBType DEF OInv
  <1>13. ok /\ p.id \in Chars => p.pos = db[p.id]
    BY DEF InitFromDB
  <1> HIDE DEF s, p
  <1>4. SessionsOK(sm)
    BY <1>0, <1>2, ExtendSessions DEF Consistent
  <1>5. /\ HeapOK(pl) /\ Located(pl)
        /\ DOMAIN pl = DOMAIN players \cup {o} /\ pl[o] = p
        /\ \A x \in DOMAIN players : pl[x] = players[x]
    BY <1>0, <1>3 DEF Consistent, HeapOK, Located, Extend
  <1>6. AllOwned(sm, pl)
    <2>1. \A x \in DOMAIN players : players[x].session # e
      BY <1>1
    <2>2. QED
      BY <1>0, <1>2, <1>3, <2>1 DEF Ordinary, AllOwned, Extend
  <1> HIDE DEF pl
  <1>7. players' = pl
    BY <1>1, <1>5, <1>6, OwnedKept
  <1>8. NoTwins(pl)
    BY <1>0, <1>1, <1>3, <1>5 DEF Ordinary, NoTwins
  <1>9. AllPlaced(ze, pl)
    <2> SUFFICES ASSUME NEW x \in DOMAIN pl
                 PROVE  InZone(ze, pl[x].zoneId, pl[x].id, x)
      BY DEF AllPlaced
    <2>1. CASE x = o
      BY <1>5, <2>1, PutLookup
    <2>2. CASE x # o
      BY <1>0, <1>1, <1>3, <1>5, <2>2, PutLookup DEF Ordinary, AllPlaced
    <2>3. QED
      BY <2>1, <2>2
  <1>10. ToldAmong(DOMAIN pl \ {o}, told, pl)
    BY <1>0, <1>5 DEF Ordinary, ToldAmong
  <1>11. ToldAmong(DOMAIN pl, told', pl)
    <2>1. told \in [Endpoints -> SUBSET Ids] /\ o \in DOMAIN pl
      BY <1>0, <1>5 DEF Consistent
    <2>2. told' = ToldOfSpawn(told, pl, ze, ze, pl[o].zoneId, o, g)
      BY <1>1, <1>5
    <2> HIDE DEF sm, ze
    <2>3. QED
      BY <1>4, <1>5, <1>6, <1>8, <1>9, <1>10, <2>1, <2>2, NewcomerTold
  <1>12. QED
    BY <1>1, <1>3, <1>5, <1>6, <1>7, <1>8, <1>9, <1>11, <1>13 DEF Ordinary

\* A move keeps every Player in memory and takes one to another slot at most.
LEMMA MoveOrdinary ==
    ASSUME OInv, NEW e \in Endpoints, NEW to \in Positions, NEW g, Move(e, to, g)
    PROVE  /\ Ordinary(sessionMap', players', zoneEntities', told')
           /\ DOMAIN players' = DOMAIN players
           /\ sessionMap[e].playerEntity \in DOMAIN players
           /\ \A x \in DOMAIN players :
                 /\ players'[x].id = players[x].id
                 /\ players'[x].pos = IF x = sessionMap[e].playerEntity THEN to
                                      ELSE players[x].pos
  <1> DEFINE o    == sessionMap[e].playerEntity
             from == players[o]
             p    == MovedPlayer(from, to)
             pl   == [players EXCEPT ![o] = p]
             ze1  == EraseFromZone(zoneEntities, from.zoneId, p.id)
             ze   == PutInZone(ze1, p.zoneId, p.id, o)
             gone == ToldOfRemoval(told, pl, zoneEntities, zonePlayers, from.zoneId, p.id, g)
  <1>0. /\ Consistent(phase, sessionMap, players, zoneEntities, zonePlayers,
                      db, told, toDisconnect)
        /\ Ordinary(sessionMap, players, zoneEntities, told)
    BY OInvParts
  <1>1. e \in DOMAIN sessionMap /\ o # None /\ sessionMap' = sessionMap
    BY DEF Move
  <1>2. o \in DOMAIN players /\ o \in Objs /\ from \in Player
    BY <1>0, <1>1 DEF Consistent, Owns, HeapOK
  <1>3. /\ p \in Player
        /\ p.id = from.id /\ p.session = from.session
        /\ p.pos = to /\ p.zoneId = CalculateZoneId(to)
    BY <1>2, PositionZone DEF MovedPlayer, Player
  <1>4. \/ /\ p.zoneId # from.zoneId
           /\ zoneEntities' = ze
           /\ players' = Collect(pl, sessionMap, ze, ze)
           /\ told' = ToldOfSpawn(gone, pl, ze, ze, p.zoneId, o, g)
        \/ /\ p.zoneId = from.zoneId
           /\ players' = pl
           /\ UNCHANGED <<zoneEntities, told>>
    BY <1>0, <1>3 DEF Move, EnterZone, DropEntity, DropPlayer, Consistent
  <1> HIDE DEF p
  <1>5. /\ HeapOK(pl) /\ Located(pl) /\ DOMAIN pl = DOMAIN players /\ pl[o] = p
        /\ \A x \in DOMAIN players :
              /\ x # o => pl[x] = players[x]
              /\ pl[x].id = players[x].id /\ pl[x].session = players[x].session
    BY <1>0, <1>2, <1>3 DEF Consistent, HeapOK, Located
  <1> HIDE DEF pl
  <1>6. AllOwned(sessionMap, pl) /\ NoTwins(pl)
    BY <1>0, <1>5 DEF Ordinary, AllOwned, NoTwins
  <1>7. players' = pl
    BY <1>4, <1>5, <1>6, OwnedKept
  <1>8. CASE p.zoneId = from.zoneId
    <2>1. AllPlaced(zoneEntities, pl)
      BY <1>0, <1>3, <1>5, <1>8 DEF Ordinary, AllPlaced
    <2>2. ToldAmong(DOMAIN pl, told, pl)
      BY <1>0, <1>3, <1>5, <1>8 DEF Ordinary, ToldAmong
    <2>3. QED
      BY <1>1, <1>2, <1>3, <1>4, <1>5, <1>6, <1>7, <1>8, <2>1, <2>2 DEF Ordinary
  <1>9. CASE p.zoneId # from.zoneId
    <2>1. AllPlaced(ze, pl)
      <3> SUFFICES ASSUME NEW x \in DOMAIN pl
                   PROVE  InZone(ze, pl[x].zoneId, pl[x].id, x)
        BY DEF AllPlaced
      <3>1. CASE x = o
        BY <1>5, <3>1, PutLookup
      <3>2. CASE x # o
        <4>1. pl[x].id # p.id /\ pl[x] = players[x]
          BY <1>2, <1>5, <1>6, <3>2 DEF NoTwins
        <4>2. InZone(zoneEntities, pl[x].zoneId, pl[x].id, x)
          BY <1>0, <1>5, <4>1 DEF Ordinary, AllPlaced
        <4>3. QED
          BY <4>1, <4>2, EraseLookup, PutLookup
      <3>3. QED
        BY <3>1, <3>2
    <2>2. told \in [Endpoints -> SUBSET Ids] /\ ZoneMapOK(zoneEntities) /\ SessionsOK(sessionMap)
      BY <1>0 DEF Consistent
    <2>3. gone \in [Endpoints -> SUBSET Ids]
      BY <2>2, ToldTypes
    <2>4. \A x \in Endpoints : told[x] \ {p.id} \subseteq gone[x]
      BY <2>2, RemovalForgets
    <2> HIDE DEF gone
    <2>5. ToldAmong(DOMAIN pl \ {o}, gone, pl)
      <3> SUFFICES ASSUME NEW w \in DOMAIN pl \ {o}, NEW q \in DOMAIN pl \ {o},
                          w # q, pl[w].zoneId = pl[q].zoneId
                   PROVE  pl[q].id \in gone[pl[w].session]
        BY DEF ToldAmong
      <3>1. pl[q].id \in told[pl[w].session]
        BY <1>0, <1>5 DEF Ordinary, ToldAmong
      <3>2. pl[q].id # p.id
        BY <1>2, <1>5, <1>6 DEF NoTwins
      <3>3. pl[w].session \in Endpoints
        BY <1>6, <2>2, OwnedSock
      <3>4. QED
        BY <2>4, <3>1, <3>2, <3>3
    <2>6. told' = ToldOfSpawn(gone, pl, ze, ze, pl[o].zoneId, o, g) /\ o \in DOMAIN pl
      BY <1>2, <1>4, <1>5, <1>9
    <2>7. zoneEntities' = ze
      BY <1>4, <1>9
    <2> HIDE DEF ze
    <2>8. ToldAmong(DOMAIN pl, told', pl)
      BY <1>5, <1>6, <2>1, <2>2, <2>3, <2>5, <2>6, NewcomerTold
    <2>9. QED
      BY <1>1, <1>2, <1>3, <1>5, <1>6, <1>7, <2>1, <2>7, <2>8 DEF Ordinary
  <1>10. QED
    BY <1>8, <1>9

\* A connect is refused to an endpoint without a Player, so nothing is orphaned.
LEMMA ConnectRefusedOrdinary ==
    ASSUME OInv, "reconnect" \notin Faults, NEW e \in Endpoints, ConnectRefused(e)
    PROVE  /\ Ordinary(sessionMap', players', zoneEntities', told')
           /\ players' = players
  <1> DEFINE sm == Without(sessionMap, e)
             pl == Orphan(players, {e})
  <1>0. /\ Consistent(phase, sessionMap, players, zoneEntities, zonePlayers,
                      db, told, toDisconnect)
        /\ Ordinary(sessionMap, players, zoneEntities, told)
    BY OInvParts
  <1>1. \A o \in DOMAIN players : players[o].session # e
    <2> SUFFICES ASSUME NEW o \in DOMAIN players, players[o].session = e PROVE FALSE
      OBVIOUS
    <2>1. SessionAt(e).playerEntity = o
      BY <1>0 DEF Ordinary, AllOwned, SessionAt
    <2>2. o # None
      BY <1>0, GameWorldAssumption DEF Consistent, HeapOK
    <2>3. QED
      BY <2>1, <2>2 DEF ConnectRefused
  <1>2. pl = players
    BY <1>0, <1>1 DEF Orphan, Consistent, HeapOK
  <1>3. AllOwned(sm, players)
    BY <1>0, <1>1 DEF Ordinary, AllOwned, Without, Restrict
  <1>4. players' = players
    BY <1>0, <1>2, <1>3, OwnedKept DEF ConnectRefused, Consistent
  <1>5. QED
    BY <1>0, <1>3, <1>4 DEF ConnectRefused, Ordinary

\* Where the freed address still says e, one session is erased.
LEMMA OneErased ==
    ASSUME OInv, "freed_addr" \notin Faults,
           NEW e \in Endpoints, NEW x \in FreedAddr, NEW ok \in Statement, NEW g,
           DisconnectPlayer(e, x, ok, g)
    PROVE  /\ sessionMap' = Without(sessionMap, e)
           /\ players' = Collect(Orphan(players, {e}), sessionMap', zoneEntities', zonePlayers')
  <1>1. x = None /\ None \notin Endpoints
    BY GameWorldAssumption DEF FreedAddr
  <1>2. /\ DOMAIN sessionMap \subseteq Endpoints
        /\ \A o \in DOMAIN players : players[o].session \in Endpoints
    BY OInvParts DEF Consistent, SessionsOK, Ordinary, AllOwned
  <1>3. DOMAIN sessionMap \ {e, x} = DOMAIN sessionMap \ {e}
    BY <1>1, <1>2
  <1>4. Orphan(players, {e, x}) = Orphan(players, {e})
    BY <1>1, <1>2 DEF Orphan
  <1>5. QED
    BY <1>3, <1>4 DEF DisconnectPlayer, Without

\* A disconnect takes one Player out of memory, and no other.
LEMMA DisconnectRemoves ==
    ASSUME OInv, "freed_addr" \notin Faults,
           NEW e \in Endpoints, NEW x \in FreedAddr, NEW ok \in Statement, NEW g,
           DisconnectPlayer(e, x, ok, g)
    PROVE  LET o == sessionMap[e].playerEntity
           IN  /\ o \in DOMAIN players
               /\ DOMAIN players' = DOMAIN players \ {o}
               /\ \A q \in DOMAIN players' :
                     players'[q] = players[q] /\ players[q].session # e
  <1> DEFINE o  == sessionMap[e].playerEntity
             p  == players[o]
             sm == Without(sessionMap, e)
             pl == Orphan(players, {e})
             ze == EraseFromZone(zoneEntities, p.zoneId, p.id)
  <1>0. /\ Consistent(phase, sessionMap, players, zoneEntities, zonePlayers,
                      db, told, toDisconnect)
        /\ Ordinary(sessionMap, players, zoneEntities, told)
    BY OInvParts
  <1>1. e \in DOMAIN sessionMap /\ o # None /\ players' = Collect(pl, sm, ze, ze)
    BY <1>0, OneErased DEF DisconnectPlayer, DropEntity, DropPlayer, Consistent
  <1>2. o \in DOMAIN players /\ p.session = e
    BY <1>0, <1>1 DEF Consistent, Owns
  <1>3. o \notin Held(sm, ze, ze)
    <2>1. ASSUME NEW y \in DOMAIN sm PROVE sm[y].playerEntity # o
      <3>1. y \in DOMAIN sessionMap /\ y # e /\ sm[y] = sessionMap[y]
        BY DEF Without, Restrict
      <3>2. QED
        BY <1>0, <1>1, <1>2, <3>1 DEF Consistent, Owns
    <2>2. ASSUME NEW z \in DOMAIN ze, o \in Range(ze[z]) PROVE FALSE
      <3>1. PICK id : InZone(ze, z, id, o)
        BY <2>2 DEF Range, InZone
      <3>2. InZone(zoneEntities, z, id, o) /\ ~(z = p.zoneId /\ id = p.id)
        BY <3>1, EraseLookup
      <3>3. QED
        BY <1>0, <3>2 DEF Consistent, Placed
    <2>3. QED
      BY <2>1, <2>2 DEF Held
  <1>4. ASSUME NEW q \in DOMAIN players, q # o
        PROVE  q \in Held(sm, ze, ze) /\ players[q].session # e
    <2>1. /\ players[q].session \in DOMAIN sessionMap
          /\ sessionMap[players[q].session].playerEntity = q
      BY <1>0 DEF Ordinary, AllOwned
    <2>2. players[q].session # e
      BY <1>4, <2>1
    <2>3. players[q].session \in DOMAIN sm /\ sm[players[q].session].playerEntity = q
      BY <2>1, <2>2 DEF Without, Restrict
    <2>4. QED
      BY <2>2, <2>3 DEF Held
  <1>5. DOMAIN pl = DOMAIN players /\ \A q \in DOMAIN players : q # o => pl[q] = players[q]
    BY <1>0, <1>4, OrphanSame DEF Consistent
  <1> HIDE DEF pl, sm, ze
  <1>6. /\ DOMAIN players' = DOMAIN players \cap Held(sm, ze, ze)
        /\ \A q \in DOMAIN players' : players'[q] = pl[q]
    BY <1>1, <1>5 DEF Collect, Restrict
  <1>7. QED
    BY <1>2, <1>3, <1>4, <1>5, <1>6

\* Those who stay after a disconnect keep their sessions, slots and knowledge.
LEMMA DisconnectOrdinary ==
    ASSUME OInv, "freed_addr" \notin Faults,
           NEW e \in Endpoints, NEW x \in FreedAddr, NEW ok \in Statement, NEW g,
           DisconnectPlayer(e, x, ok, g)
    PROVE  Ordinary(sessionMap', players', zoneEntities', told')
  <1> DEFINE o == sessionMap[e].playerEntity
             p == players[o]
  <1>0. /\ Consistent(phase, sessionMap, players, zoneEntities, zonePlayers,
                      db, told, toDisconnect)
        /\ Ordinary(sessionMap, players, zoneEntities, told)
    BY OInvParts
  <1>1. /\ sessionMap' = Without(sessionMap, e)
        /\ zoneEntities' = EraseFromZone(zoneEntities, p.zoneId, p.id)
        /\ told' = ToldOfRemoval(told, players, zoneEntities, zonePlayers, p.zoneId, p.id, g)
    BY OneErased DEF DisconnectPlayer, DropEntity
  <1>2. /\ o \in DOMAIN players
        /\ DOMAIN players' = DOMAIN players \ {o}
        /\ \A q \in DOMAIN players' : players'[q] = players[q] /\ players[q].session # e
    BY DisconnectRemoves
  <1>3. \A q \in DOMAIN players' : players[q].id # p.id
    BY <1>0, <1>2 DEF Ordinary, NoTwins
  <1>4. AllOwned(sessionMap', players')
    BY <1>0, <1>1, <1>2 DEF Ordinary, AllOwned, Without, Restrict
  <1>5. NoTwins(players')
    BY <1>0, <1>2 DEF Ordinary, NoTwins
  <1>6. AllPlaced(zoneEntities', players')
    BY <1>0, <1>1, <1>2, <1>3, EraseLookup DEF Ordinary, AllPlaced
  <1>7. ToldAmong(DOMAIN players', told', players')
    <2> SUFFICES ASSUME NEW w \in DOMAIN players', NEW q \in DOMAIN players',
                        w # q, players[w].zoneId = players[q].zoneId
                 PROVE  players[q].id \in told'[players[w].session]
      BY <1>2 DEF ToldAmong
    <2>1. players[q].id \in told[players[w].session] /\ players[q].id # p.id
      BY <1>0, <1>2, <1>3 DEF Ordinary, ToldAmong
    <2>2. told \in [Endpoints -> SUBSET Ids] /\ players[w].session \in Endpoints
      BY <1>0, <1>2, OwnedSock DEF Consistent, Ordinary
    <2>3. told[players[w].session] \ {p.id} \subseteq told'[players[w].session]
      BY <1>1, <2>2, RemovalForgets
    <2>4. QED
      BY <2>1, <2>3
  <1>8. QED
    BY <1>4, <1>5, <1>6, <1>7 DEF Ordinary

\* The other steps leave all Players, or none.
LEMMA OtherOrdinary ==
    ASSUME OInv,
           \/ \E e \in Endpoints : DropPacket(e) \/ Heartbeat(e) \/ FallSilent(e) \/ SkipTimeout(e)
           \/ SignalSave \/ Restart \/ CollectTimeouts \/ Exit \/ Crash
           \/ UNCHANGED vars
    PROVE  /\ Ordinary(sessionMap', players', zoneEntities', told')
           /\ players' = players \/ Exit \/ Crash
  <1>0. Ordinary(sessionMap, players, zoneEntities, told)
    BY OInvParts
  <1>1. CASE Exit \/ Crash
    BY <1>1 DEF Exit, Crash, EmptyMemory, EmptyMap, Ordinary, AllOwned, NoTwins, AllPlaced,
                ToldAmong
  <1>2. ASSUME NEW e \in Endpoints, DropPacket(e)
        PROVE  Ordinary(sessionMap', players', zoneEntities', told') /\ players' = players
    BY <1>0, <1>2 DEF DropPacket, Ordinary, AllOwned, Extend, SessionAt
  <1>3. ASSUME NEW e \in Endpoints, Heartbeat(e) \/ FallSilent(e)
        PROVE  Ordinary(sessionMap', players', zoneEntities', told') /\ players' = players
    <2>1. PICK b \in BOOLEAN : sessionMap' = [sessionMap EXCEPT ![e].fresh = b]
      BY <1>3 DEF Heartbeat, FallSilent
    <2>2. SessionsOK(sessionMap)
      BY OInvParts DEF Consistent
    <2>3. /\ DOMAIN sessionMap' = DOMAIN sessionMap
          /\ \A x \in DOMAIN sessionMap : sessionMap'[x].playerEntity = sessionMap[x].playerEntity
      BY <2>1, <2>2 DEF SessionsOK, Session
    <2>4. QED
      BY <1>0, <1>3, <2>3 DEF Heartbeat, FallSilent, Ordinary, AllOwned
  <1>4. CASE \/ SignalSave \/ Restart \/ CollectTimeouts \/ UNCHANGED vars
             \/ \E e \in Endpoints : SkipTimeout(e)
    BY <1>0, <1>4 DEF SignalSave, Restart, CollectTimeouts, SkipTimeout, vars
  <1>5. QED
    BY <1>1, <1>2, <1>3, <1>4

LEMMA NextOInv ==
    ASSUME Faults \cap {"reconnect", "freed_addr"} = {}
    PROVE  OInv /\ [Next]_vars => OInv'
  <1> SUFFICES ASSUME OInv, [Next]_vars PROVE OInv'
    OBVIOUS
  <1>1. IInv'
    BY NextIInv DEF OInv
  <1>2. Ordinary(sessionMap', players', zoneEntities', told')
    BY ConnectAcceptedOrdinary, MoveOrdinary, ConnectRefusedOrdinary, DisconnectOrdinary,
       OtherOrdinary
    DEF Next, HandlePacket, HeartbeatCheck
  <1>3. QED
    BY <1>1, <1>2 DEF OInv

LEMMA OrdinaryInvariant ==
    ASSUME Faults \cap {"reconnect", "freed_addr"} = {}
    PROVE  Spec => []OInv
  <1>1. Init => OInv
    BY InitIInv DEF Init, OInv, EmptyMap, Ordinary, AllOwned, NoTwins, AllPlaced, ToldAmong
  <1>2. QED
    BY <1>1, NextOInv, PTL DEF Spec
-----------------------------------------------------------------------------
(* Theorems about connections one at a time *)

\* As long as no character connects while its Player is still there, and a disconnect
\* does not read the address of another session from the memory it has freed, no Player
\* outlives its session: a session pointer is never dangling.
THEOREM PlayersHaveSessions ==
    ASSUME Faults \cap {"reconnect", "freed_addr"} = {}
    PROVE  Spec => []PlayerHasSession
  <1>1. OInv => PlayerHasSession
    BY DEF OInv, Ordinary, AllOwned, PlayerHasSession
  <1>2. QED
    BY <1>1, OrdinaryInvariant, PTL

\* Under the same conditions the player of every session is in its zone, whatever
\* packets, failures and crashes come between.
THEOREM ConnectedAreInWorld ==
    ASSUME Faults \cap {"reconnect", "freed_addr"} = {}
    PROVE  Spec => []LiveInWorld
  <1>1. OInv => LiveInWorld
    BY DEF OInv, IInv, SessionOwnsPlayer, Ordinary, AllPlaced, LiveInWorld
  <1>2. QED
    BY <1>1, OrdinaryInvariant, PTL

\* And any two in one zone have been told of each other.
THEOREM NeighboursKnowEachOther ==
    ASSUME Faults \cap {"reconnect", "freed_addr"} = {}
    PROVE  Spec => []SameZoneTold
  <1>1. OInv => SameZoneTold
    BY DEF OInv, Ordinary, ToldAmong, SameZoneTold
  <1>2. QED
    BY <1>1, OrdinaryInvariant, PTL

\* Under these conditions the comment in ZoneManager.h is right: the zone maps miss no
\* Player of the process. (With "reconnect" they may miss even a character's only one.)
THEOREM MapsMissNobody ==
    ASSUME Faults \cap {"reconnect", "freed_addr"} = {}
    PROVE  Spec => []SolePlayerInWorld
  <1>1. OInv => SolePlayerInWorld
    BY DEF OInv, Ordinary, AllPlaced, SolePlayerInWorld
  <1>2. QED
    BY <1>1, OrdinaryInvariant, PTL
-----------------------------------------------------------------------------
(* The characters table *)

\* The table has the position of every Player in memory.
Saved(pl, d) == \A o \in DOMAIN pl : pl[o].id \in Chars => d[pl[o].id] = pl[o].pos

SInv == OInv /\ (phase = "stopping" => Saved(players, db))

\* The signal handler reaches every Player through its session, and has one position
\* for each character.
LEMMA SignalSaves ==
    ASSUME OInv, "db" \notin Faults, SignalSave
    PROVE  Saved(players, db')
  <1> DEFINE owned    == {sessionMap[e].playerEntity : e \in DOMAIN sessionMap} \ {None}
             spots(c) == {players[o].pos : o \in {x \in owned : players[x].id = c}}
             kept(c)  == IF spots(c) = {} \/ "db" \in Faults THEN {db[c]} ELSE {}
  <1> SUFFICES ASSUME NEW o \in DOMAIN players, players[o].id \in Chars
               PROVE  db'[players[o].id] = players[o].pos
    BY DEF Saved
  <1>0. /\ Consistent(phase, sessionMap, players, zoneEntities, zonePlayers,
                      db, told, toDisconnect)
        /\ Ordinary(sessionMap, players, zoneEntities, told)
    BY OInvParts
  <1>1. \A c \in Chars : db'[c] \in spots(c) \cup kept(c)
    BY DEF SignalSave
  <1>2. \A x \in owned : x \in DOMAIN players
    BY <1>0 DEF Consistent, Owns
  <1>3. o \in owned
    BY <1>0, GameWorldAssumption DEF Ordinary, AllOwned, Consistent, HeapOK
  <1>4. spots(players[o].id) = {players[o].pos}
    BY <1>0, <1>2, <1>3 DEF Ordinary, NoTwins
  <1>5. kept(players[o].id) = {}
    BY <1>4
  <1>6. QED
    BY <1>1, <1>4, <1>5

\* What a disconnect writes is where its Player was; the rows of others stay.
LEMMA DisconnectSaves ==
    ASSUME OInv, Faults \cap {"db", "freed_addr"} = {},
           NEW e \in Endpoints, NEW x \in FreedAddr, NEW ok \in Statement, NEW g,
           DisconnectPlayer(e, x, ok, g)
    PROVE  /\ \A o \in DOMAIN players \ DOMAIN players' :
                 players[o].id \in Chars => db'[players[o].id] = players[o].pos
           /\ Saved(players, db) => Saved(players', db')
  <1> DEFINE o == sessionMap[e].playerEntity
             p == players[o]
  <1>0. /\ Consistent(phase, sessionMap, players, zoneEntities, zonePlayers,
                      db, told, toDisconnect)
        /\ Ordinary(sessionMap, players, zoneEntities, told)
    BY OInvParts
  <1>1. /\ o \in DOMAIN players
        /\ DOMAIN players' = DOMAIN players \ {o}
        /\ \A q \in DOMAIN players' : players'[q] = players[q]
    BY DisconnectRemoves
  <1>2. db' = SaveToDB(db, p, TRUE) /\ db \in [Chars -> Positions]
    BY <1>0 DEF DisconnectPlayer, Statement, Consistent
  <1>3. /\ p.id \in Chars => db'[p.id] = p.pos
        /\ \A c \in Chars : c # p.id => db'[c] = db[c]
    BY <1>2 DEF SaveToDB
  <1>4. \A q \in DOMAIN players' : players[q].id # p.id
    BY <1>0, <1>1 DEF Ordinary, NoTwins
  <1>5. QED
    BY <1>1, <1>3, <1>4 DEF Saved

\* Packets are handled while the process receives, and do not end it.
LEMMA PacketsReceived ==
    ASSUME NEW e \in Endpoints, HandlePacket(e)
    PROVE  Receiving /\ phase' = phase
  <1>1. CASE DropPacket(e) \/ Heartbeat(e)
    BY <1>1 DEF DropPacket, Heartbeat
  <1>2. CASE ConnectRefused(e)
    BY <1>2 DEF ConnectRefused
  <1>3. ASSUME NEW h, NEW nonempty, NEW o, NEW ok, NEW g, ConnectAccepted(e, h, nonempty, o, ok, g)
        PROVE  Receiving /\ phase' = phase
    BY <1>3 DEF ConnectAccepted
  <1>4. ASSUME NEW to, NEW g, Move(e, to, g)
        PROVE  Receiving /\ phase' = phase
    BY <1>4 DEF Move
  <1>5. QED
    BY <1>1, <1>2, <1>3, <1>4 DEF HandlePacket

\* While the process stops nothing moves, so what the signal handler saved stays true.
LEMMA NextSInv ==
    ASSUME Faults \subseteq {"partial_hash", "crash"}
    PROVE  SInv /\ [Next]_vars => SInv'
  <1> SUFFICES ASSUME SInv, [Next]_vars, phase' = "stopping" PROVE Saved(players', db')
    BY NextOInv DEF SInv
  <1>1. CASE SignalSave
    BY <1>1, SignalSaves DEF SInv, SignalSave
  <1>2. CASE ~SignalSave
    <2>1. ~Exit /\ ~Crash /\ ~Restart
      BY DEF Exit, Crash, Restart
    <2>2. phase = "stopping"
      <3>1. ASSUME NEW e \in Endpoints, HandlePacket(e) PROVE phase' = phase
        BY <3>1, PacketsReceived
      <3>2. ASSUME NEW e \in Endpoints, FallSilent(e) PROVE phase' = phase
        BY <3>2 DEF FallSilent
      <3>3. HeartbeatCheck => phase' = phase
        BY DEF HeartbeatCheck, CollectTimeouts, SkipTimeout, DisconnectPlayer
      <3>4. QED
        BY <1>2, <2>1, <3>1, <3>2, <3>3 DEF Next, vars
    <2>3. Saved(players, db) /\ ~Receiving
      BY <2>2 DEF SInv, Receiving
    <2>4. ASSUME NEW e \in Endpoints PROVE ~HandlePacket(e)
      BY <2>3, PacketsReceived
    <2>5. \/ UNCHANGED <<players, db>>
          \/ \E e \in Endpoints : \E x \in FreedAddr, ok \in Statement, g \in Garbage : DisconnectPlayer(e, x, ok, g)
      BY <1>2, <2>1, <2>4 DEF Next, HeartbeatCheck, FallSilent, CollectTimeouts, SkipTimeout, vars
    <2>6. QED
      BY <2>3, <2>5, DisconnectSaves DEF SInv
  <1>3. QED
    BY <1>1, <1>2

\* Where no character connects twice, packets are not handled after the shutdown save,
\* the table can be written and no freed address is read as another, a Player only
\* leaves memory with its last position in the table.
THEOREM PositionsAreSaved ==
    ASSUME Faults \subseteq {"partial_hash", "crash"}
    PROVE  Spec => PositionSaved
  <1> DEFINE SavesWhoLeaves ==
                phase' # "crashed" =>
                    \A o \in DOMAIN players \ DOMAIN players' :
                        players[o].id \in Chars => db'[players[o].id] = players[o].pos
  <1>1. Init => SInv
    BY InitIInv DEF Init, SInv, OInv, EmptyMap, Ordinary, AllOwned, NoTwins, AllPlaced, ToldAmong
  <1>2. SInv /\ [Next]_vars => [SavesWhoLeaves]_vars
    <2> SUFFICES ASSUME SInv, Next, phase' # "crashed",
                        NEW o \in DOMAIN players \ DOMAIN players', players[o].id \in Chars
                 PROVE  db'[players[o].id] = players[o].pos
      OBVIOUS
    <2>1. OInv /\ Faults \cap {"reconnect", "db", "freed_addr"} = {}
      BY DEF SInv
    <2>2. CASE Exit
      BY <2>2 DEF Exit, SInv, Saved
    <2>3. ASSUME NEW e \in Endpoints, NEW x \in FreedAddr, NEW ok \in Statement, NEW g,
           DisconnectPlayer(e, x, ok, g)
          PROVE  db'[players[o].id] = players[o].pos
      BY <2>1, <2>3, DisconnectSaves
    <2>4. ASSUME NEW e \in Endpoints, HandlePacket(e) PROVE DOMAIN players \subseteq DOMAIN players'
      <3>1. ASSUME NEW h \in Hash, NEW nonempty \in BOOLEAN, NEW w \in Objs \ DOMAIN players,
                   NEW ok \in Statement, NEW g, ConnectAccepted(e, h, nonempty, w, ok, g)
            PROVE  DOMAIN players \subseteq DOMAIN players'
        <4>1. DOMAIN players' = DOMAIN players \cup {w}
          BY <2>1, <3>1, ConnectAcceptedOrdinary
        <4>2. QED
          BY <4>1
      <3>2. ASSUME NEW to \in Positions, NEW g, Move(e, to, g)
            PROVE  DOMAIN players' = DOMAIN players
        BY <2>1, <3>2, MoveOrdinary
      <3>3. QED
        BY <2>1, <2>4, <3>1, <3>2, ConnectRefusedOrdinary DEF HandlePacket, DropPacket, Heartbeat
    <2>5. ~Crash
      BY DEF Crash
    <2>6. CASE \/ SignalSave \/ Restart \/ CollectTimeouts
               \/ \E e \in Endpoints : FallSilent(e) \/ SkipTimeout(e)
      BY <2>6 DEF SignalSave, Restart, CollectTimeouts, FallSilent, SkipTimeout
    <2>7. QED
      BY <2>2, <2>3, <2>4, <2>5, <2>6 DEF Next, HeartbeatCheck
  <1>3. QED
    BY <1>1, <1>2, NextSInv, PTL DEF Spec, PositionSaved

-----------------------------------------------------------------------------
(* The abstract world *)

\* Without two Players of a character, its position is that of its Player.
LEMMA WorldOfPlayers ==
    ASSUME NEW pl, NoTwins(pl)
    PROVE  /\ \A c : c \in DOMAIN WorldOf(pl)
                        <=> c \in Chars /\ \E o \in DOMAIN pl : pl[o].id = c
           /\ WorldOf(pl) = [c \in DOMAIN WorldOf(pl) |-> WorldOf(pl)[c]]
           /\ \A o \in DOMAIN pl : pl[o].id \in Chars => WorldOf(pl)[pl[o].id] = pl[o].pos
  <1>1. ASSUME NEW o \in DOMAIN pl
        PROVE  (CHOOSE x \in DOMAIN pl : pl[x].id = pl[o].id) = o
    BY DEF NoTwins
  <1>2. QED
    BY <1>1 DEF WorldOf

\* The world of a step's successor.
LEMMA WorldPrimed == WorldOf(players)' = WorldOf(players')
  BY DEF WorldOf

\* Nobody is in an empty memory.
LEMMA NobodyInEmptyMemory == WorldOf(EmptyMap) = Abstract!Nobody
  BY DEF WorldOf, EmptyMap, Abstract!Nobody

\* Ordinary, and while the process is down no disconnection is under way.
WInv == OInv /\ (phase \in {"exited", "crashed"} => toDisconnect = {})

\* Who connects comes in where the table has it; a connect without a character
\* brings in nobody.
LEMMA ConnectEnters ==
    ASSUME OInv, Faults \subseteq {"partial_hash", "crash"},
           NEW e \in Endpoints, NEW h \in Hash, NEW nonempty \in BOOLEAN,
           NEW o \in Objs \ DOMAIN players, NEW ok \in Statement, NEW g,
           ConnectAccepted(e, h, nonempty, o, ok, g)
    PROVE  [Abstract!Next]_(Abstract!vars)
  <1> DEFINE c == players'[o].id
             W == WorldOf(players)
  <1>1. /\ NoTwins(players) /\ NoTwins(players')
        /\ DOMAIN players' = DOMAIN players \cup {o}
        /\ \A x \in DOMAIN players : players'[x] = players[x] /\ players[x].id # c
        /\ c \in Chars => players'[o].pos = db[c]
    <2>1. "reconnect" \notin Faults
      OBVIOUS
    <2>2. /\ Ordinary(sessionMap', players', zoneEntities', told')
          /\ DOMAIN players' = DOMAIN players \cup {o}
          /\ \A x \in DOMAIN players :
                players'[x] = players[x] /\ players[x].id # players'[o].id
          /\ ok /\ players'[o].id \in Chars => players'[o].pos = db[players'[o].id]
      BY <2>1, ConnectAcceptedOrdinary
    <2>3. NoTwins(players) /\ NoTwins(players')
      BY <2>2, OInvParts DEF Ordinary
    <2>4. ok
      BY DEF Statement
    <2>5. QED
      BY <2>2, <2>3, <2>4
  <1>2. phase = "running" /\ UNCHANGED <<phase, db>>
    BY DEF ConnectAccepted, Receiving
  <1>3. DOMAIN WorldOf(players') = DOMAIN W \cup ({c} \cap Chars)
    BY <1>1, WorldOfPlayers
  <1>4. \A d \in DOMAIN W : d # c /\ WorldOf(players')[d] = W[d]
    BY <1>1, WorldOfPlayers
  <1>5. CASE c \in Chars
    <2>1. WorldOf(players')[c] = db[c]
      BY <1>1, <1>5, WorldOfPlayers
    <2>2. WorldOf(players') = [d \in DOMAIN W \cup {c} |-> IF d = c THEN db[c] ELSE W[d]]
      BY <1>1, <1>3, <1>4, <1>5, <2>1, WorldOfPlayers
    <2>3. Abstract!Enter(c)
      BY <1>2, <1>4, <2>2, WorldPrimed DEF Abstract!Enter
    <2>4. QED
      BY <1>5, <2>3 DEF Abstract!Next
  <1>6. CASE c \notin Chars
    <2>1. WorldOf(players') = W
      BY <1>1, <1>3, <1>4, <1>6, WorldOfPlayers
    <2>2. QED
      BY <1>2, <2>1, WorldPrimed DEF Abstract!vars
  <1>7. QED
    BY <1>5, <1>6

\* A move is a step of one character, or of none that the table knows.
LEMMA MoveWalks ==
    ASSUME OInv, "late_packet" \notin Faults,
           NEW e \in Endpoints, NEW to \in Positions, NEW g, Move(e, to, g)
    PROVE  [Abstract!Next]_(Abstract!vars)
  <1> DEFINE o == sessionMap[e].playerEntity
             c == players[o].id
             W == WorldOf(players)
  <1>1. /\ NoTwins(players) /\ NoTwins(players')
        /\ o \in DOMAIN players /\ DOMAIN players' = DOMAIN players
        /\ \A x \in DOMAIN players :
              /\ players'[x].id = players[x].id
              /\ players'[x].pos = IF x = o THEN to ELSE players[x].pos
    BY OInvParts, MoveOrdinary DEF Ordinary
  <1>2. phase = "running" /\ UNCHANGED <<phase, db>>
    BY DEF Move, Receiving
  <1>3. DOMAIN WorldOf(players') = DOMAIN W
    BY <1>1, WorldOfPlayers
  <1>4. \A d \in DOMAIN W : WorldOf(players')[d] = IF d = c THEN to ELSE W[d]
    <2> SUFFICES ASSUME NEW x \in DOMAIN players, players[x].id \in Chars
                 PROVE  WorldOf(players')[players[x].id]
                            = IF players[x].id = c THEN to ELSE W[players[x].id]
      BY <1>1, WorldOfPlayers
    <2>1. WorldOf(players')[players[x].id] = players'[x].pos
      BY <1>1, WorldOfPlayers
    <2>2. W[players[x].id] = players[x].pos
      BY <1>1, WorldOfPlayers
    <2>3. players[x].id = c <=> x = o
      BY <1>1 DEF NoTwins
    <2>4. QED
      BY <1>1, <2>1, <2>2, <2>3
  <1>5. CASE c \in Chars
    <2>1. c \in DOMAIN W
      BY <1>1, <1>5, WorldOfPlayers
    <2>2. WorldOf(players') = [W EXCEPT ![c] = to]
      BY <1>1, <1>3, <1>4, WorldOfPlayers
    <2>3. Abstract!Walk(c, to)
      BY <1>2, <2>1, <2>2, WorldPrimed DEF Abstract!Walk
    <2>4. QED
      BY <1>5, <2>3 DEF Abstract!Next
  <1>6. CASE c \notin Chars
    <2>1. c \notin DOMAIN W
      BY <1>1, <1>6, WorldOfPlayers
    <2>2. WorldOf(players') = W
      BY <1>1, <1>3, <1>4, <2>1, WorldOfPlayers
    <2>3. QED
      BY <1>2, <2>2, WorldPrimed DEF Abstract!vars
  <1>7. QED
    BY <1>5, <1>6

\* Who is disconnected goes out and is saved where it stood.
LEMMA DisconnectLeaves ==
    ASSUME WInv, Faults \cap {"db", "freed_addr"} = {},
           NEW e \in Endpoints, NEW x \in FreedAddr, NEW ok \in Statement, NEW g,
           DisconnectPlayer(e, x, ok, g)
    PROVE  [Abstract!Next]_(Abstract!vars)
  <1> DEFINE o == sessionMap[e].playerEntity
             c == players[o].id
             W == WorldOf(players)
  <1>1. /\ o \in DOMAIN players
        /\ DOMAIN players' = DOMAIN players \ {o}
        /\ \A q \in DOMAIN players' : players'[q] = players[q]
    BY DisconnectRemoves DEF WInv
  <1>2. NoTwins(players) /\ NoTwins(players')
    BY <1>1, OInvParts DEF WInv, Ordinary, NoTwins
  <1>3. phase \in {"running", "stopping"} /\ phase' = phase
    BY OInvParts DEF WInv, DisconnectPlayer, Consistent
  <1>4. db' = SaveToDB(db, players[o], TRUE)
    BY DEF DisconnectPlayer, Statement
  <1>5. DOMAIN WorldOf(players') = DOMAIN W \ {c}
    <2>1. \A q \in DOMAIN players : players[q].id = c <=> q = o
      BY <1>1, <1>2 DEF NoTwins
    <2>2. \A d : (\E q \in DOMAIN players' : players'[q].id = d)
                    <=> d # c /\ \E q \in DOMAIN players : players[q].id = d
      BY <1>1, <2>1
    <2>3. \A d : d \in DOMAIN WorldOf(players') <=> d # c /\ d \in DOMAIN W
      <3> SUFFICES ASSUME NEW d
                   PROVE  d \in DOMAIN WorldOf(players') <=> d # c /\ d \in DOMAIN W
        OBVIOUS
      <3>1. d \in DOMAIN WorldOf(players')
              <=> d \in Chars /\ \E q \in DOMAIN players' : players'[q].id = d
        BY <1>2, WorldOfPlayers
      <3>2. d \in DOMAIN W <=> d \in Chars /\ \E q \in DOMAIN players : players[q].id = d
        BY <1>2, WorldOfPlayers
      <3>3. QED
        BY <2>2, <3>1, <3>2
    <2>4. QED
      BY <2>3
  <1>6. \A d \in DOMAIN W \ {c} : WorldOf(players')[d] = W[d]
    <2> SUFFICES ASSUME NEW q \in DOMAIN players, players[q].id \in Chars, players[q].id # c
                 PROVE  WorldOf(players')[players[q].id] = W[players[q].id]
      BY <1>2, WorldOfPlayers
    <2>1. q \in DOMAIN players' /\ players'[q] = players[q]
      BY <1>1
    <2>2. QED
      BY <1>2, <2>1, WorldOfPlayers
  <1>7. CASE c \in Chars
    <2>1. c \in DOMAIN W /\ W[c] = players[o].pos
      BY <1>1, <1>2, <1>7, WorldOfPlayers
    <2>2. WorldOf(players') = Restrict(W, DOMAIN W \ {c})
      BY <1>2, <1>5, <1>6, WorldOfPlayers DEF Restrict
    <2>3. db' = [db EXCEPT ![c] = W[c]]
      BY <1>4, <1>7, <2>1 DEF SaveToDB
    <2>4. Abstract!Leave(c)
      BY <1>3, <2>1, <2>2, <2>3, WorldPrimed DEF Abstract!Leave, Abstract!Restrict, Restrict
    <2>5. QED
      BY <1>7, <2>4 DEF Abstract!Next
  <1>8. CASE c \notin Chars
    <2>1. c \notin DOMAIN W
      BY <1>2, <1>8, WorldOfPlayers
    <2>2. WorldOf(players') = W
      BY <1>2, <1>5, <1>6, <2>1, WorldOfPlayers
    <2>3. db' = db
      BY <1>4, <1>8 DEF SaveToDB
    <2>4. QED
      BY <1>3, <2>2, <2>3, WorldPrimed DEF Abstract!vars
  <1>9. QED
    BY <1>7, <1>8

\* The signal handler writes the rows of those in the world, and no others.
LEMMA SignalStops ==
    ASSUME OInv, "db" \notin Faults, SignalSave
    PROVE  Abstract!Stop
  <1> DEFINE owned    == {sessionMap[e].playerEntity : e \in DOMAIN sessionMap} \ {None}
             spots(c) == {players[o].pos : o \in {x \in owned : players[x].id = c}}
             kept(c)  == IF spots(c) = {} \/ "db" \in Faults THEN {db[c]} ELSE {}
             W        == WorldOf(players)
  <1>0. /\ Consistent(phase, sessionMap, players, zoneEntities, zonePlayers,
                      db, told, toDisconnect)
        /\ NoTwins(players)
    BY OInvParts DEF Ordinary
  <1>1. /\ db' \in [Chars -> Positions]
        /\ \A c \in Chars : db'[c] \in spots(c) \cup kept(c)
        /\ phase = "running" /\ phase' = "stopping" /\ players' = players
    BY DEF SignalSave
  <1>2. ASSUME NEW c \in Chars, c \in DOMAIN W PROVE db'[c] = W[c]
    <2>1. PICK o \in DOMAIN players : players[o].id = c
      BY <1>0, <1>2, WorldOfPlayers
    <2>2. db'[c] = players[o].pos
      BY <2>1, SignalSaves DEF Saved
    <2>3. QED
      BY <1>0, <2>1, <2>2, WorldOfPlayers
  <1>3. ASSUME NEW c \in Chars, c \notin DOMAIN W PROVE db'[c] = db[c]
    <2>1. \A x \in owned : x \in DOMAIN players
      BY <1>0 DEF Consistent, Owns
    <2>2. spots(c) = {}
      BY <1>0, <1>3, <2>1, WorldOfPlayers
    <2>3. kept(c) = {db[c]}
      BY <2>2
    <2>4. QED
      BY <1>1, <2>2, <2>3
  <1> HIDE DEF W
  <1>4. db' = [c \in Chars |-> IF c \in DOMAIN W THEN W[c] ELSE db[c]]
    BY <1>1, <1>2, <1>3
  <1>5. QED
    BY <1>1, <1>4, WorldPrimed DEF W, Abstract!Stop

\* All other steps start or end the process, or are none of the world's.
LEMMA OthersAreUnseen ==
    ASSUME OInv, "reconnect" \notin Faults,
           \/ \E e \in Endpoints : \/ DropPacket(e) \/ ConnectRefused(e) \/ Heartbeat(e)
                                   \/ FallSilent(e) \/ SkipTimeout(e)
           \/ CollectTimeouts \/ Exit \/ Crash \/ Restart
           \/ UNCHANGED vars
    PROVE  [Abstract!Next]_(Abstract!vars)
  <1>1. CASE Exit
    <2>1. Abstract!Exit
      BY <1>1, NobodyInEmptyMemory, WorldPrimed DEF Exit, EmptyMemory, Abstract!Exit
    <2>2. QED
      BY <2>1 DEF Abstract!Next
  <1>2. CASE Crash
    <2>1. Abstract!Crash
      BY <1>2, NobodyInEmptyMemory, WorldPrimed DEF Crash, EmptyMemory, Abstract!Crash
    <2>2. QED
      BY <2>1 DEF Abstract!Next
  <1>3. CASE Restart
    <2>1. Abstract!Restart
      BY <1>3, WorldPrimed DEF Restart, Abstract!Restart
    <2>2. QED
      BY <2>1 DEF Abstract!Next
  <1>4. ASSUME NEW e \in Endpoints, ConnectRefused(e)
        PROVE  UNCHANGED <<phase, players, db>>
    BY <1>4, ConnectRefusedOrdinary DEF ConnectRefused
  <1>5. CASE \/ \E e \in Endpoints : \/ DropPacket(e) \/ ConnectRefused(e) \/ Heartbeat(e)
                                     \/ FallSilent(e) \/ SkipTimeout(e)
             \/ CollectTimeouts
             \/ UNCHANGED vars
    <2>1. UNCHANGED <<phase, players, db>>
      BY <1>4, <1>5 DEF DropPacket, Heartbeat, FallSilent, SkipTimeout, CollectTimeouts, vars
    <2>2. QED
      BY <2>1, WorldPrimed DEF Abstract!vars
  <1>6. QED
    BY <1>1, <1>2, <1>3, <1>5

\* A process that is down collects no sessions.
LEMMA NextWInv ==
    ASSUME Faults \cap {"reconnect", "freed_addr"} = {}
    PROVE  WInv /\ [Next]_vars => WInv'
  <1> SUFFICES ASSUME WInv, [Next]_vars, phase' \in {"exited", "crashed"}
               PROVE  toDisconnect' = {}
    BY NextOInv DEF WInv
  <1>1. CASE Exit \/ Crash
    BY <1>1 DEF Exit, Crash, EmptyMemory
  <1>2. CASE ~Exit /\ ~Crash
    <2>1. ~SignalSave /\ ~Restart /\ ~CollectTimeouts
      BY DEF SignalSave, Restart, CollectTimeouts
    <2>2. ASSUME NEW e \in Endpoints, HandlePacket(e) \/ FallSilent(e)
          PROVE  UNCHANGED <<phase, toDisconnect>>
      <3>1. ASSUME NEW h, NEW nonempty, NEW o, NEW ok, NEW g,
                   ConnectAccepted(e, h, nonempty, o, ok, g)
            PROVE  UNCHANGED <<phase, toDisconnect>>
        BY <3>1 DEF ConnectAccepted
      <3>2. ASSUME NEW to, NEW g, Move(e, to, g) PROVE UNCHANGED <<phase, toDisconnect>>
        BY <3>2 DEF Move
      <3>3. QED
        BY <2>2, <3>1, <3>2 DEF HandlePacket, DropPacket, ConnectRefused, Heartbeat, FallSilent
    <2>3. ASSUME NEW e \in Endpoints,
                 SkipTimeout(e) \/ \E x \in FreedAddr, ok \in Statement, g \in Garbage : DisconnectPlayer(e, x, ok, g)
          PROVE  phase' = phase /\ toDisconnect' \subseteq toDisconnect
      BY <2>3 DEF SkipTimeout, DisconnectPlayer
    <2>4. phase' = phase /\ toDisconnect' \subseteq toDisconnect
      BY <1>2, <2>1, <2>2, <2>3 DEF Next, HeartbeatCheck, vars
    <2>5. QED
      BY <2>4 DEF WInv
  <1>3. QED
    BY <1>1, <1>2

\* In the ordinary environment, and with incomplete hashes and crashes, the game server
\* is an AbstractWorld: for any endpoints, characters, heap cells, positions and zone
\* size, each of its steps is one of the abstract world or invisible in it.
THEOREM ServerImplementsWorld ==
    ASSUME Faults \subseteq {"partial_hash", "crash"}
    PROVE  Spec => ImplementsAbstractWorld
  <1>1. Init => WInv
    BY InitIInv DEF Init, WInv, OInv, EmptyMap, Ordinary, AllOwned, NoTwins, AllPlaced, ToldAmong
  <1>2. Init => Abstract!Init
    BY NobodyInEmptyMemory DEF Init, Abstract!Init
  <1>3. WInv /\ [Next]_vars => WInv'
    BY NextWInv
  <1>4. WInv /\ [Next]_vars => [Abstract!Next]_(Abstract!vars)
    <2> SUFFICES ASSUME WInv, [Next]_vars PROVE [Abstract!Next]_(Abstract!vars)
      OBVIOUS
    <2>1. OInv /\ Faults \cap {"reconnect", "late_packet", "db", "freed_addr"} = {}
      BY DEF WInv
    <2>2. SignalSave => [Abstract!Next]_(Abstract!vars)
      BY <2>1, SignalStops DEF Abstract!Next
    <2>3. QED
      BY <2>1, <2>2, ConnectEnters, MoveWalks, DisconnectLeaves, OthersAreUnseen
      DEF Next, HandlePacket, HeartbeatCheck
  <1>5. QED
    BY <1>1, <1>2, <1>3, <1>4, PTL DEF Spec, ImplementsAbstractWorld, Abstract!Spec

-----------------------------------------------------------------------------
(* Zone ids against the grid *)

\* Ids repeat every 1000 columns; the cells whose ids do not collide, neighbours
\* included, are those within 498 columns of the origin.
InRange(P) == \A p \in P : GridX(p) \in -498 .. 498

\* Within that range the id a Player carries is that of the cell it stands in, after
\* any sequence of moves and reconnects: MoveTo recomputes it with every position.
THEOREM IdsNameCells ==
    ASSUME InRange(Positions), InRange(Landmarks)
    PROVE  Spec => []ZoneIdNamesCell
  <1>1. IInv => ZoneIdNamesCell
    <2> SUFFICES ASSUME IInv, NEW o \in DOMAIN players, NEW there \in Landmarks
                 PROVE  players[o].zoneId = CalculateZoneId(there)
                            <=> /\ GridX(players[o].pos) = GridX(there)
                                /\ GridY(players[o].pos) = GridY(there)
      BY DEF ZoneIdNamesCell
    <2>1. players[o].zoneId = CalculateZoneId(players[o].pos)
      BY DEF IInv, PlacedWhereItStands
    <2>2. players[o].pos \in Positions
      BY DEF IInv, TypeOK, Player
    <2>3. players[o].pos \in Point /\ there \in Point
      BY <2>2, GameWorldAssumption
    <2>4. QED
      BY <2>1, <2>2, <2>3, ZoneIdsNameCells DEF InRange
  <1>2. QED
    BY <1>1, Invariant, PTL

\* Within that range GetNearbyZones around any position finds a Player if and only if
\* the cells touch: it misses no neighbour and admits no stranger.
THEOREM NearbyTouch ==
    ASSUME InRange(Positions), InRange(Landmarks)
    PROVE  Spec => []NearbyIsTouching
  <1>1. IInv => NearbyIsTouching
    <2> SUFFICES ASSUME IInv, NEW o \in DOMAIN players, NEW there \in Landmarks
                 PROVE  players[o].zoneId \in NearbyIds(there)
                            <=> CellsTouch(players[o].pos, there)
      BY DEF NearbyIsTouching
    <2> DEFINE here == players[o].pos
    <2>1. players[o].zoneId = CalculateZoneId(here)
      BY DEF IInv, PlacedWhereItStands
    <2>2. here \in Positions
      BY DEF IInv, TypeOK, Player
    <2>3. here \in Point /\ there \in Point
      BY <2>2, GameWorldAssumption
    <2>4. CalculateZoneId(here) \in NearbyIds(there) <=> CellsTouch(there, here)
      BY <2>2, <2>3, NearbyMatchesGrid DEF InRange
    <2>5. /\ GridX(here) \in Int /\ GridY(here) \in Int
          /\ GridX(there) \in Int /\ GridY(there) \in Int
      BY <2>3, GridType
    <2> HIDE DEF here
    <2>6. CellsTouch(there, here) <=> CellsTouch(here, there)
      BY <2>5 DEF CellsTouch
    <2>7. QED
      BY <2>1, <2>4, <2>6 DEF here
  <1>2. QED
    BY <1>1, Invariant, PTL

\* However far from the origin and whatever happened before, a Player whose cell touches
\* the one where something happens is among those GetNearbyZones finds: where ids
\* coincide, too many are told, never too few.
NoNeighbourMissed ==
    \A o \in DOMAIN players, there \in Landmarks :
        CellsTouch(players[o].pos, there) => players[o].zoneId \in NearbyIds(there)

\* GetNearbyZones misses no neighbour in any reachable state, without any range.
THEOREM NeighboursNeverMissed == Spec => []NoNeighbourMissed
  <1>1. IInv => NoNeighbourMissed
    <2> SUFFICES ASSUME IInv, NEW o \in DOMAIN players, NEW there \in Landmarks,
                        CellsTouch(players[o].pos, there)
                 PROVE  players[o].zoneId \in NearbyIds(there)
      BY DEF NoNeighbourMissed
    <2>1. players[o].zoneId = CalculateZoneId(players[o].pos)
      BY DEF IInv, PlacedWhereItStands
    <2>2. players[o].pos \in Point /\ there \in Point
      BY GameWorldAssumption DEF IInv, TypeOK, Player
    <2>3. CalculateZoneId(there) \in NearbyIds(players[o].pos)
      BY <2>2, TouchingIsNear
    <2>4. QED
      BY <2>1, <2>2, <2>3, NearnessIsSymmetric
  <1>2. QED
    BY <1>1, Invariant, PTL
=============================================================================
