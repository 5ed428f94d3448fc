------------------------ MODULE ClientEntitiesProofs ------------------------
(***************************************************************************)
(* For any ids, shards, actors and faults, the maps of the client's entity *)
(* manager stay in step with each other and with the actors in the level.  *)
(*                                                                         *)
(* The four invariants are inductive together: a despawn finds the one     *)
(* actor it has to destroy because no two entities share an actor, and the *)
(* one list it has to edit because an entity is listed nowhere else.       *)
(***************************************************************************)
EXTENDS ClientEntities, TLAPS

IInv ==
    /\ TypeOK
    /\ ShardListsExact
    /\ ActorsStandForEntities
    /\ ControlsOwnCharacter

-----------------------------------------------------------------------------
(* The lists of a shard                                                    *)

Lists == [ShardIds -> [EntityIds -> Nat]]

\* An id is listed once more in one shard.
LEMMA ListedOnce ==
    ASSUME NEW sh \in Lists, NEW s \in ShardIds, NEW id \in EntityIds
    PROVE  /\ Listed(sh, s, id) \in Lists
           /\ \A t \in ShardIds, j \in EntityIds :
                 Listed(sh, s, id)[t][j] =
                     IF t = s /\ j = id THEN sh[t][j] + 1 ELSE sh[t][j]
BY DEF Listed, Lists

\* An id is listed no more in one shard.
LEMMA UnlistedAll ==
    ASSUME NEW sh \in Lists, NEW s \in ShardIds, NEW id \in EntityIds
    PROVE  /\ Unlisted(sh, s, id) \in Lists
           /\ \A t \in ShardIds, j \in EntityIds :
                 Unlisted(sh, s, id)[t][j] = IF t = s /\ j = id THEN 0 ELSE sh[t][j]
BY DEF Unlisted, Lists

-----------------------------------------------------------------------------
(* The steps                                                               *)

LEMMA InitIInv == Init => IInv
BY ClientEntitiesAssumption
   DEF Init, IInv, TypeOK, ShardListsExact, ActorsStandForEntities,
       ControlsOwnCharacter, NoMap, NoShards

\* A spawn of an unknown id, but for what is possessed.
LEMMA RegisterKeeps ==
    ASSUME IInv, NEW id \in EntityIds, NEW t \in Types, NEW s \in ShardIds,
           NEW a \in Actors \cup {None}, Register(id, t, s, a)
    PROVE  /\ DOMAIN entities' = DOMAIN entities \cup {id}
           /\ entities' \in [DOMAIN entities' -> Info]
           /\ entities'[id] = [type |-> t, shard |-> s, actor |-> a]
           /\ \A j \in DOMAIN entities : entities'[j] = entities[j]
           /\ typed' \in [Types -> SUBSET EntityIds]
           /\ shards' \in Lists
           /\ DOMAIN actors' = IF a = None THEN DOMAIN actors ELSE DOMAIN actors \cup {a}
           /\ actors' \in [DOMAIN actors' -> EntityIds]
           /\ ShardListsExact'
           /\ ActorsStandForEntities'
<1> DEFINE info == [type |-> t, shard |-> s, actor |-> a]
<1>1. info \in Info
  BY DEF Info
<1>2. /\ DOMAIN entities' = DOMAIN entities \cup {id}
      /\ entities' \in [DOMAIN entities' -> Info]
      /\ entities'[id] = info
      /\ \A j \in DOMAIN entities : entities'[j] = entities[j]
  <2>1. entities \in [DOMAIN entities -> Info] /\ id \notin DOMAIN entities
        /\ entities' = Added(entities, id, info)
    BY DEF IInv, TypeOK, Register
  <2> HIDE DEF info
  <2>2. /\ DOMAIN Added(entities, id, info) = DOMAIN entities \cup {id}
        /\ Added(entities, id, info) \in [DOMAIN Added(entities, id, info) -> Info]
        /\ Added(entities, id, info)[id] = info
        /\ \A y \in DOMAIN entities : y # id => Added(entities, id, info)[y] = entities[y]
    BY <2>1, <1>1 DEF Added
  <2> QED
    BY <2>1, <2>2
<1>3. typed' \in [Types -> SUBSET EntityIds]
  BY DEF IInv, TypeOK, Register
<1>4. shards \in Lists /\ shards' = Listed(shards, s, id)
  BY DEF IInv, TypeOK, Register, Lists
<1>5. shards' \in Lists
  BY <1>4, ListedOnce
<1>6. ShardListsExact'
  <2> SUFFICES ASSUME NEW z \in ShardIds, NEW j \in EntityIds
               PROVE  shards'[z][j] = IF j \in DOMAIN entities' /\ entities'[j].shard = z
                                      THEN 1 ELSE 0
    BY DEF ShardListsExact
  <2>1. shards'[z][j] = IF z = s /\ j = id THEN shards[z][j] + 1 ELSE shards[z][j]
    BY <1>4, ListedOnce
  <2>2. shards[z][j] = IF j \in DOMAIN entities /\ entities[j].shard = z THEN 1 ELSE 0
    BY DEF IInv, ShardListsExact
  <2>3. id \notin DOMAIN entities /\ info.shard = s
    BY DEF Register
  <2> HIDE DEF info
  <2> QED
    BY <2>1, <2>2, <2>3, <1>2
<1>7. /\ DOMAIN actors' = IF a = None THEN DOMAIN actors ELSE DOMAIN actors \cup {a}
      /\ actors' \in [DOMAIN actors' -> EntityIds]
      /\ a # None => actors'[a] = id
      /\ \A b \in DOMAIN actors : actors'[b] = actors[b]
  <2>1. actors \in [DOMAIN actors -> EntityIds] /\ a \notin DOMAIN actors
        /\ actors' = IF a = None THEN actors ELSE Added(actors, a, id)
    BY DEF IInv, TypeOK, Register
  <2>2. CASE a = None
    BY <2>1, <2>2
  <2>3. CASE a # None
    BY <2>1, <2>3, Zenon DEF Added
  <2> QED
    BY <2>2, <2>3
<1>8. ActorsStandForEntities'
  <2>1. info.actor = a /\ id \notin DOMAIN entities /\ a \notin DOMAIN actors
    BY DEF Register
  <2> HIDE DEF info
  <2>2. ActorsStandForEntities
    BY DEF IInv
  <2>3. ASSUME NEW b \in DOMAIN actors'
        PROVE  actors'[b] \in DOMAIN entities' /\ entities'[actors'[b]].actor = b
    BY <2>1, <2>2, <1>2, <1>7 DEF ActorsStandForEntities
  <2>4. ASSUME NEW j \in DOMAIN entities', entities'[j].actor # None
        PROVE  entities'[j].actor \in DOMAIN actors' /\ actors'[entities'[j].actor] = j
    BY <2>1, <2>2, <2>4, <1>2, <1>7 DEF ActorsStandForEntities
  <2> QED
    BY <2>3, <2>4 DEF ActorsStandForEntities
<1> QED
  BY <1>2, <1>3, <1>5, <1>6, <1>7, <1>8

\* The actors of others stand for what they stood for.
LEMMA RegisterKeepsActors ==
    ASSUME IInv, NEW id \in EntityIds, NEW t \in Types, NEW s \in ShardIds,
           NEW a \in Actors \cup {None}, Register(id, t, s, a)
    PROVE  \A b \in DOMAIN actors : actors'[b] = actors[b]
<1>1. a \notin DOMAIN actors /\ actors' = IF a = None THEN actors ELSE Added(actors, a, id)
  BY DEF Register
<1> QED
  BY <1>1, Zenon DEF Added

\* What is possessed does not change, and keeps its entity.
LEMMA SamePossessed ==
    ASSUME IInv, possessed' = possessed, chosen \subseteq chosen',
           NEW G, DOMAIN entities \ {G} \subseteq DOMAIN entities',
           \A j \in DOMAIN entities \ {G} : entities'[j].type = entities[j].type,
           possessed # None => actors'[possessed] = actors[possessed] /\ actors[possessed] # G
    PROVE  ControlsOwnCharacter'
BY DEF IInv, ControlsOwnCharacter

\* Nothing is possessed after the step.
LEMMA NonePossessed == possessed' = None => ControlsOwnCharacter'
BY DEF ControlsOwnCharacter

\* A spawn of a player: one that is selected may be possessed, and nobody else is.
LEMMA SpawnPlayerKeeps ==
    ASSUME IInv, NEW id \in EntityIds, NEW s \in ShardIds, NEW a \in Actors \cup {None},
           NEW possessable \in BOOLEAN, SpawnPlayerEntity(id, s, a, possessable)
    PROVE  IInv'
<1>1. Register(id, "Player", s, a) /\ "Player" \in Types /\ UNCHANGED <<selected, chosen>>
  BY DEF SpawnPlayerEntity, Types
<1>2. /\ DOMAIN entities' = DOMAIN entities \cup {id}
      /\ entities' \in [DOMAIN entities' -> Info]
      /\ entities'[id] = [type |-> "Player", shard |-> s, actor |-> a]
      /\ \A j \in DOMAIN entities : entities'[j] = entities[j]
      /\ typed' \in [Types -> SUBSET EntityIds]
      /\ shards' \in Lists
      /\ DOMAIN actors' = IF a = None THEN DOMAIN actors ELSE DOMAIN actors \cup {a}
      /\ actors' \in [DOMAIN actors' -> EntityIds]
      /\ ShardListsExact'
      /\ ActorsStandForEntities'
  BY <1>1, RegisterKeeps
<1>3. \/ possessed' = possessed
      \/ possessed' = a /\ a # None /\ id = selected
  BY DEF SpawnPlayerEntity, IsLocal
<1>4. TypeOK'
  BY <1>1, <1>2, <1>3 DEF IInv, TypeOK, Lists
<1>5. ControlsOwnCharacter'
  <2>1. CASE possessed' = a /\ a # None /\ id = selected
    <3>1. id \in chosen
      BY <2>1, ClientEntitiesAssumption DEF IInv, TypeOK
    <3>2. actors'[a] = id
      BY <1>2, <2>1 DEF ActorsStandForEntities
    <3> QED
      BY <2>1, <3>1, <3>2, <1>1, <1>2 DEF ControlsOwnCharacter
  <2>2. CASE possessed' = possessed
    <3>1. \A b \in DOMAIN actors : actors'[b] = actors[b]
      BY <1>1, <1>2, RegisterKeepsActors
    <3>2. possessed # None => possessed \in DOMAIN actors /\ actors[possessed] \in DOMAIN entities
      BY DEF IInv, TypeOK, ControlsOwnCharacter
    <3>3. id \notin DOMAIN entities
      BY <1>1 DEF Register
    <3> QED
      BY <2>2, <3>1, <3>2, <3>3, <1>1, <1>2, SamePossessed
  <2> QED
    BY <1>3, <2>1, <2>2
<1> QED
  BY <1>2, <1>4, <1>5 DEF IInv

\* A spawn of any other kind possesses nothing.
LEMMA SpawnKeeps ==
    ASSUME IInv, NEW id \in EntityIds, NEW t \in Types, NEW s \in ShardIds,
           NEW a \in Actors \cup {None}, SpawnEntity(id, t, s, a)
    PROVE  IInv'
<1>1. Register(id, t, s, a) /\ UNCHANGED <<possessed, selected, chosen>>
  BY DEF SpawnEntity
<1>2. /\ DOMAIN entities' = DOMAIN entities \cup {id}
      /\ entities' \in [DOMAIN entities' -> Info]
      /\ entities'[id] = [type |-> t, shard |-> s, actor |-> a]
      /\ \A j \in DOMAIN entities : entities'[j] = entities[j]
      /\ typed' \in [Types -> SUBSET EntityIds]
      /\ shards' \in Lists
      /\ DOMAIN actors' = IF a = None THEN DOMAIN actors ELSE DOMAIN actors \cup {a}
      /\ actors' \in [DOMAIN actors' -> EntityIds]
      /\ ShardListsExact'
      /\ ActorsStandForEntities'
  BY <1>1, RegisterKeeps
<1>3. TypeOK'
  BY <1>1, <1>2 DEF IInv, TypeOK, Lists
<1>4. \A b \in DOMAIN actors : actors'[b] = actors[b]
  BY <1>1, RegisterKeepsActors
<1>5. possessed # None => possessed \in DOMAIN actors /\ actors[possessed] \in DOMAIN entities
  BY DEF IInv, TypeOK, ControlsOwnCharacter
<1>6. id \notin DOMAIN entities
  BY <1>1 DEF Register
<1>7. ControlsOwnCharacter'
  BY <1>1, <1>2, <1>4, <1>5, <1>6, SamePossessed
<1> QED
  BY <1>2, <1>3, <1>7 DEF IInv

\* What a despawn and a deload share: the entity goes, with its actor and its entry
\* in the list of its shard.
LEMMA RemovalKeeps ==
    ASSUME IInv, NEW id \in DOMAIN entities,
           actors' = Destroy(actors, entities[id].actor),
           possessed' = StillPossessed(actors'),
           shards' = Unlisted(shards, entities[id].shard, id),
           entities' = Dropped(entities, {id}),
           typed' \in [Types -> SUBSET EntityIds],
           UNCHANGED <<selected, chosen>>
    PROVE  IInv'
<1> DEFINE gone == entities[id].actor
<1>1. /\ DOMAIN entities' = DOMAIN entities \ {id}
      /\ entities' \in [DOMAIN entities' -> Info]
      /\ \A j \in DOMAIN entities' : entities'[j] = entities[j]
  BY DEF IInv, TypeOK, Dropped, Restrict
<1>2. /\ DOMAIN actors' = DOMAIN actors \ {gone}
      /\ actors' \in [DOMAIN actors' -> EntityIds]
      /\ \A b \in DOMAIN actors' : actors'[b] = actors[b]
  BY DEF IInv, TypeOK, Destroy, Dropped, Restrict
<1>3. id \in EntityIds /\ entities[id].shard \in ShardIds /\ shards \in Lists
  BY DEF IInv, TypeOK, Info, Lists
<1>4. shards' \in Lists
  BY <1>3, UnlistedAll
<1>5. possessed' = IF possessed \in DOMAIN actors' THEN possessed ELSE None
  BY DEF StillPossessed
<1>6. TypeOK'
  BY <1>1, <1>2, <1>4, <1>5 DEF IInv, TypeOK, Lists
<1>7. ShardListsExact'
  <2> SUFFICES ASSUME NEW z \in ShardIds, NEW j \in EntityIds
               PROVE  shards'[z][j] = IF j \in DOMAIN entities' /\ entities'[j].shard = z
                                      THEN 1 ELSE 0
    BY DEF ShardListsExact
  <2>1. shards'[z][j] = IF z = entities[id].shard /\ j = id THEN 0 ELSE shards[z][j]
    BY <1>3, UnlistedAll
  <2>2. shards[z][j] = IF j \in DOMAIN entities /\ entities[j].shard = z THEN 1 ELSE 0
    BY DEF IInv, ShardListsExact
  <2> QED
    BY <2>1, <2>2, <1>1
<1>8. \A b \in DOMAIN actors :
          actors[b] \in DOMAIN entities /\ entities[actors[b]].actor = b
  BY DEF IInv, ActorsStandForEntities
<1>9. \A j \in DOMAIN entities :
          entities[j].actor # None
              => entities[j].actor \in DOMAIN actors /\ actors[entities[j].actor] = j
  BY DEF IInv, ActorsStandForEntities
<1>10. ActorsStandForEntities'
  <2>1. ASSUME NEW b \in DOMAIN actors'
        PROVE  actors'[b] \in DOMAIN entities' /\ entities'[actors'[b]].actor = b
    <3>1. b \in DOMAIN actors /\ b # gone /\ actors'[b] = actors[b]
      BY <1>2
    <3>2. actors[b] \in DOMAIN entities /\ entities[actors[b]].actor = b /\ actors[b] # id
      BY <3>1, <1>8
    <3>3. actors[b] \in DOMAIN entities' /\ entities'[actors[b]] = entities[actors[b]]
      BY <3>2, <1>1
    <3> QED
      BY <3>1, <3>2, <3>3
  <2>2. ASSUME NEW j \in DOMAIN entities', entities'[j].actor # None
        PROVE  entities'[j].actor \in DOMAIN actors' /\ actors'[entities'[j].actor] = j
    <3>1. j \in DOMAIN entities /\ j # id /\ entities'[j] = entities[j]
      BY <1>1
    <3>2. entities[j].actor # None
      BY <2>2, <3>1
    <3>3. entities[j].actor \in DOMAIN actors /\ actors[entities[j].actor] = j
      BY <3>1, <3>2, <1>9
    <3>4. entities[j].actor # gone
      BY <3>1, <3>2, <3>3, <1>9
    <3> QED
      BY <3>1, <3>3, <3>4, <1>2
  <2> QED
    BY <2>1, <2>2 DEF ActorsStandForEntities
<1>11. ControlsOwnCharacter'
  <2>1. CASE possessed' = None
    BY <2>1, NonePossessed
  <2>2. CASE possessed' # None
    <3>1. possessed' = possessed /\ possessed \in DOMAIN actors'
      BY <2>2, <1>5
    <3>2. possessed \in DOMAIN actors /\ possessed # gone /\ actors'[possessed] = actors[possessed]
      BY <3>1, <1>2
    <3>3. actors[possessed] # id
      BY <3>2, <1>8
    <3> QED
      BY <3>1, <3>2, <3>3, <1>1, SamePossessed
  <2> QED
    BY <2>1, <2>2
<1> QED
  BY <1>6, <1>7, <1>10, <1>11 DEF IInv

\* A selection: more is chosen, and nothing else that is named below changes.
LEMMA SelectKeeps ==
    ASSUME IInv, NEW id \in EntityIds, SelectCharacter(id)
    PROVE  IInv'
<1>1. /\ selected' = id /\ chosen' = chosen \cup {id}
      /\ UNCHANGED <<entities, typed, shards, actors, possessed>>
  BY DEF SelectCharacter
<1>2. TypeOK'
  BY <1>1 DEF IInv, TypeOK
<1>3. ShardListsExact' /\ ActorsStandForEntities' /\ ControlsOwnCharacter'
  BY <1>1 DEF IInv, ShardListsExact, ActorsStandForEntities, ControlsOwnCharacter
<1> QED
  BY <1>2, <1>3 DEF IInv

LEMMA DespawnKeeps ==
    ASSUME IInv, NEW id \in EntityIds, DespawnEntity(id)
    PROVE  IInv'
<1>1. typed' \in [Types -> SUBSET EntityIds]
  BY DEF IInv, TypeOK, DespawnEntity, Untyped
<1> QED
  BY <1>1, RemovalKeeps DEF DespawnEntity

LEMMA DeloadKeeps ==
    ASSUME IInv, NEW id \in EntityIds, DeloadEntity(id)
    PROVE  IInv'
<1>1. typed' \in [Types -> SUBSET EntityIds]
  BY DEF IInv, TypeOK, DeloadEntity
<1> QED
  BY <1>1, RemovalKeeps DEF DeloadEntity

\* The id leaves one list and enters another; no map but that of the shards and the
\* shard of the entity change.
LEMMA SetShardKeeps ==
    ASSUME IInv, NEW id \in EntityIds, NEW s \in ShardIds, SetEntityShard(id, s)
    PROVE  IInv'
<1> DEFINE from == entities[id].shard
<1>1. /\ id \in DOMAIN entities /\ from \in ShardIds /\ s # from
      /\ shards \in Lists /\ UNCHANGED <<typed, actors, possessed, selected, chosen>>
  BY DEF IInv, TypeOK, Info, Lists, SetEntityShard
<1>2. /\ DOMAIN entities' = DOMAIN entities
      /\ entities' \in [DOMAIN entities' -> Info]
      /\ \A j \in DOMAIN entities :
            /\ entities'[j].type = entities[j].type
            /\ entities'[j].actor = entities[j].actor
            /\ entities'[j].shard = IF j = id THEN s ELSE entities[j].shard
  BY DEF IInv, TypeOK, Info, SetEntityShard
<1> HIDE DEF from
<1>3. Unlisted(shards, from, id) \in Lists
      /\ shards' = Listed(Unlisted(shards, from, id), s, id)
  BY <1>1, UnlistedAll DEF SetEntityShard, Resharded, from
<1>4. shards' \in Lists
  BY <1>3, ListedOnce
<1>5. TypeOK'
  BY <1>1, <1>2, <1>4 DEF IInv, TypeOK, Lists
<1>6. ShardListsExact'
  <2> SUFFICES ASSUME NEW z \in ShardIds, NEW j \in EntityIds
               PROVE  shards'[z][j] = IF j \in DOMAIN entities' /\ entities'[j].shard = z
                                      THEN 1 ELSE 0
    BY DEF ShardListsExact
  <2>1. shards'[z][j] = IF z = s /\ j = id THEN Unlisted(shards, from, id)[z][j] + 1
                        ELSE Unlisted(shards, from, id)[z][j]
    BY <1>3, ListedOnce
  <2>2. Unlisted(shards, from, id)[z][j] = IF z = from /\ j = id THEN 0 ELSE shards[z][j]
    BY <1>1, UnlistedAll
  <2>3. shards[z][j] = IF j \in DOMAIN entities /\ entities[j].shard = z THEN 1 ELSE 0
    BY DEF IInv, ShardListsExact
  <2>4. CASE j = id
    BY <2>1, <2>2, <2>3, <2>4, <1>1, <1>2 DEF from
  <2>5. CASE j # id
    BY <2>1, <2>2, <2>3, <2>5, <1>2
  <2> QED
    BY <2>4, <2>5
<1>7. ActorsStandForEntities'
  BY <1>1, <1>2 DEF IInv, ActorsStandForEntities
<1>8. ControlsOwnCharacter'
  BY <1>1, <1>2 DEF IInv, TypeOK, ControlsOwnCharacter
<1> QED
  BY <1>5, <1>6, <1>7, <1>8 DEF IInv

\* Every actor is that of some entity, so that none is left.
LEMMA ClearAllKeeps == IInv /\ ClearAllEntities => IInv'
<1> SUFFICES ASSUME IInv, ClearAllEntities
             PROVE  IInv'
  OBVIOUS
<1>1. /\ DOMAIN entities' = {} /\ entities' \in [{} -> Info]
      /\ typed' = [t \in Types |-> {}] /\ shards' = NoShards
  BY DEF ClearAllEntities, NoMap
<1>2. DOMAIN actors' = {} /\ actors' \in [{} -> EntityIds]
  <2>1. \A b \in DOMAIN actors : b \in {entities[id].actor : id \in DOMAIN entities}
    BY DEF IInv, ActorsStandForEntities
  <2>2. actors' = [b \in DOMAIN actors \ {entities[id].actor : id \in DOMAIN entities}
                      |-> actors[b]]
    BY DEF ClearAllEntities, Dropped, Restrict
  <2>3. DOMAIN actors \ {entities[id].actor : id \in DOMAIN entities} = {}
    BY <2>1
  <2> QED
    BY <2>2, <2>3
<1>3. possessed' = None
  BY <1>2 DEF ClearAllEntities, StillPossessed
<1>4. TypeOK'
  <2>1. chosen' \subseteq EntityIds /\ selected' \in chosen' \cup {Nobody}
    BY DEF IInv, TypeOK, ClearAllEntities
  <2> QED
    BY <1>1, <1>2, <1>3, <2>1 DEF TypeOK, NoShards
<1>5. ShardListsExact' /\ ActorsStandForEntities' /\ ControlsOwnCharacter'
  BY <1>1, <1>2, <1>3
     DEF ShardListsExact, ActorsStandForEntities, ControlsOwnCharacter, NoShards
<1> QED
  BY <1>4, <1>5 DEF IInv

\* The one entity of the actor loses it, and nobody else.
LEMMA ActorDiesKeeps ==
    ASSUME IInv, NEW a \in Actors, ActorDies(a)
    PROVE  IInv'
<1>1. a \in DOMAIN actors /\ UNCHANGED <<typed, shards, selected, chosen>>
  BY DEF ActorDies
<1>2. /\ DOMAIN entities' = DOMAIN entities
      /\ entities' \in [DOMAIN entities' -> Info]
      /\ \A j \in DOMAIN entities :
            /\ entities'[j].type = entities[j].type
            /\ entities'[j].shard = entities[j].shard
            /\ entities'[j].actor = IF entities[j].actor = a THEN None ELSE entities[j].actor
  <2> DEFINE after(j) == IF entities[j].actor = a THEN [entities[j] EXCEPT !.actor = None]
                         ELSE entities[j]
  <2>1. entities' = [j \in DOMAIN entities |-> after(j)]
    BY DEF ActorDies
  <2>2. \A j \in DOMAIN entities : entities[j] \in Info
    BY DEF IInv, TypeOK
  <2>3. \A j \in DOMAIN entities :
            /\ after(j) \in Info
            /\ after(j).type = entities[j].type /\ after(j).shard = entities[j].shard
            /\ after(j).actor = IF entities[j].actor = a THEN None ELSE entities[j].actor
    BY <2>2 DEF Info
  <2> HIDE DEF after
  <2> QED
    BY <2>1, <2>3
<1>3. /\ DOMAIN actors' = DOMAIN actors \ {a}
      /\ actors' \in [DOMAIN actors' -> EntityIds]
      /\ \A b \in DOMAIN actors' : actors'[b] = actors[b]
  BY DEF IInv, TypeOK, ActorDies, Dropped, Restrict
<1>4. possessed' = IF possessed \in DOMAIN actors' THEN possessed ELSE None
  BY DEF ActorDies, StillPossessed
<1>5. TypeOK'
  BY <1>1, <1>2, <1>3, <1>4 DEF IInv, TypeOK
<1>6. ShardListsExact'
  BY <1>1, <1>2 DEF IInv, ShardListsExact
<1>7. ActorsStandForEntities'
  <2>1. ActorsStandForEntities
    BY DEF IInv
  <2>2. ASSUME NEW b \in DOMAIN actors'
        PROVE  actors'[b] \in DOMAIN entities' /\ entities'[actors'[b]].actor = b
    BY <2>1, <1>2, <1>3 DEF ActorsStandForEntities
  <2>3. ASSUME NEW j \in DOMAIN entities', entities'[j].actor # None
        PROVE  entities'[j].actor \in DOMAIN actors' /\ actors'[entities'[j].actor] = j
    BY <2>1, <2>3, <1>2, <1>3 DEF ActorsStandForEntities
  <2> QED
    BY <2>2, <2>3 DEF ActorsStandForEntities
<1>8. ControlsOwnCharacter'
  <2>1. CASE possessed' = None
    BY <2>1, NonePossessed
  <2>2. CASE possessed' # None
    <3>1. possessed' = possessed /\ possessed \in DOMAIN actors'
      BY <2>2, <1>4
    <3>2. actors'[possessed] = actors[possessed]
      BY <3>1, <1>3
    <3> QED
      BY <3>1, <3>2, <1>1, <1>2 DEF IInv, ControlsOwnCharacter
  <2> QED
    BY <2>1, <2>2
<1> QED
  BY <1>5, <1>6, <1>7, <1>8 DEF IInv

LEMMA NextKeeps == IInv /\ [Next]_vars => IInv'
<1> SUFFICES ASSUME IInv, [Next]_vars
             PROVE  IInv'
  OBVIOUS
<1>1. ASSUME NEW id \in EntityIds, NEW s \in ShardIds, NEW a \in Actors \cup {None},
             NEW possessable \in BOOLEAN, SpawnPlayerEntity(id, s, a, possessable)
      PROVE  IInv'
  BY <1>1, SpawnPlayerKeeps
<1>2. ASSUME NEW id \in EntityIds, NEW s \in ShardIds, NEW a \in Actors \cup {None},
             NEW t \in Types, SpawnEntity(id, t, s, a)
      PROVE  IInv'
  BY <1>2, SpawnKeeps
<1>3. ASSUME NEW id \in EntityIds, DespawnEntity(id)
      PROVE  IInv'
  BY <1>3, DespawnKeeps
<1>4. ASSUME NEW id \in EntityIds, NEW s \in ShardIds, SetEntityShard(id, s)
      PROVE  IInv'
  BY <1>4, SetShardKeeps
<1>5. ASSUME NEW id \in EntityIds, DeloadEntity(id)
      PROVE  IInv'
  BY <1>5, DeloadKeeps
<1>6. CASE ClearAllEntities
  BY <1>6, ClearAllKeeps
<1>7. ASSUME NEW a \in Actors, ActorDies(a)
      PROVE  IInv'
  BY <1>7, ActorDiesKeeps
<1>8. CASE UNCHANGED vars
  BY <1>8 DEF vars, IInv, TypeOK, ShardListsExact, ActorsStandForEntities,
              ControlsOwnCharacter
<1>9. ASSUME NEW id \in EntityIds, SelectCharacter(id)
      PROVE  IInv'
  BY <1>9, SelectKeeps
<1> QED
  BY <1>1, <1>2, <1>3, <1>4, <1>5, <1>6, <1>7, <1>8, <1>9 DEF Next

LEMMA Inductive == Spec => []IInv
<1> QED
  BY InitIInv, NextKeeps, PTL DEF Spec

-----------------------------------------------------------------------------
(* The theorems                                                            *)

\* The maps have the types the code gives them, and the controller possesses a
\* live actor or none.
THEOREM TypeCorrect == Spec => []TypeOK
<1>1. IInv => TypeOK
  BY DEF IInv
<1> QED
  BY <1>1, Inductive, PTL

\* Actors in the level and entities that have one correspond one to one: every
\* removal destroys the actor it ought to, also after the engine took some away.
THEOREM ActorsMatchEntities == Spec => []ActorsStandForEntities
<1>1. IInv => ActorsStandForEntities
  BY DEF IInv
<1> QED
  BY <1>1, Inductive, PTL

\* SelectedCharacterId is compared when a player is spawned and never again: whatever
\* is selected, spawned, destroyed and cleared later, the controller possesses nothing
\* but the actor of a known player that was selected since the last login.
THEOREM OwnCharacterControlled == Spec => []ControlsOwnCharacter
<1>1. IInv => ControlsOwnCharacter
  BY DEF IInv
<1> QED
  BY <1>1, Inductive, PTL

\* What a step does to the maps of the types, as far as the two properties need it:
\* the first half holds for all steps, the second for all but a deload.
LEMMA NextKeepsTypes ==
    ASSUME IInv, [Next]_vars
    PROVE  /\ KnownByType => KnownByType'
           /\ "deload" \notin Faults => (TypeMapsExact => TypeMapsExact')
<1>0. /\ DOMAIN entities \subseteq EntityIds
      /\ \A id \in DOMAIN entities : entities[id] \in Info
      /\ typed \in [Types -> SUBSET EntityIds]
  BY DEF IInv, TypeOK
<1>1. ASSUME NEW id \in EntityIds, NEW t \in Types, NEW s \in ShardIds,
             NEW a \in Actors \cup {None}, Register(id, t, s, a)
      PROVE  (KnownByType => KnownByType') /\ (TypeMapsExact => TypeMapsExact')
  <2>1. /\ id \notin DOMAIN entities
        /\ DOMAIN entities' = DOMAIN entities \cup {id}
        /\ entities'[id].type = t
        /\ \A j \in DOMAIN entities : entities'[j] = entities[j]
    BY <1>1 DEF Register, Added
  <2>2. \A u \in Types : typed'[u] = IF u = t THEN typed[u] \cup {id} ELSE typed[u]
    BY <1>0, <1>1 DEF Register
  <2>3. KnownByType => KnownByType'
    BY <1>0, <2>1, <2>2 DEF KnownByType, Info
  <2>4. TypeMapsExact => TypeMapsExact'
    <3> SUFFICES ASSUME TypeMapsExact, NEW u \in Types, NEW j
                 PROVE  j \in typed'[u]
                            <=> j \in DOMAIN entities' /\ entities'[j].type = u
      BY DEF TypeMapsExact
    <3>1. j \in typed[u] <=> j \in DOMAIN entities /\ entities[j].type = u
      BY DEF TypeMapsExact
    <3> QED
      BY <2>1, <2>2, <3>1
  <2> QED
    BY <2>3, <2>4
<1>2. ASSUME NEW id \in EntityIds, DespawnEntity(id)
      PROVE  (KnownByType => KnownByType') /\ (TypeMapsExact => TypeMapsExact')
  <2>1. /\ id \in DOMAIN entities
        /\ DOMAIN entities' = DOMAIN entities \ {id}
        /\ \A j \in DOMAIN entities' : entities'[j] = entities[j]
    BY <1>2 DEF DespawnEntity, Dropped, Restrict
  <2>2. \A u \in Types : typed'[u] = IF u = entities[id].type THEN typed[u] \ {id} ELSE typed[u]
    BY <1>0, <1>2 DEF DespawnEntity, Untyped
  <2>3. KnownByType => KnownByType'
    BY <1>0, <2>1, <2>2 DEF KnownByType, Info
  <2>4. TypeMapsExact => TypeMapsExact'
    <3> SUFFICES ASSUME TypeMapsExact, NEW u \in Types, NEW j
                 PROVE  j \in typed'[u]
                            <=> j \in DOMAIN entities' /\ entities'[j].type = u
      BY DEF TypeMapsExact
    <3>1. j \in typed[u] <=> j \in DOMAIN entities /\ entities[j].type = u
      BY DEF TypeMapsExact
    <3> QED
      BY <2>1, <2>2, <3>1
  <2> QED
    BY <2>3, <2>4
<1>3. ASSUME NEW id \in EntityIds, DeloadEntity(id)
      PROVE  "deload" \in Faults /\ (KnownByType => KnownByType')
  BY <1>3 DEF DeloadEntity, Dropped, Restrict, KnownByType
<1>4. CASE ClearAllEntities
  BY <1>4 DEF ClearAllEntities, NoMap, KnownByType, TypeMapsExact
<1>5. ASSUME \/ \E id \in EntityIds, s \in ShardIds : SetEntityShard(id, s)
             \/ \E id \in EntityIds : SelectCharacter(id)
             \/ \E a \in Actors : ActorDies(a)
             \/ UNCHANGED vars
      PROVE  (KnownByType => KnownByType') /\ (TypeMapsExact => TypeMapsExact')
  <2>1. /\ typed' = typed
        /\ DOMAIN entities' = DOMAIN entities
        /\ \A j \in DOMAIN entities : entities'[j].type = entities[j].type
    <3>1. ASSUME NEW id \in EntityIds, NEW s \in ShardIds, SetEntityShard(id, s)
          PROVE  /\ typed' = typed
                 /\ DOMAIN entities' = DOMAIN entities
                 /\ \A j \in DOMAIN entities : entities'[j].type = entities[j].type
      BY <1>0, <3>1 DEF SetEntityShard, Info
    <3>2. ASSUME NEW a \in Actors, ActorDies(a)
          PROVE  /\ typed' = typed
                 /\ DOMAIN entities' = DOMAIN entities
                 /\ \A j \in DOMAIN entities : entities'[j].type = entities[j].type
      BY <1>0, <3>2 DEF ActorDies, Info
    <3> QED
      BY <1>5, <3>1, <3>2 DEF SelectCharacter, vars
  <2> QED
    BY <2>1 DEF KnownByType, TypeMapsExact
<1> QED
  BY <1>1, <1>2, <1>3, <1>4, <1>5 DEF Next, SpawnPlayerEntity, SpawnEntity, Types

\* Spawns, despawns, deloads and shard changes list an id once in the shard of its
\* entity and nowhere else, and the map of a type never misses a known entity of that
\* type, whatever they follow.
THEOREM MapsInStep == Spec => []MapsAgree
<1>1. Init => KnownByType
  BY DEF Init, KnownByType, NoMap
<1>2. IInv /\ KnownByType /\ [Next]_vars => KnownByType'
  BY NextKeepsTypes
<1>3. IInv /\ KnownByType => MapsAgree
  BY DEF IInv, MapsAgree
<1> QED
  BY <1>1, <1>2, <1>3, Inductive, PTL DEF Spec

\* As long as DeloadEntity is not called, which leaves its id in the map, each map of
\* a type has the known entities of that type and no others.
THEOREM TypesListEntities ==
    ASSUME "deload" \notin Faults
    PROVE  Spec => []TypeMapsExact
<1>1. Init => TypeMapsExact
  BY DEF Init, TypeMapsExact, NoMap
<1>2. IInv /\ TypeMapsExact /\ [Next]_vars => TypeMapsExact'
  BY NextKeepsTypes
<1> QED
  BY <1>1, <1>2, Inductive, PTL DEF Spec
=============================================================================
