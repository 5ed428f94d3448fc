--------------------------- MODULE ClientEntities ---------------------------
(***************************************************************************)
(* The Unreal client's picture of the world (NetworkedEntityManager.cpp):  *)
(* one map of everything it knows, one map per type, the ids listed by     *)
(* shard (the server's zone), and the actor that stands for each entity in *)
(* the level.  The maps are kept in step by hand.                          *)
(*                                                                         *)
(* Everything runs on the game thread, one call at a time.  Location,      *)
(* animation and display names are left out, and with them MoveEntity: a   *)
(* spawn of a known player only moves it.  So is the order of the ids in a *)
(* shard, which nobody reads: how often an id is listed is not.  And so is *)
(* SpawnedActors, which only keeps the garbage collector off the actors:   *)
(* no operation reads it, and DespawnEntity takes nothing out of it, since *)
(* the weak pointer gives null once Destroy has run.                       *)
(***************************************************************************)
EXTENDS Integers, Functions

CONSTANTS
    EntityIds, \* server entity ids, one space for all types
    ShardIds,  \* zone ids the server puts in spawn packets
    Actors,    \* actors the level can hold; bounds how many live at once
    None,      \* no actor
    Nobody,    \* the SelectedCharacterId of a client that has selected none: -1
    Faults     \* what may happen beyond the ordinary

FaultKinds ==
    { "no_actor",     \* the actor class is not set, or the level refuses the actor
      "no_pawn",      \* there is no controller yet, or the actor is not a pawn
      "level_change", \* the engine destroys an actor
      "deload" }      \* DeloadEntity is called

ASSUME ClientEntitiesAssumption ==
    /\ Nobody \notin EntityIds
    /\ None \notin Actors
    /\ Faults \subseteq FaultKinds

Types == {"Player", "Mob", "NPC", "Item"}

VARIABLES
    entities, \* Entities: id -> info, for the ids that are known
    typed,    \* PlayerEntities, MobEntities, NPCEntities, ItemEntities: their ids
    shards,   \* ShardEntities: shard -> id -> how often it is listed
    actors,   \* live actor -> the id it was spawned for
    possessed, \* the actor the player controller possesses
    selected, \* SelectedCharacterId
    chosen    \* history: what was selected since the last clear, or still was at it

vars == <<entities, typed, shards, actors, possessed, selected, chosen>>

Info == [type : Types, shard : ShardIds, actor : Actors \cup {None}]

NoMap == [x \in {} |-> x]

NoShards == [s \in ShardIds |-> [id \in EntityIds |-> 0]]

Added(f, x, v) == [y \in DOMAIN f \cup {x} |-> IF y = x THEN v ELSE f[y]]
Dropped(f, S) == Restrict(f, DOMAIN f \ S)

Init ==
    /\ entities = NoMap
    /\ typed = [t \in Types |-> {}]
    /\ shards = NoShards
    /\ actors = NoMap
    /\ possessed = None
    /\ selected = Nobody
    /\ chosen = {}

-----------------------------------------------------------------------------
(* The maps                                                                *)

\* TArray::Add.
Listed(sh, s, id) == [sh EXCEPT ![s][id] = @ + 1]

\* TArray::Remove takes out every occurrence.
Unlisted(sh, s, id) == [sh EXCEPT ![s][id] = 0]

\* Mutant: the two shards change places.
ReshardedBackwards(sh, id, from, to) ==
    [sh EXCEPT ![to][id] = @ - 1, ![from][id] = @ + 1]
\* Mutant: the id stays in the list of the shard it leaves.
ReshardedTwice(sh, id, from, to) == Listed(sh, to, id)
Resharded(sh, id, from, to) == Listed(Unlisted(sh, from, id), to, id)

Untyped(ty, t, id) == [ty EXCEPT ![t] = @ \ {id}]

\* Destroy, on the actor of an entity if it still has one.
\* Mutant: nothing is destroyed.
DestroyForgotten(as, a) == as
Destroy(as, a) == Dropped(as, {a})

\* Whether a new player is the one behind this keyboard.
\* Mutant: the controller goes to every new player.
EveryoneIsLocal(id) == TRUE
IsLocal(id) == id = selected

\* A pawn that is destroyed is no longer possessed.
StillPossessed(as) == IF possessed \in DOMAIN as THEN possessed ELSE None

\* SpawnEntity of an id that is not known; a is None when there is no actor.
Register(id, t, s, a) ==
    /\ id \notin DOMAIN entities
    /\ a \notin DOMAIN actors
    /\ a = None => "no_actor" \in Faults
    /\ entities' = Added(entities, id, [type |-> t, shard |-> s, actor |-> a])
    /\ typed' = [typed EXCEPT ![t] = @ \cup {id}]
    /\ shards' = Listed(shards, s, id)
    /\ actors' = IF a = None THEN actors ELSE Added(actors, a, id)

-----------------------------------------------------------------------------
(* Operations                                                              *)

\* Login and character list are over, or Blueprint calls it again: the id is kept
\* whether the packet can be sent or not.
SelectCharacter(id) ==
    /\ selected' = id
    /\ chosen' = chosen \cup {id}
    /\ UNCHANGED <<entities, typed, shards, actors, possessed>>

\* S_PlayerSpawn of an unknown id (of a known one: only MoveEntity).  Without a
\* controller or a pawn the actor stands in the level and nobody possesses it.
SpawnPlayerEntity(id, s, a, possessable) ==
    /\ possessable \/ "no_pawn" \in Faults
    /\ Register(id, "Player", s, a)
    /\ possessed' = IF IsLocal(id) /\ possessable /\ a # None THEN a ELSE possessed
    /\ UNCHANGED <<selected, chosen>>

\* S_MobSpawn, S_NPCSpawn, S_ItemSpawn of an unknown id, and a call of SpawnEntity
\* from Blueprint, which may be for a player, the own character too.
SpawnEntity(id, t, s, a) ==
    /\ Register(id, t, s, a)
    /\ UNCHANGED <<possessed, selected, chosen>>

\* The despawn packets, whatever type they are for.
DespawnEntity(id) ==
    LET info == entities[id]
    IN  /\ id \in DOMAIN entities
        /\ actors' = Destroy(actors, info.actor)
        /\ possessed' = StillPossessed(actors')
        /\ shards' = Unlisted(shards, info.shard, id)
        /\ typed' = Untyped(typed, info.type, id)
        /\ entities' = Dropped(entities, {id})
        /\ UNCHANGED <<selected, chosen>>

SetEntityShard(id, s) ==
    /\ id \in DOMAIN entities
    /\ s # entities[id].shard
    /\ shards' = Resharded(shards, id, entities[id].shard, s)
    /\ entities' = [entities EXCEPT ![id].shard = s]
    /\ UNCHANGED <<typed, actors, possessed, selected, chosen>>

\* As DespawnEntity, without the map of the type.
DeloadEntity(id) ==
    LET info == entities[id]
    IN  /\ "deload" \in Faults
        /\ id \in DOMAIN entities
        /\ actors' = Destroy(actors, info.actor)
        /\ possessed' = StillPossessed(actors')
        /\ shards' = Unlisted(shards, info.shard, id)
        /\ entities' = Dropped(entities, {id})
        /\ UNCHANGED <<typed, selected, chosen>>

\* On every login.  The character selected before it stays selected.
ClearAllEntities ==
    /\ entities' = NoMap
    /\ typed' = [t \in Types |-> {}]
    /\ shards' = NoShards
    /\ actors' = Dropped(actors, {entities[id].actor : id \in DOMAIN entities})
    /\ possessed' = StillPossessed(actors')
    /\ chosen' = chosen \cap {selected}
    /\ UNCHANGED selected

\* The engine takes an actor away; the manager's weak pointer turns invalid.
ActorDies(a) ==
    /\ "level_change" \in Faults
    /\ a \in DOMAIN actors
    /\ actors' = Dropped(actors, {a})
    /\ possessed' = StillPossessed(actors')
    /\ entities' =
          [id \in DOMAIN entities |->
              IF entities[id].actor = a THEN [entities[id] EXCEPT !.actor = None]
              ELSE entities[id]]
    /\ UNCHANGED <<typed, shards, selected, chosen>>

Next ==
    \/ \E id \in EntityIds :
          \/ SelectCharacter(id)
          \/ \E s \in ShardIds, a \in Actors \cup {None} :
                \/ \E possessable \in BOOLEAN : SpawnPlayerEntity(id, s, a, possessable)
                \/ \E t \in Types : SpawnEntity(id, t, s, a)
          \/ DespawnEntity(id)
          \/ \E s \in ShardIds : SetEntityShard(id, s)
          \/ DeloadEntity(id)
    \/ ClearAllEntities
    \/ \E a \in Actors : ActorDies(a)

Spec == Init /\ [][Next]_vars

-----------------------------------------------------------------------------
(* Properties                                                              *)

\* Every variable has the type the code gives it.
TypeOK ==
    /\ DOMAIN entities \subseteq EntityIds
    /\ entities \in [DOMAIN entities -> Info]
    /\ typed \in [Types -> SUBSET EntityIds]
    /\ shards \in [ShardIds -> [EntityIds -> Nat]]
    /\ DOMAIN actors \subseteq Actors
    /\ actors \in [DOMAIN actors -> EntityIds]
    /\ possessed \in DOMAIN actors \cup {None}
    /\ chosen \subseteq EntityIds
    /\ selected \in chosen \cup {Nobody}

\* An entity is listed once in its own shard and in no other, and no shard lists
\* what is not known: the lists are edited in four places and never rebuilt.
ShardListsExact ==
    \A s \in ShardIds, id \in EntityIds :
        shards[s][id] = IF id \in DOMAIN entities /\ entities[id].shard = s THEN 1 ELSE 0

\* Every actor in the level stands for one known entity, the one it was spawned
\* for, and no two entities share one: a despawn, a deload and a login leave nobody
\* behind in the level.
ActorsStandForEntities ==
    /\ \A a \in DOMAIN actors :
        actors[a] \in DOMAIN entities /\ entities[actors[a]].actor = a
    /\ \A id \in DOMAIN entities :
        LET a == entities[id].actor
        IN  a # None => a \in DOMAIN actors /\ actors[a] = id

\* What the player controls stands for a known player entity, one it selected since
\* the entities were last cleared: never another player's, nor a thing that came to
\* have the id later, in whatever order selections, spawns and clears arrive.
ControlsOwnCharacter ==
    possessed # None =>
        LET id == actors[possessed]
        IN  /\ id \in chosen \cap DOMAIN entities
            /\ entities[id].type = "Player"

\* Whatever is known is found in the map of its type, though ids are used again for
\* other types and a deload forgets that map.
KnownByType == \A id \in DOMAIN entities : id \in typed[entities[id].type]

\* The maps beside Entities agree with it.
MapsAgree == ShardListsExact /\ KnownByType

\* Without deloads a map of a type has the known entities of that type and no others.
TypeMapsExact ==
    \A t \in Types : typed[t] = {id \in DOMAIN entities : entities[id].type = t}
=============================================================================
