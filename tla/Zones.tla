------------------------------- MODULE Zones -------------------------------
(***************************************************************************)
(* The zone grid of the game server (ZoneManager.cpp) and its two-level    *)
(* maps zoneId -> (entityId -> entity).  No state: the arithmetic that     *)
(* turns a position into a zone id, the 3x3 neighbourhood a position is    *)
(* culled to, and the updates of the maps, used by GameWorld.              *)
(*                                                                         *)
(* A position is the pair of coordinates after static_cast<int>: the       *)
(* fraction of a float and the height z never reach the grid.              *)
(***************************************************************************)
EXTENDS Integers, Functions

CONSTANT ConfiguredZoneSize \* "zone_size" of game.cfg

ASSUME ZoneSizeAssumption == ConfiguredZoneSize \in Int

Point == Int \X Int
Origin == <<0, 0>>

\* A size that is not positive falls back to 100.
ZoneSize == IF ConfiguredZoneSize <= 0 THEN 100 ELSE ConfiguredZoneSize

-----------------------------------------------------------------------------
(* Zone arithmetic *)

\* C++ integer division: the quotient is rounded towards zero, not down.
TruncDiv(a, b) == IF a >= 0 THEN a \div b ELSE -((-a) \div b)

GridX(p) == TruncDiv(p[1], ZoneSize)
GridY(p) == TruncDiv(p[2], ZoneSize)

ZoneAt(gx, gy) == gx + 1000 * gy

\* Mutant: the row stride is left out.
ZoneIdNoStride(p) == GridX(p) + GridY(p)
CalculateZoneId(p) == ZoneAt(GridX(p), GridY(p))

\* The ids of the 3x3 block of cells around a position.
\* Mutant: the block stops short of the last column and row.
NearbyIdsShort(p) ==
    {ZoneAt(GridX(p) + dx, GridY(p) + dy) : dx \in {-1, 0}, dy \in {-1, 0}}
NearbyIds(p) ==
    LET gx == GridX(p)
        gy == GridY(p)
    IN  {ZoneAt(gx + dx, gy + dy) : dx \in -1 .. 1, dy \in -1 .. 1}

\* Only zones that hold an entity are in the map, and only those are near.
GetNearbyZones(m, p) == NearbyIds(p) \cap DOMAIN m

\* Two positions whose cells touch, on the grid itself and not on the ids.
CellsTouch(p, q) ==
    /\ GridX(p) - GridX(q) \in -1 .. 1
    /\ GridY(p) - GridY(q) \in -1 .. 1

-----------------------------------------------------------------------------
(* Two-level maps; a zone is in the domain while its bucket is not empty   *)

EmptyMap == [x \in {} |-> x]

Extend(f, x, v) ==
    [y \in DOMAIN f \cup {x} |-> IF y = x THEN v ELSE f[y]]

Without(f, x) == Restrict(f, DOMAIN f \ {x})

\* GetEntitiesInZone, GetPlayersInZone: an absent zone reads as empty.
Bucket(m, z) == IF z \in DOMAIN m THEN m[z] ELSE EmptyMap

\* m[z][id] = o: operator[] creates the bucket when the zone is new.
\* Mutant: zone id and entity id change places.
PutInZoneSwapped(m, z, id, o) == Extend(m, id, Extend(Bucket(m, id), z, o))
PutInZone(m, z, id, o) == Extend(m, z, Extend(Bucket(m, z), id, o))

\* m[z].erase(id), and the zone is dropped when that empties its bucket.
\* Mutant: the emptied bucket stays in the map.
EraseKeepingBucket(m, z, id) ==
    IF z \notin DOMAIN m THEN m ELSE Extend(m, z, Without(m[z], id))
EraseFromZone(m, z, id) ==
    LET rest == Without(Bucket(m, z), id)
    IN  IF z \notin DOMAIN m    THEN m
        ELSE IF DOMAIN rest = {} THEN Without(m, z)
        ELSE Extend(m, z, rest)

InZone(m, z, id, o) == z \in DOMAIN m /\ id \in DOMAIN m[z] /\ m[z][id] = o
=============================================================================
