---------------------------- MODULE ZonesProofs ----------------------------
(***************************************************************************)
(* What the zone grid guarantees for every zone size and every position,   *)
(* and the laws of the two-level maps that GameWorldProofs rests on.       *)
(***************************************************************************)
EXTENDS Zones, TLAPS

\* Whatever is configured, cells have a positive size.
LEMMA ZoneSizePositive == ZoneSize \in Nat \ {0}
  BY ZoneSizeAssumption DEF ZoneSize

\* Truncating division yields an integer.
LEMMA TruncDivType ==
    ASSUME NEW a \in Int, NEW b \in Nat \ {0}
    PROVE  TruncDiv(a, b) \in Int
  BY DEF TruncDiv

\* The grid coordinates of a position are integers.
LEMMA GridType ==
    ASSUME NEW p \in Point
    PROVE  GridX(p) \in Int /\ GridY(p) \in Int
  <1>1. p[1] \in Int /\ p[2] \in Int
    BY DEF Point
  <1>2. QED
    BY <1>1, ZoneSizePositive, TruncDivType DEF GridX, GridY

\* A zone id is an integer.
LEMMA ZoneIdType ==
    ASSUME NEW p \in Point
    PROVE  CalculateZoneId(p) \in Int
  BY GridType DEF CalculateZoneId, ZoneAt

\* CalculateZoneId and GetNearbyZones agree on where a position is: its own
\* zone is in the block around it, whatever the configured size.
THEOREM OwnZoneIsNear ==
    ASSUME NEW p \in Point
    PROVE  CalculateZoneId(p) \in NearbyIds(p)
  <1>1. 0 \in -1 .. 1
    OBVIOUS
  <1>2. ZoneAt(GridX(p) + 0, GridY(p) + 0) = ZoneAt(GridX(p), GridY(p))
    BY GridType DEF ZoneAt
  <1>3. QED
    BY <1>1, <1>2 DEF NearbyIds, CalculateZoneId

\* Nearness by id is symmetric, even where ids wrap: if A is culled to B's
\* block then B is culled to A's.
THEOREM NearnessIsSymmetric ==
    ASSUME NEW p \in Point, NEW q \in Point,
           CalculateZoneId(q) \in NearbyIds(p)
    PROVE  CalculateZoneId(p) \in NearbyIds(q)
  <1>1. PICK dx \in -1 .. 1, dy \in -1 .. 1 :
            CalculateZoneId(q) = ZoneAt(GridX(p) + dx, GridY(p) + dy)
    BY DEF NearbyIds
  <1>2. -dx \in -1 .. 1 /\ -dy \in -1 .. 1
    OBVIOUS
  <1>3. CalculateZoneId(p) = ZoneAt(GridX(q) + (-dx), GridY(q) + (-dy))
    BY <1>1, GridType DEF CalculateZoneId, ZoneAt
  <1>4. QED
    BY <1>2, <1>3 DEF NearbyIds

\* A neighbour is never missed, however far out and whatever the zone size: the id of
\* a cell that touches p's is in the block around p.
THEOREM TouchingIsNear ==
    ASSUME NEW p \in Point, NEW q \in Point, CellsTouch(p, q)
    PROVE  CalculateZoneId(q) \in NearbyIds(p)
  <1> DEFINE dx == GridX(q) - GridX(p)
             dy == GridY(q) - GridY(p)
  <1>1. dx \in -1 .. 1 /\ dy \in -1 .. 1
    <2>1. \A i, j \in Int : i - j \in -1 .. 1 => j - i \in -1 .. 1
      OBVIOUS
    <2>2. GridX(p) - GridX(q) \in -1 .. 1 /\ GridY(p) - GridY(q) \in -1 .. 1
      BY DEF CellsTouch
    <2>3. QED
      BY <2>1, <2>2, GridType
  <1>2. GridX(q) = GridX(p) + dx /\ GridY(q) = GridY(p) + dy
    BY GridType
  <1>3. QED
    BY <1>1, <1>2 DEF NearbyIds, CalculateZoneId

\* Which cells share an id: those that are a thousand columns apart for each row that
\* they are apart the other way, and no others.
THEOREM CollidingCells ==
    ASSUME NEW p \in Point, NEW q \in Point
    PROVE  CalculateZoneId(p) = CalculateZoneId(q)
               <=> GridX(p) - GridX(q) = 1000 * (GridY(q) - GridY(p))
  <1> DEFINE a == GridX(p)
             b == GridX(q)
             c == GridY(p)
             d == GridY(q)
  <1>1. a \in Int /\ b \in Int /\ c \in Int /\ d \in Int
    BY GridType
  <1>2. a + 1000 * c = b + 1000 * d <=> a - b = 1000 * (d - c)
    <2> HIDE DEF a, b, c, d
    <2>1. QED BY <1>1
  <1>3. QED
    BY <1>2 DEF CalculateZoneId, ZoneAt

\* Within 498 cells of the origin the row stride of 1000 is wide enough: the
\* ids near a position are exactly those of the cells that touch its cell.
THEOREM NearbyMatchesGrid ==
    ASSUME NEW p \in Point, NEW q \in Point,
           GridX(p) \in -498 .. 498, GridX(q) \in -498 .. 498
    PROVE  CalculateZoneId(q) \in NearbyIds(p) <=> CellsTouch(p, q)
  <1>1. ASSUME CalculateZoneId(q) \in NearbyIds(p)
        PROVE  CellsTouch(p, q)
    <2>1. PICK dx \in -1 .. 1, dy \in -1 .. 1 :
              CalculateZoneId(q) = ZoneAt(GridX(p) + dx, GridY(p) + dy)
      BY <1>1 DEF NearbyIds
    <2> DEFINE a == GridX(p)
               b == GridX(q)
               c == GridY(p)
               d == GridY(q)
    <2>2. b + 1000 * d = (a + dx) + 1000 * (c + dy)
      BY <2>1 DEF CalculateZoneId, ZoneAt
    <2>3. a \in -498 .. 498 /\ b \in -498 .. 498 /\ c \in Int /\ d \in Int
      BY GridType
    <2>4. b - a \in -1 .. 1 /\ d - c \in -1 .. 1
      <3> HIDE DEF a, b, c, d
      <3>1. QED BY <2>2, <2>3
    <2>5. a - b \in -1 .. 1 /\ c - d \in -1 .. 1
      <3> HIDE DEF a, b, c, d
      <3>1. QED BY <2>3, <2>4
    <2>6. QED
      BY <2>5 DEF CellsTouch
  <1>2. QED
    BY <1>1, TouchingIsNear

\* Within the same range a zone id names one cell: no two cells share an id.
THEOREM ZoneIdsNameCells ==
    ASSUME NEW p \in Point, NEW q \in Point,
           GridX(p) \in -498 .. 498, GridX(q) \in -498 .. 498
    PROVE  CalculateZoneId(p) = CalculateZoneId(q)
               <=> GridX(p) = GridX(q) /\ GridY(p) = GridY(q)
  <1> DEFINE a == GridX(p)
             b == GridX(q)
             c == GridY(p)
             d == GridY(q)
  <1>1. a \in -498 .. 498 /\ b \in -498 .. 498 /\ c \in Int /\ d \in Int
    BY GridType
  <1>2. a + 1000 * c = b + 1000 * d <=> a = b /\ c = d
    <2> HIDE DEF a, b, c, d
    <2>1. QED BY <1>1
  <1>3. QED
    BY <1>2 DEF CalculateZoneId, ZoneAt
-----------------------------------------------------------------------------
(* The two-level maps *)

\* Putting an entity in a zone changes that one slot and no other.
LEMMA PutLookup ==
    ASSUME NEW m, NEW z, NEW id, NEW o, NEW y, NEW k, NEW w
    PROVE  InZone(PutInZone(m, z, id, o), y, k, w)
               <=> IF y = z /\ k = id THEN w = o ELSE InZone(m, y, k, w)
  BY DEF InZone, PutInZone, Extend, Bucket, EmptyMap

\* Erasing a slot empties that slot and no other, whether or not the bucket
\* goes with it.
LEMMA EraseLookup ==
    ASSUME NEW m, NEW z, NEW id, NEW y, NEW k, NEW w
    PROVE  InZone(EraseFromZone(m, z, id), y, k, w)
               <=> ~(y = z /\ k = id) /\ InZone(m, y, k, w)
  <1>1. CASE z \notin DOMAIN m
    BY <1>1 DEF InZone, EraseFromZone, Without, Bucket, EmptyMap, Restrict
  <1>2. CASE z \in DOMAIN m /\ DOMAIN Without(m[z], id) = {}
    BY <1>2 DEF InZone, EraseFromZone, Without, Bucket, Restrict
  <1>3. CASE z \in DOMAIN m /\ DOMAIN Without(m[z], id) # {}
    BY <1>3 DEF InZone, EraseFromZone, Without, Bucket, Extend, Restrict
  <1>4. QED
    BY <1>1, <1>2, <1>3

\* A map with no empty bucket keeps none after a put.
LEMMA PutKeepsBucketsFull ==
    ASSUME NEW m, NEW z, NEW id, NEW o,
           \A y \in DOMAIN m : DOMAIN m[y] # {}
    PROVE  \A y \in DOMAIN PutInZone(m, z, id, o) :
               DOMAIN PutInZone(m, z, id, o)[y] # {}
  BY DEF PutInZone, Extend

\* ... nor after an erase.
LEMMA EraseKeepsBucketsFull ==
    ASSUME NEW m, NEW z, NEW id,
           \A y \in DOMAIN m : DOMAIN m[y] # {}
    PROVE  \A y \in DOMAIN EraseFromZone(m, z, id) :
               DOMAIN EraseFromZone(m, z, id)[y] # {}
  BY DEF EraseFromZone, Without, Bucket, Extend, Restrict
=============================================================================
