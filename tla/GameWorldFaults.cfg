CONSTANTS
    ConfiguredZoneSize = 10
    e1 = e1
    e2 = e2
    c1 = c1
    c2 = c2
    o1 = o1
    o2 = o2
    NoChar = NoChar
    None = None
    Dangling = Dangling
    Endpoints <- TwoEndpoints
    Chars <- OneChar
    Objs <- TwoObjs
    Positions <- OneStep
    Landmarks <- Window
    Faults = {"reconnect", "partial_hash", "db", "freed_addr", "crash"}
SPECIFICATION Spec
SYMMETRY Symmetric
INVARIANTS TypeOK IndexesAgree PlacedWhereItStands SessionOwnsPlayer ZoneIdNamesCell NearbyIsTouching
