CONSTANTS
    ConfiguredZoneSize = 10
    e1 = e1
    e2 = e2
    c1 = c1
    c2 = c2
    o1 = o1
    o2 = o2
    NoChar = NoChar
    None = None
    Dangling = Dangling
    Endpoints <- TwoEndpoints
    Chars <- TwoChars
    Objs <- TwoObjs
    Positions <- NearAndFar
    Landmarks <- Window
    Faults = {"crash"}
SPECIFICATION LiveSpec
INVARIANTS LiveInWorld PlayerHasSession SameZoneTold
PROPERTIES ImplementsAbstractWorld SilentPlayerLeaves
