CONSTANTS
    EntityIds = {i1, i2}
    ShardIds = {s1, s2}
    Actors = {a1, a2}
    None = None
    Nobody = Nobody
    Faults = {"no_actor", "no_pawn", "level_change", "deload"}
SPECIFICATION Spec
SYMMETRY Symmetric
INVARIANTS TypeOK MapsAgree ActorsStandForEntities ControlsOwnCharacter
