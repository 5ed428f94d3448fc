CONSTANTS
    Endpoints = {e1}
    Accounts = {a1, a2}
    Chars = {c1, c2}
    Keys = {k1, k2}
    NoPlayer = NoPlayer
    NoChar = NoChar
    NoKey = NoKey
    None = None
    HeartbeatTimeout = 2
    Faults = {"late_fd", "redis"}
SPECIFICATION Spec
SYMMETRY Symmetric
INVARIANTS TypeOK HashNamesOwnCharacter
