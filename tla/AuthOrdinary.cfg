CONSTANTS
    Endpoints = {e1, e2}
    Accounts = {a1, a2}
    Chars = {c1, c2}
    Keys = {k1, k2}
    NoPlayer = NoPlayer
    NoChar = NoChar
    NoKey = NoKey
    None = None
    HeartbeatTimeout = 1
    Faults = {"relogin"}
SPECIFICATION Spec
SYMMETRY Symmetric
INVARIANTS LiveKeyFound HashesExpire HashMatchesSession
