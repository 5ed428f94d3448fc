CONSTANTS
    Procs = {p, q}
    Addresses = {a}
    Ttl = 2
    Period = 1
    Capacity = 1
    MaxSessions = 1
SPECIFICATION Spec
INVARIANTS TypeOK DeadServerForgotten RegisteredHandles RoomIsFound
PROPERTIES AbortsOnlyOverLostServer StartedServerRegistered SignalEndsServer
CHECK_DEADLOCK FALSE
