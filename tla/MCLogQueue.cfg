CONSTANTS
    Threads = {io, server}
    MaxEntries = 3
    BufferMax = 2
SPECIFICATION Spec
INVARIANTS TypeOK BufferIsLatest
PROPERTIES ImplementsAbstractLog
