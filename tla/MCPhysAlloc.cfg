SPECIFICATION Spec
CONSTANTS
    MAX_ORDER = 4
    MaxBlocks = 2
    Sizes <- MCSizes
    MaxOwned = 2
    MaxCalls = 4
    EarlyEntries = 8
    PerSlab = 4
    PerTable = 1
INVARIANTS
    TypeOK
    Partition
    ReserveSuffices
    SlabsCounted
PROPERTIES
    CallEnds
CHECK_DEADLOCK FALSE
