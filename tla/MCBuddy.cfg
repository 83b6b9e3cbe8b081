SPECIFICATION Spec
CONSTANTS
    MAX_ORDER = 2
    NumPages = 8
    MemoryMaps <- MCMemoryMaps
    AccountMod = 4
INVARIANTS
    TypeOK
    Exclusive
    WellPlaced
    EntriesLinked
PROPERTIES
    AccountsFollowBlocks
    ImplementsPool
    CallsEnd
CHECK_DEADLOCK FALSE
