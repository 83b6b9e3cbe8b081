SPECIFICATION Spec
CONSTANTS
    MAX_ORDER = 2
    NumPages = 8
    MemoryMaps <- MCWholeOnly
    AccountMod = 64
INVARIANT CoalesceFindsEntry
CHECK_DEADLOCK FALSE
