SPECIFICATION Spec
CONSTANTS
    Lines = 3
    Cascade = 1
    Exceptions = {14}
    BootMasks <- MCBootMasks
    MaxRaises = 3
    MaxExceptions = 1
INVARIANTS
    TypeOK
    TakenWhenReady
    HandlerFound
    ServiceMatchesStack
    OneIrqAtATime
PROPERTIES
    RaisedIsServed
CHECK_DEADLOCK FALSE
