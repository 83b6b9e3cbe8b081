SPECIFICATION PoolSpec
CONSTANTS
    c1 = c1
    c2 = c2
    Cpus <- MCCpus
    Roles <- MCSafeRoles
    DMA_ZONE_BEGIN = 2
    last_kernel_page = 2
    BlockPages = 4
    RefMod = 8
    MaxSlabs = 3
    objs_per_slab = 2
    Mod16 = 8
    Mod32 = 16
INVARIANTS
    TypeOK
    OneOwner
    CountsReferences
    SlabTypeOK
    ListsSound
    ChainsExact
PROPERTIES
    LeavesByLastDropOnly
    AllocEnds
    PartialFirst
CHECK_DEADLOCK FALSE
