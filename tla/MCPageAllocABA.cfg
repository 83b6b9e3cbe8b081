SPECIFICATION Spec
CONSTANTS
    c1 = c1
    c2 = c2
    Cpus <- MCCpus
    Roles <- MCAnyRole
    DMA_ZONE_BEGIN = 2
    last_kernel_page = 2
    BlockPages = 4
    RefMod = 8
INVARIANT
    OneOwner
CHECK_DEADLOCK FALSE
