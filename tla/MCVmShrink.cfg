SPECIFICATION Spec
CONSTANTS
    MemoryMaps <- MCMemoryMaps
    KernelStart = 20
    KernelEnd = 26
    OneMegabyte = 12
    Radix = 4
    Root = 20
    Heap = 192
    Slab = 208
    Buddy = 128
    Shared = 144
    BlockPages = 2
    ExtendSizes = {1, 2}
    ExtendFlags <- MCWritable
    DirectPages = {145, 148}
    DirectSizes = {1, 2, 4}
    DirectFlags <- MCWritable
    MaxOps = 5
INVARIANT
    ShrinkUndoesExtend
CHECK_DEADLOCK FALSE
