\* The frame manager over all memory maps.
CONSTANTS
    UINT32 = 64
    PAGE_SIZE = 2
    PAGE_KB = 4
    LOW_KB = 8
    BITMAP_FRAMES = 20
    RESERVED = 2
    BootInfos <- MCBootInfos
SPECIFICATION PMMSpec
INVARIANTS
    Accounting OwnedMarked LowReserved FreeIsRam OutOfMemoryLosesOnlyTail
