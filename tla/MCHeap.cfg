SPECIFICATION HeapFairSpec
CONSTANTS
    E820Maps <- MCMaps
    BOOT_BSP_HEAP_BASE = 4
    PAGESIZE = 4
    MaxPages = 5
    Callers = {c1, c2}
    Sizes = {3, 8, 16}
    HDR = 2
    MINEXP = 1
    MAXEXP = 5
    l_pageCount = 5
    MAXCOMPLETE = 1
INVARIANTS
    HeapTypeOK
    TagsApart
    TagsTileChunks
    LiveBlocksIntact
    FreeListsSound
    FreeBlocksInTheirBin
    FreeBlocksMerged
    CompletePagesCounted
    ReallocCopyInBounds
PROPERTIES
    AllocatorSpec
    LockGivenBack
