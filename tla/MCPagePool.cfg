SPECIFICATION PoolFairSpec
CONSTANTS
    E820Maps <- MCMaps
    BOOT_BSP_HEAP_BASE = 10
    PAGESIZE = 2
    MaxPages = 3
INVARIANTS
    PoolTypeOK
    NoPageHandedOutTwice
    PanicOnlyWhenUsedUp
PROPERTIES
    LayoutEnds
