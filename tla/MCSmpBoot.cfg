SPECIFICATION SmpFairSpec
CONSTANTS
    Madts <- MCMadts
    BSP = b
    APs = {a1, a2}
    None = n
    BOOT_BSP_STACK_BASE = 4
    BOOT_STACK_SIZE = 4
    Depth = 3
    Chunk = 4
    HDR = 1
    Calls = 2
    IntBits = 5
    LongBits = 7
    Directives <- MCDirectives
    Words <- MCWords
    Strings <- MCStrings
    Sizes <- MCSizes
INVARIANTS
    SmpTypeOK
    StackIsAhead
    StacksApart
    LinesWhole
    PrintsAsInC
    SnprintfStaysInside
PROPERTIES
    AllStart
    AllStop
