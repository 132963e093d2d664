SPECIFICATION BootSpec
CONSTANTS
    PageSize = 16
    MaxPages = 7
    KernelEnd = 9
    MemoryMaps <- Maps
    HDR = 4
    Align = 2
    MinSplit = 4
    InitialPages = 2
    Word = 256
    Sizes = {0, 3, 12, 28}
    BootInfos <- MCBootInfos
    Padding = 8
    NodeSize = 3
    MaxChildren = 2
INVARIANTS
    BootTypeOK
    MapIsTheLoaders
    ListInAddressOrder
    BlocksTilePages
    HeapBelowFreePages
    GrantsBacked
    BytesAccounted
    TreeSound
PROPERTY
    PoolSpec
