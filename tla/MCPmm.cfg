SPECIFICATION PmmSpec
CONSTANTS
    PageSize = 4
    MaxPages = 6
    KernelEnd = 6
    MemoryMaps <- AlignedMaps
INVARIANTS
    CountExact
    KernelNeverGivenOut
    HeldNotFree
    OnlyUsableRam
PROPERTY
    PagesConserved
