SPECIFICATION FairSpec
CONSTANTS
    LastCluster = 4
    MaxCluster = 6
    RootSlots = 2
    DirSlots = 1
    SlowDrive = FALSE
    MaxParts = 2
    MaxFiles = 3
INVARIANTS
    EntriesIntact
    SecondCopyNeverAhead
    SuccessIsTrue
PROPERTY
    OperationsEnd
