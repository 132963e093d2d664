SPECIFICATION Spec
CONSTANTS
    LastCluster = 4
    MaxCluster = 6
    RootSlots = 2
    DirSlots = 1
    SlowDrive = FALSE
    MaxParts = 2
    MaxFiles = 1
INVARIANT ReadReportsErrors
