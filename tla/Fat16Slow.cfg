SPECIFICATION Spec
CONSTANTS
    LastCluster = 3
    MaxCluster = 4
    RootSlots = 2
    DirSlots = 1
    SlowDrive = TRUE
    MaxParts = 2
    MaxFiles = 1
INVARIANT AllocatedIsMarked
