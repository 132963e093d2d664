SPECIFICATION InstallSpec
CONSTANTS
    LastCluster = 9
    MaxCluster = 10
    RootSlots = 4
    DirSlots = 1
    SlowDrive = FALSE
    MaxParts = 1
    MaxFiles = 21
    MaxCommands = 3
INVARIANTS
    InstallTypeOK
    IntactUnlessHalfway
    CompleteMeansInstalled
    NothingLeaked
PROPERTY
    CommandsEnd
