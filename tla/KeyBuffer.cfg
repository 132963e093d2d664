SPECIFICATION FairSpec
CONSTANTS
    Size = 3
    Chars = {1, 2}
    MaxKeys = 4
    MaxLoops = 2
    EOI = 2
    StubRestoresAL = TRUE
INVARIANT
    KeyTypeOK
PROPERTIES
    InOrder
    KeysReachShell
    KeyEndsLoop
CHECK_DEADLOCK FALSE
