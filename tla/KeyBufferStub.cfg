SPECIFICATION Spec
CONSTANTS
    Size = 3
    Chars = {1}
    MaxKeys = 3
    MaxLoops = 1
    EOI = 2
    StubRestoresAL = FALSE
INVARIANT
    NothingInvented
CHECK_DEADLOCK FALSE
