SPECIFICATION Spec
CONSTANTS
    Letters = {"a"}
    Symbols = {"1"}
    Silent = {"ctrl"}
    MaxEvents = 4
INVARIANTS
    NoStuckShift
    TypedIsMeant
CHECK_DEADLOCK FALSE
