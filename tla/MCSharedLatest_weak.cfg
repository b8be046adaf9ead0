\* One writer on a machine that reorders stores.
CONSTANTS
    w1 = w1
    w2 = w2
    r1 = r1
    r2 = r2
    Writers = {w1}
    Readers = {r1}
    Parts = 2
    Calls = {"write"}
    Modes = {"plain"}
    Launch = "one"
    StoresReorder = TRUE
    DeadThreshold = 1
    MaxRetries = 1
    SpinCheck = 1
    MaxTime = 1
    MaxWrite = 2
    MaxCrash = 0
SPECIFICATION SlotSpec
INVARIANTS NoTornRead
CHECK_DEADLOCK FALSE
