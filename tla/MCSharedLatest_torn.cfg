\* A writer dies in its second write while a reader copies the first value.
CONSTANTS
    w1 = w1
    w2 = w2
    r1 = r1
    r2 = r2
    Writers = {w1}
    Readers = {r1}
    Parts = 2
    Calls = {"write"}
    Modes = {"plain"}
    Launch = "one"
    StoresReorder = FALSE
    DeadThreshold = 1
    MaxRetries = 1
    SpinCheck = 1
    MaxTime = 2
    MaxWrite = 3
    MaxCrash = 1
SPECIFICATION SlotSpec
INVARIANTS NoTornRead
CHECK_DEADLOCK FALSE
