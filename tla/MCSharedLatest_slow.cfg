\* A writer that pauses between two writes.
CONSTANTS
    w1 = w1
    w2 = w2
    r1 = r1
    r2 = r2
    Writers = {w1}
    Readers = {r1}
    Parts = 2
    Calls = {"write"}
    Modes = {"status"}
    Launch = "one"
    StoresReorder = FALSE
    DeadThreshold = 1
    MaxRetries = 1
    SpinCheck = 1
    MaxTime = 4
    MaxWrite = 2
    MaxCrash = 0
SPECIFICATION SlotSpec
PROPERTIES LiveIsNotDead
CHECK_DEADLOCK FALSE
