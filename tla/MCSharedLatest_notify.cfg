\* A writer that notifies and two readers that wait.
CONSTANTS
    w1 = w1
    w2 = w2
    r1 = r1
    r2 = r2
    Writers = {w1}
    Readers = {r1, r2}
    Parts = 2
    Calls = {"write_and_notify"}
    Modes = {"plain"}
    Launch = "one"
    StoresReorder = TRUE
    DeadThreshold = 1
    MaxRetries = 1
    SpinCheck = 1
    MaxTime = 1
    MaxWrite = 2
    MaxCrash = 0
SPECIFICATION SlotFairSpec
PROPERTIES UpdateIsRead
CHECK_DEADLOCK FALSE
