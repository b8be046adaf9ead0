\* A second process claims between two writes of the first.
CONSTANTS
    w1 = w1
    w2 = w2
    r1 = r1
    r2 = r2
    Writers = {w1, w2}
    Readers = {}
    Parts = 2
    Calls = {"write"}
    Modes = {}
    Launch = "any"
    StoresReorder = FALSE
    DeadThreshold = 1
    MaxRetries = 1
    SpinCheck = 1
    MaxTime = 1
    MaxWrite = 2
    MaxCrash = 0
SPECIFICATION SlotSpec
INVARIANTS SoleWriter
CHECK_DEADLOCK FALSE
