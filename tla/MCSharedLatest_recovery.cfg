\* Two processes that claim when the other is dead or recovering.
CONSTANTS
    w1 = w1
    w2 = w2
    r1 = r1
    r2 = r2
    Writers = {w1, w2}
    Readers = {}
    Parts = 2
    Calls = {"write"}
    Modes = {}
    Launch = "race"
    StoresReorder = FALSE
    DeadThreshold = 2
    MaxRetries = 1
    SpinCheck = 1
    MaxTime = 6
    MaxWrite = 3
    MaxCrash = 2
SPECIFICATION SlotSpec
SYMMETRY Symmetry
INVARIANTS RecoveryIsExclusive
CHECK_DEADLOCK FALSE
