\* Writers one after the other, dying anywhere and recovering.
CONSTANTS
    w1 = w1
    w2 = w2
    r1 = r1
    r2 = r2
    Writers = {w1}
    Readers = {r1}
    Parts = 2
    Calls = {"write", "write_and_notify"}
    Modes = {"plain", "status"}
    Launch = "one"
    StoresReorder = FALSE
    DeadThreshold = 1
    MaxRetries = 2
    SpinCheck = 2
    MaxTime = 4
    MaxWrite = 3
    MaxCrash = 1
SPECIFICATION SlotSpec
INVARIANTS SlotTypeOK SeqlockInv DeathInv DeathIsSeen
PROPERTY ReadsNeverGoBack
CHECK_DEADLOCK FALSE
