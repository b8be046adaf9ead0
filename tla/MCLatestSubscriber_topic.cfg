\* Writers one after the other, dying anywhere and recovering, and a subscriber.
CONSTANTS
    w1 = w1
    w2 = w2
    r1 = r1
    Writers = {w1}
    Readers = {r1}
    SubReader = r1
    Parts = 2
    Calls = {"write"}
    Modes = {"status"}
    Launch = "one"
    StoresReorder = FALSE
    DeadThreshold = 1
    MaxRetries = 2
    SpinCheck = 2
    MaxTime = 3
    MaxWrite = 2
    MaxCrash = 1
    MaxStarts = 1
SPECIFICATION LatestSpec
INVARIANTS ReaderSafe DeathIsSeen SkippedIsShown
PROPERTIES DeathShows
CHECK_DEADLOCK FALSE
