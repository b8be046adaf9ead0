\* Two consumers that wait for each other's turn, overruns included.
CONSTANTS
    p1 = p1
    p2 = p2
    c1 = c1
    c2 = c2
    U64 = 65536
    Producers = {p1}
    Crashable = {}
    Consumers = {c1, c2}
    MortalConsumers = {}
    Capacity = 4
    Sizes = {0, 4}
    MaxPush = 2
    MaxCursor = 6
SPECIFICATION FairSpec
PROPERTIES PopReturns
CHECK_DEADLOCK FALSE
