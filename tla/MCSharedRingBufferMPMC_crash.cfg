\* A consumer that dies with a record claimed.
CONSTANTS
    p1 = p1
    p2 = p2
    c1 = c1
    c2 = c2
    U64 = 65536
    Producers = {p1}
    Crashable = {}
    Consumers = {c1, c2}
    MortalConsumers = {c1}
    Capacity = 6
    Sizes = {0, 4}
    MaxPush = 2
    MaxCursor = 4
SPECIFICATION FairSpec
PROPERTIES SurvivorsReturn
CHECK_DEADLOCK FALSE
