\* Records of two and three words in a ring of four.
CONSTANTS
    p1 = p1
    p2 = p2
    c1 = c1
    c2 = c2
    U64 = 65536
    Producers = {p1}
    Crashable = {}
    Consumers = {c1, c2}
    MortalConsumers = {}
    Capacity = 4
    Sizes = {0, 4}
    MaxPush = 3
    MaxCursor = 8
SPECIFICATION Spec
INVARIANTS PoppedOnce
CHECK_DEADLOCK FALSE
