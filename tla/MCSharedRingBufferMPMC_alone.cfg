\* Two producers and a lone consumer.
CONSTANTS
    p1 = p1
    p2 = p2
    c1 = c1
    c2 = c2
    U64 = 65536
    Producers = {p1, p2}
    Crashable = {}
    Consumers = {c1}
    MortalConsumers = {}
    Capacity = 6
    Sizes = {0, 4}
    MaxPush = 2
    MaxCursor = 14
SPECIFICATION Spec
SYMMETRY Symmetry
PROPERTIES ImplementsFifo
CHECK_DEADLOCK FALSE
