CONSTANTS
    p1 = p1
    p2 = p2
    Producers = {p1, p2}
    Capacity = 6
    Sizes = {0, 4, 40}
    MaxPush = 2
    Crashable = {p1, p2}
    U64 = 65536
SPECIFICATION Spec
SYMMETRY ProducerSymmetry
INVARIANTS RingInv HeadIsARecord PoppedIntact
PROPERTIES ImplementsFifo
