\* A build that reorders the plain stores into the header.
CONSTANTS
    p1 = p1
    p2 = p2
    s1 = s1
    Publishers = {p1}
    Sub = s1
    Processes = {p1, s1}
    CapacityBytes = 16
    Exact = TRUE
    HeaderReorders = TRUE
    MaxFault = 1
    MaxStarts = 2
    Supervised = TRUE
    Slots = 2
    Sizes <- ThreeMessages
SPECIFICATION Spec
INVARIANTS HeaderIsWhole
CHECK_DEADLOCK FALSE
