\* Two publishers that claim a new topic together.
CONSTANTS
    p1 = p1
    p2 = p2
    s1 = s1
    Publishers = {p1, p2}
    Sub = s1
    Processes = {p1, p2, s1}
    CapacityBytes = 16
    Exact = TRUE
    HeaderReorders = FALSE
    MaxFault = 0
    MaxStarts = 2
    Supervised = FALSE
    Slots = 2
    Sizes <- ThreeMessages
SPECIFICATION Spec
PROPERTIES CursorsOnlyGrow
CHECK_DEADLOCK FALSE
