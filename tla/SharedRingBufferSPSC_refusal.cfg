\* A record of five words in a ring of six, after one of four was popped.
CONSTANTS
    Capacity = 6
    Sizes = {16, 24}
    MaxPush = 2
    MaxCrash = 0
    U64 = 65536
SPECIFICATION Spec
INVARIANTS EmptyIsNotFull
CHECK_DEADLOCK FALSE
