\* A record of five words in a ring of six, after one of two was popped.
CONSTANTS
    p1 = p1
    p2 = p2
    Producers = {p1}
    Capacity = 6
    Sizes = {0, 24}
    MaxPush = 2
    Crashable = {}
    U64 = 65536
SPECIFICATION RetryingSpec
PROPERTIES EveryRetrySucceeds
