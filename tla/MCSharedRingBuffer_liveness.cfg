\* Records of three and five words in a ring of seven: wrap records, tails too
\* short for a header, and the tail at three, where five words outgrow the ring.
CONSTANTS
    p1 = p1
    p2 = p2
    Producers = {p1, p2}
    Capacity = 7
    Sizes = {4, 24}
    MaxPush = 2
    Crashable = {}
    U64 = 65536
SPECIFICATION RetryingSpec
PROPERTIES PushReturns PublishedIsPopped RetriesSucceed
