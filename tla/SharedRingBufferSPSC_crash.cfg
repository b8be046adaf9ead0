\* Records of two and five words in a ring of seven: records that end with the
\* ring, wrap records, a tail too short for a header, and the tail at four, where
\* five words outgrow the ring.
CONSTANTS
    Capacity = 7
    Sizes = {0, 24, 48}
    MaxPush = 4
    MaxCrash = 1
    U64 = 65536
SPECIFICATION FairSpec
INVARIANTS RingSafe GapsAreDeaths
PROPERTIES ImplementsFifo PublishedIsPopped RetriesSucceed
