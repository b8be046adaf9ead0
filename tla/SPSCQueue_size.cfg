\* One slot of four bytes: not a multiple of kAlignment.
CONSTANTS
    Capacity = 1
    SizeofT = 4
    Parts = 1
    MaxPush = 2
    MaxCrash = 1
    U64 = 1000
SPECIFICATION FairSpec
PROPERTY ProducerRecovers
CHECK_DEADLOCK FALSE
