\* Two slots of two words, six values through them, either process dying twice.
CONSTANTS
    Capacity = 2
    SizeofT = 8
    Parts = 2
    MaxPush = 6
    MaxCrash = 2
    U64 = 1000
SPECIFICATION FairSpec
INVARIANTS
    NoSharedSlot
    CommittedSurvives
    QueueInv
PROPERTIES
    ImplementsFifo
    PublishedIsPopped
CHECK_DEADLOCK FALSE
