CONSTANTS
    p1 = p1
    p2 = p2
    Producers = {p1, p2}
    Capacity = 6
    Sizes = {0, 4}
    MaxPush = 1
    Crashable = {p1}
    U64 = 65536
SPECIFICATION FairSpec
PROPERTIES SurvivorsReturn
