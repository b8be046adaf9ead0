\* One producer and two consumers, twice round a ring of six words.
CONSTANTS
    p1 = p1
    p2 = p2
    c1 = c1
    c2 = c2
    U64 = 65536
    Producers = {p1}
    Crashable = {}
    Consumers = {c1, c2}
    MortalConsumers = {c1, c2}
    Capacity = 6
    Sizes = {0, 4, 40}
    MaxPush = 4
    MaxCursor = 14
SPECIFICATION Spec
SYMMETRY Symmetry
CONSTRAINT UpToOverrun
INVARIANTS ClaimInv ClaimsTile ClaimsAreRecords CopiesUndisturbed PoppedIntact
CHECK_DEADLOCK FALSE
