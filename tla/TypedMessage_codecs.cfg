\* Three messages of every type and length, and a reader that asks for any type.
CONSTANTS
    FixedBytes = 2
    ElementBytes = 2
    Lengths = {0, 1, 3}
    Slots = 2
    MaxSend = 3
SPECIFICATION TypedSpec
INVARIANTS ValueComesFirst ExactUnlessLonger
CHECK_DEADLOCK FALSE
