\* A reader that reuses its buffer.
CONSTANTS
    FixedBytes = 2
    ElementBytes = 2
    Lengths = {0, 1, 3}
    Slots = 2
    MaxSend = 3
SPECIFICATION TypedSpec
INVARIANTS RoundTrip
CHECK_DEADLOCK FALSE
