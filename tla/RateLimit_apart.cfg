\* Clocks apart, and calls that are overtaken, fail and are made twice.
CONSTANTS
    c1 = c1
    c2 = c2
    Caller = {c1, c2}
    Capacity = 2
    Grain = 2
    Rate = 1
    Skew <- Ahead
    MaxDelay = 1
    MaxClock = 11
SPECIFICATION Spec
CHECK_DEADLOCK FALSE
INVARIANTS
    TypeOK
    DroppedWhenFull
    RefillIsPaid
