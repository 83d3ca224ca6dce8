\* A call that is overtaken moves the bucket's time back.
CONSTANTS
    c1 = c1
    c2 = c2
    Caller = {c1, c2}
    Capacity = 2
    Grain = 2
    Rate = 1
    Skew <- InStep
    MaxDelay = 1
    MaxClock = 10
SPECIFICATION Spec
CHECK_DEADLOCK FALSE
INVARIANT RateIsCapped
