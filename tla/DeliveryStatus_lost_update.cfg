\* Two notices of one message at once: the last event and the status differ.
CONSTANTS
    n1 = n1
    n2 = n2
    n3 = n3
    n4 = n4
    n5 = n5
    none = none
    Notice = {n1, n2, n3}
    Message = {1}
    Batch <- OpenBatches
    NoNotice = none
    LosesCommits = FALSE
    MaxFaults = 0
SPECIFICATION Spec
CHECK_DEADLOCK FALSE
INVARIANT LastEventIsStatus
