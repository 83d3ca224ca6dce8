\* A Meta batch, a bounce, a read and a late status, with every failure.
CONSTANTS
    n1 = n1
    n2 = n2
    n3 = n3
    n4 = n4
    n5 = n5
    none = none
    Notice = {n1, n2, n3, n4, n5}
    Message = {1, 2}
    Batch <- MixedBatches
    NoNotice = none
    LosesCommits = TRUE
    MaxFaults = 1
SPECIFICATION Spec
CHECK_DEADLOCK FALSE
INVARIANTS
    TypeOK
    StatusAudited
    AnnouncedOnce
PROPERTY NoSilentChange
