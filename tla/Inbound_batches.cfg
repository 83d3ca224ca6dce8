\* Batches in opposite orders, a single message and a forgery, with every failure.
CONSTANTS
    d1 = d1
    d2 = d2
    d3 = d3
    d4 = d4
    m1 = m1
    m2 = m2
    Delivery = {d1, d2, d3, d4}
    Id = {m1, m2}
    Batch <- Batches
    Forged = {d3}
    Unfit = {}
    MaxFaults = 2
SPECIFICATION FairSpec
CHECK_DEADLOCK FALSE
INVARIANTS
    TypeOK
    StoredOnce
    AuditedBeforeCommit
    BatchIsWhole
    DuplicateMeansStored
    OnlyCommitsLose
PROPERTIES
    KeepsPromise
    EventuallyStored
