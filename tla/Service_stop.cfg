\* Two requests at a time, the drains on PostgreSQL, two failures.
CONSTANTS
    Request = {r1, r2}
    Limited = FALSE
    LockRefused = TRUE
    MaxFaults = 2
SPECIFICATION FairSpec
INVARIANTS
    ClientsOutliveUsers
    CleanStop
PROPERTIES
    StopEnds
