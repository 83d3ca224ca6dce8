\* Two replicas publish three events, with failures, crashes and restarts.
CONSTANTS
    Event <- Events
    Drain = {d1, d2}
    BatchSize = 2
    Poison <- OldestIsPoison
    MaxFaults = 2
SPECIFICATION FairSpec
CHECK_DEADLOCK FALSE
INVARIANTS
    TypeOK
    DuplicatesNeedFaults
PROPERTIES
    DeliversAtLeastOnce
    PublishedWhileAlive
