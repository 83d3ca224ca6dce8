\* Three events, two of which the webhook takes for one.
CONSTANTS
    e1 = e1
    e2 = e2
    e3 = e3
    c1 = c1
    t1 = t1
    None = None
    Empty = Empty
    Event = {e1, e2, e3}
    Id = {c1}
    Thread = {t1}
    Raw <- Events
    Refused = {}
    MaxPosts = 2
    MaxMishaps = 1
    MaxFaults = 1
SPECIFICATION FairSpec
CHECK_DEADLOCK FALSE
INVARIANTS
    TypeOK
    AnswersAreTrue
    OneRequestEach
    RetriesArePaid
    LossIsCaused
PROPERTIES
    SessionReturns
    StopEnds
    EventsSettle
