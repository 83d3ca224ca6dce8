\* Three calls around the end of the 24 hours of the key they use.
CONSTANTS
    r1 = r1
    r2 = r2
    r3 = r3
    b1 = b1
    b2 = b2
    b3 = b3
    Request = {r1, r2, r3}
    Key = {k1}
    NoKey = NoKey
    NoRequest = NoRequest
    Body = {b1, b2, b3}
    Malformed <- NoBodies
    Unaddressed <- ThirdBody
    MsgId <- OwnIds
SPECIFICATION Spec
SYMMETRY RequestSymmetry
INVARIANTS
    TypeOK
    KeyHasItsMessage
    ReplayFaithful
    RejectedLeavesNothing
    AuditedBeforeCommit
    OneMessagePerId
    WaitsEnd
PROPERTY LiveKeyKept
