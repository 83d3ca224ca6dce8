\* The handler implements what a retrying caller is promised, expiry included.
CONSTANTS
    r1 = r1
    r2 = r2
    r3 = r3
    b1 = b1
    b2 = b2
    b3 = b3
    Request = {r1, r2, r3}
    Key = {k1}
    NoKey = NoKey
    NoRequest = NoRequest
    Body = {b1, b2, b3}
    Malformed <- ThirdBody
    Unaddressed <- NoBodies
    MsgId <- OwnIds
SPECIFICATION Spec
SYMMETRY RequestSymmetry
INVARIANT OnlyLateTwins
PROPERTY KeepsPromise
