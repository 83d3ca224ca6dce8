\* Two calls with one expired key and different bodies are both accepted.
CONSTANTS
    r1 = r1
    r2 = r2
    r3 = r3
    b1 = b1
    b2 = b2
    b3 = b3
    Request = {r1, r2, r3}
    Key = {k1}
    NoKey = NoKey
    NoRequest = NoRequest
    Body = {b1, b2, b3}
    Malformed <- NoBodies
    Unaddressed <- NoBodies
    MsgId <- OwnIds
SPECIFICATION Spec
SYMMETRY RequestSymmetry
INVARIANT OneMessagePerKey
