\* A 2xx whose commit is lost afterwards.
CONSTANTS
    d1 = d1
    d2 = d2
    d3 = d3
    d4 = d4
    m1 = m1
    m2 = m2
    Delivery = {d1, d2, d3}
    Id = {m1, m2}
    Batch <- Batches
    Forged = {}
    Unfit = {}
    MaxFaults = 1
SPECIFICATION Spec
CHECK_DEADLOCK FALSE
INVARIANT AckedIsStored
