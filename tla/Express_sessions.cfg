SPECIFICATION Spec
CONSTANTS
    Threads = {t1, t2}
    s1 = s1
    s2 = s2
    Sessions = {s1, s2}
    Docs = {d1, d2}
    Users = {u1, u2}
    Hash <- SameContent
    MaxOrders <- OneBuys
    System = System
    None = None
SYMMETRY ExpressSymmetry
INVARIANT TypeOK
INVARIANT OwnershipIsPaidFor
INVARIANT ClaimedDocumentsSurvive
INVARIANT StateTellsTruth
CHECK_DEADLOCK FALSE
