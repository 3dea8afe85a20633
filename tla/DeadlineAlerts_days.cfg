SPECIFICATION FairSpec
CONSTANTS
    Processes = {p1, p2}
    Members = {m1, m2}
    Buckets = {3, 0}
    MaxDays = 3
    MaxMishaps = 1
    None = None
INVARIANTS TypeOK CopiesBounded
PROPERTY AlertedInTime
CHECK_DEADLOCK FALSE
