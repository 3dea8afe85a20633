SPECIFICATION ClaimsSpec
CONSTANTS
    Threads = {t1, t2}
    Events = {e1}
    Signals = {s1}
    FreeEvents = 1
    MaxBaselines = 2
    None = None
    ClaimIds = {c1}
    Amounts = {5, 9}
    Approved = {5}
    Terminal = {"settled"}
SYMMETRY Symmetry
INVARIANTS ClaimsTypeOK SlotsBounded Backed ClaimStands
CHECK_DEADLOCK FALSE
