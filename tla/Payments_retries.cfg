SPECIFICATION FairSpec
CONSTANTS
    Checkouts = {c1, c2, c3}
    Kinds = {"paygo", "project_activation"}
    Providers = {"stripe"}
    MaxUses = 2
    OtherTypes = {}
    Identified = {"stripe"}
    MaxRepeats = 2
PROPERTY PaidTakesEffect
CHECK_DEADLOCK FALSE
