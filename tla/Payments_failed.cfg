SPECIFICATION Spec
CONSTANTS
    Checkouts = {c1}
    Kinds = {"project_activation"}
    Providers = {"razorpay"}
    MaxUses = 1
    OtherTypes = {"payment.failed"}
    Identified = {}
    MaxRepeats = 1
INVARIANT ProjectPaidFor
CHECK_DEADLOCK FALSE
