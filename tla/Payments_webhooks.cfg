SPECIFICATION Spec
CONSTANTS
    Checkouts = {c1, c2}
    Kinds = {"paygo", "subscription", "project_activation"}
    Providers = {"razorpay", "stripe"}
    MaxUses = 1
    OtherTypes = {"subscription.activated", "subscription.charged", "payment.failed"}
    Identified = {"razorpay", "stripe"}
    MaxRepeats = 2
SYMMETRY CheckoutSymmetry
INVARIANT TypeOK
INVARIANT NothingUnpaid
INVARIANT MoneyInvoicedOnce
INVARIANT UsesCounted
PROPERTY LedgerSpec
CHECK_DEADLOCK FALSE
