SPECIFICATION MeterSpec
CONSTANTS
    Requests = {r1, r2}
    MaxCalls = 5
    MonthlyQuota <- Quota
SYMMETRY ThreadSymmetry
INVARIANT MeterTypeOK
INVARIANT QuotaOvershootBounded
INVARIANT FreeReviewsBounded
INVARIANT FreeFlagSticks
CHECK_DEADLOCK FALSE
