SPECIFICATION Spec
CONSTANTS
    Threads = {t1, t2}
    Producers = {risk, standards}
    SkipsEmptyRuns = {standards}
    Reviewers = {u1, u2}
    NoReviewer = NoReviewer
    Decisions = {"accepted", "needs_clarification"}
    BatchSizes = {0, 1}
    MaxRuns = 2
    MaxDecisions = 2
    MaxPacks = 1
SYMMETRY Symmetry
INVARIANT TypeOK
INVARIANT AuditTellsTruth
INVARIANT DecisionsBacked
INVARIANT RunsReplace
INVARIANT NothingUnreviewedExported
INVARIANT HashCoversContent
PROPERTY OtherProducersKept
CHECK_DEADLOCK FALSE
