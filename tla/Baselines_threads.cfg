SPECIFICATION Spec
CONSTANTS
    Threads = {t1, t2}
    Findings = {f}
    High = {f}
    Codes = {c1}
    Labels = {x, y}
    MaxVersions = 2
    MaxClosings = 2
    None = None
SYMMETRY Symmetry
INVARIANTS TypeOK SealedCodesKept ControlsFollow
CHECK_DEADLOCK FALSE
