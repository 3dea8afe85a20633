SPECIFICATION Spec
CONSTANTS
    Requests = {r1, r2}
    UploadIds = {a, b}
    Docs = {d1, d2}
    Length = 2
    MaxSize = 2
    Commits = 2
    None = None
SYMMETRY Symmetry
INVARIANTS TypeOK UploadIntact OriginalRead
CHECK_DEADLOCK FALSE
