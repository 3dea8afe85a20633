SPECIFICATION Spec
CONSTANTS
    Threads = {t1, t2}
    Tokens = {k1, k2, k3, k4}
    Families = {f1, f2}
    None = None
SYMMETRY Symmetry
INVARIANTS TypeOK RotationsBounded RevocationIsFinal
CHECK_DEADLOCK FALSE
