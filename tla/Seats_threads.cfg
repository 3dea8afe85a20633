SPECIFICATION SeatsSpec
CONSTANTS
    Threads = {t1, t2}
    u1 = u1
    u2 = u2
    u3 = u3
    i1 = i1
    i2 = i2
    Users = {u1, u2, u3}
    Owner = u1
    Invitations = {i1, i2}
    Email <- Invitees
    Limits = {1, 2}
    None = None
SYMMETRY Symmetry
INVARIANTS SeatsTypeOK SeatsBounded
CHECK_DEADLOCK FALSE
