------------------------------ MODULE MCSeats ------------------------------
\* Instances of Seats for TLC: one invitation for each of two users.
EXTENDS Seats, TLC

CONSTANTS u1, u2, u3, i1, i2

Invitees == i1 :> u2 @@ i2 :> u3
Symmetry == Permutations(Threads)
=============================================================================
