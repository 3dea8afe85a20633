------------------------------ MODULE MCClaims ------------------------------
\* Instances of Claims for TLC.
EXTENDS Claims, TLC

Symmetry == Permutations(Threads)
=============================================================================
