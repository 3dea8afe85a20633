---------------------------- MODULE MCAuthTokens ----------------------------
\* Instances of AuthTokens for TLC.  Tokens and families are issued in the
\* order CHOOSE finds them, so only the threads are interchangeable.
EXTENDS AuthTokens, TLC

Symmetry == Permutations(Threads)
=============================================================================
