---------------------------- MODULE MCReviewGate ----------------------------
(* Small instances of ReviewGate: a producer that stores every run and one *)
(* that skips empty runs, two reviewers, two threads.                      *)
EXTENDS ReviewGate, TLC

Symmetry == Permutations(Threads) \cup Permutations(Reviewers)
=============================================================================
