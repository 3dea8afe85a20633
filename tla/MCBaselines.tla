----------------------------- MODULE MCBaselines -----------------------------
\* Instances of Baselines for TLC.
EXTENDS Baselines, TLC

Symmetry == Permutations(Threads) \cup Permutations(Codes) \cup Permutations(Labels)
=============================================================================
