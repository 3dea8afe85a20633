----------------------------- MODULE MCMetering -----------------------------
(* Small instances of Metering: a quota of one or two reviews and two       *)
(* concurrent threads.                                                     *)
EXTENDS Metering, TLC

Quota == [p \in MeteredPlans |-> IF p = "pro" THEN 1 ELSE 2]

ThreadSymmetry == Permutations(Requests)
=============================================================================
