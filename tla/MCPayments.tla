----------------------------- MODULE MCPayments -----------------------------
(* Small instances of Payments: two or three checkout requests.            *)
EXTENDS Payments, TLC

AllKinds == {"paygo", "subscription", "project_activation"}

CheckoutSymmetry == Permutations(Checkouts)
=============================================================================
