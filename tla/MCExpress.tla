----------------------------- MODULE MCExpress ------------------------------
(* Instances of Express in which all documents have one content, and one   *)
(* of two sessions goes no further than its teaser.                        *)
EXTENDS Express, TLC

CONSTANTS s1, s2

SameContent == [d \in Docs |-> "sha"]
OneBuys == s1 :> 1 @@ s2 :> 0

ExpressSymmetry == Permutations(Threads) \cup Permutations(Docs) \cup Permutations(Users)
=============================================================================
