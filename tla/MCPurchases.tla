---------------------------- MODULE MCPurchases ----------------------------
(* Two reviewers, two purchase requests, one adjustment. *)
EXTENDS Purchases, TLC

MCSymmetry == Permutations(Reviewers) \cup Permutations(Orders)
MCAdjustments == {-100, 500}
=============================================================================
