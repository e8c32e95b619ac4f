----------------------------- MODULE MCAuthTabs -----------------------------
(* Tabs of one user on small instances. *)
EXTENDS AuthTabs, TLC

MCSymmetry == Permutations(Servers) \cup Permutations(Tabs)
=============================================================================
