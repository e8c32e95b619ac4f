------------------------------ MODULE MCQuests ------------------------------
(* Quests on small instances. *)
EXTENDS Quests, TLC

MCSymmetry == Permutations(Requests) \cup Permutations(Slots)
=============================================================================
