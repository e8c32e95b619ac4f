-------------------------- MODULE MCCohortDeletion --------------------------
(* Two requests to delete a cohort on a small instance. *)
EXTENDS CohortDeletion, TLC

MCSymmetry == Permutations(Admins) \cup Permutations(Uploads)
=============================================================================
