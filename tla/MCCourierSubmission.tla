------------------------- MODULE MCCourierSubmission -------------------------
(* CourierSubmission on a small instance: pollers are interchangeable. *)
EXTENDS SubmissionCustody, TLC

Symmetry == Permutations(Pollers) \cup Permutations(Workers)
==============================================================================
