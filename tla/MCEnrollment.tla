---------------------------- MODULE MCEnrollment ----------------------------
(* Enrollment on small instances: constants and symmetry for TLC. *)
EXTENDS EnrollmentRefinement, TLC

\* max_uses comes out of a JSON number: nothing keeps it positive.
UsesSent == {-1, 2}

Identical == Permutations(Device) \cup Permutations(Request)
=============================================================================
