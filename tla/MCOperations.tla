---------------------------- MODULE MCOperations ----------------------------
(* Operations on small instances: symmetry for TLC. *)
EXTENDS Operations, TLC

Identical == Permutations(User) \cup Permutations(Device) \cup Permutations(Request)
=============================================================================
