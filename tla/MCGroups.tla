------------------------------- MODULE MCGroups -------------------------------
(* Groups on small instances: symmetry for TLC. *)
EXTENDS Groups, TLC

Identical == Permutations(Group) \cup Permutations(Name) \cup Permutations(Device)
                \cup Permutations(Request)
=============================================================================
