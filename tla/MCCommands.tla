------------------------------ MODULE MCCommands ------------------------------
(* Commands on small instances: the lists sent, and symmetry for TLC. *)
EXTENDS Commands, Naturals, TLC

\* Bulk requests name one device, known or not, or one of each.
Lists == [1 .. 1 -> Device \cup {Stranger}] \cup {<<d, Stranger>> : d \in Device}

Identical == Permutations(Command) \cup Permutations(Device) \cup Permutations(Request)
=============================================================================
