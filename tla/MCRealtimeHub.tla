---------------------------- MODULE MCRealtimeHub ----------------------------
(* RealtimeHub on small instances: symmetry for TLC's safety runs. *)
EXTENDS RealtimeHub, TLC

Identical == Permutations(Device) \cup Permutations(Client) \cup Permutations(Post)
=============================================================================
