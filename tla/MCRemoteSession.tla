--------------------------- MODULE MCRemoteSession ---------------------------
(* RemoteSession on small instances: symmetry for TLC. *)
EXTENDS RemoteSession, TLC

Identical == Permutations(Session) \cup Permutations(Device) \cup Permutations(Request)
=============================================================================
