---------------------------- MODULE MCAuthSessions ----------------------------
(* AuthSessions on small instances: symmetry for TLC. *)
EXTENDS AuthSessions, TLC

Identical == Permutations(Token) \cup Permutations(Request)
=============================================================================
