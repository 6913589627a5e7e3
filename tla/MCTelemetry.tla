----------------------------- MODULE MCTelemetry -----------------------------
(* Telemetry on small instances: the limits asked for and symmetry for TLC. *)
EXTENDS Telemetry, TLC

\* Without a history, and the two limits that fit below and above the samples.
LimitsSent == 0 .. 2

Identical == Permutations(Request)
=============================================================================
