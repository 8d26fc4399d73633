----------------------------- MODULE MCTelemetry -----------------------------
(* A plan that leaves [0,1] on both sides, guarded by the run queue alone. *)
EXTENDS Telemetry

MCP95s == {1, 5}
MCUtils == {0, 1, 2}
MCRunnables == {0, 3}
MCMin == -1
=============================================================================
