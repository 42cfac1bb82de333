----------------------- MODULE MCSimulationLifecycle -----------------------
(* SimulationLifecycle for TLC. *)
EXTENDS SimulationLifecycle, TLC

CONSTANTS r1, r2

\* Long with few clients, short with many.
MCOverrides == {[rounds |-> 2, clients |-> 1], [rounds |-> 1, clients |-> 2]}
=============================================================================
