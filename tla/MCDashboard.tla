---------------------------- MODULE MCDashboard ----------------------------
(* Model-checking instance of Dashboard: two runs of one round each, and two *)
(* requests of each kind in flight, so that one can overtake another.        *)
EXTENDS Dashboard

CONSTANTS r1, r2
===========================================================================
