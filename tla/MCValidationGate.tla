------------------------- MODULE MCValidationGate -------------------------
(* Model-checking instance of ValidationGate: two interchangeable clients,  *)
(* a score just below the threshold and one exactly on it, a window of two  *)
(* evaluations that three slide past, and measurements one hundredth short  *)
(* of a threshold, exactly on it, and not a number.                         *)
EXTENDS ValidationGate, TLC

CONSTANTS c1, c2

MCClients == {c1, c2}
MCScores == {79, 80}
MCMeasurements == { [loss |-> 10, acc |-> 90], [loss |-> 44, acc |-> 76],
                    [loss |-> 45, acc |-> 90], [loss |-> 10, acc |-> 75],
                    [loss |-> 79, acc |-> 76], [loss |-> NaN, acc |-> 90] }
MCSymmetry == Permutations(MCClients)
===========================================================================
