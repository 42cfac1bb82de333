-------------------------- MODULE MCSentinelEngine --------------------------
(* SentinelEngine for TLC. *)
EXTENDS SentinelEngine, TLC

CONSTANTS c1, c2

\* A profile with magnitude m, distribution d, similarity s.
Profile(m, d, s, displacement) ==
    [magnitude |-> m, distribution |-> d, similarity |-> s, sparsity |-> 0,
     displacement |-> displacement, drift |-> 0]

\* An honest update, a zero update, a sign flip, a large boost among peers far
\* apart; barely below and barely at the offence threshold; the worst there is.
MCProfiles == { Profile(0, 37, 61, 84), Profile(500, 0, 500, 0), Profile(0, 37, 876, 84),
                Profile(980, 90, 250, 940), Profile(700, 100, 880, 300),
                Profile(700, 104, 880, 300), Profile(1000, 749, 889, 1000) }

MCSymmetry == Permutations(Clients)
=============================================================================
