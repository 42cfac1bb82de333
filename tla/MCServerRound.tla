---------------------------- MODULE MCServerRound ----------------------------
(* ServerRound for TLC: two interchangeable clients. *)
EXTENDS ServerRound, TLC

CONSTANTS c1, c2

MCClients == {c1, c2}
MCSymmetry == Permutations(MCClients)
=============================================================================
