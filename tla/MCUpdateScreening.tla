-------------------------- MODULE MCUpdateScreening --------------------------
(* UpdateScreening for TLC. *)
EXTENDS UpdateScreening, TLC

CONSTANTS c1, c2, c3, c4, c5

\* Three honest updates of two layers, in the same general direction.
MCTrained == { << <<60, 20>>, <<40>> >>, << <<40, 20>>, <<60>> >>, << <<40, 40>>, <<20>> >> }

\* The scenarios' sign flips, boost and Sybils, and the library's other attacks.
MCAttacks == { [kind |-> "sign_flip", factor |-> 1], [kind |-> "sign_flip", factor |-> 3],
               [kind |-> "sign_flip", factor |-> 10],
               [kind |-> "scaling", factor |-> 15], [kind |-> "adaptive_stealth", factor |-> 2],
               [kind |-> "byzantine_zero", factor |-> 0], [kind |-> "byzantine_gaussian", factor |-> 1],
               [kind |-> "byzantine_extreme", factor |-> 10], [kind |-> "sybil", factor |-> 1] }

\* Unit length in each layer.
MCDirection == << <<-800, 600>>, <<-1000>> >>

MCSymmetry == Permutations(Clients)
=============================================================================
