--------------------------- MODULE MCAttackSchedule ---------------------------
(***************************************************************************)
(* Two runs and two clients: one request per scenario, the requests the    *)
(* API accepts and no builder can schedule, one that is switched off, and  *)
(* lists of targets that trip the fallbacks.  Two rounds are enough for    *)
(* every scenario but the sleeper, which needs three.                      *)
(***************************************************************************)
EXTENDS AttackSchedule, TLC

Request(scenario, start, rounds, count, targets) ==
    [enabled |-> TRUE, scenario |-> scenario, clients |-> 2, attacker_count |-> count,
     targets |-> targets, shuffled |-> <<2, 1>>, start_round |-> start, rounds |-> rounds]
OneClient(q) == [q EXCEPT !.clients = 1, !.shuffled = <<1>>]

MCRequests ==
    { OneClient(Request("normal", 1, 1, 1, <<>>)),
      Request("backdoor", 2, 2, 0, <<>>),
      Request("label_poisoning", 2, 2, 1, <<1, 9>>),
      OneClient(Request("model_poisoning", 2, 2, 1, <<>>)),
      Request("mixed_attack", 1, 2, 1, <<>>),
      Request("mixed_attack", 1, 2, 1, <<1>>),
      Request("sleeper", 3, 3, 1, <<>>),
      Request("sleeper", 2, 2, 1, <<>>),
      Request("sybil", 1, 1, 1, <<>>),
      OneClient(Request("sybil", 1, 1, 1, <<>>)),
      [Request("backdoor", 1, 2, 2, <<>>) EXCEPT !.enabled = FALSE] }

\* "client-0" sorts before "client-1".
MCNameOrder == <<1, 2>>

RunSymmetry == Permutations(Runs)
=============================================================================
