-------------------------- MODULE UpdateScreening --------------------------
(***************************************************************************)
(* One round from the clients' training to the Sentinel's verdicts, with   *)
(* the updates themselves: the clients train, an attack rewrites the       *)
(* updates of some of them, the firewall holds back what is not a number,  *)
(* and the Sentinel measures the rest against each other and scores them.  *)
(*                                                                         *)
(* SentinelEngine's scores and reputations, fed with UpdateMeasurement's   *)
(* profiles instead of arbitrary ones.                                     *)
(***************************************************************************)
EXTENDS SentinelEngine, UpdateMeasurement

CONSTANTS
    Trained,           \* the updates honest training may give, all of one shape
    Attacks,           \* what an attacker may do: [kind, factor]
    SharedDirection    \* the direction colluding clients derive from their seed

AttackKinds == {"sign_flip", "scaling", "adaptive_stealth", "byzantine_gaussian",
                "byzantine_zero", "byzantine_extreme", "sybil"}
Roles == AttackKinds \cup {"none"}

\* The clients train one model: the updates have its layers, none of them empty.
Shape == CHOOSE u \in Trained : TRUE

Updates == { u \in Seq(Seq(Int)) : /\ Len(u) = Len(Shape)
                                   /\ \A l \in DOMAIN u : Len(u[l]) = Len(Shape[l]) }

ASSUME ScreeningAssumption ==
    /\ IsFiniteSet(Clients)
    /\ Trained # {} /\ \A u \in Trained \cup {SharedDirection} : u \in Updates
    /\ Shape # <<>> /\ \A l \in DOMAIN Shape : Shape[l] # <<>>
    /\ \A a \in Attacks : a.kind \in AttackKinds /\ a.factor \in Nat

VARIABLES
    stage,      \* where the round is
    updates,    \* client -> the update it sends
    roles,      \* client -> the attack its update suffered, or "none"
    truth       \* round -> the roles of that round, kept for the properties

screenVars == <<round, client_states, round_cache, stage, updates, roles, truth>>

\* Training that diverged: parameters that are not numbers.
Diverged == <<>>

ScreenInit ==
    /\ SentinelInit
    /\ stage = "idle" /\ updates = <<>> /\ roles = <<>> /\ truth = <<>>
-----------------------------------------------------------------------------
(* apply_update_attack of each attack class.                               *)

\* Every parameter x becomes f(x).
Each(update, f(_)) == [l \in DOMAIN update |-> [i \in DOMAIN update[l] |-> f(update[l][i])]]

\* The update times tenths / 10.
Scaled(update, tenths) == Each(update, LAMBDA x : (tenths * x) \div 10)

\* Every parameter the same, whatever was trained.
Filled(value) == Each(Shape, LAMBDA x : value)

\* _global_l2_norm clamps the inverted update to 1.1 times the honest one's norm.
StealthTenths(factor) == IF 10 * factor > 11 THEN 11 ELSE 10 * factor

\* SybilAttack: each layer of the shared direction, as long as the client's own
\* layer or 1.0, whichever is longer; a layer that is not a number becomes zero.
Sybil(update, factor) ==
    IF update = Diverged THEN Filled(0)
    ELSE [l \in DOMAIN update |->
             LET length == IF Norm(update[l]) > Unit THEN Norm(update[l]) ELSE Unit
             IN  [i \in DOMAIN update[l] |-> (length * factor * SharedDirection[l][i]) \div Unit]]

\* Noise of one seed, factor times its standard deviation of 1.0, drowns the update.
Noisy(update, factor) ==
    [l \in DOMAIN update |->
        [i \in DOMAIN update[l] |->
            update[l][i] + factor * (IF (l + i) % 2 = 0 THEN Unit ELSE -Unit)]]

Poisoned(update, attack) ==
    CASE attack.kind = "sign_flip"          -> Scaled(update, -10 * attack.factor)
      [] attack.kind = "scaling"            -> Scaled(update, 10 * attack.factor)
      [] attack.kind = "adaptive_stealth"   -> Scaled(update, -StealthTenths(attack.factor))
      [] attack.kind = "byzantine_gaussian" -> Noisy(update, attack.factor)
      [] attack.kind = "byzantine_zero"     -> Filled(0)
      [] attack.kind = "byzantine_extreme"  -> Filled(attack.factor * Unit)
      [] attack.kind = "sybil"              -> Sybil(update, attack.factor)
-----------------------------------------------------------------------------
\* train_clients: each client's training gives an update, or diverges.
Train ==
    /\ stage = "idle" /\ round < MaxRounds
    /\ updates' \in [Clients -> Trained \cup {Diverged}]
    /\ stage' = "trained"
    /\ UNCHANGED <<sentinelVars, roles, truth>>

\* apply_attacks: the round's attackers all run the same attack.
ApplyAttacks ==
    /\ stage = "trained"
    /\ \E attackers \in SUBSET Clients, attack \in Attacks :
           /\ updates' = [c \in Clients |-> IF c \in attackers THEN Poisoned(updates[c], attack)
                                            ELSE updates[c]]
           /\ roles' = [c \in Clients |-> IF c \in attackers THEN attack.kind ELSE "none"]
    /\ stage' = "poisoned"
    /\ UNCHANGED <<sentinelVars, truth>>

\* validate_updates: what is not finite never reaches the Sentinel.
Passes(c) == updates[c] # Diverged

Peers == [c \in { d \in Clients : Passes(d) } |-> updates[c]]

ScreenedOutcome(c) ==
    IF Passes(c) THEN [kind |-> "scored", profile |-> Measured(Peers, c)] ELSE [kind |-> "rejected"]

\* The firewall, then detect on what it let through.
Screen ==
    /\ stage = "poisoned"
    /\ IF \E c \in Clients : Passes(c) THEN DetectRound([c \in Clients |-> ScreenedOutcome(c)])
       ELSE AllRejected
    /\ truth' = Append(truth, roles)
    /\ stage' = "idle" /\ updates' = <<>> /\ roles' = <<>>

ScreenNext == Train \/ ApplyAttacks \/ Screen

ScreenSpec == ScreenInit /\ [][ScreenNext]_screenVars

\* The Sentinel's engines given any profile at all: every round that is screened is
\* a round of theirs.
Engine == INSTANCE SentinelEngine WITH Profiles <- AllProfiles
-----------------------------------------------------------------------------
Judged(r) == DOMAIN round_cache[r]
Attackers(r) == { c \in Judged(r) : truth[r][c] # "none" }
Minority(r) == 2 * Cardinality(Attackers(r)) < Cardinality(Judged(r))

\* The rounds whose attackers are fewer than the honest clients judged with them.
MinorityRounds == { r \in DOMAIN round_cache : Minority(r) }

\* No attack of a minority on the direction or the substance of its updates is taken
\* at full weight: flipped, stealthily flipped, replaced by noise, by zeros, by a
\* huge value or by a shared direction, it is at least down-weighted, alone or in
\* collusion (SimilarityEngine, AnomalyDetector, ThreatScoringEngine together).
\* Only the boosted update, which keeps its direction, is left out.
MinorityIsNotTrusted ==
    \A r \in MinorityRounds : \A c \in Attackers(r) :
        truth[r][c] # "scaling" => round_cache[r][c].action # "ACCEPT"

\* In such a round every attacker, the boosted one too, has a higher anomaly score
\* than every honest client, although the honest ones lose similarity to it and the
\* colluding ones gain similarity to each other (compute_anomaly).
AttackerOutranksHonest ==
    \A r \in MinorityRounds : \A a \in Attackers(r), h \in Judged(r) \ Attackers(r) :
        round_cache[r][a].anomaly > round_cache[r][h].anomaly

\* One attacker among three or more that keeps its norm within that of its peers, or
\* sends nothing, cannot get an honest update down-weighted, although every honest
\* client loses similarity to it and the centroid moves. Two of five can, and so can
\* one that amplifies its flip (SimilarityEngine, Policy's monitor threshold).
LoneStealthCannotFrame ==
    \A r \in MinorityRounds : \A a \in Attackers(r) :
        Attackers(r) = {a} /\ truth[r][a] \in {"adaptive_stealth", "byzantine_zero"} =>
            \A h \in Judged(r) \ {a} : round_cache[r][h].action = "ACCEPT"

\* "ImpactEstimator detects high parameter displacement and marks
\* ImpactLevel.CRITICAL" (attack methodology, sleeper escalation): a boosted update
\* is recorded as critical.
BoostedIsCritical ==
    \A r \in DOMAIN round_cache : \A c \in Attackers(r) :
        truth[r][c] = "scaling" => round_cache[r][c].impact_level = "CRITICAL"
=============================================================================
