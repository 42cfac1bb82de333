--------------------------- MODULE SentinelEngine ---------------------------
(***************************************************************************)
(* P3's Sentinel behind its adapter: Sentinel.run_round scores every update *)
(* of a round, the reputation engine remembers each client's scores, the   *)
(* threat, impact and decision engines turn them into an action, and       *)
(* P3SentinelAdapter.detect caches the results and translates them.        *)
(*                                                                         *)
(* Scores are integers: signals and anomaly scores in thousandths,         *)
(* reputations in millionths.  What the extractors measure of an update is *)
(* input here: its profile.  UpdateScreening measures it.                  *)
(***************************************************************************)
EXTENDS ScaledArithmetic

CONSTANTS
    Clients,
    MaxRounds,
    Profiles,            \* what may be measured of an update
    RecoveryThreshold    \* RecoveryTriggerEngine's anomaly_threshold, in thousandths

Certain == 1000                       \* the score 1.0
Whole == 1000000                      \* the reputation 1.0

\* The largest value of each signal: a fourth of the distribution signal is always
\* zero (UpdateMeasurement's Found), and the similarity signal ends where an update is
\* opposite to every other and to their centroid.
LargestSignal == [magnitude |-> Certain, distribution |-> 749, similarity |-> 889,
                  displacement |-> Certain]

\* The signals an update may have: the sparsity and the drift are zero altogether.
AllProfiles == [magnitude    : 0..LargestSignal.magnitude,
                distribution : 0..LargestSignal.distribution,
                similarity   : 0..LargestSignal.similarity,
                displacement : 0..LargestSignal.displacement,
                sparsity : {0}, drift : {0}]

ASSUME SentinelAssumption ==
    /\ MaxRounds \in Nat \ {0}
    /\ Profiles \subseteq AllProfiles
    /\ RecoveryThreshold \in 1..Certain

VARIABLES
    round,           \* the last round detect was called for
    client_states,   \* ReputationEngine: client -> its state, once it has one
    round_cache      \* P3SentinelAdapter: round -> its results

sentinelVars == <<round, client_states, round_cache>>

NewState == [reputation_score |-> Whole, reputation_history |-> <<>>]

\* __init__ and reset build a new Sentinel.
SentinelInit == round = 0 /\ client_states = <<>> /\ round_cache = <<>>

-----------------------------------------------------------------------------
(* The engines. An operator marked Mutant is a slip the code could have had. *)

\* Mutant: a sparsity that is not found counts as the worst.
AnomalyScoreWorst(p) ==
    (30 * p.magnitude + 25 * p.distribution + 30 * p.similarity + 15 * (1000 - p.sparsity)) \div 100

\* compute_anomaly: the weighted sum of the four signals.
AnomalyScore(p) ==
    (30 * p.magnitude + 25 * p.distribution + 30 * p.similarity + 15 * p.sparsity) \div 100

\* Mutant: recovery is as fast as decay.
ReputationDeltaForgiving(anomaly) ==
    IF anomaly >= 500 THEN -(200 * anomaly) ELSE 200 * (1000 - anomaly)

\* update_reputation: decay in proportion to the score, or slow recovery.
ReputationDelta(anomaly) ==
    IF anomaly >= 500 THEN -(200 * anomaly) ELSE 50 * (1000 - anomaly)

StateOf(states, c) == IF c \in DOMAIN states THEN states[c] ELSE NewState

\* update_reputation refuses a round that is not later than the client's last.
InOrder(state, r) ==
    state.reputation_history # <<>> => r > Last(state.reputation_history).round

\* Mutant: the score is not clipped.
UpdateReputationUnclipped(state, r, anomaly) ==
    LET score == state.reputation_score + ReputationDelta(anomaly)
    IN  [reputation_score   |-> score,
         reputation_history |-> Append(state.reputation_history,
             [round |-> r, anomaly |-> anomaly, reputation |-> score])]

UpdateReputation(state, r, anomaly) ==
    LET score == Clipped(state.reputation_score + ReputationDelta(anomaly), 0, Whole)
    IN  [reputation_score   |-> score,
         reputation_history |-> Append(state.reputation_history,
             [round |-> r, anomaly |-> anomaly, reputation |-> score])]

\* The suspicious, malicious and quarantine counts are never incremented.
HistoricalDamageRisk(state) == 0

\* A tenth of a threat score: threat scores are in 1/(6 * Whole), for the floor.
ThreatTenth == (6 * Whole) \div 10

\* Mutant: no evidence floor.
ThreatScoreUnfloored(state, anomaly, similarity) ==
    6 * (400 * anomaly + 3 * ((Whole - state.reputation_score) \div 10) + 200 * similarity
         + 100000 * HistoricalDamageRisk(state))

\* compute_threat: the weighted components, at least the current evidence.
ThreatScore(state, anomaly, similarity) ==
    LET weighted == 6 * (400 * anomaly + 3 * ((Whole - state.reputation_score) \div 10)
                         + 200 * similarity + 100000 * HistoricalDamageRisk(state))
        evidence == 10 * (400 * anomaly + 200 * similarity)
    IN  IF evidence > weighted THEN evidence ELSE weighted

HistoryWindow == 5

\* One minus the standard deviation of the latest anomaly scores, in hundredths.
Consistency(state) ==
    LET h == state.reputation_history
        recent == SubSeq(h, Clipped(Len(h) - HistoryWindow + 1, 1, Len(h)), Len(h))
    IN  100 - Deviation([i \in DOMAIN recent |-> recent[i].anomaly]) \div 10

\* Confidence in hundredths: half from the rounds seen, half from the consistency.
Confidence(state) ==
    Clipped(5 * Clipped(Len(state.reputation_history), 0, 10) + Consistency(state) \div 2, 0, 100)

\* A tenth of an impact score: impact scores are in 1/(600 * Whole).
ImpactTenth == 60 * Whole

\* compute_impact: the model's drift, the layers' displacement, the amplified threat,
\* the history and the confidence.
ImpactScore(p, state, threat, confidence) ==
    LET amplified == Clipped(threat * (200 - confidence), 0, 600 * Whole)
    IN  210000 * p.drift + 150000 * p.displacement + amplified \div 5
            + ImpactTenth * HistoricalDamageRisk(state) + 600000 * confidence

\* Mutant: an elevated threat or impact must come with the other.
PolicyBoth(threat, impact, risk) ==
    IF threat >= 8 * ThreatTenth /\ impact >= 8 * ImpactTenth THEN "ROLLBACK_RECOMMENDED"
    ELSE IF threat >= 7 * ThreatTenth \/ (impact >= 7 * ImpactTenth /\ 2 * risk >= 1) THEN "QUARANTINE"
    ELSE IF threat >= 5 * ThreatTenth /\ impact >= 5 * ImpactTenth THEN "FLAG"
    ELSE IF threat >= 3 * ThreatTenth /\ impact >= 3 * ImpactTenth THEN "MONITOR"
    ELSE "ACCEPT"

\* _evaluate_policy, in priority order.
Policy(threat, impact, risk) ==
    IF threat >= 8 * ThreatTenth /\ impact >= 8 * ImpactTenth THEN "ROLLBACK_RECOMMENDED"
    ELSE IF threat >= 7 * ThreatTenth \/ (impact >= 7 * ImpactTenth /\ 2 * risk >= 1) THEN "QUARANTINE"
    ELSE IF threat >= 5 * ThreatTenth \/ impact >= 5 * ImpactTenth THEN "FLAG"
    ELSE IF threat >= 3 * ThreatTenth \/ impact >= 3 * ImpactTenth THEN "MONITOR"
    ELSE "ACCEPT"

\* _evaluate_policy's confidence in its decision, in hundredths.
DecisionConfidence(state, threat, risk) ==
    threat \div 300000 + (30 * Confidence(state) + 30 * Consistency(state)) \div 100
        + 20 * (1 - risk)

\* _generate_recovery_plan: thresholds of its own beside the decision's.
RecoveryPlan(decision, threat, impact, confidence, risk) ==
    IF \/ decision = "ROLLBACK_RECOMMENDED"
       \/ /\ threat >= 8 * ThreatTenth /\ impact >= 6 * ImpactTenth
          /\ confidence >= 70 /\ 2 * risk >= 1
    THEN "ROLLBACK"
    ELSE IF \/ decision = "QUARANTINE"
            \/ threat >= 6 * ThreatTenth /\ impact >= 6 * ImpactTenth /\ confidence >= 50
    THEN "QUARANTINE"
    ELSE IF \/ decision = "FLAG"
            \/ threat >= 4 * ThreatTenth /\ impact >= 4 * ImpactTenth
    THEN "ISOLATE_CLIENT"
    ELSE decision

\* build_detection_result: action_map and the level of the threat score.
MappedAction(recommended) ==
    CASE recommended = "ACCEPT" -> "ACCEPT"
      [] recommended \in {"MONITOR", "FLAG"} -> "DOWN_WEIGHT"
      [] recommended \in {"QUARANTINE", "ROLLBACK_RECOMMENDED"} -> "QUARANTINE"

ThreatLevel(threat) ==
    IF threat > 8 * ThreatTenth THEN "MALICIOUS"
    ELSE IF threat > 4 * ThreatTenth THEN "SUSPICIOUS" ELSE "SAFE"

\* detect: the level it records for an action; a down-weighted update is
\* either suspicious or malicious.
RecordedLevel(action, level) ==
    CASE action = "ACCEPT" -> level
      [] action = "DOWN_WEIGHT" -> IF level = "SUSPICIOUS" THEN level ELSE "MALICIOUS"
      [] action = "QUARANTINE" -> "MALICIOUS"

\* _map_severity, as estimate_impact names it.
ImpactLevel(impact) ==
    IF impact <= 4 * ImpactTenth THEN "LOW"
    ELSE IF impact <= 6 * ImpactTenth THEN "MEDIUM"
    ELSE IF impact <= 8 * ImpactTenth THEN "HIGH" ELSE "CRITICAL"
-----------------------------------------------------------------------------
(* One round. The firewall keeps an update from the Sentinel ("rejected"),  *)
(* its extraction may fail ("broken"), or it is scored.                     *)

Outcomes == {[kind |-> "rejected"], [kind |-> "broken"]}
                \cup { [kind |-> "scored", profile |-> p] : p \in Profiles }

\* A failed pipeline: no score, quarantined as malicious; an impact that is not
\* there reads as LOW.
FailedResult == [status |-> "FAILED", anomaly |-> 0, evidence |-> 0, decision |-> "NONE",
                 plan |-> "NONE", action |-> "QUARANTINE", threat_level |-> "MALICIOUS",
                 impact_level |-> "LOW"]

\* The stages of run_round after the reputation update, and their translation.
ScoredResult(p, state) ==
    LET anomaly  == AnomalyScore(p)
        risk     == HistoricalDamageRisk(state)
        threat   == ThreatScore(state, anomaly, p.similarity)
        impact   == ImpactScore(p, state, threat, Confidence(state))
        decision == Policy(threat, impact, risk)
        action   == MappedAction(decision)
    IN  [status |-> "SUCCESS", anomaly |-> anomaly,
         evidence |-> 400 * anomaly + 200 * p.similarity, decision |-> decision,
         plan |-> RecoveryPlan(decision, threat, impact, DecisionConfidence(state, threat, risk), risk),
         action |-> action, threat_level |-> RecordedLevel(action, ThreatLevel(threat)),
         impact_level |-> ImpactLevel(impact)]

\* The state a client has after the round, if it is scored.
StateAfter(r, c, outcome) ==
    UpdateReputation(StateOf(client_states, c), r, AnomalyScore(outcome.profile))

\* What detect caches for an update; an out-of-order round fails the pipeline at
\* its reputation stage.
ResultOf(r, c, outcome) ==
    IF outcome.kind = "broken" \/ ~InOrder(StateOf(client_states, c), r) THEN FailedResult
    ELSE ScoredResult(outcome.profile, StateAfter(r, c, outcome))

\* Mutant: the reputation learns of the scored updates of the first round only.
LearnOnce(r, outcomes) ==
    LET scored == { c \in Clients : outcomes[c].kind = "scored" /\ r = 1 }
    IN  client_states' = [c \in DOMAIN client_states \cup scored |->
                            IF c \in scored THEN StateAfter(r, c, outcomes[c]) ELSE client_states[c]]

\* The reputation learns of every scored update, one client after the other.
Learn(r, outcomes) ==
    LET scored == { c \in Clients : /\ outcomes[c].kind = "scored"
                                    /\ InOrder(StateOf(client_states, c), r) }
    IN  client_states' = [c \in DOMAIN client_states \cup scored |->
                            IF c \in scored THEN StateAfter(r, c, outcomes[c]) ELSE client_states[c]]

\* detect: run_round, then the cache.
DetectRound(outcomes) ==
    LET judged == { c \in Clients : outcomes[c].kind # "rejected" }
    IN  /\ judged # {}
        /\ Learn(round + 1, outcomes)
        /\ round_cache' = [r \in DOMAIN round_cache \cup {round + 1} |->
                              IF r # round + 1 THEN round_cache[r]
                              ELSE [c \in judged |-> ResultOf(r, c, outcomes[c])]]
        /\ round' = round + 1

Detect ==
    /\ round < MaxRounds
    /\ \E outcomes \in [Clients -> Outcomes] : DetectRound(outcomes)

\* A round none of whose updates passed the firewall never reaches the Sentinel.
AllRejected ==
    /\ round < MaxRounds
    /\ round' = round + 1
    /\ UNCHANGED <<client_states, round_cache>>

\* reset, before the next run.
Reset ==
    /\ round > 0
    /\ round' = 0 /\ client_states' = <<>> /\ round_cache' = <<>>

SentinelNext == Detect \/ AllRejected \/ Reset

SentinelSpec == SentinelInit /\ [][SentinelNext]_sentinelVars
-----------------------------------------------------------------------------
Decisions == {"ACCEPT", "MONITOR", "FLAG", "QUARANTINE", "ROLLBACK_RECOMMENDED"}
Plans == {"ACCEPT", "MONITOR", "ISOLATE_CLIENT", "QUARANTINE", "ROLLBACK"}
Levels == {"SAFE", "SUSPICIOUS", "MALICIOUS"}

SentinelTypeOK ==
    /\ round \in 0..MaxRounds
    /\ DOMAIN client_states \subseteq Clients
    /\ \A c \in DOMAIN client_states :
           /\ client_states[c].reputation_score \in 0..Whole
           /\ client_states[c].reputation_history
                  \in Seq([round : 1..MaxRounds, anomaly : 0..Certain, reputation : 0..Whole])
    /\ DOMAIN round_cache \subseteq 1..round
    /\ \A r \in DOMAIN round_cache :
           /\ DOMAIN round_cache[r] \subseteq Clients
           /\ \A c \in DOMAIN round_cache[r] :
                  round_cache[r][c] \in
                      [status : {"SUCCESS", "FAILED"}, anomaly : 0..Certain, evidence : 0..600 * Certain,
                       decision : Decisions \cup {"NONE"}, plan : Plans \cup {"NONE"},
                       action : {"ACCEPT", "DOWN_WEIGHT", "QUARANTINE"}, threat_level : Levels,
                       impact_level : {"LOW", "MEDIUM", "HIGH", "CRITICAL"}]

\* An update accepted at full weight is recorded as safe and of low impact, and
\* its anomaly score never triggers a recovery: the thresholds of the policy and
\* of the recovery engine, two files apart, agree for every reputation
\* (_evaluate_policy, RecoveryTriggerEngine's anomaly_threshold).
AcceptedIsHarmless ==
    \A r \in DOMAIN round_cache : \A c \in DOMAIN round_cache[r] :
        LET res == round_cache[r][c]
        IN  res.action = "ACCEPT" =>
                /\ res.anomaly < RecoveryThreshold
                /\ res.threat_level = "SAFE" /\ res.impact_level = "LOW"

\* However an update is measured, its scored anomaly stays below the threshold that
\* triggers a recovery: the four weights, of which one never counts, and the ranges
\* of the signals leave no room above it. Only the firewall's own score of 1.0 or a
\* loss spike ever rolls the model back (compute_anomaly, RecoveryTriggerEngine).
ScoreAloneNeverRecovers ==
    \A r \in DOMAIN round_cache : \A c \in DOMAIN round_cache[r] :
        round_cache[r][c].anomaly < RecoveryThreshold

\* Evidence of 0.7 in the update itself means quarantine, in the decision and in the
\* recovery plan with its thresholds of its own, however good the reputation the
\* client built up before (compute_threat's evidence floor, _generate_recovery_plan).
EvidenceAloneQuarantines ==
    \A r \in DOMAIN round_cache : \A c \in DOMAIN round_cache[r] :
        10 * round_cache[r][c].evidence >= 7 * 600000 =>
            round_cache[r][c].action = "QUARANTINE" /\ round_cache[r][c].plan = "QUARANTINE"

\* One clean round never makes up for an offence: two rounds on, the reputation
\* is still below what it was before, unless it was already within one recovery
\* of zero, where the clip loses the offence (update_reputation).
OffenceOutlastsAmends ==
    \A c \in DOMAIN client_states :
        LET h == client_states[c].reputation_history
        IN  \A i \in 1..Len(h) - 1 :
                LET before == IF i = 1 THEN Whole ELSE h[i - 1].reputation
                IN  /\ h[i].anomaly >= 500 /\ h[i + 1].anomaly < 500
                    /\ before > 50000
                    => h[i + 1].reputation < before

\* The reputation engine and the adapter's cache tell the same story: a client's
\* history holds exactly the rounds whose pipeline succeeded for it, in order and
\* with the scores that were recorded, whichever rounds the firewall or a failed
\* extraction kept from it.
ReputationMatchesRecord ==
    /\ \A r \in DOMAIN round_cache : \A c \in DOMAIN round_cache[r] :
           round_cache[r][c].status = "SUCCESS" =>
               /\ c \in DOMAIN client_states
               /\ \E i \in DOMAIN client_states[c].reputation_history :
                      LET e == client_states[c].reputation_history[i]
                      IN  e.round = r /\ e.anomaly = round_cache[r][c].anomaly
    /\ \A c \in DOMAIN client_states :
           LET h == client_states[c].reputation_history
           IN  /\ \A i \in 1..Len(h) - 1 : h[i].round < h[i + 1].round
               /\ \A i \in DOMAIN h : /\ h[i].round \in DOMAIN round_cache
                                      /\ round_cache[h[i].round][c].status = "SUCCESS"
               /\ client_states[c].reputation_score = Last(h).reputation

\* "MALICIOUS + any impact -> QUARANTINE" (engineering contract, section 18):
\* an update recorded as malicious is quarantined.
MaliciousIsQuarantined ==
    \A r \in DOMAIN round_cache : \A c \in DOMAIN round_cache[r] :
        round_cache[r][c].threat_level = "MALICIOUS" => round_cache[r][c].action = "QUARANTINE"
=============================================================================
