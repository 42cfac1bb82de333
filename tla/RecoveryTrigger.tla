-------------------------- MODULE RecoveryTrigger --------------------------
(***************************************************************************)
(* The recovery decision engine of the Sentinel,                           *)
(* core/sentinel/recovery_trigger.py.                                      *)
(*                                                                         *)
(* Once per federated round the engine is handed the anomaly score of      *)
(* every client and the verdict of the server validation gate.  It appends *)
(* the scores to a deque that keeps the last LookbackRounds evaluations    *)
(* and answers with a RecoveryDecision: whether to recover, which clients  *)
(* to exclude, and the earliest round of the window that is affected.      *)
(*                                                                         *)
(* Scores are hundredths: 80 stands for 0.80.                              *)
(***************************************************************************)
EXTENDS Integers, Sequences, FiniteSets

CONSTANTS
    Clients,            \* ids of the clients that may appear in anomaly_scores
    Scores,             \* the anomaly scores considered, in hundredths
    AnomalyThreshold,   \* ANOMALY_THRESHOLD, in hundredths
    LookbackRounds,     \* LOOKBACK_ROUNDS, the maxlen of the deque
    LossSpikePriority,  \* LOSS_SPIKE_PRIORITY
    MaxEvaluations      \* bound: calls of evaluate_recovery_need per behaviour

\* The constructor raises ValueError for a threshold outside (0.0, 1.0] and
\* for a look-back below 1.
ASSUME TriggerAssumption ==
    /\ Scores \subseteq 0..100
    /\ AnomalyThreshold \in 1..100
    /\ LookbackRounds \in Nat \ {0}
    /\ LossSpikePriority \in BOOLEAN
    /\ MaxEvaluations \in Nat

VARIABLES
    current_round,    \* number of evaluations performed
    recovery_state,   \* the last recorded RecoveryState
    round_history,    \* the deque, oldest entry first
    decision,         \* the RecoveryDecision returned last
    evaluations       \* history variable: the scores of every evaluation

triggerVars == <<current_round, recovery_state, round_history, decision, evaluations>>

NoRound == 0          \* recovery_round = None; rounds are numbered from 1

NotRequired == "NOT_REQUIRED"
Triggered   == "TRIGGERED"

\* A dict client_id -> score; a round may miss clients.
ScoreMaps == UNION { [S -> Scores] : S \in SUBSET Clients }

RoundRecords == [round : Nat \ {0}, scores : ScoreMaps]

Decisions ==
    [state               : {NotRequired, Triggered},
     recovery_round      : Nat,
     quarantined_clients : SUBSET Clients,
     trigger_reason      : {"NOT_REQUIRED", "VALIDATION_LOSS_SPIKE",
                            "ANOMALY_THRESHOLD_EXCEEDED"}]

-----------------------------------------------------------------------------
(* The private helpers of RecoveryTriggerEngine. *)

\* Mutant: the comparison is strict.
SuspiciousStrictly(scores) == { c \in DOMAIN scores : scores[c] > AnomalyThreshold }

SuspiciousClients(scores) == { c \in DOMAIN scores : scores[c] >= AnomalyThreshold }

\* Mutant: the record is numbered before the counter advances.
RecordRoundBeforeCount(history, n, scores) ==
    LET longer == Append(history, [round |-> n - 1, scores |-> scores])
    IN  IF Len(longer) > LookbackRounds THEN Tail(longer) ELSE longer

\* deque(maxlen = LookbackRounds).append: the oldest record is evicted.
RecordRound(history, n, scores) ==
    LET longer == Append(history, [round |-> n, scores |-> scores])
    IN  IF Len(longer) > LookbackRounds THEN Tail(longer) ELSE longer

\* Mutant: only the newest record is inspected.
CollectNewest(history) ==
    SuspiciousClients(history[Len(history)].scores)

CollectQuarantinedClients(history) ==
    UNION { SuspiciousClients(history[i].scores) : i \in DOMAIN history }

\* Positions of the deque at which one of the quarantined clients offends.
AffectedRecords(history, quarantined) ==
    { i \in DOMAIN history : SuspiciousClients(history[i].scores) \cap quarantined # {} }

FindRecoveryRound(history, quarantined) ==
    LET hits == AffectedRecords(history, quarantined)
    IN  IF hits = {} THEN NoRound
        ELSE history[CHOOSE i \in hits : \A j \in hits : i <= j].round

BuildTriggeredDecision(history, reason) ==
    LET quarantined == CollectQuarantinedClients(history)
    IN  [state               |-> Triggered,
         recovery_round      |-> FindRecoveryRound(history, quarantined),
         quarantined_clients |-> quarantined,
         trigger_reason      |-> reason]

NotRequiredDecision ==
    [state               |-> NotRequired,
     recovery_round      |-> NoRound,
     quarantined_clients |-> {},
     trigger_reason      |-> "NOT_REQUIRED"]

-----------------------------------------------------------------------------
TriggerInit ==
    /\ current_round = 0
    /\ recovery_state = NotRequired
    /\ round_history = <<>>
    /\ decision = NotRequiredDecision
    /\ evaluations = <<>>

\* What every call does first: advance the counter and record the scores, so
\* that the current round takes part in the look-back.
Record(scores) ==
    /\ current_round' = current_round + 1
    /\ round_history' = RecordRound(round_history, current_round + 1, scores)
    /\ evaluations' = Append(evaluations, scores)

Answer(d) == decision' = d /\ recovery_state' = d.state

\* Rule 1, the validation override.
ValidationOverride(scores, loss_spiked) ==
    /\ LossSpikePriority /\ loss_spiked
    /\ Record(scores)
    /\ Answer(BuildTriggeredDecision(round_history', "VALIDATION_LOSS_SPIKE"))

\* Rule 2, the anomaly trigger.
AnomalyTrigger(scores, loss_spiked) ==
    /\ ~(LossSpikePriority /\ loss_spiked)
    /\ SuspiciousClients(scores) # {}
    /\ Record(scores)
    /\ Answer(BuildTriggeredDecision(round_history', "ANOMALY_THRESHOLD_EXCEEDED"))

NoTrigger(scores, loss_spiked) ==
    /\ ~(LossSpikePriority /\ loss_spiked)
    /\ SuspiciousClients(scores) = {}
    /\ Record(scores)
    /\ Answer(NotRequiredDecision)

EvaluateRecoveryNeed(scores, loss_spiked) ==
    \/ ValidationOverride(scores, loss_spiked)
    \/ AnomalyTrigger(scores, loss_spiked)
    \/ NoTrigger(scores, loss_spiked)

TriggerNext ==
    /\ current_round < MaxEvaluations
    /\ \E scores \in ScoreMaps, loss_spiked \in BOOLEAN :
           EvaluateRecoveryNeed(scores, loss_spiked)

TriggerSpec == TriggerInit /\ [][TriggerNext]_triggerVars

-----------------------------------------------------------------------------
TriggerTypeOK ==
    /\ current_round \in Nat
    /\ recovery_state \in {NotRequired, Triggered}
    /\ round_history \in Seq(RoundRecords)
    /\ decision \in Decisions
    /\ evaluations \in Seq(ScoreMaps)

\* The evaluations a decision may look back on, by their number.
Window == { k \in 1..current_round : k > current_round - LookbackRounds }

\* Evaluation k gave client c a score at or above the threshold.
Offends(c, k) ==
    /\ c \in DOMAIN evaluations[k]
    /\ evaluations[k][c] >= AnomalyThreshold

\* The rolling deque always holds exactly the last LookbackRounds evaluations,
\* in order and under the number they were evaluated with: no record outlives
\* its window and none is lost early (_record_round, deque maxlen).
HistoryIsRecentWindow ==
    /\ Len(evaluations) = current_round
    /\ { round_history[i].round : i \in DOMAIN round_history } = Window
    /\ \A i, j \in DOMAIN round_history : i < j => round_history[i].round < round_history[j].round
    /\ \A i \in DOMAIN round_history :
           round_history[i].scores = evaluations[round_history[i].round]

\* A triggered decision excludes a client if and only if it offended in one of
\* the last LookbackRounds evaluations: a client is neither forgotten within
\* the window nor punished after it (_collect_quarantined_clients, Rule 3).
ExclusionMatchesWindow ==
    decision.state = Triggered =>
        decision.quarantined_clients =
            { c \in Clients : \E k \in Window : Offends(c, k) }

\* The suggested recovery round is the first evaluation of the window in which
\* anybody offended, and there is none exactly when nobody is excluded
\* (_find_recovery_round, Step 4).
RecoveryRoundIsEarliest ==
    decision.state = Triggered =>
        LET affected == { k \in Window : \E c \in Clients : Offends(c, k) }
        IN  IF affected = {}
            THEN decision.recovery_round = NoRound
            ELSE /\ decision.recovery_round \in affected
                 /\ \A k \in affected : decision.recovery_round <= k

\* An offender of the latest evaluation always triggers recovery and is always
\* among the excluded, whichever rule fired first (Rules 1 and 2).
OffenderNeverSlipsThrough ==
    \A c \in Clients :
        (current_round > 0 /\ Offends(c, current_round)) =>
            /\ decision.state = Triggered
            /\ c \in decision.quarantined_clients
=============================================================================
