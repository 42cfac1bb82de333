------------------------ MODULE RoundPipelineProofs ------------------------
(***************************************************************************)
(* Machine-checked proofs about a simulation run, for every number of      *)
(* clients and rounds, every threshold and look-back, every order of the   *)
(* clients and every set of verdicts.                                      *)
(*                                                                         *)
(* ControlInv ties the histories of the run to the phase it is in,         *)
(* LineageInv describes what every checkpoint holds, and PublishedInv says *)
(* that the published model, and the one about to be published, hold no    *)
(* delta of an offender.  The engine's own invariant, TriggerInv, comes    *)
(* from RecoveryTriggerProofs.  LedgerInv, at the end, ties the rows of    *)
(* the database to the phase of the run.                                   *)
(***************************************************************************)
EXTENDS RoundPipeline, RecoveryTriggerProofs

\* The phases after which a history has its entry for the current round.
Settled  == {"evaluate_recovered", "persist", "complete", "metrics", "advance"}
Checked  == Settled \cup {"re_aggregate"}
Detected == Checked \cup {"impact", "aggregate", "validate", "check"}
Trained  == Detected \cup {"detect"}
InRound  == Trained \cup {"poison", "train"}
Resting  == {"start", "announce"}

\* Entry i of the detections is about client i of the order and says what the
\* round's verdict on that client says.
Aligned(dets, vs) ==
    /\ dets \in [Positions -> Detections]
    /\ \A i \in Positions :
           /\ dets[i].client = ClientOrder[i]
           /\ dets[i].action = vs[ClientOrder[i]].action
           /\ dets[i].anomaly = vs[ClientOrder[i]].anomaly

ControlInv ==
    /\ run_rec.model_version = model_version
    /\ model_version.round <= round /\ new_model_version.round <= round
    /\ pc \in InRound => round >= 1 /\ model_version.round < round
    /\ pc \in Checked \cup Resting => current_round = round
    /\ pc \in InRound \ Checked => current_round = round - 1
    /\ pc \in Detected \cup Resting => Len(verdicts) = round
    /\ pc \in InRound \ Detected => Len(verdicts) = round - 1
    /\ pc \in Trained \cup Resting => Len(trained_from) = round
    /\ pc \in InRound \ Trained => Len(trained_from) = round - 1
    /\ pc \in Trained => trained_from[round] = model_version
    /\ pc \in Detected => Aligned(detections, verdicts[round])
    /\ pc \in {"validate", "check", "re_aggregate"} => new_model_version = Candidate(round)

CandidatesAreJudged ==
    \A r \in 1..TotalRounds : Candidate(r) \in DOMAIN checkpoints => CandidateIsJudged(r)

LineageInv ==
    /\ \A v \in DOMAIN checkpoints :
           /\ v # InitialVersion => /\ v.round \in 1..Len(trained_from)
                                    /\ v.round <= Len(verdicts)
                                    /\ trained_from[v.round] \in DOMAIN checkpoints
           /\ \A k \in checkpoints[v] : k.round <= v.round /\ k.round <= Len(verdicts)
    /\ DeltasAppliedOnce
    /\ CandidatesAreJudged

\* No delta of an offender.
FreeOfOffenders(m) == \A k \in m : k.round <= current_round /\ ~Offends(k.client, k.round)

PublishedInv ==
    /\ FreeOfOffenders(checkpoints[model_version])
    /\ pc \in Settled => FreeOfOffenders(checkpoints[new_model_version])
    /\ pc \in Checked \cup {"validate", "check"} =>
           /\ checkpoints[model_version] \subseteq checkpoints[new_model_version]
           /\ \A k \in checkpoints[new_model_version] \ checkpoints[model_version] :
                  k.round = round

\* The run's row lags behind the runner by at most the round under way.
RowInv ==
    /\ pc \in InRound => run_rec.current_round = round - 1
    /\ pc \in Resting => run_rec.current_round = round
    /\ run_rec.current_round <= current_round
    /\ pc \in InRound \cup {"start"} => run_rec.status = "RUNNING"
    /\ pc \in {"announce", "failing"} => run_rec.status # "FAILED"

CoreInv ==
    /\ TriggerInv /\ PipelineTypeOK
    /\ ControlInv /\ LineageInv /\ PublishedInv

PipelineInv == CoreInv /\ RowInv

-----------------------------------------------------------------------------
(* Facts about the operators the actions are built from. *)

\* The runner hands every update the verdict on its own client, in order,
\* although the Sentinel answers in another order and leaves out the updates
\* the firewall kept from it.
LEMMA AlignmentLemma ==
    ASSUME NEW vs \in [Clients -> Verdicts]
    PROVE  Aligned(AlignDetections(vs), vs)
<1> DEFINE found == SentinelDetections(vs)
           dets == AlignDetections(vs)
<1>1. ASSUME NEW c \in Clients
      PROVE  vs[c] \in AllVerdicts /\ (vs[c].path # "complete" => vs[c].action = "QUARANTINE")
  BY PipelineAssumption
<1>2. ASSUME NEW i \in Positions
      PROVE  /\ ClientOrder[i] \in Clients
             /\ dets[i] \in Detections
             /\ dets[i].client = ClientOrder[i]
             /\ dets[i].action = vs[ClientOrder[i]].action
             /\ dets[i].anomaly = vs[ClientOrder[i]].anomaly
  <2>1. PICK c \in Clients : c = ClientOrder[i]
    BY PipelineAssumption DEF Positions
  <2>2. CASE vs[c].path = "firewall"
    <3>1. dets[i] = FirewallDetection(c, vs[c])
      BY <2>1, <2>2 DEF AlignDetections
    <3>2. QED
      BY <1>1, <2>1, <2>2, <3>1 DEF FirewallDetection, Detections, AllVerdicts, Actions
  <2>3. CASE vs[c].path # "firewall"
    <3>1. PICK j \in DOMAIN SentinelOrder : SentinelOrder[j] = c
      BY PipelineAssumption
    <3>2. j \in DOMAIN found /\ found[j].client = c
      BY <2>3, <3>1 DEF SentinelDetections
    <3>3. PICK h \in DOMAIN found : /\ dets[i] = found[h]
                                    /\ found[h].client = c
      BY <2>1, <2>3, <3>2 DEF AlignDetections
    <3>4. found[h] = [client |-> c, action |-> vs[c].action, anomaly |-> vs[c].anomaly]
      BY <3>3 DEF SentinelDetections
    <3>5. QED
      BY <1>1, <2>1, <3>3, <3>4 DEF Detections, AllVerdicts
  <2>4. QED
    BY <2>2, <2>3
<1>3. dets = [i \in Positions |-> dets[i]]
  BY DEF AlignDetections
<1>4. QED
  BY <1>2, <1>3 DEF Aligned

\* The order lists every client, and each once.
LEMMA OrderLemma ==
    /\ \A i \in Positions : ClientOrder[i] \in Clients
    /\ \A c \in Clients : \E i \in Positions : ClientOrder[i] = c
    /\ \A i, j \in Positions : ClientOrder[i] = ClientOrder[j] => i = j
    /\ { ClientOrder[i] : i \in Positions } = Clients
<1>1. DOMAIN ClientOrder = Positions
  BY PipelineAssumption DEF Positions
<1>2. QED
  BY <1>1, PipelineAssumption

\* Aligned detections keep exactly the updates they do not quarantine, one
\* decision each, weigh each by the verdict on its own client, and skip none of
\* them: the average is not refused.
LEMMA KeptLemma ==
    ASSUME NEW vs \in [Clients -> Verdicts], NEW dets, Aligned(dets, vs)
    PROVE  /\ Kept(dets) = { i \in Positions : vs[ClientOrder[i]].action # "QUARANTINE" }
           /\ \A i \in Kept(dets) :
                  DecisionWeight(dets, ClientOrder[i])
                      = IF vs[ClientOrder[i]].action = "ACCEPT" THEN "full" ELSE "half"
           /\ Weighed(dets) = Kept(dets)
           /\ Averageable(dets)
<1>1. \A i \in Positions : /\ dets[i].client = ClientOrder[i]
                           /\ dets[i].action = vs[ClientOrder[i]].action
                           /\ vs[ClientOrder[i]].action \in Actions
  BY OrderLemma, PipelineAssumption DEF Aligned, AllVerdicts
<1>2. Kept(dets) = { i \in Positions : vs[ClientOrder[i]].action # "QUARANTINE" }
  BY <1>1 DEF Kept
<1>3. OneDecisionPerUpdate(dets)
  BY <1>1, <1>2, OrderLemma DEF OneDecisionPerUpdate
<1>4. ASSUME NEW i \in Kept(dets)
      PROVE  DecisionWeight(dets, ClientOrder[i])
                 = IF vs[ClientOrder[i]].action = "ACCEPT" THEN "full" ELSE "half"
  <2>1. PICK h \in Kept(dets) :
            /\ dets[h].client = ClientOrder[i]
            /\ DecisionWeight(dets, ClientOrder[i]) = ActionWeight(dets[h].action)
    BY <1>1, <1>2 DEF DecisionWeight
  <2>2. h = i
    BY <1>1, <1>2, <2>1, OrderLemma
  <2>3. vs[ClientOrder[i]].action \in {"ACCEPT", "DOWN_WEIGHT"}
    BY <1>1, <1>2 DEF Actions
  <2>4. DecisionWeight(dets, ClientOrder[i]) = ActionWeight(vs[ClientOrder[i]].action)
    BY <1>1, <1>2, <2>1, <2>2
  <2>5. QED
    BY <2>3, <2>4 DEF ActionWeight
<1>5. Weighed(dets) = Kept(dets)
  BY <1>4 DEF Weighed
<1>6. QED
  BY <1>2, <1>3, <1>4, <1>5 DEF Averageable

\* The anomaly scores handed to the engine are those of the verdicts.
LEMMA ScoresLemma ==
    ASSUME NEW vs \in [Clients -> Verdicts], Aligned(detections, vs)
    PROVE  /\ AnomalyScores \in ScoreMaps
           /\ AnomalyScores = [c \in Clients |-> vs[c].anomaly]
<1>1. ASSUME NEW c \in Clients
      PROVE  AnomalyScores[c] = vs[c].anomaly /\ vs[c].anomaly \in Scores
  <2>1. PICK i \in Positions : ClientOrder[i] = c
    BY OrderLemma
  <2>2. detections[i].client = c
    BY <2>1 DEF Aligned
  <2>3. PICK h \in Positions : /\ detections[h].client = c
                               /\ AnomalyScores[c] = detections[h].anomaly
    BY <2>2 DEF AnomalyScores
  <2>4. ClientOrder[h] = c /\ detections[h].anomaly = vs[c].anomaly
    BY <2>3 DEF Aligned
  <2>5. QED
    BY <2>3, <2>4, PipelineAssumption DEF AllVerdicts
<1>2. AnomalyScores = [c \in Clients |-> vs[c].anomaly]
  BY <1>1 DEF AnomalyScores
<1>3. QED
  BY <1>1, <1>2 DEF ScoreMaps

\* Saving a new version leaves every other one alone.
LEMMA SaveLemma ==
    ASSUME NEW v \in Versions, NEW state \in SUBSET Contributions,
           v \notin DOMAIN checkpoints, DOMAIN checkpoints \subseteq Versions,
           checkpoints \in [DOMAIN checkpoints -> SUBSET Contributions],
           Save(v, state)
    PROVE  /\ DOMAIN checkpoints' = DOMAIN checkpoints \cup {v}
           /\ DOMAIN checkpoints' \subseteq Versions
           /\ checkpoints' \in [DOMAIN checkpoints' -> SUBSET Contributions]
           /\ checkpoints'[v] = state
           /\ \A u \in DOMAIN checkpoints : checkpoints'[u] = checkpoints[u]
BY DEF Save

-----------------------------------------------------------------------------
(* The steps that save no checkpoint and ask the engine nothing. *)

\* What such a step leaves alone.
Quiet == UNCHANGED <<model_version, new_model_version, checkpoints, trained_from, verdicts,
                     triggerVars>>

LEMMA TriggerUnchanged ==
    ASSUME TriggerInv, UNCHANGED triggerVars
    PROVE  TriggerInv'
BY DEF TriggerInv, TriggerTypeOK, DequeInv, DecisionInv, Held, triggerVars,
       CollectQuarantinedClients, FindRecoveryRound, AffectedRecords

\* The arithmetic part of the type invariant.
LEMMA Ranges ==
    ASSUME PipelineTypeOK
    PROVE  /\ TotalRounds \in Nat
           /\ round \in Nat /\ round <= TotalRounds
           /\ current_round \in Nat
           /\ model_version \in DOMAIN checkpoints /\ model_version \in Versions
           /\ new_model_version \in DOMAIN checkpoints /\ new_model_version \in Versions
           /\ model_version.round \in 0..TotalRounds
           /\ new_model_version.round \in 0..TotalRounds
           /\ Len(verdicts) \in Nat /\ Len(trained_from) \in Nat
<1>1. TotalRounds \in Nat
  BY TriggerAssumption DEF TotalRounds
<1>2. /\ model_version \in DOMAIN checkpoints /\ model_version \in Versions
      /\ new_model_version \in DOMAIN checkpoints /\ new_model_version \in Versions
  BY DEF PipelineTypeOK
<1>3. \A v \in Versions : v.round \in 0..TotalRounds
  BY DEF Versions
<1>4. QED
  BY <1>1, <1>2, <1>3 DEF PipelineTypeOK, TriggerTypeOK

LEMMA LineageUnchanged ==
    ASSUME LineageInv, UNCHANGED <<checkpoints, trained_from, verdicts>>
    PROVE  LineageInv'
BY DEF LineageInv, DeltasAppliedOnce, CandidatesAreJudged, CandidateIsJudged, DeltasJudged

LEMMA QuietPublished ==
    ASSUME PublishedInv, Quiet,
           pc' \in Settled => pc \in Settled,
           pc' \in Checked \cup {"validate", "check"} =>
               pc \in Checked \cup {"validate", "check"} /\ round' = round
    PROVE  PublishedInv'
BY DEF PublishedInv, Quiet, FreeOfOffenders, triggerVars, Offends

LEMMA StartRoundStep == CoreInv /\ StartRound => CoreInv'
<1> SUFFICES ASSUME CoreInv, StartRound PROVE CoreInv'
  OBVIOUS
<1> USE DEF runnerVars, modelVars, judgeVars, dbVars
<1>1. Quiet
  BY DEF StartRound, Quiet
<1>2. TriggerInv' /\ LineageInv'
  BY <1>1, TriggerUnchanged, LineageUnchanged DEF CoreInv, Quiet
<1>3. PipelineTypeOK'
  <2>1. round_recs' \in [1..TotalRounds -> [status : {"ABSENT", "PENDING", "COMPLETED"},
                                           model_version : Versions,
                                           recovery_triggered : BOOLEAN]]
    <3>1. PICK n \in 1..TotalRounds : n = round + 1
      BY Ranges DEF CoreInv, StartRound
    <3>2. round_recs' = [round_recs EXCEPT ![n] = [round_recs[n] EXCEPT !.status = "PENDING"]]
      BY <3>1 DEF StartRound
    <3>3. QED
      BY <3>1, <3>2 DEF CoreInv, PipelineTypeOK
  <2>2. round' \in 0..TotalRounds
    BY Ranges DEF CoreInv, StartRound
  <2>3. QED
    BY <1>2, <2>1, <2>2 DEF CoreInv, StartRound, PipelineTypeOK, TriggerInv, PhaseNames
<1>4. ControlInv'
  BY Ranges DEF CoreInv, StartRound, ControlInv, triggerVars, Settled, Checked, Detected, Trained, InRound, Resting
<1>5. PublishedInv'
  BY <1>1, QuietPublished DEF CoreInv, StartRound, Checked, Settled
<1>6. QED
  BY <1>2, <1>3, <1>4, <1>5 DEF CoreInv

LEMMA ApplyDataAttacksStep == CoreInv /\ ApplyDataAttacks => CoreInv'
<1> SUFFICES ASSUME CoreInv, ApplyDataAttacks PROVE CoreInv'
  OBVIOUS
<1> USE DEF runnerVars, modelVars, judgeVars, dbVars
<1>1. Quiet
  BY DEF ApplyDataAttacks, Quiet
<1>2. TriggerInv' /\ LineageInv'
  BY <1>1, TriggerUnchanged, LineageUnchanged DEF CoreInv, Quiet
<1>3. PipelineTypeOK'
  <2>1. loaders' \in [Clients -> {"clean", "poisoned"}]
    BY Ranges DEF CoreInv, ControlInv, InRound, Trained, Detected, Checked, Settled, PipelineTypeOK, ApplyDataAttacks, Poison
  <2>2. QED
    BY <1>2, <2>1 DEF CoreInv, ApplyDataAttacks, PipelineTypeOK, TriggerInv, PhaseNames, Poison
<1>4. ControlInv'
  BY Ranges DEF CoreInv, ApplyDataAttacks, ControlInv, triggerVars, Settled, Checked, Detected, Trained, InRound, Resting
<1>5. PublishedInv'
  BY <1>1, QuietPublished DEF CoreInv, ApplyDataAttacks, Checked, Settled
<1>6. QED
  BY <1>2, <1>3, <1>4, <1>5 DEF CoreInv

LEMMA EstimateImpactStep == CoreInv /\ EstimateImpact => CoreInv'
<1> SUFFICES ASSUME CoreInv, EstimateImpact PROVE CoreInv'
  OBVIOUS
<1> USE DEF runnerVars, modelVars, judgeVars, dbVars
<1>1. Quiet
  BY DEF EstimateImpact, Quiet
<1>2. TriggerInv' /\ LineageInv'
  BY <1>1, TriggerUnchanged, LineageUnchanged DEF CoreInv, Quiet
<1>3. PipelineTypeOK'
  <2>1. evidence' \in [1..TotalRounds -> SUBSET Tables]
    BY Ranges DEF CoreInv, ControlInv, InRound, Trained, Detected, Checked, Settled, PipelineTypeOK, EstimateImpact, Persist, Tables
  <2>2. QED
    BY <1>2, <2>1 DEF CoreInv, EstimateImpact, PipelineTypeOK, TriggerInv, PhaseNames, Persist, Tables
<1>4. ControlInv'
  BY Ranges DEF CoreInv, EstimateImpact, ControlInv, triggerVars, Settled, Checked, Detected, Trained, InRound, Resting
<1>5. PublishedInv'
  BY <1>1, QuietPublished DEF CoreInv, EstimateImpact, Checked, Settled
<1>6. QED
  BY <1>2, <1>3, <1>4, <1>5 DEF CoreInv

LEMMA EvaluateRecoveredStep == CoreInv /\ EvaluateRecovered => CoreInv'
<1> SUFFICES ASSUME CoreInv, EvaluateRecovered PROVE CoreInv'
  OBVIOUS
<1> USE DEF runnerVars, modelVars, judgeVars, dbVars
<1>1. Quiet
  BY DEF EvaluateRecovered, Quiet, LoadForEvaluation
<1>2. TriggerInv' /\ LineageInv'
  BY <1>1, TriggerUnchanged, LineageUnchanged DEF CoreInv, Quiet
<1>3. PipelineTypeOK'
  BY <1>2, Ranges DEF CoreInv, EvaluateRecovered, PipelineTypeOK, TriggerInv, PhaseNames, LoadForEvaluation
<1>4. ControlInv'
  BY Ranges DEF CoreInv, EvaluateRecovered, ControlInv, triggerVars, Settled, Checked, Detected, Trained, InRound, Resting, LoadForEvaluation
<1>5. PublishedInv'
  BY <1>1, QuietPublished DEF CoreInv, EvaluateRecovered, Checked, Settled, LoadForEvaluation
<1>6. QED
  BY <1>2, <1>3, <1>4, <1>5 DEF CoreInv

LEMMA PersistRecoveryStep == CoreInv /\ PersistRecovery => CoreInv'
<1> SUFFICES ASSUME CoreInv, PersistRecovery PROVE CoreInv'
  OBVIOUS
<1> USE DEF runnerVars, modelVars, judgeVars, dbVars
<1>1. Quiet
  BY DEF PersistRecovery, Quiet
<1>2. TriggerInv' /\ LineageInv'
  BY <1>1, TriggerUnchanged, LineageUnchanged DEF CoreInv, Quiet
<1>3. PipelineTypeOK'
  <2>1. recovery_recs' \in [1..TotalRounds -> {"ABSENT", "NOT_REQUIRED", "COMPLETED"}]
    BY Ranges DEF CoreInv, ControlInv, InRound, Trained, Detected, Checked, Settled, PipelineTypeOK, PersistRecovery, RecoveryRowStatus
  <2>2. QED
    BY <1>2, <2>1 DEF CoreInv, PersistRecovery, PipelineTypeOK, TriggerInv, PhaseNames, RecoveryRowStatus
<1>4. ControlInv'
  BY Ranges DEF CoreInv, PersistRecovery, ControlInv, triggerVars, Settled, Checked, Detected, Trained, InRound, Resting
<1>5. PublishedInv'
  BY <1>1, QuietPublished DEF CoreInv, PersistRecovery, Checked, Settled
<1>6. QED
  BY <1>2, <1>3, <1>4, <1>5 DEF CoreInv

LEMMA CompleteRoundStep == CoreInv /\ CompleteRound => CoreInv'
<1> SUFFICES ASSUME CoreInv, CompleteRound PROVE CoreInv'
  OBVIOUS
<1> USE DEF runnerVars, modelVars, judgeVars, dbVars
<1>1. Quiet
  BY DEF CompleteRound, Quiet
<1>2. TriggerInv' /\ LineageInv'
  BY <1>1, TriggerUnchanged, LineageUnchanged DEF CoreInv, Quiet
<1>3. PipelineTypeOK'
  <2>1. round_recs' \in [1..TotalRounds -> [status : {"ABSENT", "PENDING", "COMPLETED"},
                                           model_version : Versions,
                                           recovery_triggered : BOOLEAN]]
    BY Ranges DEF CoreInv, ControlInv, InRound, Trained, Detected, Checked, Settled, PipelineTypeOK, CompleteRound, CompletedRow
  <2>2. QED
    BY <1>2, <2>1 DEF CoreInv, CompleteRound, PipelineTypeOK, TriggerInv, PhaseNames, CompletedRow
<1>4. ControlInv'
  BY Ranges DEF CoreInv, CompleteRound, ControlInv, triggerVars, Settled, Checked, Detected, Trained, InRound, Resting
<1>5. PublishedInv'
  BY <1>1, QuietPublished DEF CoreInv, CompleteRound, Checked, Settled
<1>6. QED
  BY <1>2, <1>3, <1>4, <1>5 DEF CoreInv

LEMMA PersistMetricsStep == CoreInv /\ PersistMetrics => CoreInv'
<1> SUFFICES ASSUME CoreInv, PersistMetrics PROVE CoreInv'
  OBVIOUS
<1> USE DEF runnerVars, modelVars, judgeVars, dbVars
<1>1. Quiet
  BY DEF PersistMetrics, Quiet
<1>2. TriggerInv' /\ LineageInv'
  BY <1>1, TriggerUnchanged, LineageUnchanged DEF CoreInv, Quiet
<1>3. PipelineTypeOK'
  <2>1. evidence' \in [1..TotalRounds -> SUBSET Tables]
    BY Ranges DEF CoreInv, ControlInv, InRound, Trained, Detected, Checked, Settled, PipelineTypeOK, PersistMetrics, Persist, Tables
  <2>2. QED
    BY <1>2, <2>1 DEF CoreInv, PersistMetrics, PipelineTypeOK, TriggerInv, PhaseNames, Persist, Tables
<1>4. ControlInv'
  BY Ranges DEF CoreInv, PersistMetrics, ControlInv, triggerVars, Settled, Checked, Detected, Trained, InRound, Resting
<1>5. PublishedInv'
  BY <1>1, QuietPublished DEF CoreInv, PersistMetrics, Checked, Settled
<1>6. QED
  BY <1>2, <1>3, <1>4, <1>5 DEF CoreInv

LEMMA FinishRunStep == CoreInv /\ FinishRun => CoreInv'
<1> SUFFICES ASSUME CoreInv, FinishRun PROVE CoreInv'
  OBVIOUS
<1> USE DEF runnerVars, modelVars, judgeVars, dbVars
<1>1. Quiet
  BY DEF FinishRun, Quiet
<1>2. TriggerInv' /\ LineageInv'
  BY <1>1, TriggerUnchanged, LineageUnchanged DEF CoreInv, Quiet
<1>3. PipelineTypeOK'
  <2>1. run_rec' \in [status : {"RUNNING", "COMPLETED", "FAILED"},
                    current_round : 0..TotalRounds, model_version : Versions]
    BY Ranges DEF CoreInv, ControlInv, InRound, Trained, Detected, Checked, Settled, PipelineTypeOK, FinishRun
  <2>2. QED
    BY <1>2, <2>1 DEF CoreInv, FinishRun, PipelineTypeOK, TriggerInv, PhaseNames
<1>4. ControlInv'
  BY Ranges DEF CoreInv, FinishRun, ControlInv, triggerVars, Settled, Checked, Detected, Trained, InRound, Resting
<1>5. PublishedInv'
  BY <1>1, QuietPublished DEF CoreInv, FinishRun, Checked, Settled
<1>6. QED
  BY <1>2, <1>3, <1>4, <1>5 DEF CoreInv

LEMMA AnnounceCompletionStep == CoreInv /\ AnnounceCompletion => CoreInv'
<1> SUFFICES ASSUME CoreInv, AnnounceCompletion PROVE CoreInv'
  OBVIOUS
<1> USE DEF runnerVars, modelVars, judgeVars, dbVars
<1>1. Quiet
  BY DEF AnnounceCompletion, Quiet
<1>2. TriggerInv' /\ LineageInv'
  BY <1>1, TriggerUnchanged, LineageUnchanged DEF CoreInv, Quiet
<1>3. PipelineTypeOK'
  BY <1>2, Ranges DEF CoreInv, AnnounceCompletion, PipelineTypeOK, TriggerInv, PhaseNames
<1>4. ControlInv'
  BY Ranges DEF CoreInv, AnnounceCompletion, ControlInv, triggerVars, Settled, Checked, Detected, Trained, InRound, Resting
<1>5. PublishedInv'
  BY <1>1, QuietPublished DEF CoreInv, AnnounceCompletion, Checked, Settled
<1>6. QED
  BY <1>2, <1>3, <1>4, <1>5 DEF CoreInv

LEMMA RecordFailureStep == CoreInv /\ RecordFailure => CoreInv'
<1> SUFFICES ASSUME CoreInv, RecordFailure PROVE CoreInv'
  OBVIOUS
<1> USE DEF runnerVars, modelVars, judgeVars, dbVars
<1>1. Quiet
  BY DEF RecordFailure, Quiet, FailedRow
<1>2. TriggerInv' /\ LineageInv'
  BY <1>1, TriggerUnchanged, LineageUnchanged DEF CoreInv, Quiet
<1>3. PipelineTypeOK'
  <2>1. run_rec' \in [status : {"RUNNING", "COMPLETED", "FAILED"},
                    current_round : 0..TotalRounds, model_version : Versions]
    BY Ranges DEF CoreInv, ControlInv, InRound, Trained, Detected, Checked, Settled, PipelineTypeOK, RecordFailure, FailedRow
  <2>2. QED
    BY <1>2, <2>1 DEF CoreInv, RecordFailure, PipelineTypeOK, TriggerInv, PhaseNames, FailedRow
<1>4. ControlInv'
  BY Ranges DEF CoreInv, RecordFailure, ControlInv, triggerVars, Settled, Checked, Detected, Trained, InRound, Resting, FailedRow
<1>5. PublishedInv'
  BY <1>1, QuietPublished DEF CoreInv, RecordFailure, Checked, Settled, FailedRow
<1>6. QED
  BY <1>2, <1>3, <1>4, <1>5 DEF CoreInv

LEMMA LoseFailureStep == CoreInv /\ LoseFailure => CoreInv'
<1> SUFFICES ASSUME CoreInv, LoseFailure PROVE CoreInv'
  OBVIOUS
<1> USE DEF runnerVars, modelVars, judgeVars, dbVars
<1>1. Quiet
  BY DEF LoseFailure, Quiet
<1>2. TriggerInv' /\ LineageInv'
  BY <1>1, TriggerUnchanged, LineageUnchanged DEF CoreInv, Quiet
<1>3. PipelineTypeOK'
  BY <1>2, Ranges DEF CoreInv, LoseFailure, PipelineTypeOK, TriggerInv, PhaseNames
<1>4. ControlInv'
  BY Ranges DEF CoreInv, LoseFailure, ControlInv, triggerVars, Settled, Checked, Detected, Trained, InRound, Resting
<1>5. PublishedInv'
  BY <1>1, QuietPublished DEF CoreInv, LoseFailure, Checked, Settled
<1>6. QED
  BY <1>2, <1>3, <1>4, <1>5 DEF CoreInv
-----------------------------------------------------------------------------
(* The steps that compute a model. *)

\* What a candidate holds.
LEMMA CandidateLemma ==
    ASSUME CoreInv, pc = "aggregate"
    PROVE  /\ CandidateModel \in SUBSET Contributions
           /\ CandidateModel = checkpoints[model_version] \cup
                  (DeltasJudged(round, "ACCEPT", "full") \cup DeltasJudged(round, "DOWN_WEIGHT", "half"))
           /\ \A k \in CandidateModel \ checkpoints[model_version] : k.round = round
           /\ \A k1, k2 \in CandidateModel \ checkpoints[model_version] :
                  k1.client = k2.client => k1 = k2
<1> DEFINE vs == verdicts[round]
           added == { [round |-> round, client |-> ClientOrder[i],
                       weight |-> DecisionWeight(detections, ClientOrder[i]), via |-> "aggregate"]
                        : i \in Weighed(detections) }
           full == DeltasJudged(round, "ACCEPT", "full")
           half == DeltasJudged(round, "DOWN_WEIGHT", "half")
<1>1. /\ round \in 1..TotalRounds /\ round \in DOMAIN verdicts
      /\ vs \in [Clients -> Verdicts] /\ Aligned(detections, vs)
  BY Ranges DEF CoreInv, PipelineTypeOK, ControlInv, InRound, Trained, Detected
<1>2. CandidateModel = checkpoints[model_version] \cup added
  BY DEF CandidateModel, AggregateOn
<1>3. checkpoints[model_version] \in SUBSET Contributions
  BY Ranges DEF CoreInv, PipelineTypeOK
<1>4. \A c \in Clients : vs[c].action \in Actions
  BY <1>1, PipelineAssumption DEF AllVerdicts
<1>5. ASSUME NEW k \in added
      PROVE  k \in full \cup half
  <2>1. PICK i \in Weighed(detections) :
            k = [round |-> round, client |-> ClientOrder[i],
                 weight |-> DecisionWeight(detections, ClientOrder[i]), via |-> "aggregate"]
    OBVIOUS
  <2>2. /\ i \in Positions /\ vs[ClientOrder[i]].action # "QUARANTINE"
        /\ DecisionWeight(detections, ClientOrder[i])
             = IF vs[ClientOrder[i]].action = "ACCEPT" THEN "full" ELSE "half"
    BY <1>1, KeptLemma
  <2>3. ClientOrder[i] \in Clients
    BY <2>2, OrderLemma
  <2>4. QED
    BY <1>4, <2>1, <2>2, <2>3 DEF DeltasJudged, Actions
<1>6. ASSUME NEW k \in full \cup half
      PROVE  k \in added
  <2>1. PICK c \in Clients :
            /\ vs[c].action \in {"ACCEPT", "DOWN_WEIGHT"}
            /\ k = [round |-> round, client |-> c,
                    weight |-> IF vs[c].action = "ACCEPT" THEN "full" ELSE "half",
                    via |-> "aggregate"]
    BY DEF DeltasJudged
  <2>2. PICK i \in Positions : ClientOrder[i] = c
    BY OrderLemma
  <2>3. i \in Weighed(detections)
    BY <1>1, <2>1, <2>2, KeptLemma
  <2>4. DecisionWeight(detections, ClientOrder[i]) = IF vs[c].action = "ACCEPT" THEN "full" ELSE "half"
    BY <1>1, <2>2, <2>3, KeptLemma
  <2>5. QED
    BY <2>1, <2>2, <2>3, <2>4
<1>7. added = full \cup half
  <2> HIDE DEF added, full, half
  <2> QED
    BY <1>5, <1>6
<1>8. \A k \in full \cup half : k \in Contributions /\ k.round = round
  BY <1>1 DEF DeltasJudged, Contributions
<1>9. \A k1, k2 \in full \cup half : k1.client = k2.client => k1 = k2
  BY DEF DeltasJudged
<1> HIDE DEF added, full, half
<1>10. /\ CandidateModel \in SUBSET Contributions
       /\ CandidateModel = checkpoints[model_version] \cup (full \cup half)
       /\ \A k \in CandidateModel \ checkpoints[model_version] : k \in full \cup half
  BY <1>2, <1>3, <1>7, <1>8
<1>11. QED
  BY <1>8, <1>9, <1>10 DEF full, half

\* What a recovered model holds.
LEMMA RecoveredLemma ==
    ASSUME CoreInv, pc = "re_aggregate"
    PROVE  /\ RecoveredModel \in SUBSET Contributions
           /\ checkpoints[model_version] \subseteq RecoveredModel
           /\ \A k \in RecoveredModel \ checkpoints[model_version] :
                  /\ k.round = round
                  /\ k.client \in Clients \ decision.quarantined_clients
                  /\ k.weight = "full"
                  /\ k.via = "re_aggregate"
<1> DEFINE added == { [round |-> round, client |-> c, weight |-> "full", via |-> "re_aggregate"]
                        : c \in Clients \ decision.quarantined_clients }
<1>1. round \in 1..TotalRounds
  BY Ranges DEF CoreInv, ControlInv, InRound, Trained, Detected, Checked
<1>2. RecoveredModel = checkpoints[model_version] \cup added
  BY OrderLemma DEF RecoveredModel, ReAggregateOn, RecoveryBase
<1>3. checkpoints[model_version] \in SUBSET Contributions
  BY Ranges DEF CoreInv, PipelineTypeOK
<1>4. \A k \in added : /\ k \in Contributions /\ k.round = round
                       /\ k.client \in Clients \ decision.quarantined_clients
                       /\ k.weight = "full" /\ k.via = "re_aggregate"
  BY <1>1 DEF Contributions
<1>5. QED
  BY <1>2, <1>3, <1>4

LEMMA RaiseStep == CoreInv /\ Raise => CoreInv'
<1> SUFFICES ASSUME CoreInv, Raise PROVE CoreInv'
  OBVIOUS
<1> USE DEF runnerVars, modelVars, judgeVars, dbVars
<1>1. Quiet
  BY DEF Raise, RaiseAtOnce, RaiseWhilePoisoning, RaiseInTraining, RaiseInSave, RaiseInEvaluation, Quiet
<1>2. TriggerInv' /\ LineageInv'
  BY <1>1, TriggerUnchanged, LineageUnchanged DEF CoreInv, Quiet
<1>3. PipelineTypeOK'
  <2>1. global_model' \in SUBSET Contributions
    BY Ranges, CandidateLemma, RecoveredLemma
       DEF Raise, RaiseAtOnce, RaiseWhilePoisoning, RaiseInTraining, RaiseInSave, RaiseInEvaluation,
           CoreInv, PipelineTypeOK
  <2>2. loaders' \in [Clients -> {"clean", "poisoned"}]
    BY DEF Raise, RaiseAtOnce, RaiseWhilePoisoning, RaiseInTraining, RaiseInSave, RaiseInEvaluation,
           Poison, RestoredLoaders, Clean, CoreInv, PipelineTypeOK
  <2>3. QED
    BY <1>1, <1>2, <2>1, <2>2
       DEF Raise, Quiet, CoreInv, PipelineTypeOK, TriggerInv, PhaseNames
<1>4. ControlInv'
  BY <1>1 DEF CoreInv, Raise, Quiet, ControlInv, Settled, Checked, Detected, Trained, InRound, Resting
<1>5. PublishedInv'
  BY <1>1, QuietPublished DEF CoreInv, Raise, Checked, Settled
<1>6. QED
  BY <1>2, <1>3, <1>4, <1>5 DEF CoreInv

LEMMA TrainClientsStep == CoreInv /\ TrainClients => CoreInv'
<1> SUFFICES ASSUME CoreInv, TrainClients PROVE CoreInv'
  OBVIOUS
<1> USE DEF runnerVars, modelVars, judgeVars, dbVars
<1>1. TriggerInv'
  BY TriggerUnchanged DEF CoreInv, TrainClients
<1>2. /\ trained_from \in Seq(Versions) /\ trained_from' = Append(trained_from, model_version)
      /\ model_version \in Versions /\ Len(trained_from) = round - 1
      /\ round \in 1..TotalRounds
  BY Ranges DEF CoreInv, PipelineTypeOK, TrainClients, ControlInv, InRound, Trained, Detected,
                Checked, Settled
<1>3. /\ trained_from' \in Seq(Versions)
      /\ Len(trained_from') = round
      /\ trained_from'[round] = model_version
      /\ \A r \in 1..Len(trained_from) : r \in 1..Len(trained_from') /\ trained_from'[r] = trained_from[r]
  BY <1>2
<1>4. PipelineTypeOK'
  <2>1. evidence' \in [1..TotalRounds -> SUBSET Tables]
    BY <1>2 DEF CoreInv, PipelineTypeOK, TrainClients, Persist, Tables
  <2>2. /\ global_model' \in SUBSET Contributions
        /\ loaders' \in [Clients -> {"clean", "poisoned"}]
    BY Ranges DEF CoreInv, PipelineTypeOK, TrainClients, RestoredLoaders, Clean
  <2>3. QED
    BY <1>1, <1>3, <2>1, <2>2
       DEF CoreInv, PipelineTypeOK, TrainClients, TriggerInv, PhaseNames
<1>5. ControlInv'
  BY <1>2, <1>3, Ranges
     DEF CoreInv, ControlInv, TrainClients, triggerVars,
         Settled, Checked, Detected, Trained, InRound, Resting
<1>6. LineageInv'
  <2>1. UNCHANGED <<checkpoints, verdicts>>
    BY DEF TrainClients
  <2>2. CandidatesAreJudged'
    BY <2>1 DEF CoreInv, LineageInv, CandidatesAreJudged, CandidateIsJudged, DeltasJudged
  <2>3. DeltasAppliedOnce'
    BY <1>3, <2>1 DEF CoreInv, LineageInv, DeltasAppliedOnce
  <2>4. QED
    BY <1>3, <2>1, <2>2, <2>3 DEF CoreInv, LineageInv
<1>7. PublishedInv'
  BY DEF TrainClients, CoreInv, PublishedInv, FreeOfOffenders, triggerVars, Offends,
     Checked, Settled
<1>8. QED
  BY <1>1, <1>4, <1>5, <1>6, <1>7 DEF CoreInv

LEMMA DetectUpdatesStep == CoreInv /\ DetectUpdates => CoreInv'
<1> SUFFICES ASSUME CoreInv, DetectUpdates PROVE CoreInv'
  OBVIOUS
<1> USE DEF runnerVars, modelVars, judgeVars, dbVars
<1>1. TriggerInv'
  BY TriggerUnchanged DEF CoreInv, DetectUpdates
<1>2. PICK vs \in [Clients -> Verdicts] :
          verdicts' = Append(verdicts, vs) /\ detections' = AlignDetections(vs)
  BY DEF DetectUpdates
<1>3. /\ verdicts \in Seq([Clients -> Verdicts]) /\ Len(verdicts) = round - 1
      /\ round \in 1..TotalRounds
  BY Ranges DEF CoreInv, PipelineTypeOK, DetectUpdates, ControlInv, InRound, Trained, Detected,
                Checked, Settled
<1>4. /\ verdicts' \in Seq([Clients -> Verdicts])
      /\ Len(verdicts') = round
      /\ verdicts'[round] = vs
      /\ \A r \in 1..Len(verdicts) : verdicts'[r] = verdicts[r]
  BY <1>2, <1>3
<1>5. Aligned(detections', vs)
  BY <1>2, AlignmentLemma
<1>6. PipelineTypeOK'
  <2>1. evidence' \in [1..TotalRounds -> SUBSET Tables]
    BY <1>3 DEF CoreInv, PipelineTypeOK, DetectUpdates, Persist, Tables
  <2>2. QED
    BY <1>1, <1>4, <1>5, <2>1
       DEF CoreInv, PipelineTypeOK, DetectUpdates, TriggerInv, PhaseNames, Aligned
<1>7. ControlInv'
  BY <1>3, <1>4, <1>5, Ranges
     DEF CoreInv, ControlInv, DetectUpdates, triggerVars,
         Settled, Checked, Detected, Trained, InRound, Resting
<1>8. LineageInv'
  <2>1. UNCHANGED <<checkpoints, trained_from>>
    BY DEF DetectUpdates
  <2>2. ASSUME NEW v \in DOMAIN checkpoints, NEW k \in checkpoints[v]
        PROVE  /\ k.round \in 1..Len(verdicts)
               /\ k.round <= v.round /\ k.round <= Len(verdicts')
    <3>1. k \in Contributions
      BY DEF CoreInv, PipelineTypeOK
    <3>2. k.round \in 1..TotalRounds /\ k.round <= Len(verdicts) /\ k.round <= v.round
      BY <3>1 DEF Contributions, CoreInv, LineageInv
    <3>3. QED
      BY <1>3, <1>4, <3>2
  <2>3. CandidatesAreJudged'
    <3>1. ASSUME NEW r \in 1..TotalRounds, Candidate(r) \in DOMAIN checkpoints
          PROVE  CandidateIsJudged(r)'
      <4>1. Candidate(r) # InitialVersion /\ Candidate(r).round = r
        BY DEF Candidate, InitialVersion
      <4>2. r \in 1..Len(verdicts)
        BY <1>3, <3>1, <4>1 DEF CoreInv, LineageInv
      <4>3. verdicts'[r] = verdicts[r]
        BY <1>4, <4>2
      <4>4. CandidateIsJudged(r)
        BY <3>1 DEF CoreInv, LineageInv, CandidatesAreJudged
      <4>5. QED
        BY <2>1, <4>3, <4>4 DEF CandidateIsJudged, DeltasJudged
    <3>2. QED
      BY <2>1, <3>1 DEF CandidatesAreJudged
  <2>4. DeltasAppliedOnce'
    BY <2>1 DEF CoreInv, LineageInv, DeltasAppliedOnce
  <2>5. QED
    BY <1>3, <1>4, <2>1, <2>2, <2>3, <2>4 DEF CoreInv, LineageInv
<1>9. PublishedInv'
  BY DEF DetectUpdates, CoreInv, PublishedInv, FreeOfOffenders, triggerVars, Offends,
     Checked, Settled
<1>10. QED
  BY <1>1, <1>6, <1>7, <1>8, <1>9 DEF CoreInv
-----------------------------------------------------------------------------
(* The steps that save a checkpoint, judge it, or publish it. *)

\* Saving a model built on the one the round was trained on keeps the lineage.
LEMMA SaveLineage ==
    ASSUME CoreInv, pc \in Detected, UNCHANGED <<trained_from, verdicts>>,
           NEW v \in Versions, v \notin DOMAIN checkpoints, v # InitialVersion, v.round = round,
           NEW state \in SUBSET Contributions, Save(v, state),
           checkpoints[model_version] \subseteq state,
           \A k \in state \ checkpoints[model_version] : k.round = round,
           \A k1, k2 \in state \ checkpoints[model_version] : k1.client = k2.client => k1 = k2,
           v = Candidate(round) =>
               state = checkpoints[model_version] \cup
                   (DeltasJudged(round, "ACCEPT", "full") \cup DeltasJudged(round, "DOWN_WEIGHT", "half"))
    PROVE  /\ LineageInv'
           /\ checkpoints' \in [DOMAIN checkpoints' -> SUBSET Contributions]
           /\ DOMAIN checkpoints' \subseteq Versions
           /\ DOMAIN checkpoints' = DOMAIN checkpoints \cup {v}
           /\ checkpoints'[v] = state
           /\ \A u \in DOMAIN checkpoints : checkpoints'[u] = checkpoints[u]
<1> DEFINE base == checkpoints[model_version]
<1>1. /\ DOMAIN checkpoints' = DOMAIN checkpoints \cup {v}
      /\ DOMAIN checkpoints' \subseteq Versions
      /\ checkpoints' \in [DOMAIN checkpoints' -> SUBSET Contributions]
      /\ checkpoints'[v] = state
      /\ \A u \in DOMAIN checkpoints : checkpoints'[u] = checkpoints[u]
  BY SaveLemma DEF CoreInv, PipelineTypeOK
<1>2. /\ round \in 1..TotalRounds /\ Len(trained_from) = round /\ Len(verdicts) = round
      /\ trained_from[round] = model_version /\ model_version \in DOMAIN checkpoints
      /\ model_version.round \in Nat /\ model_version.round < round
  BY Ranges DEF CoreInv, ControlInv, InRound, Trained
<1>3. ASSUME NEW k \in base
      PROVE  k.round \in Nat /\ k.round < round
  <2>1. k \in Contributions
    BY <1>2 DEF CoreInv, PipelineTypeOK
  <2>2. k.round \in Nat /\ k.round <= model_version.round
    BY <1>2, <2>1 DEF Contributions, CoreInv, LineageInv
  <2>3. QED
    BY <1>2, <2>2
<1>4. ASSUME NEW u \in DOMAIN checkpoints'
      PROVE  /\ u # InitialVersion => /\ u.round \in 1..Len(trained_from')
                                      /\ u.round <= Len(verdicts')
                                      /\ trained_from'[u.round] \in DOMAIN checkpoints'
             /\ \A k \in checkpoints'[u] : k.round <= u.round /\ k.round <= Len(verdicts')
  <2>1. CASE u = v
    BY <1>1, <1>2, <1>3, <2>1
  <2>2. CASE u \in DOMAIN checkpoints
    BY <1>1, <2>2 DEF CoreInv, LineageInv
  <2>3. QED
    BY <1>1, <2>1, <2>2
<1>5. DeltasAppliedOnce'
  <2>1. ASSUME NEW u \in DOMAIN checkpoints' \ {InitialVersion}
        PROVE  LET own == { k \in checkpoints'[u] : k.round = u.round }
               IN  /\ checkpoints'[u] \ own = checkpoints'[trained_from'[u.round]]
                   /\ \A k1, k2 \in own : k1.client = k2.client => k1 = k2
    <3>1. CASE u = v
      <4>1. { k \in checkpoints'[u] : k.round = u.round } = state \ base
        BY <1>1, <1>3, <3>1
      <4>2. checkpoints'[trained_from'[u.round]] = base
        BY <1>1, <1>2, <3>1
      <4>3. QED
        BY <1>1, <3>1, <4>1, <4>2
    <3>2. CASE u \in DOMAIN checkpoints
      BY <1>1, <3>2 DEF CoreInv, LineageInv, DeltasAppliedOnce
    <3>3. QED
      BY <1>1, <3>1, <3>2
  <2>2. QED
    BY <2>1 DEF DeltasAppliedOnce
<1>6. CandidatesAreJudged'
  <2>1. ASSUME NEW r \in 1..TotalRounds, Candidate(r) \in DOMAIN checkpoints'
        PROVE  CandidateIsJudged(r)'
    <3>1. CASE Candidate(r) = v
      <4>1. r = round
        BY <3>1 DEF Candidate
      <4>2. \A k \in DeltasJudged(round, "ACCEPT", "full") \cup DeltasJudged(round, "DOWN_WEIGHT", "half") :
                k.round = round
        BY DEF DeltasJudged
      <4>3. \A k \in base : k.round # round
        BY <1>2, <1>3
      <4>4. { k \in checkpoints'[Candidate(r)] : k.round = r } =
                DeltasJudged(r, "ACCEPT", "full") \cup DeltasJudged(r, "DOWN_WEIGHT", "half")
        BY <1>1, <3>1, <4>1, <4>2, <4>3
      <4>5. QED
        BY <4>4 DEF CandidateIsJudged, DeltasJudged
    <3>2. CASE Candidate(r) \in DOMAIN checkpoints
      BY <1>1, <3>2 DEF CoreInv, LineageInv, CandidatesAreJudged, CandidateIsJudged, DeltasJudged
    <3>3. QED
      BY <1>1, <2>1, <3>1, <3>2
  <2>2. QED
    BY <2>1 DEF CandidatesAreJudged
<1>7. QED
  BY <1>1, <1>4, <1>5, <1>6 DEF LineageInv

LEMMA AggregateStep == CoreInv /\ Aggregate => CoreInv'
<1> SUFFICES ASSUME CoreInv, Aggregate PROVE CoreInv'
  OBVIOUS
<1> USE DEF runnerVars, modelVars, judgeVars, dbVars
<1> DEFINE v == Candidate(round)
<1>1. TriggerInv'
  BY TriggerUnchanged DEF CoreInv, Aggregate
<1>2. /\ round \in 1..TotalRounds
      /\ v \in Versions /\ v # InitialVersion /\ v.round = round
  BY Ranges DEF CoreInv, Aggregate, ControlInv, InRound, Trained, Detected,
                Versions, Candidate, InitialVersion
<1>3. /\ CandidateModel \in SUBSET Contributions
      /\ CandidateModel = checkpoints[model_version] \cup
             (DeltasJudged(round, "ACCEPT", "full") \cup DeltasJudged(round, "DOWN_WEIGHT", "half"))
      /\ checkpoints[model_version] \subseteq CandidateModel
      /\ \A k \in CandidateModel \ checkpoints[model_version] : k.round = round
  BY CandidateLemma DEF Aggregate
<1>4. \A k1, k2 \in CandidateModel \ checkpoints[model_version] :
          k1.client = k2.client => k1 = k2
  BY CandidateLemma DEF Aggregate
<1>5. /\ LineageInv'
      /\ checkpoints' \in [DOMAIN checkpoints' -> SUBSET Contributions]
      /\ DOMAIN checkpoints' \subseteq Versions
      /\ DOMAIN checkpoints' = DOMAIN checkpoints \cup {v}
      /\ checkpoints'[v] = CandidateModel
      /\ \A u \in DOMAIN checkpoints : checkpoints'[u] = checkpoints[u]
  BY <1>2, <1>3, <1>4, SaveLineage DEF Aggregate, Detected
<1>6. PipelineTypeOK'
  BY <1>1, <1>2, <1>3, <1>5
     DEF CoreInv, PipelineTypeOK, Aggregate, TriggerInv, PhaseNames
<1>7. ControlInv'
  BY <1>2, Ranges DEF CoreInv, ControlInv, Aggregate, triggerVars,
                Settled, Checked, Detected, Trained, InRound, Resting
<1>8. PublishedInv'
  <2>1. model_version \in DOMAIN checkpoints
    BY Ranges DEF CoreInv
  <2>2. checkpoints'[model_version'] = checkpoints[model_version]
    BY <1>5, <2>1 DEF Aggregate
  <2>3. QED
    BY <1>3, <1>5, <2>2 DEF CoreInv, PublishedInv, Aggregate, FreeOfOffenders, triggerVars,
                            Offends, Checked, Settled
<1>9. QED
  BY <1>1, <1>5, <1>6, <1>7, <1>8 DEF CoreInv

LEMMA ValidateCandidateStep == CoreInv /\ ValidateCandidate => CoreInv'
<1> SUFFICES ASSUME CoreInv, ValidateCandidate PROVE CoreInv'
  OBVIOUS
<1> USE DEF runnerVars, modelVars, judgeVars, dbVars
<1>1. Quiet
  BY DEF ValidateCandidate, Quiet
<1>2. TriggerInv' /\ LineageInv'
  BY <1>1, TriggerUnchanged, LineageUnchanged DEF CoreInv, Quiet
<1>3. PipelineTypeOK'
  <2>1. evidence' \in [1..TotalRounds -> SUBSET Tables]
    BY Ranges DEF CoreInv, PipelineTypeOK, ValidateCandidate, Persist, Tables
  <2>2. loss_spiked' \in BOOLEAN /\ gate_primed' \in BOOLEAN
    BY DEF CoreInv, PipelineTypeOK, ValidateCandidate
  <2>3. global_model' \in SUBSET Contributions
    BY Ranges DEF CoreInv, PipelineTypeOK, ValidateCandidate
  <2>4. QED
    BY <1>2, <2>1, <2>2, <2>3
       DEF CoreInv, PipelineTypeOK, ValidateCandidate, TriggerInv, PhaseNames
<1>4. ControlInv'
  BY Ranges DEF CoreInv, ValidateCandidate, ControlInv, triggerVars,
                Settled, Checked, Detected, Trained, InRound, Resting
<1>5. PublishedInv'
  BY <1>1, QuietPublished DEF CoreInv, ValidateCandidate, Checked, Settled
<1>6. QED
  BY <1>2, <1>3, <1>4, <1>5 DEF CoreInv

LEMMA AdvanceRunStep == CoreInv /\ AdvanceRun => CoreInv'
<1> SUFFICES ASSUME CoreInv, AdvanceRun PROVE CoreInv'
  OBVIOUS
<1> USE DEF runnerVars, modelVars, judgeVars, dbVars
<1>1. TriggerInv' /\ LineageInv'
  BY TriggerUnchanged, LineageUnchanged DEF CoreInv, AdvanceRun
<1>2. PipelineTypeOK'
  <2>1. run_rec' \in [status : {"RUNNING", "COMPLETED", "FAILED"},
                      current_round : 0..TotalRounds, model_version : Versions]
    BY Ranges DEF CoreInv, PipelineTypeOK, AdvanceRun, RowAfter
  <2>2. QED
    BY <1>1, <2>1 DEF CoreInv, PipelineTypeOK, AdvanceRun, TriggerInv, PhaseNames
<1>3. ControlInv'
  <2>1. run_rec'.model_version = new_model_version
    BY DEF CoreInv, PipelineTypeOK, AdvanceRun, RowAfter
  <2>2. new_model_version.round <= round
    BY DEF CoreInv, ControlInv
  <2>3. QED
    BY <2>1, <2>2, Ranges
       DEF CoreInv, ControlInv, AdvanceRun, triggerVars,
           Settled, Checked, Detected, Trained, InRound, Resting
<1>4. PublishedInv'
  BY DEF AdvanceRun, CoreInv, PublishedInv, FreeOfOffenders, triggerVars, Offends,
     Checked, Settled
<1>5. QED
  BY <1>1, <1>2, <1>3, <1>4 DEF CoreInv

LEMMA CheckRecoveryStep == CoreInv /\ CheckRecovery => CoreInv'
<1> SUFFICES ASSUME CoreInv, CheckRecovery PROVE CoreInv'
  OBVIOUS
<1> USE DEF runnerVars, modelVars, judgeVars, dbVars
<1>1. /\ round \in DOMAIN verdicts /\ verdicts[round] \in [Clients -> Verdicts]
      /\ Aligned(detections, verdicts[round])
      /\ current_round = round - 1 /\ new_model_version = Candidate(round)
      /\ round \in 1..TotalRounds
  BY Ranges DEF CoreInv, PipelineTypeOK, ControlInv, CheckRecovery,
                InRound, Trained, Detected, Checked, Settled
<1>2. AnomalyScores \in ScoreMaps
  BY <1>1, ScoresLemma
<1>3. loss_spiked \in BOOLEAN /\ EvaluateRecoveryNeed(AnomalyScores, loss_spiked)
  BY DEF CoreInv, PipelineTypeOK, CheckRecovery
<1>4. TriggerInv'
  BY <1>2, <1>3, EvaluationStep DEF CoreInv
<1>5. Record(AnomalyScores)
  BY <1>3 DEF EvaluateRecoveryNeed, ValidationOverride, AnomalyTrigger, NoTrigger
<1>6. /\ current_round' = round
      /\ evaluations' = Append(evaluations, AnomalyScores)
      /\ evaluations \in Seq(ScoreMaps) /\ Len(evaluations) = current_round
  BY <1>1, <1>5, Ranges DEF Record, CoreInv, TriggerInv, TriggerTypeOK, DequeInv
<1>7. /\ evaluations'[round] = AnomalyScores
      /\ \A r \in 1..current_round : evaluations'[r] = evaluations[r]
  BY <1>1, <1>2, <1>6
<1>8. LineageInv'
  BY LineageUnchanged DEF CoreInv, CheckRecovery
<1>9. PipelineTypeOK'
  <2>1. global_model' \in SUBSET Contributions
    BY Ranges DEF CoreInv, PipelineTypeOK, CheckRecovery
  <2>2. pc' \in PhaseNames
    BY DEF CheckRecovery, PhaseNames
  <2>3. QED
    BY <1>4, <2>1, <2>2 DEF CoreInv, PipelineTypeOK, CheckRecovery, TriggerInv
<1>10. ControlInv'
  BY <1>6, Ranges DEF CoreInv, ControlInv, CheckRecovery,
                      Settled, Checked, Detected, Trained, InRound, Resting
<1>11. PublishedInv'
  <2>1. ASSUME NEW k \in checkpoints[model_version]
        PROVE  k.round <= current_round' /\ ~Offends(k.client, k.round)'
    <3>1. k.round \in 1..current_round
      <4>1. k \in Contributions
        BY Ranges DEF CoreInv, PipelineTypeOK
      <4>2. QED
        BY <4>1 DEF Contributions, CoreInv, PublishedInv, FreeOfOffenders
    <3>2. ~Offends(k.client, k.round)
      BY DEF CoreInv, PublishedInv, FreeOfOffenders
    <3>3. evaluations'[k.round] = evaluations[k.round]
      BY <1>7, <3>1
    <3>4. QED
      BY <1>1, <1>6, <3>1, <3>2, <3>3, Ranges DEF Offends, CoreInv
  <2>2. ASSUME pc' \in Settled, NEW k \in checkpoints[new_model_version]
        PROVE  k.round <= current_round' /\ ~Offends(k.client, k.round)'
    <3>1. SuspiciousClients(AnomalyScores) = {}
      BY <1>3, <2>2 DEF EvaluateRecoveryNeed, ValidationOverride, AnomalyTrigger, Answer,
                        BuildTriggeredDecision, CheckRecovery, Settled, NoTrigger
    <3>2. CASE k \in checkpoints[model_version]
      BY <2>1, <3>2
    <3>3. CASE k.round = round
      BY <1>1, <1>6, <1>7, <3>1, <3>3 DEF Offends, SuspiciousClients
    <3>4. QED
      BY <3>2, <3>3 DEF CoreInv, PublishedInv, CheckRecovery
  <2>3. UNCHANGED <<checkpoints, model_version, new_model_version>>
    BY DEF CheckRecovery
  <2>4. /\ checkpoints[model_version] \subseteq checkpoints[new_model_version]
        /\ \A k \in checkpoints[new_model_version] \ checkpoints[model_version] : k.round = round
        /\ round' = round
    BY DEF CoreInv, PublishedInv, CheckRecovery
  <2>5. QED
    BY <2>1, <2>2, <2>3, <2>4 DEF PublishedInv, FreeOfOffenders
<1>12. QED
  BY <1>4, <1>8, <1>9, <1>10, <1>11 DEF CoreInv

LEMMA ReAggregateStep == CoreInv /\ ReAggregate => CoreInv'
<1> SUFFICES ASSUME CoreInv, ReAggregate PROVE CoreInv'
  OBVIOUS
<1> USE DEF runnerVars, modelVars, judgeVars, dbVars
<1> DEFINE v == Recovered(round)
<1>1. TriggerInv'
  BY TriggerUnchanged DEF CoreInv, ReAggregate
<1>2. /\ round \in 1..TotalRounds /\ current_round = round
      /\ v \in Versions /\ v # InitialVersion /\ v.round = round /\ v # Candidate(round)
  BY Ranges DEF CoreInv, ReAggregate, ControlInv, InRound, Trained, Detected, Checked,
                Versions, Recovered, Candidate, InitialVersion
<1>3. model_version \in DOMAIN checkpoints
  BY Ranges DEF CoreInv
<1>4. CASE NobodyLeft /\ new_model_version' = RecoveryBase /\ UNCHANGED <<checkpoints, global_model>>
  <2>1. new_model_version' = model_version
    BY <1>4 DEF RecoveryBase
  <2>2. LineageInv'
    BY <1>4, LineageUnchanged DEF CoreInv, ReAggregate
  <2>3. PipelineTypeOK'
    BY <1>1, <1>3, <1>4, <2>1
       DEF CoreInv, PipelineTypeOK, ReAggregate, TriggerInv, PhaseNames
  <2>4. ControlInv'
    BY <1>4, <2>1, Ranges DEF CoreInv, ControlInv, ReAggregate, triggerVars,
                              Settled, Checked, Detected, Trained, InRound, Resting
  <2>5. PublishedInv'
    BY <1>4, <2>1 DEF CoreInv, PublishedInv, ReAggregate, FreeOfOffenders, triggerVars, Offends
  <2>6. QED
    BY <1>1, <2>2, <2>3, <2>4, <2>5 DEF CoreInv
<1>5. CASE /\ ~NobodyLeft
           /\ Recovered(round) \notin DOMAIN checkpoints
           /\ global_model' = RecoveredModel
           /\ Save(Recovered(round), RecoveredModel)
           /\ new_model_version' = Recovered(round)
  <2>1. /\ RecoveredModel \in SUBSET Contributions
        /\ checkpoints[model_version] \subseteq RecoveredModel
        /\ \A k \in RecoveredModel \ checkpoints[model_version] :
               /\ k.round = round
               /\ k.client \in Clients \ decision.quarantined_clients
               /\ k.weight = "full"
               /\ k.via = "re_aggregate"
    BY RecoveredLemma DEF ReAggregate
  <2>2. \A k1, k2 \in RecoveredModel \ checkpoints[model_version] :
            k1.client = k2.client => k1 = k2
    BY <2>1 DEF Contributions
  <2>3. /\ LineageInv'
        /\ checkpoints' \in [DOMAIN checkpoints' -> SUBSET Contributions]
        /\ DOMAIN checkpoints' \subseteq Versions
        /\ DOMAIN checkpoints' = DOMAIN checkpoints \cup {v}
        /\ checkpoints'[v] = RecoveredModel
        /\ \A u \in DOMAIN checkpoints : checkpoints'[u] = checkpoints[u]
    BY <1>2, <1>5, <2>1, <2>2, SaveLineage DEF ReAggregate, Detected, Checked
  <2>4. PipelineTypeOK'
    BY <1>1, <1>2, <1>5, <2>1, <2>3
       DEF CoreInv, PipelineTypeOK, ReAggregate, TriggerInv, PhaseNames
  <2>5. ControlInv'
    BY <1>2, <1>5, Ranges DEF CoreInv, ControlInv, ReAggregate, triggerVars,
                  Settled, Checked, Detected, Trained, InRound, Resting
  <2>6. PublishedInv'
    <3>1. checkpoints'[model_version'] = checkpoints[model_version]
      BY <1>3, <2>3 DEF ReAggregate
    <3>2. ASSUME NEW k \in RecoveredModel
          PROVE  k.round <= current_round /\ ~Offends(k.client, k.round)
      <4>1. CASE k \in checkpoints[model_version]
        BY <4>1 DEF CoreInv, PublishedInv, FreeOfOffenders
      <4>2. CASE k \notin checkpoints[model_version]
        <5>1. k.round = current_round /\ k.client \in Clients \ decision.quarantined_clients
          BY <1>2, <2>1, <4>2
        <5>2. ~Offends(k.client, current_round)
          BY <1>2, <5>1, InvGivesNoSlip DEF OffenderNeverSlipsThrough, CoreInv
        <5>3. QED
          BY <1>2, <5>1, <5>2
      <4>3. QED
        BY <4>1, <4>2
    <3>3. ASSUME NEW k, k \in RecoveredModel \/ k \in checkpoints[model_version]
          PROVE  k.round <= current_round' /\ ~Offends(k.client, k.round)'
      BY <3>2, <3>3 DEF CoreInv, PublishedInv, ReAggregate, FreeOfOffenders, triggerVars, Offends
    <3>4. QED
      BY <1>5, <2>1, <2>3, <3>1, <3>3 DEF PublishedInv, ReAggregate, FreeOfOffenders
  <2>7. QED
    BY <1>1, <2>3, <2>4, <2>5, <2>6 DEF CoreInv
<1>6. QED
  BY <1>4, <1>5 DEF ReAggregate

LEMMA PipelineInitInv == PipelineInit => CoreInv
<1> SUFFICES ASSUME PipelineInit PROVE CoreInv
  OBVIOUS
<1>1. TotalRounds \in Nat
  BY TriggerAssumption DEF TotalRounds
<1>2. TriggerInv
  BY TriggerInitInv DEF PipelineInit
<1>3. /\ DOMAIN checkpoints = {InitialVersion} /\ checkpoints[InitialVersion] = {}
      /\ InitialVersion \in Versions /\ InitialVersion.round = 0
  BY <1>1 DEF PipelineInit, InitialVersion, Versions
<1>4. PipelineTypeOK
  <2>1. /\ round_recs \in [1..TotalRounds -> [status : {"ABSENT", "PENDING", "COMPLETED"},
                                             model_version : Versions,
                                             recovery_triggered : BOOLEAN]]
        /\ recovery_recs \in [1..TotalRounds -> {"ABSENT", "NOT_REQUIRED", "COMPLETED"}]
        /\ evidence \in [1..TotalRounds -> SUBSET Tables]
    BY <1>3 DEF PipelineInit, NoRow
  <2>2. run_rec \in [status : {"RUNNING", "COMPLETED", "FAILED"},
                     current_round : 0..TotalRounds, model_version : Versions]
    BY <1>1, <1>3 DEF PipelineInit
  <2>3. /\ checkpoints \in [DOMAIN checkpoints -> SUBSET Contributions]
        /\ loaders \in [Clients -> {"clean", "poisoned"}]
    BY <1>3 DEF PipelineInit, Clean
  <2>4. verdicts \in Seq([Clients -> Verdicts]) /\ trained_from \in Seq(Versions)
    BY DEF PipelineInit
  <2>5. QED
    BY <1>1, <1>2, <1>3, <2>1, <2>2, <2>3, <2>4
       DEF PipelineInit, PipelineTypeOK, TriggerInv, PhaseNames
<1>5. ControlInv
  BY <1>3 DEF PipelineInit, TriggerInit, ControlInv, Settled, Checked, Detected, Trained, InRound, Resting
<1>6. LineageInv
  BY <1>3 DEF PipelineInit, LineageInv, DeltasAppliedOnce, CandidatesAreJudged, Candidate, InitialVersion
<1>7. PublishedInv
  BY <1>3 DEF PipelineInit, PublishedInv, FreeOfOffenders, Settled
<1>8. QED
  BY <1>2, <1>4, <1>5, <1>6, <1>7 DEF CoreInv

\* Every step of the pipeline keeps the core invariant.
LEMMA CoreStep == CoreInv /\ [PipelineNext]_pipelineVars => CoreInv'
<1> SUFFICES ASSUME CoreInv, [PipelineNext]_pipelineVars PROVE CoreInv'
  OBVIOUS
<1>1. CASE UNCHANGED pipelineVars
  <2>1. Quiet /\ UNCHANGED <<pc, round, detections, run_rec>>
    BY <1>1 DEF pipelineVars, Quiet, runnerVars, modelVars, judgeVars, dbVars
  <2>2. TriggerInv' /\ LineageInv'
    BY <2>1, TriggerUnchanged, LineageUnchanged DEF CoreInv, Quiet
  <2>3. PublishedInv'
    BY <2>1, QuietPublished DEF CoreInv
  <2>4. PipelineTypeOK'
    BY <1>1, <2>2 DEF pipelineVars, runnerVars, modelVars, judgeVars, dbVars,
                      CoreInv, PipelineTypeOK, TriggerInv
  <2>5. ControlInv'
    BY <2>1 DEF CoreInv, ControlInv, Quiet, triggerVars
  <2>6. QED
    BY <2>2, <2>3, <2>4, <2>5 DEF CoreInv
<1>2. CASE PipelineNext
  BY <1>2, StartRoundStep, ApplyDataAttacksStep, TrainClientsStep, DetectUpdatesStep,
     EstimateImpactStep, AggregateStep, ValidateCandidateStep, CheckRecoveryStep,
     ReAggregateStep, EvaluateRecoveredStep, PersistRecoveryStep, CompleteRoundStep,
     PersistMetricsStep, AdvanceRunStep, FinishRunStep, AnnounceCompletionStep,
     RaiseStep, RecordFailureStep, LoseFailureStep DEF PipelineNext
<1>3. QED
  BY <1>1, <1>2

\* The row of the run keeps its distance to the runner.
LEMMA RowStep == PipelineInv /\ [PipelineNext]_pipelineVars => RowInv'
<1> SUFFICES ASSUME PipelineInv, [PipelineNext]_pipelineVars PROVE RowInv'
  OBVIOUS
<1> USE DEF Settled, Checked, Detected, Trained, InRound, Resting
<1>1. /\ round \in Nat /\ current_round \in Nat /\ run_rec.current_round \in Nat
      /\ run_rec \in [status : {"RUNNING", "COMPLETED", "FAILED"},
                      current_round : 0..TotalRounds, model_version : Versions]
      /\ pc \in PhaseNames
  BY Ranges DEF PipelineInv, CoreInv, PipelineTypeOK
<1>2. ASSUME UNCHANGED <<run_rec, round, current_round>>,
             \/ pc \in InRound /\ pc' \in InRound \cup {"failing"}
             \/ pc = "start" /\ pc' = "failing"
             \/ pc = "announce" /\ pc' \in {"failing", "stopped"}
             \/ pc' = "lost"
      PROVE  RowInv'
  BY <1>1, <1>2 DEF PipelineInv, RowInv
<1>3. CASE StartRound
  BY <1>1, <1>3 DEF PipelineInv, RowInv, StartRound, dbVars, triggerVars
<1>4. CASE CheckRecovery
  <2>1. current_round' = current_round + 1
    BY <1>4 DEF CheckRecovery, EvaluateRecoveryNeed, ValidationOverride, AnomalyTrigger,
                NoTrigger, Record
  <2>2. QED
    BY <1>1, <1>4, <2>1 DEF PipelineInv, RowInv, CheckRecovery, dbVars
<1>5. CASE AdvanceRun
  BY <1>1, <1>5 DEF PipelineInv, CoreInv, ControlInv, RowInv, AdvanceRun, RowAfter, triggerVars
<1>6. CASE FinishRun
  BY <1>1, <1>6 DEF PipelineInv, RowInv, FinishRun, triggerVars
<1>7. CASE RecordFailure
  BY <1>1, <1>7 DEF PipelineInv, RowInv, RecordFailure, FailedRow, triggerVars
<1>8. CASE UNCHANGED pipelineVars
  BY <1>8 DEF PipelineInv, RowInv, pipelineVars, runnerVars, dbVars, triggerVars
<1>9. CASE \/ ApplyDataAttacks \/ TrainClients \/ DetectUpdates \/ EstimateImpact \/ Aggregate
           \/ ValidateCandidate \/ ReAggregate \/ EvaluateRecovered \/ PersistRecovery
           \/ CompleteRound \/ PersistMetrics \/ AnnounceCompletion \/ LoseFailure
  BY <1>2, <1>9
     DEF ApplyDataAttacks, TrainClients, DetectUpdates, EstimateImpact, Aggregate,
         ValidateCandidate, ReAggregate, EvaluateRecovered, PersistRecovery, CompleteRound,
         PersistMetrics, AnnounceCompletion, LoseFailure, dbVars, triggerVars
<1>10. CASE Raise
  BY <1>1, <1>2, <1>10
     DEF Raise, RaiseAtOnce, RaiseWhilePoisoning, RaiseInTraining, RaiseInSave, RaiseInEvaluation, PhaseNames,
         dbVars, triggerVars
<1>11. QED
  BY <1>3, <1>4, <1>5, <1>6, <1>7, <1>8, <1>9, <1>10 DEF PipelineNext
-----------------------------------------------------------------------------
(* The results. *)

\* The invariant holds in every reachable state of every run.
THEOREM PipelineInvariant == PipelineSpec => []PipelineInv
<1>1. PipelineInit => PipelineInv
  BY PipelineInitInv DEF PipelineInv, RowInv, PipelineInit, TriggerInit, InRound, Trained,
                         Detected, Checked, Settled, Resting
<1>2. PipelineInv /\ [PipelineNext]_pipelineVars => PipelineInv'
  BY CoreStep, RowStep DEF PipelineInv
<1>3. QED
  BY <1>1, <1>2, PTL DEF PipelineSpec

\* Type correctness of the whole pipeline, engine included.
THEOREM PipelineTypeCorrect == PipelineSpec => []PipelineTypeOK
<1>1. PipelineInv => PipelineTypeOK
  BY DEF PipelineInv, CoreInv
<1>2. QED
  BY <1>1, PipelineInvariant, PTL

\* For every number of clients and rounds, no published model ever holds the
\* delta of a client that offended in the round it was sent in.
THEOREM PipelineKeepsOffendersOut == PipelineSpec => []OffendersStayOut
<1>1. PipelineInv => OffendersStayOut
  BY DEF PipelineInv, CoreInv, ControlInv, PublishedInv, FreeOfOffenders, OffendersStayOut
<1>2. QED
  BY <1>1, PipelineInvariant, PTL

\* Recovery never stacks deltas: every checkpoint is the model its round was
\* trained on plus deltas of that round, each at most once.
THEOREM PipelineAppliesDeltasOnce == PipelineSpec => []DeltasAppliedOnce
<1>1. PipelineInv => DeltasAppliedOnce
  BY DEF PipelineInv, CoreInv, LineageInv
<1>2. QED
  BY <1>1, PipelineInvariant, PTL

\* None of the checks of the trust-aware average ever fires.
THEOREM PipelineMatchesDecisions == PipelineSpec => []DecisionsMatchUpdates
<1>1. PipelineInv => DecisionsMatchUpdates
  <2> SUFFICES ASSUME PipelineInv, pc = "aggregate" PROVE Averageable(detections)
    BY DEF DecisionsMatchUpdates
  <2>1. /\ verdicts[round] \in [Clients -> Verdicts] /\ Aligned(detections, verdicts[round])
    BY Ranges DEF PipelineInv, CoreInv, PipelineTypeOK, ControlInv, InRound, Trained, Detected
  <2>2. QED
    BY <2>1, KeptLemma
<1>2. QED
  BY <1>1, PipelineInvariant, PTL

\* Whatever order the Sentinel answers in and whatever the firewall keeps from
\* it, every candidate averages exactly the trusted updates of its round, each
\* with the weight of its own verdict, and no round is refused.
THEOREM PipelineHonoursVerdicts == PipelineSpec => []AverageHonoursVerdicts
<1>1. PipelineInv => CandidatesAreJudged
  BY DEF PipelineInv, CoreInv, LineageInv
<1>2. CandidatesAreJudged /\ DecisionsMatchUpdates => AverageHonoursVerdicts
  BY DEF CandidatesAreJudged, AverageHonoursVerdicts
<1>3. QED
  BY <1>1, <1>2, PipelineInvariant, PipelineMatchesDecisions, PTL

LEMMA NextKeepsCheckpoints ==
    ASSUME PipelineNext
    PROVE  \A v \in DOMAIN checkpoints :
               v \in DOMAIN checkpoints' /\ checkpoints'[v] = checkpoints[v]
<1>1. CASE Aggregate
  BY <1>1 DEF Aggregate, Save
<1>2. CASE ReAggregate
  BY <1>2 DEF ReAggregate, Save
<1>3. CASE ~Aggregate /\ ~ReAggregate
  <2>1. UNCHANGED checkpoints
    BY <1>3 DEF PipelineNext, StartRound, ApplyDataAttacks, TrainClients, DetectUpdates,
         EstimateImpact, ValidateCandidate, CheckRecovery, EvaluateRecovered, PersistRecovery,
         CompleteRound, PersistMetrics, AdvanceRun, FinishRun, AnnounceCompletion,
         Raise, RaiseAtOnce, RaiseWhilePoisoning, RaiseInTraining, RaiseInSave, RaiseInEvaluation,
         RecordFailure, LoseFailure, modelVars
  <2>2. QED
    BY <2>1
<1>4. QED
  BY <1>1, <1>2, <1>3

\* No step changes or drops a saved checkpoint.
THEOREM PipelineKeepsCheckpoints == PipelineSpec => CheckpointsAreImmutable
<1> DEFINE kept == \A v \in DOMAIN checkpoints :
                       v \in DOMAIN checkpoints' /\ checkpoints'[v] = checkpoints[v]
<1>1. [PipelineNext]_pipelineVars => [kept]_pipelineVars
  BY NextKeepsCheckpoints
<1>2. QED
  BY <1>1, PTL DEF PipelineSpec, CheckpointsAreImmutable
-----------------------------------------------------------------------------
(* The run implements TrustedModel. *)

\* The state of TrustedModel a run is in.
Published == { <<k.round, k.client>> : k \in checkpoints[run_rec.model_version] }
BarredIn(r) == { c \in Clients : Offends(c, r) }
BarredLog == [r \in 1..run_rec.current_round |-> BarredIn(r)]

\* Evaluations and checkpoints of the past stay as they are.
LEMMA PastUnchanged ==
    ASSUME PipelineInv, [PipelineNext]_pipelineVars
    PROVE  /\ \A v \in DOMAIN checkpoints : checkpoints'[v] = checkpoints[v]
           /\ \A r \in 1..current_round : evaluations'[r] = evaluations[r]
<1>1. evaluations \in Seq(ScoreMaps) /\ Len(evaluations) = current_round
  BY DEF PipelineInv, CoreInv, TriggerInv, TriggerTypeOK, DequeInv
<1>2. CASE PipelineNext
  <2>1. \A v \in DOMAIN checkpoints : checkpoints'[v] = checkpoints[v]
    BY <1>2, NextKeepsCheckpoints
  <2>2. CASE CheckRecovery
    <3>1. PICK scores : evaluations' = Append(evaluations, scores)
      BY <2>2 DEF CheckRecovery, EvaluateRecoveryNeed, ValidationOverride, AnomalyTrigger,
                  NoTrigger, Record
    <3>2. QED
      BY <1>1, <2>1, <3>1
  <2>3. CASE ~CheckRecovery
    BY <1>2, <2>1, <2>3
       DEF PipelineNext, StartRound, ApplyDataAttacks, TrainClients, DetectUpdates,
           EstimateImpact, Aggregate, ValidateCandidate, ReAggregate, EvaluateRecovered,
           PersistRecovery, CompleteRound, PersistMetrics, AdvanceRun, FinishRun,
           AnnounceCompletion, Raise, RecordFailure, LoseFailure, triggerVars
  <2>4. QED
    BY <2>2, <2>3
<1>3. CASE UNCHANGED pipelineVars
  BY <1>3 DEF pipelineVars, modelVars, triggerVars
<1>4. QED
  BY <1>2, <1>3

\* A step that leaves the run's row alone leaves the published state alone.
LEMMA RowUnchanged ==
    ASSUME PipelineInv, [PipelineNext]_pipelineVars, run_rec' = run_rec
    PROVE  Published' = Published /\ BarredLog' = BarredLog
<1>1. run_rec.model_version \in DOMAIN checkpoints
  BY Ranges DEF PipelineInv, CoreInv, ControlInv
<1>2. checkpoints'[run_rec'.model_version] = checkpoints[run_rec.model_version]
  BY <1>1, PastUnchanged
<1>3. \A r \in 1..run_rec.current_round : BarredIn(r)' = BarredIn(r)
  <2>1. run_rec.current_round \in Nat /\ run_rec.current_round <= current_round
    BY DEF PipelineInv, CoreInv, PipelineTypeOK, RowInv
  <2>2. current_round \in Nat
    BY Ranges DEF PipelineInv, CoreInv
  <2>3. QED
    BY <2>1, <2>2, PastUnchanged DEF BarredIn, Offends
<1>4. QED
  BY <1>2, <1>3 DEF Published, BarredLog

\* Only LoseFailure loses a run, and a lost run takes no step.
LEMMA LostIsFinal ==
    ASSUME [PipelineNext]_pipelineVars, ~LoseFailure
    PROVE  pc' = "lost" <=> pc = "lost"
BY DEF PipelineNext, StartRound, ApplyDataAttacks, TrainClients, DetectUpdates,
       EstimateImpact, Aggregate, ValidateCandidate, CheckRecovery, ReAggregate,
       EvaluateRecovered, PersistRecovery, CompleteRound, PersistMetrics, AdvanceRun,
       FinishRun, AnnounceCompletion, Raise, RaiseAtOnce, RaiseWhilePoisoning, RaiseInTraining,
       RaiseInSave, RaiseInEvaluation, RecordFailure, pipelineVars, runnerVars

\* AdvanceRun publishes a whole round, free of its offenders.
LEMMA AdvancePublishes ==
    ASSUME PipelineInv, AdvanceRun
    PROVE  \E kept, out \in SUBSET Clients : Promise!PublishRound(kept, out)
<1> DEFINE base == checkpoints[model_version]
           next == checkpoints[new_model_version]
           kept == { k.client : k \in next \ base }
           n == run_rec.current_round
<1>1. /\ round \in Nat /\ n \in Nat /\ round = n + 1 /\ round <= TotalRounds
      /\ run_rec.status = "RUNNING" /\ run_rec.model_version = model_version
      /\ current_round = round /\ TotalRounds \in Nat
  BY Ranges DEF PipelineInv, CoreInv, PipelineTypeOK, RowInv, ControlInv, AdvanceRun,
                InRound, Trained, Detected, Checked, Settled
<1>2. run_rec' = [run_rec EXCEPT !.current_round = round, !.model_version = new_model_version]
  BY DEF AdvanceRun, RowAfter
<1>3. /\ run_rec'.status = "RUNNING" /\ run_rec'.current_round = n + 1
      /\ run_rec'.model_version = new_model_version
  BY <1>1, <1>2 DEF PipelineInv, CoreInv, PipelineTypeOK
<1>4. /\ base \subseteq next
      /\ \A k \in next \ base : /\ k.round = n + 1 /\ k.client \in Clients
                                /\ ~Offends(k.client, n + 1)
  <2>1. base \subseteq next /\ \A k \in next \ base : k.round = n + 1
    BY <1>1 DEF PipelineInv, CoreInv, PublishedInv, AdvanceRun, Checked, Settled
  <2>2. \A k \in next : k.client \in Clients
    BY Ranges DEF PipelineInv, CoreInv, PipelineTypeOK, Contributions
  <2>3. \A k \in next : ~Offends(k.client, k.round)
    BY DEF PipelineInv, CoreInv, PublishedInv, FreeOfOffenders, AdvanceRun, Settled
  <2>4. QED
    BY <2>1, <2>2, <2>3
<1>5. kept \in SUBSET Clients /\ BarredIn(n + 1) \in SUBSET Clients /\ kept \cap BarredIn(n + 1) = {}
  BY <1>4 DEF BarredIn
<1>6. Published' = Published \cup { <<n + 1, c>> : c \in kept }
  <2>1. Published = { <<k.round, k.client>> : k \in base }
    BY <1>1 DEF Published
  <2>2. Published' = { <<k.round, k.client>> : k \in next }
    BY <1>3 DEF Published, AdvanceRun, modelVars
  <2>3. { <<k.round, k.client>> : k \in next \ base } = { <<n + 1, c>> : c \in kept }
    BY <1>4
  <2>4. QED
    BY <1>4, <2>1, <2>2, <2>3
<1>7. BarredLog' = Append(BarredLog, BarredIn(n + 1))
  <2>1. \A r : BarredIn(r)' = BarredIn(r)
    BY DEF BarredIn, Offends, AdvanceRun, triggerVars
  <2>2. BarredLog' = [r \in 1..n + 1 |-> BarredIn(r)]
    BY <1>3, <2>1 DEF BarredLog
  <2>3. BarredLog = [r \in 1..n |-> BarredIn(r)]
    BY DEF BarredLog
  <2>4. QED
    BY <1>1, <2>2, <2>3
<1>8. PICK K, O \in SUBSET Clients : K = kept /\ O = BarredIn(n + 1)
  BY <1>5, Zenon
<1> HIDE DEF kept
<1>9. Promise!PublishRound(K, O)
  <2>1. Published' = Published \cup { <<n + 1, c>> : c \in K } /\ K \cap O = {}
    BY <1>5, <1>6, <1>8
  <2>2. BarredLog' = Append(BarredLog, O)
    BY <1>7, <1>8
  <2>3. { <<k.round, k.client>> : k \in checkpoints[run_rec.model_version] }'
            = { <<k.round, k.client>> : k \in checkpoints[run_rec.model_version] }
                  \cup { <<run_rec.current_round + 1, c>> : c \in K }
    BY <2>1 DEF Published
  <2>4. [r \in 1..run_rec.current_round |-> { c \in Clients : Offends(c, r) }]'
            = Append([r \in 1..run_rec.current_round |-> { c \in Clients : Offends(c, r) }], O)
    BY <2>2, Zenon DEF BarredLog, BarredIn
  <2>5. /\ RunStatus = "RUNNING" /\ run_rec.current_round < TotalRounds /\ K \cap O = {}
        /\ run_rec'.current_round = run_rec.current_round + 1
        /\ RunStatus' = RunStatus
    <3>1. n < TotalRounds
      BY <1>1
    <3>2. RunStatus = "RUNNING" /\ RunStatus' = "RUNNING"
      BY <1>1, <1>3 DEF AdvanceRun, RunStatus
    <3>3. QED
      BY <1>3, <2>1, <3>1, <3>2
  <2>6. QED
    BY <2>3, <2>4, <2>5, Zenon DEF Promise!PublishRound
<1>10. QED
  BY <1>9

\* The run keeps its promise (the safety part of PromiseKept): what it publishes
\* are whole rounds of deltas of clients that did not offend in them.
THEOREM PipelineRefines == PipelineSpec => Promise!Init /\ [][Promise!Next]_(Promise!vars)
<1>1. PipelineInit => Promise!Init
  <2> SUFFICES ASSUME PipelineInit PROVE Promise!Init
    OBVIOUS
  <2>1. Published = {}
    BY DEF PipelineInit, Published, InitialVersion
  <2>2. run_rec.current_round = 0 /\ RunStatus = "RUNNING"
    BY DEF PipelineInit, RunStatus
  <2>3. BarredLog = <<>>
    BY <2>2 DEF BarredLog
  <2>4. QED
    BY <2>1, <2>2, <2>3 DEF Promise!Init, Published, BarredLog, BarredIn
<1>2. PipelineInv /\ [PipelineNext]_pipelineVars => [Promise!Next]_(Promise!vars)
  <2> SUFFICES ASSUME PipelineInv, [PipelineNext]_pipelineVars
               PROVE  [Promise!Next]_(Promise!vars)
    OBVIOUS
  <2>1. CASE run_rec' = run_rec /\ ~LoseFailure
    <3>1. RunStatus' = RunStatus
      BY <2>1, LostIsFinal DEF RunStatus
    <3>2. QED
      BY <2>1, <3>1, RowUnchanged DEF Promise!vars, Published, BarredLog, BarredIn
  <2>2. CASE AdvanceRun
    BY <2>2, AdvancePublishes DEF Promise!Next
  <2>3. CASE (FinishRun \/ RecordFailure) /\ run_rec' # run_rec
    <3>1. /\ run_rec'.model_version = run_rec.model_version
          /\ run_rec'.current_round = run_rec.current_round
          /\ UNCHANGED <<checkpoints, evaluations>>
      BY <2>3 DEF FinishRun, RecordFailure, FailedRow, modelVars, triggerVars,
                  PipelineInv, CoreInv, ControlInv, PipelineTypeOK
    <3>2. Published' = Published /\ BarredLog' = BarredLog
      BY <3>1 DEF Published, BarredLog, BarredIn, Offends
    <3>3. CASE FinishRun
      <4>1. /\ run_rec.status = "RUNNING" /\ run_rec.current_round = TotalRounds
            /\ run_rec'.status = "COMPLETED"
        BY <3>3 DEF FinishRun, PipelineInv, CoreInv, RowInv, PipelineTypeOK, Resting
      <4>2. RunStatus = "RUNNING" /\ RunStatus' = "COMPLETED"
        BY <3>3, <4>1 DEF FinishRun, RunStatus
      <4>3. Promise!Finish
        BY <3>1, <3>2, <4>1, <4>2 DEF Promise!Finish, Published, BarredLog, BarredIn
      <4>4. QED
        BY <4>3 DEF Promise!Next
    <3>4. CASE RecordFailure
      <4>1. run_rec.status \in {"RUNNING", "COMPLETED"} /\ run_rec'.status = "FAILED"
        BY <3>4 DEF RecordFailure, FailedRow, PipelineInv, CoreInv, RowInv, PipelineTypeOK
      <4>2. RunStatus \in {"RUNNING", "COMPLETED"} /\ RunStatus' = "FAILED"
        BY <3>4, <4>1 DEF RecordFailure, RunStatus
      <4>3. Promise!Abort
        BY <3>1, <3>2, <4>2 DEF Promise!Abort, Published, BarredLog, BarredIn
      <4>4. QED
        BY <4>3 DEF Promise!Next
    <3>5. QED
      BY <2>3, <3>3, <3>4
  <2>4. CASE LoseFailure
    <3>1. run_rec' = run_rec /\ pc = "failing" /\ pc' = "lost"
      BY <2>4 DEF LoseFailure, dbVars
    <3>2. Published' = Published /\ BarredLog' = BarredLog
      BY <3>1, RowUnchanged
    <3>3. CASE run_rec.status = "RUNNING"
      <4>1. RunStatus = "RUNNING" /\ RunStatus' = "LOST"
        BY <3>1, <3>3 DEF RunStatus
      <4>2. Promise!Lose
        BY <3>1, <3>2, <4>1 DEF Promise!Lose, Published, BarredLog, BarredIn
      <4>3. QED
        BY <4>2 DEF Promise!Next
    <3>4. CASE run_rec.status # "RUNNING"
      <4>1. RunStatus' = RunStatus
        BY <3>1, <3>4 DEF RunStatus
      <4>2. QED
        BY <3>1, <3>2, <4>1 DEF Promise!vars, Published, BarredLog, BarredIn
    <3>5. QED
      BY <3>3, <3>4
  <2>5. ASSUME PipelineNext, ~AdvanceRun, ~FinishRun, ~RecordFailure
        PROVE  run_rec' = run_rec
    BY <2>5 DEF PipelineNext, StartRound, ApplyDataAttacks, TrainClients, DetectUpdates,
         EstimateImpact, Aggregate, ValidateCandidate, CheckRecovery, ReAggregate,
         EvaluateRecovered, PersistRecovery, CompleteRound, PersistMetrics,
         AnnounceCompletion, Raise, LoseFailure, dbVars
  <2>6. CASE UNCHANGED pipelineVars
    BY <2>1, <2>4, <2>6 DEF pipelineVars, dbVars
  <2>7. QED
    BY <2>1, <2>2, <2>3, <2>4, <2>5, <2>6
<1>3. QED
  BY <1>1, <1>2, PipelineInvariant, PTL DEF PipelineSpec
-----------------------------------------------------------------------------
(* What the rows of a run say of it. *)

\* The rows of the round under way are those of the phases behind it.
FiledInv ==
    /\ pc \in Trained => "updates" \in evidence[round]
    /\ pc \in Detected => "detections" \in evidence[round]
    /\ pc \in Detected \ {"impact"} => "impacts" \in evidence[round]
    /\ pc \in Checked \cup {"check"} => "validation" \in evidence[round]
    /\ pc \in {"complete", "metrics", "advance"} => recovery_recs[round] = RecoveryRowStatus
    /\ pc \in {"metrics", "advance"} => round_recs[round] = CompletedRow
    /\ pc = "advance" => "metrics" \in evidence[round]

\* A round hands on its candidate exactly when no recovery was triggered.
OutcomeInv ==
    /\ pc = "re_aggregate" => decision.state = Triggered
    /\ pc \in Settled => (decision.state = Triggered <=> new_model_version # Candidate(round))

LedgerInv ==
    /\ EvidencePrecedesProgress /\ LedgerTellsTheLineage
    /\ FiledInv /\ OutcomeInv
    /\ run_rec.current_round = 0 => run_rec.model_version = InitialVersion

LEMMA LedgerTypes ==
    ASSUME PipelineInv
    PROVE  /\ TotalRounds \in Nat /\ round \in 0..TotalRounds
           /\ pc \in InRound => /\ round \in 1..TotalRounds
                                /\ run_rec.current_round = round - 1
           /\ run_rec.current_round \in 0..TotalRounds
           /\ run_rec.model_version = model_version
           /\ evidence \in [1..TotalRounds -> SUBSET Tables]
           /\ recovery_recs \in [1..TotalRounds -> {"ABSENT", "NOT_REQUIRED", "COMPLETED"}]
           /\ round_recs \in [1..TotalRounds -> [status : {"ABSENT", "PENDING", "COMPLETED"},
                                                 model_version : Versions,
                                                 recovery_triggered : BOOLEAN]]
<1>1. PipelineTypeOK /\ ControlInv /\ RowInv
  BY DEF PipelineInv, CoreInv
<1>2. /\ TotalRounds \in Nat /\ round \in 0..TotalRounds
      /\ run_rec.current_round \in 0..TotalRounds
  BY <1>1, Ranges DEF PipelineTypeOK
<1>3. pc \in InRound => round \in 1..TotalRounds /\ run_rec.current_round = round - 1
  BY <1>1, <1>2 DEF ControlInv, RowInv
<1>4. QED
  BY <1>1, <1>2, <1>3 DEF PipelineTypeOK, ControlInv

\* A step that files nothing leaves what the rows say.
LEMMA LedgerKept ==
    ASSUME EvidencePrecedesProgress, LedgerTellsTheLineage,
           UNCHANGED <<run_rec, round_recs, recovery_recs, evidence, trained_from>>
    PROVE  EvidencePrecedesProgress' /\ LedgerTellsTheLineage'
<1>1. EvidencePrecedesProgress'
  BY DEF EvidencePrecedesProgress
<1>2. LedgerTellsTheLineage'
  BY DEF LedgerTellsTheLineage
<1>3. QED
  BY <1>1, <1>2

\* Rows are only ever added to a round's evidence.
LEMMA PersistLemma ==
    ASSUME PipelineInv, PipelineInv', pc \in InRound, NEW tables \in SUBSET Tables, Persist(tables),
           EvidencePrecedesProgress, UNCHANGED <<run_rec, round_recs, recovery_recs>>
    PROVE  /\ evidence'[round] = evidence[round] \cup tables
           /\ EvidencePrecedesProgress'
<1>1. /\ \A r \in 1..TotalRounds : evidence[r] \subseteq evidence'[r]
      /\ evidence'[round] = evidence[round] \cup tables
  BY LedgerTypes DEF Persist
<1>2. \A r \in 1..TotalRounds : evidence'[r] \subseteq Tables
  <2>1. evidence' \in [1..TotalRounds -> SUBSET Tables]
    BY DEF PipelineInv, CoreInv, PipelineTypeOK
  <2>2. QED
    BY <2>1
<1>3. EvidencePrecedesProgress'
  <2> SUFFICES ASSUME NEW r \in 1..TotalRounds
               PROVE  /\ r <= run_rec.current_round => /\ round_recs[r].status = "COMPLETED"
                                                       /\ evidence'[r] = Tables
                      /\ round_recs[r].status = "COMPLETED" =>
                             /\ recovery_recs[r] # "ABSENT"
                             /\ Tables \ {"metrics"} \subseteq evidence'[r]
                      /\ round_recs[r].status # "ABSENT" => r <= run_rec.current_round + 1
    BY DEF EvidencePrecedesProgress, TotalRounds
  <2>1. evidence[r] \subseteq evidence'[r] /\ evidence'[r] \subseteq Tables
    BY <1>1, <1>2
  <2>2. QED
    BY <2>1 DEF EvidencePrecedesProgress
<1>4. QED
  BY <1>1, <1>3

\* The steps that file nothing.
LEMMA IdleLedgerStep ==
    ASSUME PipelineInv, PipelineInv', LedgerInv,
           \/ ApplyDataAttacks \/ Aggregate \/ CheckRecovery \/ ReAggregate
           \/ EvaluateRecovered \/ AnnounceCompletion \/ Raise \/ LoseFailure
    PROVE  LedgerInv'
<1> USE DEF Settled, Checked, Detected, Trained, InRound
<1>1. UNCHANGED <<run_rec, round_recs, recovery_recs, evidence, trained_from, round>>
  BY DEF ApplyDataAttacks, Aggregate, CheckRecovery, ReAggregate, EvaluateRecovered,
         AnnounceCompletion, LoseFailure, Raise, RaiseAtOnce, RaiseWhilePoisoning,
         RaiseInTraining, RaiseInSave, RaiseInEvaluation, modelVars, dbVars
<1>2. EvidencePrecedesProgress' /\ LedgerTellsTheLineage'
  BY <1>1, LedgerKept DEF LedgerInv
<1>3. FiledInv'
  BY <1>1 DEF LedgerInv, FiledInv, ApplyDataAttacks, Aggregate, CheckRecovery, ReAggregate,
              EvaluateRecovered, AnnounceCompletion, Raise, LoseFailure
<1>4. OutcomeInv'
  <2>1. CASE CheckRecovery
    <3>1. decision'.state \in {NotRequired, Triggered}
      BY DEF PipelineInv, CoreInv, PipelineTypeOK, TriggerTypeOK, Decisions
    <3>2. new_model_version' = Candidate(round)
      BY <2>1 DEF CheckRecovery, PipelineInv, CoreInv, ControlInv
    <3>3. \/ pc' = "re_aggregate" /\ decision'.state = Triggered
          \/ pc' = "persist" /\ decision'.state # Triggered
      BY <2>1 DEF CheckRecovery
    <3>4. QED
      BY <1>1, <3>2, <3>3 DEF OutcomeInv
  <2>2. CASE ReAggregate
    <3>1. pc' = "evaluate_recovered" /\ decision' = decision /\ decision.state = Triggered
      BY <2>2 DEF ReAggregate, triggerVars, LedgerInv, OutcomeInv
    <3>2. new_model_version' # Candidate(round)
      <4>1. model_version.round < round /\ model_version.round \in Nat /\ round \in Nat
        BY <2>2, Ranges DEF ReAggregate, PipelineInv, CoreInv, ControlInv
      <4>2. Candidate(round).round = round
        BY DEF Candidate
      <4>3. Recovered(round) # Candidate(round)
        BY DEF Candidate, Recovered
      <4>4. QED
        BY <2>2, <4>1, <4>2, <4>3 DEF ReAggregate, RecoveryBase
    <3>3. QED
      BY <1>1, <3>1, <3>2 DEF OutcomeInv
  <2>3. CASE EvaluateRecovered
    BY <1>1, <2>3 DEF EvaluateRecovered, triggerVars, LedgerInv, OutcomeInv
  <2>4. CASE ApplyDataAttacks \/ Aggregate \/ AnnounceCompletion \/ Raise \/ LoseFailure
    BY <2>4 DEF ApplyDataAttacks, Aggregate, AnnounceCompletion, Raise, LoseFailure, OutcomeInv
  <2>5. QED
    BY <2>1, <2>2, <2>3, <2>4
<1>5. QED
  BY <1>1, <1>2, <1>3, <1>4 DEF LedgerInv

\* The steps that add rows to the round's evidence, training excepted.
LEMMA EvidenceStep ==
    ASSUME PipelineInv, PipelineInv', LedgerInv,
           DetectUpdates \/ EstimateImpact \/ ValidateCandidate \/ PersistMetrics
    PROVE  LedgerInv'
<1> USE DEF Settled, Checked, Detected, Trained, InRound
<1>1. UNCHANGED <<run_rec, round_recs, recovery_recs, trained_from, round, decision,
                  new_model_version>>
  BY DEF DetectUpdates, EstimateImpact, ValidateCandidate, PersistMetrics, modelVars, triggerVars
<1>2. PICK table \in Tables :
          /\ Persist({table})
          /\ \/ pc = "detect" /\ pc' = "impact" /\ table = "detections"
             \/ pc = "impact" /\ pc' = "aggregate" /\ table = "impacts"
             \/ pc = "validate" /\ pc' = "check" /\ table = "validation"
             \/ pc = "metrics" /\ pc' = "advance" /\ table = "metrics"
  BY DEF DetectUpdates, EstimateImpact, ValidateCandidate, PersistMetrics, Tables
<1>3. evidence'[round] = evidence[round] \cup {table} /\ EvidencePrecedesProgress'
  BY <1>1, <1>2, PersistLemma DEF LedgerInv
<1>4. LedgerTellsTheLineage'
  BY <1>1 DEF LedgerInv, LedgerTellsTheLineage
<1>5. FiledInv'
  BY <1>1, <1>2, <1>3 DEF LedgerInv, FiledInv, RecoveryRowStatus, CompletedRow
<1>6. OutcomeInv'
  BY <1>1, <1>2 DEF LedgerInv, OutcomeInv
<1>7. QED
  BY <1>1, <1>3, <1>4, <1>5, <1>6 DEF LedgerInv

\* Training records the version it starts from: the one the run's row names.
LEMMA TrainingLedgerStep ==
    ASSUME PipelineInv, PipelineInv', LedgerInv, TrainClients
    PROVE  LedgerInv'
<1> USE DEF Settled, Checked, Detected, Trained, InRound
<1>1. /\ pc = "train" /\ pc' = "detect" /\ Persist({"updates"})
      /\ trained_from' = Append(trained_from, model_version)
      /\ UNCHANGED <<run_rec, round_recs, recovery_recs, round>>
  BY DEF TrainClients
<1>2. evidence'[round] = evidence[round] \cup {"updates"} /\ EvidencePrecedesProgress'
  BY <1>1, PersistLemma DEF LedgerInv, Tables
<1>3. /\ Len(trained_from) = round - 1 /\ trained_from \in Seq(Versions)
      /\ run_rec.current_round = round - 1 /\ round \in 1..TotalRounds
      /\ run_rec.model_version = model_version /\ TotalRounds \in Nat
  BY <1>1, LedgerTypes DEF PipelineInv, CoreInv, ControlInv, PipelineTypeOK
<1>4. /\ trained_from'[round] = model_version
      /\ \A i \in 1..round - 1 : trained_from'[i] = trained_from[i]
      /\ Len(trained_from') = round
  BY <1>1, <1>3
<1>5. LedgerTellsTheLineage'
  <2>1. ASSUME NEW r \in 1..run_rec.current_round
        PROVE  /\ trained_from'[r + 1] = round_recs[r].model_version
               /\ r = run_rec.current_round => run_rec.model_version = round_recs[r].model_version
               /\ round_recs[r].recovery_triggered <=> recovery_recs[r] = "COMPLETED"
               /\ round_recs[r].recovery_triggered <=> round_recs[r].model_version # Candidate(r)
    <3>1. r \in Nat /\ r >= 1 /\ r <= round - 1
      BY <1>3
    <3>2. trained_from'[r + 1] = round_recs[r].model_version
      <4>1. CASE r = round - 1
        BY <1>3, <1>4, <4>1 DEF LedgerInv, LedgerTellsTheLineage
      <4>2. CASE r < round - 1
        <5>1. r + 1 \in 1..round - 1 /\ r < Len(trained_from)
          BY <1>3, <3>1, <4>2
        <5>2. QED
          BY <1>4, <5>1 DEF LedgerInv, LedgerTellsTheLineage
      <4>3. QED
        BY <1>3, <3>1, <4>1, <4>2
    <3>3. QED
      BY <3>2 DEF LedgerInv, LedgerTellsTheLineage
  <2>2. trained_from'[1] = InitialVersion
    <3>1. CASE round = 1
      BY <1>3, <1>4, <3>1 DEF LedgerInv
    <3>2. CASE round > 1
      <4>1. 1 \in 1..round - 1 /\ trained_from # <<>>
        BY <1>3, <3>2
      <4>2. QED
        BY <1>4, <4>1 DEF LedgerInv, LedgerTellsTheLineage
    <3>3. QED
      BY <1>3, <3>1, <3>2
  <2>3. QED
    BY <1>1, <2>1, <2>2 DEF LedgerTellsTheLineage
<1>6. FiledInv' /\ OutcomeInv'
  BY <1>1, <1>2 DEF FiledInv, OutcomeInv
<1>7. QED
  BY <1>1, <1>2, <1>5, <1>6 DEF LedgerInv

\* The steps that write the row of a round.
LEMMA RoundRowStep ==
    ASSUME PipelineInv, PipelineInv', LedgerInv, StartRound \/ PersistRecovery \/ CompleteRound
    PROVE  LedgerInv'
<1> USE DEF Settled, Checked, Detected, Trained, InRound
<1>1. CASE StartRound
  <2>1. /\ pc = "start" /\ pc' = "poison" /\ round < TotalRounds
        /\ round_recs' = [round_recs EXCEPT ![round + 1].status = "PENDING"]
        /\ UNCHANGED <<run_rec, recovery_recs, evidence, trained_from>>
    BY <1>1 DEF StartRound, modelVars
  <2>2. run_rec.current_round = round /\ round \in Nat /\ TotalRounds \in Nat
    BY <2>1, LedgerTypes DEF PipelineInv, RowInv, Resting
  <2>3. PICK n \in 1..TotalRounds : n = round + 1
    BY <2>1, <2>2
  <2>4. /\ round_recs'[n].status = "PENDING"
        /\ \A r \in 1..TotalRounds : r # n => round_recs'[r] = round_recs[r]
    BY <2>1, <2>3, LedgerTypes
  <2>5. EvidencePrecedesProgress'
    <3> SUFFICES ASSUME NEW r \in 1..TotalRounds
                 PROVE  /\ r <= run_rec.current_round => /\ round_recs'[r].status = "COMPLETED"
                                                         /\ evidence[r] = Tables
                        /\ round_recs'[r].status = "COMPLETED" =>
                               /\ recovery_recs[r] # "ABSENT"
                               /\ Tables \ {"metrics"} \subseteq evidence[r]
                        /\ round_recs'[r].status # "ABSENT" => r <= run_rec.current_round + 1
      BY <2>1 DEF EvidencePrecedesProgress, TotalRounds
    <3>1. CASE r = n
      BY <2>2, <2>3, <2>4, <3>1
    <3>2. CASE r # n
      BY <2>4, <3>2 DEF LedgerInv, EvidencePrecedesProgress
    <3>3. QED
      BY <3>1, <3>2
  <2>6. LedgerTellsTheLineage'
    <3>1. \A r \in 1..run_rec.current_round : round_recs'[r] = round_recs[r]
      BY <2>1, <2>2, <2>3, <2>4
    <3>2. QED
      BY <2>1, <3>1 DEF LedgerInv, LedgerTellsTheLineage
  <2>7. QED
    BY <2>1, <2>5, <2>6 DEF LedgerInv, FiledInv, OutcomeInv
<1>2. CASE PersistRecovery
  <2>1. /\ pc = "persist" /\ pc' = "complete"
        /\ recovery_recs' = [recovery_recs EXCEPT ![round] = RecoveryRowStatus]
        /\ UNCHANGED <<run_rec, round_recs, evidence, trained_from, round, decision,
                       new_model_version>>
    BY <1>2 DEF PersistRecovery, modelVars, triggerVars
  <2>2. run_rec.current_round = round - 1 /\ round \in 1..TotalRounds /\ TotalRounds \in Nat
    BY <2>1, LedgerTypes
  <2>3. /\ recovery_recs'[round] = RecoveryRowStatus /\ RecoveryRowStatus # "ABSENT"
        /\ \A r \in 1..TotalRounds : r # round => recovery_recs'[r] = recovery_recs[r]
    BY <2>1, <2>2, LedgerTypes DEF RecoveryRowStatus
  <2>4. EvidencePrecedesProgress'
    <3>1. \A r \in 1..TotalRounds : recovery_recs[r] # "ABSENT" => recovery_recs'[r] # "ABSENT"
      BY <2>3
    <3>2. QED
      BY <2>1, <3>1 DEF LedgerInv, EvidencePrecedesProgress, TotalRounds
  <2>5. LedgerTellsTheLineage'
    <3>1. \A r \in 1..run_rec.current_round : recovery_recs'[r] = recovery_recs[r]
      BY <2>2, <2>3
    <3>2. QED
      BY <2>1, <3>1 DEF LedgerInv, LedgerTellsTheLineage
  <2>6. FiledInv' /\ OutcomeInv'
    BY <2>1, <2>3 DEF LedgerInv, FiledInv, OutcomeInv, RecoveryRowStatus
  <2>7. QED
    BY <2>1, <2>4, <2>5, <2>6 DEF LedgerInv
<1>3. CASE CompleteRound
  <2>1. /\ pc = "complete" /\ pc' = "metrics"
        /\ round_recs' = [round_recs EXCEPT ![round] = CompletedRow]
        /\ UNCHANGED <<run_rec, recovery_recs, evidence, trained_from, round, decision,
                       new_model_version>>
    BY <1>3 DEF CompleteRound, modelVars, triggerVars
  <2>2. run_rec.current_round = round - 1 /\ round \in 1..TotalRounds /\ TotalRounds \in Nat
    BY <2>1, LedgerTypes
  <2>3. /\ round_recs'[round] = CompletedRow
        /\ \A r \in 1..TotalRounds : r # round => round_recs'[r] = round_recs[r]
    BY <2>1, <2>2, LedgerTypes
  <2>4. EvidencePrecedesProgress'
    <3> SUFFICES ASSUME NEW r \in 1..TotalRounds
                 PROVE  /\ r <= run_rec.current_round => /\ round_recs'[r].status = "COMPLETED"
                                                         /\ evidence[r] = Tables
                        /\ round_recs'[r].status = "COMPLETED" =>
                               /\ recovery_recs[r] # "ABSENT"
                               /\ Tables \ {"metrics"} \subseteq evidence[r]
                        /\ round_recs'[r].status # "ABSENT" => r <= run_rec.current_round + 1
      BY <2>1 DEF EvidencePrecedesProgress, TotalRounds
    <3>1. CASE r = round
      <4>1. recovery_recs[round] # "ABSENT"
        BY <2>1 DEF LedgerInv, FiledInv, RecoveryRowStatus
      <4>2. {"updates", "detections", "impacts", "validation"} \subseteq evidence[round]
        BY <2>1 DEF LedgerInv, FiledInv
      <4>3. QED
        BY <2>2, <3>1, <4>1, <4>2 DEF Tables
    <3>2. CASE r # round
      BY <2>3, <3>2 DEF LedgerInv, EvidencePrecedesProgress
    <3>3. QED
      BY <3>1, <3>2
  <2>5. LedgerTellsTheLineage'
    <3>1. \A r \in 1..run_rec.current_round : round_recs'[r] = round_recs[r]
      BY <2>2, <2>3
    <3>2. QED
      BY <2>1, <3>1 DEF LedgerInv, LedgerTellsTheLineage
  <2>6. FiledInv' /\ OutcomeInv'
    BY <2>1, <2>3 DEF LedgerInv, FiledInv, OutcomeInv, RecoveryRowStatus, CompletedRow
  <2>7. QED
    BY <2>1, <2>4, <2>5, <2>6 DEF LedgerInv
<1>4. QED
  BY <1>1, <1>2, <1>3

\* The round is counted: its rows are all there and name the version that is published.
LEMMA AdvanceLedgerStep ==
    ASSUME PipelineInv, PipelineInv', LedgerInv, AdvanceRun
    PROVE  LedgerInv'
<1> USE DEF Settled, Checked, Detected, Trained, InRound
<1>1. /\ pc = "advance" /\ pc' = "start"
      /\ run_rec' = [run_rec EXCEPT !.current_round = round, !.model_version = new_model_version]
      /\ UNCHANGED <<round_recs, recovery_recs, evidence, trained_from>>
  BY DEF AdvanceRun, RowAfter, modelVars
<1>2. /\ run_rec.current_round = round - 1 /\ round \in 1..TotalRounds /\ TotalRounds \in Nat
      /\ Len(trained_from) = round
  BY <1>1, LedgerTypes DEF PipelineInv, CoreInv, ControlInv
<1>3. run_rec'.current_round = round /\ run_rec'.model_version = new_model_version
  BY <1>1 DEF PipelineInv, CoreInv, PipelineTypeOK
<1>4. /\ round_recs[round].status = "COMPLETED"
      /\ round_recs[round].model_version = new_model_version
      /\ round_recs[round].recovery_triggered = (decision.state = Triggered)
      /\ recovery_recs[round] = RecoveryRowStatus
      /\ decision.state = Triggered <=> new_model_version # Candidate(round)
  BY <1>1 DEF LedgerInv, FiledInv, OutcomeInv, CompletedRow
<1>5. evidence[round] = Tables
  <2>1. {"updates", "detections", "impacts", "validation", "metrics"} \subseteq evidence[round]
    BY <1>1 DEF LedgerInv, FiledInv
  <2>2. evidence[round] \subseteq Tables
    BY <1>2, LedgerTypes
  <2>3. QED
    BY <2>1, <2>2 DEF Tables
<1>6. EvidencePrecedesProgress'
  <2> SUFFICES ASSUME NEW r \in 1..TotalRounds
               PROVE  /\ r <= round => /\ round_recs[r].status = "COMPLETED"
                                       /\ evidence[r] = Tables
                      /\ round_recs[r].status = "COMPLETED" =>
                             /\ recovery_recs[r] # "ABSENT"
                             /\ Tables \ {"metrics"} \subseteq evidence[r]
                      /\ round_recs[r].status # "ABSENT" => r <= round + 1
    BY <1>1, <1>3 DEF EvidencePrecedesProgress, TotalRounds
  <2>1. r \in Nat
    BY <1>2
  <2>2. r # round => (r <= round <=> r <= run_rec.current_round)
    BY <1>2
  <2>3. r <= run_rec.current_round + 1 => r <= round + 1
    BY <1>2
  <2>4. QED
    BY <1>4, <1>5, <2>1, <2>2, <2>3 DEF LedgerInv, EvidencePrecedesProgress
<1>7. LedgerTellsTheLineage'
  <2>1. ASSUME NEW r \in 1..round
        PROVE  /\ r < Len(trained_from) => trained_from[r + 1] = round_recs[r].model_version
               /\ r = round => new_model_version = round_recs[r].model_version
               /\ round_recs[r].recovery_triggered <=> recovery_recs[r] = "COMPLETED"
               /\ round_recs[r].recovery_triggered <=> round_recs[r].model_version # Candidate(r)
    <3>1. CASE r = round
      <4>1. ~(r < Len(trained_from))
        BY <1>2, <3>1
      <4>2. QED
        BY <1>4, <3>1, <4>1 DEF RecoveryRowStatus
    <3>2. CASE r # round
      <4>1. r \in 1..run_rec.current_round
        BY <1>2, <3>2
      <4>2. QED
        BY <3>2, <4>1 DEF LedgerInv, LedgerTellsTheLineage
    <3>3. QED
      BY <3>1, <3>2
  <2>2. QED
    BY <1>1, <1>3, <2>1 DEF LedgerInv, LedgerTellsTheLineage
<1>8. QED
  BY <1>1, <1>2, <1>3, <1>6, <1>7 DEF LedgerInv, FiledInv, OutcomeInv

\* The steps that give the run its final status.
LEMMA StatusLedgerStep ==
    ASSUME PipelineInv, PipelineInv', LedgerInv, FinishRun \/ RecordFailure
    PROVE  LedgerInv'
<1> USE DEF Settled, Checked, Detected, Trained, InRound
<1>1. /\ run_rec'.current_round = run_rec.current_round
      /\ run_rec'.model_version = run_rec.model_version
      /\ pc' \in {"announce", "stopped"}
      /\ UNCHANGED <<round_recs, recovery_recs, evidence, trained_from>>
  BY LedgerTypes DEF FinishRun, RecordFailure, FailedRow, modelVars, PipelineInv, CoreInv, PipelineTypeOK
<1>2. EvidencePrecedesProgress'
  BY <1>1 DEF LedgerInv, EvidencePrecedesProgress, TotalRounds
<1>3. LedgerTellsTheLineage'
  BY <1>1 DEF LedgerInv, LedgerTellsTheLineage
<1>4. QED
  BY <1>1, <1>2, <1>3 DEF LedgerInv, FiledInv, OutcomeInv

\* What the rows say holds in every reachable state of every run.
THEOREM PipelineLedger == PipelineSpec => []LedgerInv
<1>1. PipelineInit => LedgerInv
  BY DEF PipelineInit, LedgerInv, EvidencePrecedesProgress, LedgerTellsTheLineage, FiledInv,
         OutcomeInv, NoRow, Settled, Checked, Detected, Trained
<1>2. ASSUME PipelineInv, PipelineInv', LedgerInv, [PipelineNext]_pipelineVars
      PROVE  LedgerInv'
  <2>1. CASE UNCHANGED pipelineVars
    <3>1. UNCHANGED <<run_rec, round_recs, recovery_recs, evidence, trained_from, round, pc,
                      decision, new_model_version>>
      BY <2>1 DEF pipelineVars, runnerVars, modelVars, dbVars, triggerVars
    <3>2. FiledInv' /\ OutcomeInv'
      BY <1>2, <3>1 DEF LedgerInv, FiledInv, OutcomeInv, RecoveryRowStatus, CompletedRow
    <3>3. QED
      BY <1>2, <3>1, <3>2, LedgerKept DEF LedgerInv
  <2>2. CASE PipelineNext
    BY <1>2, <2>2, IdleLedgerStep, EvidenceStep, TrainingLedgerStep, RoundRowStep,
       AdvanceLedgerStep, StatusLedgerStep DEF PipelineNext
  <2>3. QED
    BY <1>2, <2>1, <2>2
<1>3. QED
  BY <1>1, <1>2, PipelineInvariant, PTL DEF PipelineSpec

\* For every number of clients and rounds, the run's row never runs ahead of the
\* rows of its rounds, whichever phase raises (the commits of _run_round).
THEOREM PipelineFilesEvidence == PipelineSpec => []EvidencePrecedesProgress
<1>1. LedgerInv => EvidencePrecedesProgress
  BY DEF LedgerInv
<1>2. QED
  BY <1>1, PipelineLedger, PTL

\* For every number of clients and rounds, the stored rows name the version each
\* round was trained on and the rounds that were recovered.
THEOREM PipelineTellsItsLineage == PipelineSpec => []LedgerTellsTheLineage
<1>1. LedgerInv => LedgerTellsTheLineage
  BY DEF LedgerInv
<1>2. QED
  BY <1>1, PipelineLedger, PTL
=============================================================================
