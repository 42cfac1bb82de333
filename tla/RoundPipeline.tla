--------------------------- MODULE RoundPipeline ---------------------------
(***************************************************************************)
(* One simulation run: the round pipeline of simulation/runner.py with the *)
(* adapters it drives.  P1 trains and aggregates (p1_fl_adapter.py, the    *)
(* aggregator and the checkpoint registry), P2 attacks, the firewall and   *)
(* P3 judge the updates, and the recovery decision engine, the module this *)
(* one extends, decides whether the candidate model is rebuilt.            *)
(*                                                                         *)
(* A model is the set of client deltas added to the initial model.  Every  *)
(* action is a stretch of the pipeline that ends in a commit or hands a    *)
(* result on; an exception may end each of them.                           *)
(***************************************************************************)
EXTENDS RecoveryTrigger

CONSTANTS
    ClientOrder,     \* client_ids: "client-0", "client-1", ... in config order
    SentinelOrder,   \* the same ids as run_round sorts them, as strings
    Verdicts         \* what detection may say of one update

TotalRounds == MaxEvaluations
Positions == 1..Len(ClientOrder)

Paths   == {"firewall", "complete", "failed_early", "failed_late"}
Actions == {"ACCEPT", "DOWN_WEIGHT", "QUARANTINE"}

\* path: rejected by the firewall, scored by the whole Sentinel pipeline, or
\* scored by one that failed before or after its impact stage.
AllVerdicts == [path : Paths, action : Actions, anomaly : Scores]

ASSUME PipelineAssumption ==
    /\ ClientOrder \in Seq(Clients)
    /\ SentinelOrder \in Seq(Clients)
    /\ \A c \in Clients : /\ \E i \in DOMAIN ClientOrder : ClientOrder[i] = c
                          /\ \E j \in DOMAIN SentinelOrder : SentinelOrder[j] = c
    /\ \A i, j \in DOMAIN ClientOrder : ClientOrder[i] = ClientOrder[j] => i = j
    /\ Verdicts \subseteq AllVerdicts
    /\ \A v \in Verdicts : v.path # "complete" => v.action = "QUARANTINE"

\* Names of checkpoints: model_v0_*, model_<run>_v<r>, model_<run>_v<r>_recovered.
InitialVersion == [kind |-> "initial", round |-> 0]
Candidate(r)   == [kind |-> "candidate", round |-> r]
Recovered(r)   == [kind |-> "recovered", round |-> r]
Versions == [kind : {"initial", "candidate", "recovered"}, round : 0..TotalRounds]

\* The delta of a client's round, the weight it is averaged with and the call
\* of the adapter that added it.
Contributions ==
    [round : 1..TotalRounds, client : Clients,
     weight : {"full", "half"}, via : {"aggregate", "re_aggregate"}]

Detections == [client : Clients, action : Actions, anomaly : Scores]

Tables == {"updates", "detections", "impacts", "validation", "metrics"}

VARIABLES
    pc,                 \* where run_simulation is
    round,              \* round_num
    model_version,      \* the model the round trains on
    new_model_version,  \* the candidate, later the recovered model
    checkpoints,        \* CheckpointManager: version -> model
    global_model,       \* the weights in the adapter's module
    loaders,            \* client -> is its DataLoader swapped for a poisoned one
    verdicts,           \* history variable: the verdicts of every round
    detections,         \* the round's DetectionResults, aligned with its updates
    gate_primed,        \* the validation gate has a baseline
    loss_spiked,        \* its answer for the candidate
    trained_from,       \* history variable: the version each round trained on
    run_rec,            \* the run's row
    round_recs,         \* the rows of its rounds
    recovery_recs,      \* status of the recovery row of each round
    evidence            \* the other tables that hold rows of each round

runnerVars == <<pc, round, model_version, new_model_version>>
modelVars  == <<checkpoints, global_model, trained_from>>
judgeVars  == <<verdicts, detections, gate_primed, loss_spiked>>
dbVars     == <<run_rec, round_recs, recovery_recs, evidence>>
pipelineVars == <<runnerVars, modelVars, loaders, judgeVars, dbVars, triggerVars>>

Clean == [c \in Clients |-> "clean"]
NoRow == [status |-> "ABSENT", model_version |-> InitialVersion, recovery_triggered |-> FALSE]

\* run_simulation just after its SIMULATION_STARTED event: the Sentinel was
\* reset, the gate is new and the initial model is saved and loaded.
PipelineInit ==
    /\ TriggerInit
    /\ pc = "start" /\ round = 0
    /\ model_version = InitialVersion
    /\ new_model_version = InitialVersion
    /\ checkpoints = [v \in {InitialVersion} |-> {}]
    /\ global_model = {}
    /\ loaders = Clean
    /\ verdicts = <<>> /\ detections = <<>>
    /\ gate_primed = FALSE /\ loss_spiked = FALSE
    /\ trained_from = <<>>
    /\ run_rec = [status |-> "RUNNING", current_round |-> 0, model_version |-> InitialVersion]
    /\ round_recs = [r \in 1..TotalRounds |-> NoRow]
    /\ recovery_recs = [r \in 1..TotalRounds |-> "ABSENT"]
    /\ evidence = [r \in 1..TotalRounds |-> {}]

-----------------------------------------------------------------------------
(* Helpers. An operator marked Mutant is a slip the code could have had. *)

\* CheckpointManager.save; a version that exists is refused (callers' guard).
Save(v, state) ==
    checkpoints' = [u \in DOMAIN checkpoints \cup {v} |->
                       IF u = v THEN state ELSE checkpoints[u]]

\* Mutant: the metrics of a round go unrecorded.
PersistAllButMetrics(tables) ==
    evidence' = [evidence EXCEPT ![round] = @ \cup (tables \ {"metrics"})]

Persist(tables) == evidence' = [evidence EXCEPT ![round] = @ \cup tables]

\* The detections the Sentinel returns, by position in its own order; updates
\* the firewall rejected are not passed to it.
SentinelDetections(vs) ==
    [j \in { i \in DOMAIN SentinelOrder : vs[SentinelOrder[i]].path # "firewall" } |->
        [client  |-> SentinelOrder[j],
         action  |-> vs[SentinelOrder[j]].action,
         anomaly |-> vs[SentinelOrder[j]].anomaly]]

\* create_quarantine_records
FirewallDetection(c, v) == [client |-> c, action |-> "QUARANTINE", anomaly |-> v.anomaly]

\* Mutant: the detections stay in the order in which the Sentinel answers.
AlignUnsorted(vs) ==
    [i \in Positions |->
        IF vs[SentinelOrder[i]].path = "firewall"
        THEN FirewallDetection(SentinelOrder[i], vs[SentinelOrder[i]])
        ELSE SentinelDetections(vs)[i]]

\* fw_det_map.get(id) or sen_det_map[id], for every update in order.
AlignDetections(vs) ==
    LET found == SentinelDetections(vs)
    IN  [i \in Positions |->
            IF vs[ClientOrder[i]].path = "firewall"
            THEN FirewallDetection(ClientOrder[i], vs[ClientOrder[i]])
            ELSE found[CHOOSE j \in DOMAIN found : found[j].client = ClientOrder[i]]]

\* Positions that survive zip(updates, decisions) and the quarantine filter.
Kept(dets) == { i \in Positions : dets[i].action # "QUARANTINE" }

\* aggregate_with_decisions accepts exactly one decision per update.
OneDecisionPerUpdate(dets) ==
    /\ { ClientOrder[i] : i \in Kept(dets) } = { dets[i].client : i \in Kept(dets) }
    /\ \A i, j \in Kept(dets) : dets[i].client = dets[j].client => i = j

\* action_weight_map
ActionWeight(action) ==
    CASE action = "ACCEPT" -> "full"
      [] action = "DOWN_WEIGHT" -> "half"
      [] action = "QUARANTINE" -> "none"

\* external_weights[update_id]: the weight of decision_map[update_id].action
DecisionWeight(dets, c) ==
    ActionWeight(dets[CHOOSE j \in Kept(dets) : dets[j].client = c].action)

\* The updates that the average does not skip.
Weighed(dets) == { i \in Kept(dets) : DecisionWeight(dets, ClientOrder[i]) # "none" }

\* The average is not refused: the decisions are those of the updates, and some
\* update has weight.  Without any update left it is not asked for.
Averageable(dets) ==
    /\ OneDecisionPerUpdate(dets)
    /\ Kept(dets) # {} => Weighed(dets) # {}

\* aggregate: the weighted deltas of the kept updates on top of the base; the
\* base itself when every update is quarantined.
AggregateOn(base, r, dets) ==
    base \cup { [round |-> r, client |-> ClientOrder[i],
                 weight |-> DecisionWeight(dets, ClientOrder[i]), via |-> "aggregate"]
                  : i \in Weighed(dets) }

\* Mutant: nobody is excluded.
ReAggregateAll(base, r, excluded) ==
    base \cup { [round |-> r, client |-> ClientOrder[i], weight |-> "full", via |-> "re_aggregate"]
                  : i \in Positions }

\* re_aggregate: plain FedAvg of every update whose client is not excluded,
\* the quarantined and the down-weighted ones included.
ReAggregateOn(base, r, excluded) ==
    base \cup { [round |-> r, client |-> c, weight |-> "full", via |-> "re_aggregate"]
                  : c \in { ClientOrder[i] : i \in Positions } \ excluded }

\* check_recovery: anomaly_scores by client id
AnomalyScores == [c \in Clients |->
    detections[CHOOSE i \in Positions : detections[i].client = c].anomaly]
-----------------------------------------------------------------------------
(* _run_round, phase by phase. *)

\* The round's row is created before anything else.
StartRound ==
    /\ pc = "start" /\ round < TotalRounds
    /\ round' = round + 1
    /\ round_recs' = [round_recs EXCEPT ![round + 1].status = "PENDING"]
    /\ pc' = "poison"
    /\ UNCHANGED <<model_version, new_model_version, modelVars, loaders, judgeVars,
                   run_rec, recovery_recs, evidence, triggerVars>>

Poison(targets) ==
    loaders' = [c \in Clients |-> IF c \in targets THEN "poisoned" ELSE loaders[c]]

\* Step 1: the loaders of the clients under a data attack are swapped.
ApplyDataAttacks ==
    /\ pc = "poison"
    /\ \E targets \in SUBSET Clients : Poison(targets)
    /\ pc' = "train"
    /\ UNCHANGED <<round, model_version, new_model_version, modelVars, judgeVars, dbVars,
                   triggerVars>>

\* finally: the swapped loaders are put back.
RestoredLoaders == Clean

\* Steps 2 and 3: train on the checkpoint, apply update attacks, store updates.
TrainClients ==
    /\ pc = "train"
    /\ global_model' = checkpoints[model_version]
    /\ trained_from' = Append(trained_from, model_version)
    /\ loaders' = RestoredLoaders
    /\ Persist({"updates"})
    /\ pc' = "detect"
    /\ UNCHANGED <<round, model_version, new_model_version, checkpoints, judgeVars,
                   run_rec, round_recs, recovery_recs, triggerVars>>

\* Steps 3.5 and 4: firewall, Sentinel, and their results in update order.
DetectUpdates ==
    /\ pc = "detect"
    /\ \E vs \in [Clients -> Verdicts] :
           /\ verdicts' = Append(verdicts, vs)
           /\ detections' = AlignDetections(vs)
    /\ Persist({"detections"})
    /\ pc' = "impact"
    /\ UNCHANGED <<round, model_version, new_model_version, modelVars, loaders, gate_primed,
                   loss_spiked, run_rec, round_recs, recovery_recs, triggerVars>>

\* Steps 5 and 6.  An update whose pipeline failed before the impact stage has
\* no impact under its id: the look-up raises KeyError.
EstimateImpact ==
    /\ pc = "impact"
    /\ \A c \in Clients : verdicts[round][c].path # "failed_early"
    /\ Persist({"impacts"})
    /\ pc' = "aggregate"
    /\ UNCHANGED <<round, model_version, new_model_version, modelVars, loaders, judgeVars,
                   run_rec, round_recs, recovery_recs, triggerVars>>

CandidateModel == AggregateOn(checkpoints[model_version], round, detections)

\* Step 7: the candidate is loaded into the module and saved.
Aggregate ==
    /\ pc = "aggregate"
    /\ Averageable(detections)
    /\ Candidate(round) \notin DOMAIN checkpoints
    /\ global_model' = CandidateModel
    /\ Save(Candidate(round), CandidateModel)
    /\ new_model_version' = Candidate(round)
    /\ pc' = "validate"
    /\ UNCHANGED <<round, model_version, trained_from, loaders, judgeVars, dbVars, triggerVars>>

\* ServerValidationGate: no spike without a baseline; a spike keeps it.
ValidateCandidate ==
    /\ pc = "validate"
    /\ loss_spiked' \in (IF gate_primed THEN BOOLEAN ELSE {FALSE})
    /\ gate_primed' = (gate_primed \/ ~loss_spiked')
    /\ global_model' = checkpoints[new_model_version]
    /\ Persist({"validation"})
    /\ pc' = "check"
    /\ UNCHANGED <<round, model_version, new_model_version, checkpoints, trained_from, loaders,
                   verdicts, detections, run_rec, round_recs, recovery_recs, triggerVars>>

\* Steps 8 and 9: evaluate the candidate and ask the recovery engine.
CheckRecovery ==
    /\ pc = "check"
    /\ global_model' = checkpoints[new_model_version]
    /\ EvaluateRecoveryNeed(AnomalyScores, loss_spiked)
    /\ pc' = IF decision'.state = Triggered THEN "re_aggregate" ELSE "persist"
    /\ UNCHANGED <<round, model_version, new_model_version, checkpoints, trained_from, loaders,
                   judgeVars, dbVars>>

\* Mutant: recovery starts from the candidate (the double-delta bug).
CandidateBase == new_model_version

\* pre_round_model_version
RecoveryBase == model_version

RecoveredModel ==
    ReAggregateOn(checkpoints[RecoveryBase], round, decision.quarantined_clients)

NobodyLeft == Clients \subseteq decision.quarantined_clients

\* Step 10: rebuild the round without the excluded clients.  With nobody left
\* the version the round started from is returned and nothing is saved.
ReAggregate ==
    /\ pc = "re_aggregate"
    /\ \/ /\ NobodyLeft
          /\ new_model_version' = RecoveryBase
          /\ UNCHANGED <<checkpoints, global_model>>
       \/ /\ ~NobodyLeft
          /\ Recovered(round) \notin DOMAIN checkpoints
          /\ global_model' = RecoveredModel
          /\ Save(Recovered(round), RecoveredModel)
          /\ new_model_version' = Recovered(round)
    /\ pc' = "evaluate_recovered"
    /\ UNCHANGED <<round, model_version, trained_from, loaders, judgeVars, dbVars, triggerVars>>

\* evaluate: load the checkpoint into the module first.
LoadForEvaluation(version) == global_model' = checkpoints[version]

EvaluateRecovered ==
    /\ pc = "evaluate_recovered"
    /\ LoadForEvaluation(new_model_version)
    /\ pc' = "persist"
    /\ UNCHANGED <<round, model_version, new_model_version, checkpoints, trained_from, loaders,
                   judgeVars, dbVars, triggerVars>>

\* Mutant: the stored result is the one check_recovery returned.
TriggeredRowStatus == decision.state

RecoveryRowStatus == IF decision.state = Triggered THEN "COMPLETED" ELSE "NOT_REQUIRED"

PersistRecovery ==
    /\ pc = "persist"
    /\ recovery_recs' = [recovery_recs EXCEPT ![round] = RecoveryRowStatus]
    /\ pc' = "complete"
    /\ UNCHANGED <<round, model_version, new_model_version, modelVars, loaders, judgeVars,
                   run_rec, round_recs, evidence, triggerVars>>

\* Mutant: the row names the model the round started from.
RowOfBase == [status |-> "COMPLETED", model_version |-> model_version,
              recovery_triggered |-> decision.state = Triggered]

CompletedRow == [status |-> "COMPLETED", model_version |-> new_model_version,
                 recovery_triggered |-> decision.state = Triggered]

CompleteRound ==
    /\ pc = "complete"
    /\ round_recs' = [round_recs EXCEPT ![round] = CompletedRow]
    /\ pc' = "metrics"
    /\ UNCHANGED <<round, model_version, new_model_version, modelVars, loaders, judgeVars,
                   run_rec, recovery_recs, evidence, triggerVars>>

\* Step 11
PersistMetrics ==
    /\ pc = "metrics"
    /\ Persist({"metrics"})
    /\ pc' = "advance"
    /\ UNCHANGED <<round, model_version, new_model_version, modelVars, loaders, judgeVars,
                   run_rec, round_recs, recovery_recs, triggerVars>>
-----------------------------------------------------------------------------
(* run_simulation around its rounds. *)

\* Mutant: the run's row names the candidate even after a recovery.
RowAfterCandidate(version) ==
    [run_rec EXCEPT !.current_round = round, !.model_version = Candidate(round)]

RowAfter(version) == [run_rec EXCEPT !.current_round = round, !.model_version = version]

\* The round returned its version: publish it in the run's row.
AdvanceRun ==
    /\ pc = "advance"
    /\ model_version' = new_model_version
    /\ run_rec' = RowAfter(new_model_version)
    /\ detections' = <<>> /\ loss_spiked' = FALSE
    /\ pc' = "start"
    /\ UNCHANGED <<round, new_model_version, modelVars, loaders, verdicts, gate_primed,
                   round_recs, recovery_recs, evidence, triggerVars>>

FinishRun ==
    /\ pc = "start" /\ round = TotalRounds
    /\ run_rec' = [run_rec EXCEPT !.status = "COMPLETED", !.model_version = model_version]
    /\ pc' = "announce"
    /\ UNCHANGED <<round, model_version, new_model_version, modelVars, loaders, judgeVars,
                   round_recs, recovery_recs, evidence, triggerVars>>

\* The SIMULATION_COMPLETED event, still inside the try block.
AnnounceCompletion ==
    /\ pc = "announce"
    /\ pc' = "stopped"
    /\ UNCHANGED <<round, model_version, new_model_version, modelVars, loaders, judgeVars,
                   dbVars, triggerVars>>

\* A phase raises before it changes anything.
RaiseAtOnce ==
    /\ pc \notin {"train", "failing", "stopped", "lost"}
    /\ UNCHANGED <<modelVars, loaders>>

\* apply_data_attack raises with some loaders already swapped.
RaiseWhilePoisoning ==
    /\ pc = "poison"
    /\ \E targets \in SUBSET Clients : Poison(targets)
    /\ UNCHANGED modelVars

\* Training raises; the finally block still runs.
RaiseInTraining ==
    /\ pc = "train"
    /\ global_model' \in {global_model, checkpoints[model_version]}
    /\ loaders' = RestoredLoaders
    /\ UNCHANGED <<checkpoints, trained_from>>

\* The registry refuses the new state after it was loaded into the module.
RaiseInSave ==
    /\ \/ pc = "aggregate" /\ Averageable(detections) /\ global_model' = CandidateModel
       \/ pc = "re_aggregate" /\ ~NobodyLeft /\ global_model' = RecoveredModel
    /\ UNCHANGED <<checkpoints, trained_from, loaders>>

\* The evaluation raises after its checkpoint was loaded into the module.
RaiseInEvaluation ==
    /\ pc = "evaluate_recovered"
    /\ global_model' = checkpoints[new_model_version]
    /\ UNCHANGED <<checkpoints, trained_from, loaders>>

Raise ==
    /\ \/ RaiseAtOnce \/ RaiseWhilePoisoning \/ RaiseInTraining
       \/ RaiseInSave \/ RaiseInEvaluation
    /\ pc' = "failing"
    /\ UNCHANGED <<round, model_version, new_model_version, judgeVars, dbVars, triggerVars>>

\* Mutant: the failure is not recorded.
ForgottenFailure == run_rec

FailedRow == [run_rec EXCEPT !.status = "FAILED"]

\* except: the session is rolled back and the run is marked.
RecordFailure ==
    /\ pc = "failing"
    /\ run_rec' = FailedRow
    /\ pc' = "stopped"
    /\ UNCHANGED <<round, model_version, new_model_version, modelVars, loaders, judgeVars,
                   round_recs, recovery_recs, evidence, triggerVars>>

\* The handler's own rollback, query or commit raises: the row keeps the status
\* it had, and nobody comes back to it.
LoseFailure ==
    /\ pc = "failing"
    /\ pc' = "lost"
    /\ UNCHANGED <<round, model_version, new_model_version, modelVars, loaders, judgeVars,
                   dbVars, triggerVars>>

PipelineNext ==
    \/ StartRound \/ ApplyDataAttacks \/ TrainClients \/ DetectUpdates \/ EstimateImpact
    \/ Aggregate \/ ValidateCandidate \/ CheckRecovery \/ ReAggregate \/ EvaluateRecovered
    \/ PersistRecovery \/ CompleteRound \/ PersistMetrics
    \/ AdvanceRun \/ FinishRun \/ AnnounceCompletion \/ Raise
    \/ RecordFailure \/ LoseFailure

PipelineSpec == PipelineInit /\ [][PipelineNext]_pipelineVars /\ WF_pipelineVars(PipelineNext)

-----------------------------------------------------------------------------
PhaseNames ==
    {"start", "poison", "train", "detect", "impact", "aggregate", "validate", "check",
     "re_aggregate", "evaluate_recovered", "persist", "complete", "metrics", "advance",
     "announce", "failing", "stopped", "lost"}

PipelineTypeOK ==
    /\ TriggerTypeOK
    /\ pc \in PhaseNames
    /\ round \in 0..TotalRounds
    /\ {model_version, new_model_version} \subseteq DOMAIN checkpoints
    /\ DOMAIN checkpoints \subseteq Versions
    /\ checkpoints \in [DOMAIN checkpoints -> SUBSET Contributions]
    /\ global_model \in SUBSET Contributions
    /\ loaders \in [Clients -> {"clean", "poisoned"}]
    /\ verdicts \in Seq([Clients -> Verdicts])
    /\ detections \in {<<>>} \cup [Positions -> Detections]
    /\ gate_primed \in BOOLEAN /\ loss_spiked \in BOOLEAN
    /\ trained_from \in Seq(Versions)
    /\ run_rec \in [status : {"RUNNING", "COMPLETED", "FAILED"},
                    current_round : 0..TotalRounds, model_version : Versions]
    /\ round_recs \in [1..TotalRounds -> [status : {"ABSENT", "PENDING", "COMPLETED"},
                                          model_version : Versions,
                                          recovery_triggered : BOOLEAN]]
    /\ recovery_recs \in [1..TotalRounds -> {"ABSENT", "NOT_REQUIRED", "COMPLETED"}]
    /\ evidence \in [1..TotalRounds -> SUBSET Tables]

\* No published model holds the delta a client sent in a round in which its
\* anomaly score reached the threshold: whatever the Sentinel decided about the
\* update, the recovery that its score triggers rebuilds the round without it
\* (_run_round Steps 7 to 10, evaluate_recovery_need, re_aggregate).
OffendersStayOut ==
    \A k \in checkpoints[run_rec.model_version] : ~Offends(k.client, k.round)

\* A checkpoint adds to the model its round was trained on deltas of that round
\* only, each at most once: recovery starts from the pre-round model and never
\* stacks a second average on the candidate (_run_round, pre_round_model_version).
DeltasAppliedOnce ==
    \A v \in DOMAIN checkpoints \ {InitialVersion} :
        LET own == { k \in checkpoints[v] : k.round = v.round }
        IN  /\ checkpoints[v] \ own = checkpoints[trained_from[v.round]]
            /\ \A k1, k2 \in own : k1.client = k2.client => k1 = k2

\* The trust-aware average is never refused, for a missing, duplicate or unknown
\* decision or for want of weight, whatever the order in which the Sentinel
\* answered and whichever updates the firewall kept from it
\* (aggregate_with_decisions' checks, _aggregate_impl's total weight).
DecisionsMatchUpdates == pc = "aggregate" => Averageable(detections)

\* The deltas of the clients whose update of round r was judged to the action.
DeltasJudged(r, action, weight) ==
    { [round |-> r, client |-> c, weight |-> weight, via |-> "aggregate"]
        : c \in { d \in Clients : verdicts[r][d].action = action } }

\* A candidate holds of its round exactly the accepted deltas at full weight and
\* the down-weighted ones at half.
CandidateIsJudged(r) ==
    { k \in checkpoints[Candidate(r)] : k.round = r } =
        DeltasJudged(r, "ACCEPT", "full") \cup DeltasJudged(r, "DOWN_WEIGHT", "half")

\* The verdicts reach the average, and under the right client, although the
\* Sentinel sorts the updates differently, the firewall keeps some from it and
\* updates and decisions are filtered by position but weighed by id: no round is
\* refused, and every candidate averages each trusted update of its round with
\* the weight of its own verdict and no other (_run_round Steps 4 and 7).
AverageHonoursVerdicts ==
    /\ DecisionsMatchUpdates
    /\ \A r \in 1..TotalRounds : Candidate(r) \in DOMAIN checkpoints => CandidateIsJudged(r)

\* The run's row never runs ahead of the evidence: a round it counts is
\* completed and has rows in every table, a completed round has its recovery
\* row, and nothing is recorded of a round before the row counts its predecessor.
EvidencePrecedesProgress ==
    \A r \in 1..TotalRounds :
        /\ r <= run_rec.current_round => /\ round_recs[r].status = "COMPLETED"
                                         /\ evidence[r] = Tables
        /\ round_recs[r].status = "COMPLETED" =>
               /\ recovery_recs[r] # "ABSENT"
               /\ Tables \ {"metrics"} \subseteq evidence[r]
        /\ round_recs[r].status # "ABSENT" => r <= run_rec.current_round + 1

\* The stored rows tell the model's lineage: a round trained on the version the
\* row of the round before names, the run's row names the version of its last
\* counted round, and a round is flagged as recovered exactly when a recovery
\* row says so and its version is not its candidate.
LedgerTellsTheLineage ==
    /\ \A r \in 1..run_rec.current_round :
           /\ r < Len(trained_from) => trained_from[r + 1] = round_recs[r].model_version
           /\ r = run_rec.current_round => run_rec.model_version = round_recs[r].model_version
           /\ round_recs[r].recovery_triggered <=> recovery_recs[r] = "COMPLETED"
           /\ round_recs[r].recovery_triggered <=> round_recs[r].model_version # Candidate(r)
    /\ trained_from # <<>> => trained_from[1] = InitialVersion

\* A checkpoint, once saved, is neither changed nor dropped (CheckpointManager:
\* "Historical states cannot be overwritten").
CheckpointsAreImmutable ==
    [][\A v \in DOMAIN checkpoints :
          v \in DOMAIN checkpoints' /\ checkpoints'[v] = checkpoints[v]]_pipelineVars

\* Every run ends, and with a final status in its row that it keeps, unless the
\* handler of its failure failed itself: whatever phase raises, no other way out
\* of run_simulation leaves the row RUNNING.
RunIsSettled ==
    <>[](/\ pc \in {"stopped", "lost"}
         /\ pc = "stopped" => run_rec.status \in {"COMPLETED", "FAILED"})

\* A failure that went unrecorded is the end of a run whose row says RUNNING.
RunStatus == IF pc = "lost" /\ run_rec.status = "RUNNING" THEN "LOST" ELSE run_rec.status

\* The pipeline publishes whole rounds, none of whose deltas comes from a client
\* that offended in that round, and it ends.
Promise == INSTANCE TrustedModel WITH
    Rounds <- TotalRounds,
    model  <- { <<k.round, k.client>> : k \in checkpoints[run_rec.model_version] },
    round  <- run_rec.current_round,
    barred <- [r \in 1..run_rec.current_round |-> { c \in Clients : Offends(c, r) }],
    status <- RunStatus

PromiseKept == Promise!Spec

\* "QUARANTINE -> zero weight (excluded)" (core/p1_models/detection_result.py):
\* a published model holds no delta of an update that was quarantined.
QuarantineMeansExcluded ==
    \A k \in checkpoints[run_rec.model_version] :
        verdicts[k.round][k.client].action # "QUARANTINE"

=============================================================================
