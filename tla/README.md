# FedSentinel in TLA+

FedSentinel simulates federated learning under attack: clients train a shared
model, some of them send poisoned updates, a Sentinel scores every update, and
the server averages, discards or rebuilds the model accordingly. This directory
holds TLA+ modules for the parts of it that keep state and make decisions, the
TLC configurations that model-check them on small instances, and TLAPS proofs
of what matters most. Paths below are relative to the repository.

Contents: 1. the system; 2. modules and code; 3. what TLC checks; 4. fairness;
5. what is proved; 6. disagreements between code and documents; 7. what is only
model-checked and what is not modelled; 8. plan; 9. running it.

## 1. The system

One backend process (`backend/main.py`) builds one configuration object and
three adapters, and every simulation run of the process shares them:

| Component | Code | State | Operations |
|---|---|---|---|
| Simulation service | `backend/services/simulation_service.py`, `backend/main.py` | the `AppConfig` requests write into | start a run inline or in a daemon thread |
| Runner | `simulation/runner.py` | locals of `run_simulation` and `_run_round`; rows in the database | the round: attack, train, filter, detect, estimate, aggregate, validate, decide, recover, record |
| P1 adapter | `backend/adapters/p1_fl_adapter.py`, `core/federated/{client_manager,client,aggregator,checkpoint,evaluator}.py` | one `nn.Module`, the client manager, the checkpoint registry | provision, initialise, train, aggregate, re_aggregate, evaluate |
| P2 adapter | `backend/adapters/p2_attack_adapter.py`, `core/attacks/attack_manager.py`, `simulation/scenarios/` | the last `AttackManager` built and its key | attack data, attack updates, name the attackers |
| P3 adapter and Sentinel | `backend/adapters/p3_sentinel_adapter.py`, `core/sentinel/` | reputations, a cache of results per round number | detect, estimate_impact, decide_response, check_recovery, reset |
| Recovery decision engine | `core/sentinel/recovery_trigger.py` | a deque of the last rounds' scores | evaluate_recovery_need, reset |
| Firewall and validation gate | `core/validation/` | the gate's baseline loss and accuracy | reject malformed updates; report a loss spike |
| Database | `backend/database/` | run, round, client, recovery, evidence tables | one commit per row |
| Stand-alone server | `core/federated/server.py` | round, version, history, registry, module | execute a round, with or without decisions |
| Dashboard | `frontend/src/` | the selected run, its data, requests in flight | poll, select, start |

The runner drives a round by calling the adapters in a fixed order. Three
things make that harder than it looks.

* *Results change hands by id and by position.* P1 filters updates and verdicts
  by position, the aggregator weighs them by update id, the Sentinel answers sorted by client id as a string
  (`client-10` before `client-2`), rejected updates never reach the Sentinel,
  and impacts are looked up by update id.
* *A model is changed in several places.* `aggregate`, `evaluate` and
  `re_aggregate` all load weights into the one module; recovery has to start
  from the model before the round, not from the candidate; the registry may
  refuse a version that was already loaded.
* *Every phase may raise*, some thirty commits are made one by one, and what
  was written so far stays. Runs in worker threads share every adapter, and
  caches are keyed by round number, configuration or nothing at all.

What makes each component correct:

* recovery decision engine: its window is exactly the last evaluations; it
  excludes exactly the offenders of the window; no offender slips through;
* round pipeline: the right updates are averaged, each once and with the weight
  of its own verdict, no offender in a published model, rows that never claim
  more than was done, an end to every run, and a final status unless the handler
  of its failure fails too;
* Sentinel: thresholds in different files agree, strong evidence beats a good
  reputation, offences are not undone by one good round, the reputation store
  and the recorded results tell the same story;
* shared process: a completed run is whole whatever others do, and a run that has
  the adapters to itself finds its own results there and is unaffected by anything that was before it but the
  weights it starts from;
* validation gate: a model that stays bad is answered in every round, and what
  the gate lets through drifts by less than a threshold per round;
* screening: an attack of a minority is not averaged at full weight, and the
  attackers cannot make honest updates look worse than their own;
* attack schedule: the ground truth is what happened, and a cached schedule is
  the one that would be built;
* stand-alone server: a committed checkpoint is its predecessor plus the
  reported updates, whatever failed in between;
* dashboard: the data shown are the selected run's or flagged as not, they never
  go back in time, and no spinner is left on.

`PROJECT.json` lists every component with its status, and every hazard of the
code at its line with the properties that would catch it.

## 2. Modules and code

| Module | Models | Abstraction |
|---|---|---|
| `RecoveryTrigger` | `core/sentinel/recovery_trigger.py`, whole | scores are hundredths |
| `ValidationGate` (extends it) | `core/validation/server_validator.py` and the runner's three steps around it: judge the candidate, store the record, decide | a model is the loss and the accuracy it is measured with, in hundredths; the loss may be NaN |
| `RoundPipeline` (extends `RecoveryTrigger`) | `simulation/runner.py` `_run_round` and the loop around it, with P1's and P3's calls as it sees them, the aggregator's decision check, the registry, the rows | a model is the set of client deltas in it, each with its round, weight and the call that added it; a verdict is how far the update's pipeline got, its action and its score; the spike is an input |
| `TrustedModel` | the promise of a run, no code of its own | the published model as a set of (round, client) |
| `SentinelEngine` | anomaly score, reputation, threat, impact, confidence, policy, recovery plan, failed stages, P3's cache and its translation of levels | exact integers: signals and anomaly scores in thousandths, reputations in millionths; what was measured of an update is an input |
| `UpdateMeasurement` | feature extractor, statistics, similarity, and the signals the anomaly detector and the impact estimator make of them | an update is a sequence of layers of small integers |
| `UpdateScreening` (extends both) | one round from training over the attack on the update and the firewall to the verdicts | honest training gives one of a few updates, or diverges |
| `ScaledArithmetic` | the few numpy functions these need, on integers | |
| `SimulationLifecycle` | `start_simulation`, the worker threads, the configuration and the three adapters all runs share, `client.train`'s two reads of the module | a run's round is coarse; one client stands for all when a run trains; a model counts how often each run's delta of each round is in it |
| `AttackSchedule` | P2 adapter, attack manager, scenario builders | a client is damaged or not; intensities and labels are left out; `NameOrder`, the order of the ids as strings, is a constant |
| `ServerRound` | `core/federated/server.py`, `client_manager.py`, the aggregator's refusals, `CheckpointManager.save` | weights are the updates in them and whether they are finite |
| `Dashboard` | `frontend/src/hooks/useDashboardData.ts`, the part of `App.tsx` that selects runs, `api.getDashboard` | the nine GETs of a refresh are two parts, the run and its rows; what the server stores is a count of rounds |

`MC*` modules only add constants for TLC, `*Proofs` modules only theorems (those of
`ScaledArithmetic`, `UpdateMeasurement`, `SentinelEngine` and `UpdateScreening` are in
`SentinelProofs`).
Every action stands for a stretch of code that ends in a commit, hands a result
on, or is followed by a point where another thread can matter; its name is the
function's or the phase's. `PROJECT.json`'s `map` gives each definition's lines.
An operator whose comment begins with *Mutant* is not part of a specification:
it is a slip the code could have had, and every property is seen to fail when
one of them replaces the definition it stands before.

How the state corresponds to the code:

* `RoundPipeline`: `pc` is the place in `_run_round`; `model_version` and
  `new_model_version` are its locals; `checkpoints` is the registry;
  `global_model` the module; `loaders` the client's data loaders; `run_rec`,
  `round_recs`, `recovery_recs` and `evidence` the tables. An exception is the
  action `Raise`, possible in every phase, with what the phase may have changed
  by then. The `except` block is a rollback, a query and a commit, and each may raise
  as any other call: `RecordFailure` is the block that succeeds, `LoseFailure` the one
  that does not and leaves the row as it was, `RUNNING` more often than not. The
  aggregator's average is refused unless `Averageable`. `trained_from` and `verdicts`
  are history variables: nothing in an action's guard reads them, except that
  `EstimateImpact` reads the current round's verdicts.
* `SimulationLifecycle`: `pc[run]` is where the request or the thread is;
  between any two places another run may act. `overlapped` remembers which runs
  were active together, so that a property can say what a run that had the
  adapters to itself may rely on. A failure of the set-up, which runs before the
  `try` block, leaves the row `RUNNING` (`FailSetup`), and so does a handler that fails
  itself (`LoseFailure`), as the code does. The Sentinel's cache holds, per round
  number, the ids of the updates it has an impact for, and `HasImpact` is the
  runner's look-up of each of its own.
* `SentinelEngine`: `client_states` is the reputation engine, `round_cache` the
  adapter's cache. The counters behind the history terms of threat and impact are
  written by no code, so these terms are zero (`HistoricalDamageRisk`).
* `UpdateMeasurement`: `Statistics` says which key is in which group, and `Found`
  is the `get(key, 0.0)` the scores read them with. The interquartile range, the
  sparsity and the three norms of the drift are asked of a group that does not
  hold them, so `Found` answers zero there, as the code does.
* `ValidationGate`: `baseline` is `previous_loss` and `previous_acc`; `records` the
  validation table; a NaN loss is stored as NULL, which the column refuses.
  `Decide` is the recovery decision of `RecoveryTrigger`, fed with the record.
* `Dashboard`: `requestId` is a counter only ever compared with its newest value,
  so a request carries whether it is the newest. React's effects are part of the
  action that changes what they depend on.
* `ServerRound`: a failed call is `FailRound`, `FailEvaluation` or `RefuseSave`;
  only the second rolls the weights back.

## 3. What TLC checks

Passing runs:

| Run | Question | Bounds, and why they are enough |
|---|---|---|
| `gate_and_trigger` | Is a bad candidate answered, and is the decision exactly a function of the last evaluations? | two clients, a score just below and one exactly at the threshold, a window of two, three rounds: the deque overflows, and an offence enters, stays in and leaves the window; six measurements: healthy, one hundredth short of each threshold, on each threshold, NaN; a run without a validation set |
| `round_pipeline` | Do verdicts, weights, evidence, lineage and the run's row stay aligned, with an exception in any phase? Does every run end, and does it implement `TrustedModel`? | two clients, whom the Sentinel sorts the other way round, and five kinds of verdict (rejected by the firewall, accepted, down-weighted, failed before and after its impact stage), so that swapped positions differ; three rounds and a window of two: an offence of round 1 is in the window of round 2 and out of that of round 3 |
| `sentinel_engine` | Do the thresholds of the five engines agree? | two clients, three rounds, seven profiles: honest, zero, flipped, boosted, barely below and barely at the offence threshold, and the largest signal of every kind; three rounds give an offence, its amends and the round after |
| `update_screening` | Which attacks does one round see through, and what do they do to the honest? | five clients, so that a minority may be one or two; three honest updates in one general direction, or one that diverged; nine attacks; one round, because reputation starts at 1 and only falls to those who offend |
| `simulation_lifecycle` | What survives runs that share the process? | two runs, one of two rounds with one client and one of one round with two: the second can provision away the first's clients or meet it in the same round number |
| `attack_schedule` | Who is attacked, and who is named for it? | two runs, two clients, up to three rounds, eleven requests: one per scenario, those the API accepts and no builder can schedule (a sleeper from round 2, a mixed attack with one target, a sybil of one client), one switched off, target lists that trip the fallbacks; the sleeper needs three rounds, nothing needs more |
| `server_round` | What is left of failed calls? | two clients that come and go, three calls, an initial version of `model_v0` or of `model_v2`: the second collides with the second round |
| `dashboard` | What does the page show while requests overtake each other? | two runs, which may exist already or be started; one round stored per run, so that the two parts of an answer can disagree; two requests in flight, so that one can overtake another |

The properties, by what would have to go wrong to break them:

* *Order and identity*: `AverageHonoursVerdicts`, `AloneFindsItsImpacts`,
  `ReputationMatchesRecord`, `DisplayNeverGoesBack`, `ForeignDataIsFlagged`.
* *Lineage of models*: `DeltasAppliedOnce`, `OffendersStayOut`,
  `AloneMeansIsolated`, `HistoryIsLineage`, `WeightsFollowVersion`, `RefusedForever`.
* *What rows claim*: `EvidencePrecedesProgress`, `LedgerTellsTheLineage`,
  `CompletedRunIsWhole`.
* *Scores, baselines and windows*: `ExclusionMatchesWindow`,
  `OffenderNeverSlipsThrough`, `DegradationIsAnswered`, `DriftIsStepwise`,
  `AcceptedIsHarmless`, `EvidenceAloneQuarantines`, `ScoreAloneNeverRecovers`,
  `OffenceOutlastsAmends`, `AloneMeansRemembered`.
* *What an attacker gets*: `MinorityIsNotTrusted`, `AttackerOutranksHonest`,
  `LoneStealthCannotFrame`.
* *Attacks*: `TruthMatchesDamage`, `RunSuffersItsScenario`, `CacheAnswersItsKey`.
* *What must happen*: `RunIsSettled`, `StartedRunsSettle`, `CatchesUp`, and
  `SpinnerHasARequest`, which makes the spinner's end follow from the answer's.
* *Refinement*: `PromiseKept`: the pipeline implements `TrustedModel` under the
  mapping that reads the published model and the counted rounds off the run's
  row. Deltas of a round appear together, when the row is advanced, and never
  those of a client that offended in that round; an exception changes nothing.

Three statements are as weak as the code makes them, and TLC has counterexamples
to anything stronger:

* `DriftIsStepwise`: the gate compares with the candidate before, not with the
  best so far, and a candidate that recovery discards for its scores becomes the
  baseline too. A loss that grows by just under 0.35 in every round is never a
  spike.
* `MinorityIsNotTrusted` leaves out the boosted update: one that keeps its
  direction is accepted at full weight however large it is, since an update's size
  bears on the score almost only through one signal of 30 %. No measured update of the run is ever
  quarantined on its first round: the strictest answer there is a down-weight.
* `LoneStealthCannotFrame` speaks of one attacker that keeps its norm. Two stealthy
  attackers among five, or one that amplifies its flip, cost honest updates enough
  similarity to be down-weighted with them.

`ScoreAloneNeverRecovers` ties the modules together: no measurement reaches the
0.80 that triggers recovery, so with these engines only the firewall's own score
of 1.0, or a spike of the gate, ever triggers one. The scores `round_pipeline`
uses follow from it. A spike without offenders excludes nobody, and recovery then
averages every update of the round at full weight, the quarantined ones included
(`quarantine_excluded`).

`RunIsSettled` and `StartedRunsSettle` have one exception, a run whose failure
could not be recorded: what stopped the run, a locked database or a full disk, may
stop the handler of the exception too, and nothing comes back to the row.
`AverageHonoursVerdicts` says both that the aggregator refuses no round and what each
candidate holds. A slip in the realignment shows in the first half: weights are looked
up by update id, so a verdict in the wrong place is not applied to another update but
refused.

Several properties end in "as long as runs do not overlap". That is not a
convenience: with two threads under way the code really mixes the runs' weights
and windows, and the properties say precisely what is lost.

Deadlock checking is off where the system really stops: after the last round,
evaluation or call, or when every run has ended. `sentinel_engine` and `dashboard`
keep it on. Symmetry is used in safety runs only, over clients or runs no constant
tells apart.

## 4. Fairness

* `PipelineSpec`: weak fairness of the whole next-state relation. The runner is
  one thread; it keeps running, and its calls (PyTorch, SQLite, the adapters)
  return or raise. Which of the two is never assumed, not of the calls in the `except`
  block either.
* `LifecycleSpec`: weak fairness of each run's own steps, one thread per run,
  scheduled by the operating system. Nothing is assumed of requests: they may
  never come.
* `TrustedModel`: weak fairness of a running simulation's step, the same
  assumption one level up. It promises that the run ends, as COMPLETED, FAILED or
  LOST: LOST stands for a run that has ended with a record that says RUNNING, and is
  no status of the database.
* `DashboardSpec`: the interval fires again and again while it is on, the server
  answers, an answer that has come is processed: weakly, and strongly for the
  newest one, because a poll may make it stale before its turn comes. That a newest
  request is ever answered before the next one is issued is *not* assumed of the
  specification: nothing in the code sees to it, and with every answer slower than
  the interval of three seconds the page stays empty. `CatchesUp` names it as its
  premise (`AnsweredInTime`).
* The other modules state safety only and need none. `StartedRunsSettle` speaks
  of runs that reached the round loop, because a run whose set-up raises stays
  `RUNNING` for ever in the code, and excepts those whose handler failed.

## 5. What is proved

All proofs hold for every value of the constants that satisfies the named
assumptions, which TLC evaluates on every run:

* `TriggerAssumption`: a threshold in 1..100 and a look-back of at least one,
  the constructor's own checks; scores in 0..100.
* `PipelineAssumption`: both client orders list every client, the configuration
  lists none twice, and an update whose pipeline did not complete is quarantined.
* `GateAssumption`: losses are naturals or NaN, which is no integer, accuracies in
  0..100, both thresholds positive, as the constructor's defaults are.
* `ServerAssumption`: initial versions and the number of calls are naturals.
* `SentinelAssumption`: at least one round, profiles within the ranges of the
  signals (`LargestSignal`), a recovery threshold in 1..1000 thousandths. That the
  ranges are the signals' is not assumed but proved (`MeasuredIsAProfile`).
* `UnitAssumption`: the unit of a vector's entries is at least one.
* `ScreeningAssumption`: there are finitely many clients and some update to train; all
  updates, and the sybils' shared direction, have the layers of one model, none of
  them empty; the attacks are of the registry, with factors that are naturals.
* `DashboardAssumption`: `None` is no run, any bound on rounds and requests.
* `LifecycleAssumption`: there is a request, and requests ask for rounds and clients
  within positive bounds.
* `AttackAssumption`: there is a configuration, its rounds and clients are within
  the bounds, its start round is not after its last, its shuffled list names each
  client, and the sorted order lists every client.

`RecoveryTriggerProofs` proves the type and four properties of the decision engine:
the two that runs check, and that the deque is the recent window
(`HistoryIsRecentWindow`) and the suggested round its first affected one
(`RecoveryRoundIsEarliest`). The
inductive invariant `TriggerInv` adds to the types that the deque's entry i is
the evaluation numbered `current_round - Len + i` (`DequeInv`), and that the
last decision was computed from the deque as it is now (`DecisionInv`). That
entries are numbered consecutively is what the properties do not say and the
step of `_record_round` needs. The earliest round comes from the least element of
a non-empty set of positions.

`ValidationGateProofs` proves that the gate with its decisions implements
`TriggerSpec` (`GateImplementsTrigger`): a round of it is a round of the engine, fed
with the record's verdict, or leaves the engine alone. `GateInv` says that the
baseline of a run that lives is what the last healthy record was measured with
(`BaselineInv`), that no stored loss is NaN (`RecordsInv`), that a record a threshold
worse than the last healthy one spiked (`FlagInv`), and that the decision answers the
last record (`AnswerInv`). `DegradationIsAnswered` follows from the last two.
`DriftIsStepwise` is inductive with the first two: a new healthy record is compared
with the last healthy one, whatever spiked in between, and the bounds add up. A NaN
loss does become the baseline, but only in a run that fails before it can matter, and
that is why `BaselineInv` excepts failed runs.

`RoundPipelineProofs` proves `PipelineTypeOK`, `OffendersStayOut`,
`DeltasAppliedOnce`, `AverageHonoursVerdicts`, `DecisionsMatchUpdates` and
`CheckpointsAreImmutable`, for any number of clients and rounds, any two
orders, and any verdicts. `PipelineInv` extends `TriggerInv` by
* `ControlInv`: at each place of the round, how many rounds have been detected
  and evaluated, and that `detections` are this round's verdicts in order;
* `LineageInv`: what each checkpoint consists of: the model its round trained
  on, and deltas of that round, each once; of a candidate, exactly those of the
  trusted updates with the weights of their verdicts;
* `PublishedInv`: which version the locals and the row name, and that a
  candidate whose round triggered a recovery is never what the row names;
* `RowInv`: the run's row is behind the runner by at most the round under way, and
  has no final status before the run is at its end.

The argument for `OffendersStayOut` needs all of them: an offender of the round
triggers the decision (`OffenderNeverSlipsThrough`), its client is in the
excluded set, the rebuilt model starts from the round's base and not from the
candidate, and the row only ever receives the rebuilt version. Helper lemmas
about the alignment (`AlignmentLemma`, `KeptLemma`, `ScoresLemma`) say that each
position's detection is its own client's whatever order the Sentinel answered in,
and that the average over the positions that survive the filter is therefore never
refused and takes the trusted updates with their own weights.

`PipelineRefines` proves the safety part of `PromiseKept`: initial states map
to `TrustedModel`'s, every step to a step of it or a stutter; `LoseFailure` maps to
`Lose` unless the run had already said COMPLETED.

`PipelineFilesEvidence` and `PipelineTellsItsLineage` prove what the rows claim,
`EvidencePrecedesProgress` and `LedgerTellsTheLineage`. Both follow from
`LedgerInv` (theorem `PipelineLedger`), which adds to them, on top of `PipelineInv`,
* `FiledInv`: at each place of the round, the rows the phases behind it have filed;
* `OutcomeInv`: the round hands on its own candidate exactly when its decision did
  not trigger a recovery, which ties the version in the rows to the recovery row.

`ServerRoundProofs` proves all five properties of `ServerRound`. `ServerInv`
adds `Fresh` (ids of this call have never been seen before it), `Held` (what the
module and the roll-back state hold in the middle of a call) and `Stuck` (after
a refusal either the wanted version exists or nothing passes the aggregator).
`Stuck` is what makes `HistoryIsLineage` inductive: a refused save leaves foreign
deltas in the module, and the lineage survives only because nothing is ever
committed again.

`SentinelProofs` has two parts. The first proves all six properties of
`SentinelEngine`, for any clients, any set of profiles within the signals' ranges and any number of rounds.
Two of them depend on the recovery threshold, and the theorems say on how much of
it: from 0.45 on nothing accepted would be rolled back (`AcceptanceIsHarmless`), and
above 0.753 no score at all rolls back (`NoScoreRecovers`); the default threshold,
0.8, is above both. `RollbackIsNeverRecommended` adds what the finding
`boosted_is_critical` comes from: no impact is ever high or critical, no decision
recommends a rollback and no plan is one. The argument has two halves:
* *What a result can be* (`Sound`). The four weighted signals stay below 0.754
  (`AnomalyRange`), the threat is never below the evidence (`ThreatFloor`), and an
  impact without drift and history never exceeds 0.55 (`ImpactRange`), so
  ROLLBACK_RECOMMENDED is never reached and an accepted update has a threat below
  0.3. `ScoredIsSound` puts them together for every reputation.
* *What the engine remembers* (`StateInv`, `SentinelInv`). Each entry of a history is
  the clipped step from the one before it, rounds grow, and none is later than the
  current one, which is why the next round is never refused as out of order
  (`NextRoundInOrder`). `CacheRemembered` and `MemoryRecorded` are the two directions
  of `ReputationMatchesRecord`; neither is inductive without the bound on the cached
  rounds. `OffenceOutlastsAmends` follows from two adjacent steps
  (`AmendsFallShort`).

The second part proves that what is *measured* of updates are profiles these theorems
are about, so that nothing about the signals is taken on trust.
* *Arithmetic.* The integer square root is a number whose square fits
  (`ISqrtLemma`), sums of integers are integers with the bounds of their terms
  (`TotalBounds`, `SumFunctionBounds`), n times a sum of squares is never below the
  square of the sum, so a variance is not negative (`ScatterNonnegative`), the
  median of a finite family of numbers is the mean of two of its members
  (`MedianLemma`), and updates of one shape flatten to one length (`FlatLemma`).
  Each of these operators is a recursive function or a fold: the proof builds the
  table of the function's values, by an induction over a set of numbers or of subsets
  without a least missed one (`UpTo`, `UpToSet`), and shows that the `CHOOSE` behind
  the definition is that table.
* *Signals.* Every saturation `x / (x + scale)` stays below one (`SaturatingLemma`),
  every cosine, which the code clips, within minus one and one (`CosineLemma`), and
  from these each signal within its own range: the distribution below 0.75, because the
  interquartile range it asks for is always zero (`DistributionSignalRange`), the
  similarity below 0.889, because the distance to the centroid is at most two
  (`SimilaritySignalRange`), magnitude and displacement at most one. Together:
  `MeasuredIsAProfile`.
* *The round.* `ScreenInv` says that every update sent has the shape of the model or
  diverged: whatever attack rewrites an update keeps its shape (`PoisonedIsSent`), and
  only updates of one shape can be measured against each other. With it
  `ScreeningImplementsSentinel` holds: the round from training to the verdicts
  implements `SentinelEngine` with all profiles, training and attacks being stutters. The
  properties of the engines thereby hold of measured updates
  (`ScreenedRoundsAreSound`, `NoScreenedScoreRecovers`,
  `ScreenedAcceptanceIsHarmless`), for tensors of any size, any number of clients and
  rounds, and any attack of the registry.
* *What a round sees through, and what it does not.* `ContraryUpdatesAreNotTrusted` is
  the part of `MinorityIsNotTrusted` that no choice of updates can break: an update
  whose average cosine to the others is -0.7 or less, or one of zeros while the
  others have a norm and do not cancel out, is never accepted at full weight, whatever
  its client's reputation. `LoneSurvivorPasses` is the other side: of a client the
  firewall leaves alone with the Sentinel nothing is ever quarantined or charged as an
  offence, whatever it sends, since magnitude and similarity compare it with itself.

`DashboardProofs` proves the three safety properties of `Dashboard`, for any number
of runs, rounds and requests in flight. `DashboardInv` adds to the types
* `NewestInv`: at most one request is the newest, and under a selected run it asks
  for that run (without a selected run it may ask for any, which is why
  `ForeignDataIsFlagged` says nothing then);
* `ReadInv`: the newest request has read nothing the server has not stored;
* `FreshInv`: what is shown was stored, and what the newest request has read of the
  same run is not older.

A request made now reads later than whatever is shown, and only its answer may be
taken once it is made; that is `NeverBackInTime`, which needs nothing of the order
in which answers arrive.

`SimulationLifecycleProofs` proves the five invariants of `SimulationLifecycle`, for
any number of runs on one process, any requests and every interleaving.
`LifecycleInv` adds to the types, for each run,
* `ProgressOf`: what a run has behind it at each place of its thread, in its row,
  the registry and the impacts. These are under its own name, so no other run
  takes them back;
* `WholeOf`: that all of it is there once the row says COMPLETED, counted by the
  rounds it read at its start, whatever has been written into the configuration
  since;
* `AloneOf`: what the module, the trained weights and the Sentinel hold for a run
  that has met no other so far, which is what it has put there itself. That its
  clients are remembered up to the round before and no further is why the Sentinel
  refuses none of them, and so why every impact is found;
* `IsolatedOf`: that each checkpoint of such a run is its initial model plus each of
  its deltas so far, once.

A step of another run leaves all four alone (`OthersKeepInv`): it keeps the run's rows
and checkpoints, and if the run is under way it either leaves the module and the
Sentinel alone or makes the run one of the `overlapped`, of which the last two say
nothing (`LeftAlone`).

`AttackScheduleProofs` proves the four invariants of `AttackSchedule`, for any number
of runs, any configurations and every interleaving. `ScheduleInv` has two parts.
* `TypeInv` holds whoever shares the adapter: it holds nothing, or one whole
  schedule that some configuration builds (`Shapes`), and each run is within its own
  rounds and clients (`PlaceOf`).
* `AloneInv` holds while no two runs have used the adapter in turns. A run has
  suffered the part of its plan that is behind it, nothing else, and was told
  exactly that (`SufferedOf`); and where it is about to ask, or to be told who
  attacked, the manager is its own (`AnsweredOf`). The second is why the ground truth
  can be trusted although `get_attacker_ids` asks whatever manager is there.

`ScheduleLemma` says what every builder schedules, for every configuration: within
the run's rounds and clients, from the start round on in every round, and earlier
only in the sleeper's stealth round. It rests on `TargetsLemma`, that the adapter
never hands a builder a client that does not exist. That, in turn, rests on `Filter`,
a recursive function: `FilterSteps` shows that its recursion has a solution and that
the `CHOOSE` behind it is one, and `FilterLemma` that the result has the elements
of the list that are in the set, and no others. Both are inductions, over a set
of numbers without a least missed one (`UpTo`).

Out of the prover's reach, and left to TLC: liveness under fairness
(`RunIsSettled`, `StartedRunsSettle`, `CatchesUp`, the fairness part of `PromiseKept`) and
ENABLED. The library's induction theorems that take an operator as a parameter
cannot be used; where an induction was needed it is made over a set, as above. No
module declares a RECURSIVE operator.

## 6. Disagreements between code and documents

Each is shown by a run that is expected to end in a counterexample.

* `quarantine_excluded`: `core/p1_models/detection_result.py:38` says that
  QUARANTINE means weight zero. A recovery re-aggregates every update whose
  *client* is not excluded, so an update that was quarantined with a score below
  the recovery threshold returns at full weight in the published model.
* `malicious_quarantined`: the contract (section 18) says that a malicious
  update is quarantined. The adapter records every down-weighted update that is
  not SUSPICIOUS as MALICIOUS, one of threat 0.3 to 0.4 that was scored SAFE
  included, and it is averaged at half weight.
* `boosted_is_critical`: `docs/attack-methodology.md:108` says that the boosted
  update of a sleeper is marked of critical impact. Drift, 35 % of the impact, is
  read from a group of statistics that does not hold it, and the history term is
  never fed: no impact exceeds 0.55.
* `runs_start_alike`: the contract (section 49) promises reproducible results.
  A run's initial model is whatever the shared module holds.

Not listed as findings, because no document contradicts them plainly: a round
executed with decisions by the stand-alone server can never be committed, because
updates get fresh ids after the decisions were made (theorem
`ServerRefusesDecisions`); a refused checkpoint stops that server for good, with
weights in the module that no version names (`RefusedForever`); when recovery
excludes every client nothing is saved, the old version is published again and the
recovery is recorded as COMPLETED, although the contract (section 21) speaks of a
new version; in the dashboard a run deselected by hand is selected again by the next
list, and the answer in flight when no run is selected still fills the page.
Also met while reading: `reset_baseline` of the gate has no caller;
`recovery.enabled` and both recovery thresholds of the
configuration are handed to `check_recovery` and ignored.

## 7. Model-checked only, and not modelled

Only model-checked: everything that is a matter of liveness, and the three
invariants `update_screening` checks, `MinorityIsNotTrusted`, `AttackerOutranksHonest`
and `LoneStealthCannotFrame`. These compare scores that are computed from concrete
tensors and depend on the chosen honest updates and attacks: an honest update
opposed to the others is down-weighted as an attacker's is. They
say what the run's instance does, not a law for every value of the constants. The parts
that are laws are theorems: `ContraryUpdatesAreNotTrusted`, and everything that holds for
every profile. Conversely, `ScreeningImplementsSentinel` is proved and not checked: the
next-state relation of `SentinelEngine` with all profiles enumerates far more outcomes
than TLC can. Every other safety invariant and action property that a
run checks is a theorem.

Not modelled, or not yet:

* SGD, the attacks on data, the evaluation: their results are inputs. Floats: the
  modules compute with integers, so a comparison that only rounding decides is not
  seen. `UpdateMeasurement` leaves out what nobody reads (percentiles as values,
  pairwise distances, entropy-like descriptions).
* Which of its checks the firewall rejects an update for, the reference shapes of
  parameters, and the aggregator's checks on tensors.
* The client table and the metrics' counts; SQLAlchemy's sessions; a crash of
  the process (nothing reads rows back to resume a run, so there is no recovery
  protocol to check).
* `SimulationLifecycle` leaves out the recovery step of a round and lets one
  client stand for all in training; `RoundPipeline` has both in detail.
* `AttackSchedule` leaves out the `honest` entries of the ground truth, which
  `get_attacker_ids` skips.
* The REST read services, the data set loader, the pydantic and dataclass
  models' validation, the dashboard's rendering, routes and theme.

## 8. Plan

Done, in this order: `RecoveryTrigger` and its proofs, `RoundPipeline` with
`TrustedModel` and its proofs, `SentinelEngine` and its proofs, `SimulationLifecycle`
and its proofs, `AttackSchedule` and its proofs, `ServerRound` and its proofs,
`ValidationGate` and its proofs, `UpdateMeasurement` and `UpdateScreening`,
`Dashboard` and its proofs, the proofs about measurement and screening.

Next, by importance:

1. The client table: per-client commits of a round and what a failure between
   them leaves.
2. Several rounds of `UpdateScreening` with few updates, to see how the reputation
   of an attacker that is down-weighted in every round develops.

## 9. Running it

    tlc -workers 2 -config MCRoundPipeline.cfg MCRoundPipeline.tla
    tlapm RoundPipelineProofs.tla

Each run's module and configuration are listed in `PROJECT.json`. The longest
run takes about two minutes; the proofs about the Sentinel take several, each of the
other proof modules little more than one at most.
