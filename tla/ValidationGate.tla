--------------------------- MODULE ValidationGate ---------------------------
(***************************************************************************)
(* The server validation gate (core/validation/server_validator.py) and    *)
(* the recovery decision it feeds, round after round of one run:           *)
(* simulation/runner.py judges the candidate of the round, stores the      *)
(* verdict in the table of validation records, evaluates the candidate,    *)
(* and asks the recovery decision engine.                                  *)
(*                                                                         *)
(* What the gate knows of a model is its loss and its accuracy on the      *)
(* validation set, here in hundredths.  The loss of a candidate whose      *)
(* outputs overflow is NaN: no comparison with it holds, and SQLite, which *)
(* has no NaN, stores it as NULL.                                          *)
(***************************************************************************)
EXTENDS RecoveryTrigger

CONSTANTS
    Measurements,        \* the pairs [loss, acc] a candidate may be measured with
    LossSpikeThreshold,  \* loss_spike_threshold, in hundredths
    AccDropThreshold,    \* acc_drop_threshold, in hundredths
    NaN                  \* the loss that is not a number

ASSUME GateAssumption ==
    /\ NaN \notin Int
    /\ Measurements \subseteq [loss : Nat \cup {NaN}, acc : 0..100]
    /\ LossSpikeThreshold \in Nat \ {0}
    /\ AccDropThreshold \in Nat \ {0}

VARIABLES
    gated,        \* the run has a gate with a validation set
    baseline,     \* <<previous_loss, previous_acc>> as one measurement, or << >>
    records,      \* the rows of validation_records, oldest first
    phase,        \* what the runner does next: "validate", "decide"; or "failed"
    candidates    \* history variable: what each candidate was measured with

gateVars == <<gated, baseline, records, phase, candidates>>
gateRunVars == <<gated, baseline, records, phase, candidates, current_round,
                 recovery_state, round_history, decision, evaluations>>

Phases == {"validate", "decide", "failed"}

\* The metrics of a gate without a validation set.
DefaultMeasurement == [loss |-> 0, acc |-> 100]

Records == [measured : Measurements \cup {DefaultMeasurement}, spiked : BOOLEAN,
            base : Measurements \cup {DefaultMeasurement}]

-----------------------------------------------------------------------------
Delta(from, to) == IF from = NaN \/ to = NaN THEN NaN ELSE to - from

\* Mutant: a candidate exactly a threshold worse is let through.
AtLeastStrictly(x, threshold) == x # NaN /\ x > threshold

\* A comparison with NaN is false.
AtLeast(x, threshold) == x # NaN /\ x >= threshold

\* How far a candidate is from the baseline; nothing without one.
LossDelta(base, measured) ==
    IF base = <<>> THEN 0 ELSE Delta(base[1].loss, measured.loss)

AccDelta(base, measured) ==
    IF base = <<>> THEN 0 ELSE base[1].acc - measured.acc

LossSpiked(base, measured) ==
    \/ AtLeast(LossDelta(base, measured), LossSpikeThreshold)
    \/ AtLeast(AccDelta(base, measured), AccDropThreshold)

\* Mutant: the baseline follows every candidate.
MoveAlways(base, measured) == <<measured>>

\* The baseline moves only when the candidate did not spike.
MoveBaseline(base, measured) ==
    IF LossSpiked(base, measured) THEN base ELSE <<measured>>

\* The runner recomputes the baseline from the candidate and the deltas.
RecordOf(base, measured) ==
    [measured |-> measured,
     spiked   |-> LossSpiked(base, measured),
     base     |-> IF base = <<>> THEN measured ELSE base[1]]

\* The column validation_loss may not be NULL.
Storable(measured) == measured.loss # NaN

-----------------------------------------------------------------------------
GateInit ==
    /\ TriggerInit
    /\ gated \in BOOLEAN
    /\ baseline = <<>>
    /\ records = <<>>
    /\ phase = "validate"
    /\ candidates = <<>>

\* validate_candidate with a validation set: the gate has moved its baseline
\* when the row is stored, or refused, which fails the run.
JudgeCandidate(measured) ==
    /\ phase = "validate" /\ gated
    /\ candidates' = Append(candidates, measured)
    /\ baseline' = MoveBaseline(baseline, measured)
    /\ \/ /\ Storable(measured)
          /\ records' = Append(records, RecordOf(baseline, measured))
          /\ phase' = "decide"
       \/ /\ ~Storable(measured)
          /\ phase' = "failed"
          /\ UNCHANGED records
    /\ UNCHANGED <<gated, triggerVars>>

\* validate_candidate without one: a healthy row and no baseline.
WaveThrough ==
    /\ phase = "validate" /\ ~gated
    /\ candidates' = Append(candidates, DefaultMeasurement)
    /\ records' = Append(records, RecordOf(baseline, DefaultMeasurement))
    /\ phase' = "decide"
    /\ UNCHANGED <<gated, baseline, triggerVars>>

\* check_recovery, with the verdict on this round's candidate.
Decide(scores) ==
    /\ phase = "decide"
    /\ current_round < MaxEvaluations
    /\ EvaluateRecoveryNeed(scores, records[Len(records)].spiked)
    /\ phase' = "validate"
    /\ UNCHANGED <<gated, baseline, records, candidates>>

\* The evaluation of the candidate between the two raises.
FailEvaluation ==
    /\ phase = "decide"
    /\ phase' = "failed"
    /\ UNCHANGED <<gated, baseline, records, candidates, triggerVars>>

GateNext ==
    \/ current_round < MaxEvaluations
       /\ (WaveThrough \/ \E measured \in Measurements : JudgeCandidate(measured))
    \/ \E scores \in ScoreMaps : Decide(scores)
    \/ FailEvaluation

GateSpec == GateInit /\ [][GateNext]_gateRunVars

-----------------------------------------------------------------------------
GateTypeOK ==
    /\ TriggerTypeOK
    /\ gated \in BOOLEAN
    /\ baseline \in Seq(Measurements) /\ Len(baseline) <= 1
    /\ records \in Seq(Records)
    /\ phase \in Phases
    /\ candidates \in Seq(Measurements \cup {DefaultMeasurement})

\* Round k was stored as healthy.
Quiet(k) == k \in DOMAIN records /\ ~records[k].spiked

\* Measurement n is worse than measurement m by a threshold of the gate.
Degraded(m, n) ==
    \/ n.loss - m.loss >= LossSpikeThreshold
    \/ m.acc - n.acc >= AccDropThreshold

\* A model that stays bad is answered in every round, not only in the first:
\* as long as a candidate is a threshold worse than the last healthy one, the
\* round ends with recovery triggered, however many spikes lie in between
\* (the baseline stands still during a spike, server_validator.py:137; the
\* verdict reaches the engine with its own round, runner.py:389).
DegradationIsAnswered ==
    (LossSpikePriority /\ gated /\ phase = "validate" /\ records # <<>>) =>
        LET n == Len(records)
        IN  \A m \in 1..(n - 1) :
                (/\ Quiet(m)
                 /\ \A k \in (m + 1)..(n - 1) : ~Quiet(k)
                 /\ Degraded(records[m].measured, records[n].measured)) =>
                    decision.state = Triggered

\* The gate compares with the candidate before, not with the best so far, and
\* takes candidates that recovery discarded as its baseline as well: all it
\* promises is less than one threshold per round.  Between two healthy rounds
\* the loss grows, and the accuracy falls, by less than that (evaluate_checkpoint;
\* a NaN baseline, against which nothing spikes, would break even this).
DriftIsStepwise ==
    \A i, j \in DOMAIN records :
        (i < j /\ Quiet(i) /\ Quiet(j)) =>
            /\ records[j].measured.loss - records[i].measured.loss
                  <= (j - i) * (LossSpikeThreshold - 1)
            /\ records[i].measured.acc - records[j].measured.acc
                  <= (j - i) * (AccDropThreshold - 1)
=============================================================================
