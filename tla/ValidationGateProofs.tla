------------------------ MODULE ValidationGateProofs ------------------------
(***************************************************************************)
(* Proofs about ValidationGate: the gate composed with the recovery        *)
(* decision engine implements the engine's own specification, so that the  *)
(* theorems of RecoveryTriggerProofs hold of it, and the two properties of *)
(* the gate hold for all thresholds, measurements and numbers of rounds.   *)
(*                                                                         *)
(* The heart of the invariant is BaselineInv: while the run lives, the     *)
(* baseline is what the last healthy record was measured with.             *)
(***************************************************************************)
EXTENDS ValidationGate, RecoveryTriggerProofs, TLAPS

AllMeasurements == Measurements \cup {DefaultMeasurement}

LastQuiet(q) == Quiet(q) /\ \A k \in (q + 1)..Len(records) : ~Quiet(k)

\* No stored loss is NaN; without a validation set every record is the default.
RecordsInv ==
    /\ \A k \in DOMAIN records : records[k].measured.loss # NaN
    /\ ~gated => \A k \in DOMAIN records : records[k].measured = DefaultMeasurement

BaselineInv ==
    /\ ~gated => baseline = <<>>
    /\ (gated /\ phase # "failed" /\ records = <<>>) => baseline = <<>>
    /\ (gated /\ phase # "failed" /\ records # <<>>) =>
           \E q \in DOMAIN records :
               LastQuiet(q) /\ baseline = <<records[q].measured>>

\* A record a threshold worse than the last healthy one before it spiked.
FlagInv ==
    gated => \A n \in DOMAIN records : \A m \in 1..(n - 1) :
        (/\ Quiet(m)
         /\ \A k \in (m + 1)..(n - 1) : ~Quiet(k)
         /\ Degraded(records[m].measured, records[n].measured)) => records[n].spiked

AnswerInv ==
    (/\ phase = "validate" /\ records # <<>> /\ LossSpikePriority
     /\ records[Len(records)].spiked) => decision.state = Triggered

DecideInv == phase = "decide" => records # <<>>

GateInv == GateTypeOK /\ RecordsInv /\ BaselineInv /\ FlagInv /\ AnswerInv
           /\ DecideInv /\ DriftIsStepwise

-----------------------------------------------------------------------------
\* A measurement that is a number is a pair of natural numbers.
LEMMA MeasurementsAreNumbers ==
    ASSUME NEW x \in AllMeasurements, x.loss # NaN
    PROVE  x.loss \in Nat /\ x.acc \in Nat
BY GateAssumption DEF AllMeasurements, DefaultMeasurement

LEMMA DefaultIsANumber == DefaultMeasurement.loss # NaN
BY GateAssumption DEF DefaultMeasurement

LEMMA RecordOfType ==
    ASSUME NEW base \in Seq(Measurements), NEW x \in AllMeasurements
    PROVE  RecordOf(base, x) \in Records
<1>1. base # <<>> => base[1] \in AllMeasurements
  BY DEF AllMeasurements
<1>2. LossSpiked(base, x) \in BOOLEAN
  BY DEF LossSpiked, AtLeast
<1>3. QED
  BY <1>1, <1>2 DEF RecordOf, Records, AllMeasurements

\* Without a baseline nothing spikes.
LEMMA NothingSpikesFirst ==
    ASSUME NEW x PROVE LossSpiked(<<>>, x) = FALSE
BY GateAssumption DEF LossSpiked, LossDelta, AccDelta, AtLeast

\* Against a number, a spike is a degradation.
LEMMA SpikeIsDegradation ==
    ASSUME NEW b \in AllMeasurements, NEW x \in AllMeasurements,
           b.loss # NaN, x.loss # NaN
    PROVE  LossSpiked(<<b>>, x) <=> Degraded(b, x)
<1>1. /\ b.loss \in Nat /\ b.acc \in Nat /\ x.loss \in Nat /\ x.acc \in Nat
  BY MeasurementsAreNumbers
<1>2. /\ LossDelta(<<b>>, x) = x.loss - b.loss
      /\ AccDelta(<<b>>, x) = b.acc - x.acc
  BY DEF LossDelta, AccDelta, Delta
<1>3. x.loss - b.loss # NaN /\ b.acc - x.acc # NaN
  BY <1>1, GateAssumption
<1>4. QED
  BY <1>2, <1>3 DEF LossSpiked, AtLeast, Degraded

\* Storing a record leaves the records before it, and whether they are quiet.
LEMMA StoredRecord ==
    ASSUME records \in Seq(Records), NEW r \in Records, records' = Append(records, r),
           NEW n, n = Len(records) + 1
    PROVE  /\ Len(records') = n /\ n \in Nat /\ n - 1 = Len(records)
           /\ records' \in Seq(Records)
           /\ DOMAIN records' = 1..n /\ DOMAIN records = 1..(n - 1)
           /\ records'[n] = r
           /\ \A k \in 1..(n - 1) : records'[k] = records[k] /\ (Quiet(k)' <=> Quiet(k))
           /\ Quiet(n)' <=> ~r.spiked
<1>1. /\ Len(records') = n /\ n \in Nat /\ n - 1 = Len(records)
      /\ records' \in Seq(Records)
      /\ DOMAIN records' = 1..n /\ DOMAIN records = 1..(n - 1)
      /\ records'[n] = r
      /\ \A k \in 1..(n - 1) : records'[k] = records[k]
  OBVIOUS
<1>2. \A k \in 1..(n - 1) : Quiet(k)' <=> Quiet(k)
  BY <1>1 DEF Quiet
<1>3. Quiet(n)' <=> ~r.spiked
  BY <1>1 DEF Quiet
<1>4. QED
  BY <1>1, <1>2, <1>3

\* How far a measurement may move in a number of rounds, at a step per round.
Allowance(rounds, step) == rounds * step

\* One more round adds at least one more step.
LEMMA AllowanceGrows ==
    ASSUME NEW i \in Nat, NEW q \in Nat, NEW n \in Nat, NEW t \in Nat, i <= q, q < n
    PROVE  /\ Allowance(q - i, t) \in Int /\ Allowance(n - i, t) \in Int
           /\ Allowance(q - i, t) + t <= Allowance(n - i, t)
<1>1. PICK d \in Nat : n - i = (q - i) + 1 + d
  <2>1. n - q - 1 \in Nat
    OBVIOUS
  <2>2. QED
    BY <2>1
<1>2. (n - i) * t = (q - i) * t + t + d * t
  BY <1>1
<1>3. d * t \in Nat
  OBVIOUS
<1>4. (q - i) * t \in Int
  OBVIOUS
<1>5. QED
  BY <1>2, <1>3, <1>4 DEF Allowance

\* From measurement a over b to x, the last step below one threshold.
LEMMA DriftThrough ==
    ASSUME NEW a, NEW b, NEW x,
           a.loss \in Nat, a.acc \in Nat, b.loss \in Nat, b.acc \in Nat,
           x.loss \in Nat, x.acc \in Nat,
           NEW i \in Nat, NEW q \in Nat, NEW n \in Nat, i <= q, q < n,
           NEW t \in Nat, NEW u \in Nat,
           b.loss - a.loss <= Allowance(q - i, t), a.acc - b.acc <= Allowance(q - i, u),
           x.loss - b.loss <= t, b.acc - x.acc <= u
    PROVE  x.loss - a.loss <= (n - i) * t /\ a.acc - x.acc <= (n - i) * u
<1>1. /\ Allowance(q - i, t) \in Int /\ Allowance(n - i, t) \in Int
      /\ Allowance(q - i, t) + t <= Allowance(n - i, t)
  BY AllowanceGrows
<1>2. /\ Allowance(q - i, u) \in Int /\ Allowance(n - i, u) \in Int
      /\ Allowance(q - i, u) + u <= Allowance(n - i, u)
  BY AllowanceGrows
<1>3. x.loss - a.loss <= Allowance(n - i, t)
  BY <1>1
<1>4. a.acc - x.acc <= Allowance(n - i, u)
  BY <1>2
<1>5. QED
  BY <1>3, <1>4 DEF Allowance

-----------------------------------------------------------------------------
\* What storing the record of a measured candidate does to the invariant, for
\* a run that lives on (JudgeCandidate with a storable loss).
LEMMA JudgedRecordKeepsFlags ==
    ASSUME GateInv, gated, phase = "validate",
           NEW x \in Measurements, x.loss # NaN,
           records' = Append(records, RecordOf(baseline, x)),
           baseline' = MoveBaseline(baseline, x),
           gated' = gated
    PROVE  /\ FlagInv'
           /\ DriftIsStepwise'
           /\ \E q \in DOMAIN records' : LastQuiet(q)' /\ baseline' = <<records'[q].measured>>
<1>a. PICK n : n = Len(records) + 1
  OBVIOUS
<1>b. PICK r : r = RecordOf(baseline, x)
  OBVIOUS
<1>0. /\ records \in Seq(Records) /\ x \in AllMeasurements /\ r \in Records
      /\ \A k \in DOMAIN records : records[k].measured \in AllMeasurements
      /\ x.loss \in Nat /\ x.acc \in Nat
  <2>1. records \in Seq(Records) /\ baseline \in Seq(Measurements)
    BY DEF GateInv, GateTypeOK
  <2>2. x \in AllMeasurements
    BY DEF AllMeasurements
  <2>3. \A k \in DOMAIN records : records[k] \in Records
    BY <2>1
  <2>4. QED
    BY <1>b, <2>1, <2>2, <2>3, RecordOfType, MeasurementsAreNumbers DEF Records, AllMeasurements
<1>1. /\ Len(records') = n /\ n \in Nat /\ n - 1 = Len(records)
      /\ DOMAIN records' = 1..n /\ DOMAIN records = 1..(n - 1)
      /\ records'[n] = r
      /\ \A k \in 1..(n - 1) : records'[k] = records[k] /\ (Quiet(k)' <=> Quiet(k))
      /\ Quiet(n)' <=> ~r.spiked
  BY <1>0, <1>a, <1>b, StoredRecord
<1>2. r.measured = x /\ r.spiked = LossSpiked(baseline, x)
  BY <1>b DEF RecordOf
<1>3. CASE records = <<>>
  <2>1. baseline = <<>> /\ n = 1
    BY <1>3, <1>a DEF GateInv, BaselineInv
  <2>2. r.spiked = FALSE /\ baseline' = <<x>>
    BY <1>2, <2>1, NothingSpikesFirst DEF MoveBaseline
  <2>3. FlagInv'
    BY <1>1, <2>1 DEF FlagInv
  <2>4. DriftIsStepwise'
    BY <1>1, <2>1 DEF DriftIsStepwise
  <2>5. LastQuiet(1)' /\ baseline' = <<records'[1].measured>>
    <3>1. Quiet(n)' /\ Len(records') = 1
      BY <1>1, <2>1, <2>2
    <3>2. Quiet(1)'
      BY <2>1, <3>1 DEF Quiet
    <3>3. LastQuiet(1)'
      BY <3>1, <3>2 DEF LastQuiet
    <3>4. QED
      BY <1>1, <1>2, <2>1, <2>2, <3>3
  <2>6. QED
    BY <1>1, <2>1, <2>3, <2>4, <2>5
<1>4. CASE records # <<>>
  <2>1. PICK q \in 1..(n - 1) : LastQuiet(q) /\ baseline = <<records[q].measured>>
    BY <1>1, <1>4 DEF GateInv, BaselineInv
  <2> DEFINE b == records[q].measured
  <2>2. /\ b \in AllMeasurements /\ b.loss # NaN /\ b.loss \in Nat /\ b.acc \in Nat
        /\ q \in Nat
    BY <1>0, <1>1, MeasurementsAreNumbers DEF GateInv, RecordsInv
  <2>3. r.spiked <=> Degraded(b, x)
    BY <1>0, <1>2, <2>1, <2>2, SpikeIsDegradation
  <2>4. /\ Quiet(q) /\ \A k \in (q + 1)..(n - 1) : ~Quiet(k)
    BY <1>1, <2>1 DEF LastQuiet
  <2>5. FlagInv'
    <3> SUFFICES ASSUME NEW k \in 1..n, NEW i \in 1..(k - 1), Quiet(i)',
                        \A l \in (i + 1)..(k - 1) : ~(Quiet(l)'),
                        Degraded(records'[i].measured, records'[k].measured)
                 PROVE  records'[k].spiked
      BY <1>1 DEF FlagInv
    <3>1. CASE k = n
      <4>1. i = q
        <5>1. i \in 1..(n - 1) /\ Quiet(i)
          BY <1>1, <3>1
        <5>2. ~(i > q)
          BY <2>2, <2>4, <5>1
        <5>3. ~(i < q)
          BY <1>1, <2>1, <2>2, <2>4, <3>1
        <5>4. QED
          BY <2>2, <5>1, <5>2, <5>3
      <4>2. QED
        BY <1>1, <1>2, <2>1, <2>3, <3>1, <4>1
    <3>2. CASE k # n
      <4>1. k \in 1..(n - 1) /\ i \in 1..(n - 1)
        BY <1>1, <3>2
      <4>2. Quiet(i) /\ \A l \in (i + 1)..(k - 1) : ~Quiet(l)
        BY <1>1, <4>1
      <4>3. Degraded(records[i].measured, records[k].measured)
        BY <1>1, <4>1
      <4>4. records[k].spiked
        BY <1>1, <4>1, <4>2, <4>3 DEF GateInv, FlagInv
      <4>5. QED
        BY <1>1, <4>1, <4>4
    <3>3. QED
      BY <3>1, <3>2
  <2>6. DriftIsStepwise'
    <3> DEFINE Drift(y, z, d) == /\ z.loss - y.loss <= d * (LossSpikeThreshold - 1)
                                 /\ y.acc - z.acc <= d * (AccDropThreshold - 1)
    <3> SUFFICES ASSUME NEW i \in 1..n, NEW k \in 1..n, i < k, Quiet(i)', Quiet(k)'
                 PROVE  Drift(records'[i].measured, records'[k].measured, k - i)
      BY <1>1 DEF DriftIsStepwise
    <3>0. i \in 1..(n - 1) /\ Quiet(i) /\ records'[i] = records[i]
      BY <1>1
    <3>1. CASE k # n
      <4>1. k \in 1..(n - 1) /\ Quiet(k) /\ records'[k] = records[k]
        BY <1>1, <3>1
      <4>2. QED
        BY <1>1, <3>0, <4>1 DEF GateInv, DriftIsStepwise
    <3>2. CASE k = n
      <4> DEFINE a == records[i].measured
                 t == LossSpikeThreshold - 1
                 u == AccDropThreshold - 1
      <4>1. ~Degraded(b, x)
        <5>1. Quiet(n)'
          BY <3>2 DEF Quiet
        <5>2. QED
          BY <1>1, <2>3, <5>1
      <4>2. t \in Nat /\ u \in Nat
        BY GateAssumption
      <4>3. x.loss - b.loss <= t /\ b.acc - x.acc <= u
        BY <1>0, <2>2, <4>1, GateAssumption DEF Degraded
      <4>4. i <= q
        BY <2>2, <2>4, <3>0, <1>1
      <4>5. a.loss \in Nat /\ a.acc \in Nat
        BY <1>0, <1>1, <3>0, MeasurementsAreNumbers DEF GateInv, RecordsInv
      <4>6. b.loss - a.loss <= Allowance(q - i, t) /\ a.acc - b.acc <= Allowance(q - i, u)
        <5>1. CASE i = q
          <6>1. Allowance(q - i, t) = 0 /\ Allowance(q - i, u) = 0
            BY <2>2, <4>2, <5>1 DEF Allowance
          <6>2. b.loss - a.loss = 0 /\ a.acc - b.acc = 0
            BY <2>2, <5>1
          <6>3. QED
            BY <6>1, <6>2
        <5>2. CASE i < q
          BY <1>1, <2>1, <2>4, <3>0, <5>2 DEF GateInv, DriftIsStepwise, Allowance
        <5>3. QED
          BY <2>2, <4>4, <5>1, <5>2
      <4>7. i \in Nat /\ q < n /\ n \in Nat /\ q \in Nat
        BY <1>1, <2>1, <2>2
      <4>10. x.loss - a.loss <= (n - i) * t /\ a.acc - x.acc <= (n - i) * u
        BY <1>0, <2>2, <4>2, <4>3, <4>4, <4>5, <4>6, <4>7, DriftThrough
      <4>11. QED
        BY <1>1, <1>2, <3>0, <3>2, <4>10
    <3>3. QED
      BY <3>1, <3>2
  <2>7. \E p \in DOMAIN records' : LastQuiet(p)' /\ baseline' = <<records'[p].measured>>
    <3>1. CASE r.spiked
      <4>1. baseline' = <<records'[q].measured>>
        BY <1>1, <1>2, <2>1, <3>1 DEF MoveBaseline
      <4>2. \A k \in (q + 1)..n : ~(Quiet(k)')
        <5> SUFFICES ASSUME NEW k \in (q + 1)..n PROVE ~(Quiet(k)')
          OBVIOUS
        <5>1. CASE k = n
          <6>1. ~(Quiet(n)')
            BY <1>1, <3>1
          <6>2. QED
            BY <5>1, <6>1 DEF Quiet
        <5>2. CASE k # n
          <6>1. k \in (q + 1)..(n - 1) /\ k \in 1..(n - 1)
            BY <1>1, <2>2, <5>2
          <6>2. QED
            BY <1>1, <2>4, <6>1
        <5>3. QED
          BY <5>1, <5>2
      <4>3. LastQuiet(q)'
        BY <1>1, <2>1, <2>4, <4>2 DEF LastQuiet
      <4>4. QED
        BY <1>1, <4>1, <4>3
    <3>2. CASE ~r.spiked
      <4>1. baseline' = <<records'[n].measured>>
        BY <1>1, <1>2, <3>2 DEF MoveBaseline
      <4>2. LastQuiet(n)'
        <5>1. (n + 1)..n = {}
          BY <1>1
        <5>2. Quiet(n)'
          BY <1>1, <3>2
        <5>3. QED
          BY <1>1, <5>1, <5>2 DEF LastQuiet
      <4>3. QED
        BY <1>1, <4>1, <4>2
    <3>3. QED
      BY <3>1, <3>2
  <2>8. QED
    BY <2>5, <2>6, <2>7
<1>5. QED
  BY <1>3, <1>4
-----------------------------------------------------------------------------
\* The engine sees one evaluation per decided round and nothing else.
LEMMA GateStepIsTriggerStep ==
    ASSUME GateInv, [GateNext]_gateRunVars
    PROVE  [TriggerNext]_triggerVars
<1>1. CASE UNCHANGED gateRunVars
  BY <1>1 DEF gateRunVars, triggerVars
<1>2. ASSUME NEW measured \in Measurements, JudgeCandidate(measured)
      PROVE  UNCHANGED triggerVars
  BY <1>2 DEF JudgeCandidate
<1>3. CASE WaveThrough
  BY <1>3 DEF WaveThrough
<1>4. CASE FailEvaluation
  BY <1>4 DEF FailEvaluation
<1>5. ASSUME NEW scores \in ScoreMaps, Decide(scores)
      PROVE  TriggerNext
  <2>1. records \in Seq(Records) /\ records # <<>>
    BY <1>5 DEF Decide, GateInv, GateTypeOK, DecideInv
  <2>2. records[Len(records)] \in Records
    BY <2>1
  <2>3. records[Len(records)].spiked \in BOOLEAN
    BY <2>2 DEF Records
  <2>4. QED
    BY <1>5, <2>3 DEF Decide, TriggerNext
<1>6. QED
  BY <1>1, <1>2, <1>3, <1>4, <1>5 DEF GateNext

\* A triggered answer whenever the record of the round spiked.
LEMMA SpikeIsAnswered ==
    ASSUME NEW scores \in ScoreMaps, LossSpikePriority, EvaluateRecoveryNeed(scores, TRUE)
    PROVE  decision'.state = Triggered
BY DEF EvaluateRecoveryNeed, ValidationOverride, AnomalyTrigger, NoTrigger, Answer,
       BuildTriggeredDecision

\* What a step that stores no record and moves no baseline leaves true.
LEMMA QuietStep ==
    ASSUME GateInv, UNCHANGED <<gated, baseline, records>>,
           phase' = phase \/ phase = "decide"
    PROVE  /\ RecordsInv' /\ BaselineInv' /\ FlagInv' /\ DriftIsStepwise'
<1>1. RecordsInv'
  BY DEF GateInv, RecordsInv
<1>2. BaselineInv'
  <2>1. phase' # "failed" => phase # "failed"
    OBVIOUS
  <2>2. ASSUME NEW q PROVE LastQuiet(q)' <=> LastQuiet(q)
    BY DEF LastQuiet, Quiet
  <2>3. QED
    BY <2>1, <2>2 DEF GateInv, BaselineInv
<1>3. FlagInv'
  BY DEF GateInv, FlagInv, Quiet
<1>4. DriftIsStepwise'
  BY DEF GateInv, DriftIsStepwise, Quiet
<1>5. QED
  BY <1>1, <1>2, <1>3, <1>4

LEMMA GateInitInv == GateInit => GateInv
<1> SUFFICES ASSUME GateInit PROVE GateInv
  OBVIOUS
<1>1. TriggerTypeOK
  BY TriggerInitInv DEF GateInit, TriggerInv
<1>2. GateTypeOK
  BY <1>1 DEF GateInit, GateTypeOK, Phases
<1>3. RecordsInv /\ BaselineInv /\ FlagInv /\ AnswerInv /\ DecideInv /\ DriftIsStepwise
  BY DEF GateInit, RecordsInv, BaselineInv, FlagInv, AnswerInv, DecideInv, DriftIsStepwise
<1>4. QED
  BY <1>2, <1>3 DEF GateInv

\* One action of the round at a time; the types of the engine are its own.
LEMMA GateStep ==
    ASSUME GateInv, TriggerTypeOK', [GateNext]_gateRunVars
    PROVE  GateInv'
<1>0. /\ gated \in BOOLEAN /\ baseline \in Seq(Measurements) /\ Len(baseline) <= 1
      /\ records \in Seq(Records) /\ candidates \in Seq(AllMeasurements) /\ phase \in Phases
  BY DEF GateInv, GateTypeOK, AllMeasurements
<1>1. ASSUME NEW x \in Measurements, JudgeCandidate(x) PROVE GateInv'
  <2>1. x \in AllMeasurements /\ RecordOf(baseline, x) \in Records
    BY <1>0, RecordOfType DEF AllMeasurements
  <2>2. baseline' \in Seq(Measurements) /\ Len(baseline') <= 1
    BY <1>0, <1>1 DEF JudgeCandidate, MoveBaseline
  <2>3. GateTypeOK'
    <3>1. candidates' \in Seq(AllMeasurements) /\ gated' \in BOOLEAN
      BY <1>0, <1>1, <2>1 DEF JudgeCandidate
    <3>2. records' \in Seq(Records) /\ phase' \in Phases
      <4>1. \/ records' = Append(records, RecordOf(baseline, x)) /\ phase' = "decide"
            \/ records' = records /\ phase' = "failed"
        BY <1>1 DEF JudgeCandidate
      <4>2. Append(records, RecordOf(baseline, x)) \in Seq(Records)
        BY <1>0, <2>1
      <4>3. records' \in Seq(Records)
        BY <1>0, <4>1, <4>2
      <4>4. phase' \in Phases
        BY <4>1 DEF Phases
      <4>5. QED
        BY <4>3, <4>4
    <3>3. QED
      BY <2>2, <3>1, <3>2 DEF GateTypeOK, AllMeasurements
  <2>4. CASE Storable(x)
    <3>1. /\ x.loss # NaN /\ gated /\ gated' = gated /\ phase = "validate" /\ phase' = "decide"
          /\ records' = Append(records, RecordOf(baseline, x))
          /\ baseline' = MoveBaseline(baseline, x)
      BY <1>1, <2>4 DEF JudgeCandidate, Storable
    <3>2. /\ FlagInv' /\ DriftIsStepwise'
          /\ \E q \in DOMAIN records' : LastQuiet(q)' /\ baseline' = <<records'[q].measured>>
      BY <3>1, JudgedRecordKeepsFlags
    <3>3. records' # <<>>
      BY <1>0, <3>1
    <3>4. BaselineInv'
      BY <3>1, <3>2, <3>3 DEF BaselineInv
    <3>5. RecordsInv'
      <4>1. \A k \in DOMAIN records' :
                records'[k] = RecordOf(baseline, x) \/ (k \in DOMAIN records /\ records'[k] = records[k])
        BY <1>0, <2>1, <3>1
      <4>2. RecordOf(baseline, x).measured = x
        BY DEF RecordOf
      <4>3. QED
        BY <3>1, <4>1, <4>2 DEF GateInv, RecordsInv
    <3>6. AnswerInv' /\ DecideInv'
      BY <3>1, <3>3 DEF AnswerInv, DecideInv
    <3>7. QED
      BY <2>3, <3>2, <3>4, <3>5, <3>6 DEF GateInv
  <2>5. CASE ~Storable(x)
    <3>1. /\ gated /\ gated' = gated /\ phase' = "failed" /\ records' = records
      BY <1>1, <2>5 DEF JudgeCandidate
    <3>2. RecordsInv' /\ BaselineInv'
      BY <3>1 DEF GateInv, RecordsInv, BaselineInv
    <3>3. FlagInv' /\ DriftIsStepwise'
      BY <3>1 DEF GateInv, FlagInv, DriftIsStepwise, Quiet
    <3>4. AnswerInv' /\ DecideInv'
      BY <3>1 DEF AnswerInv, DecideInv
    <3>5. QED
      BY <2>3, <3>2, <3>3, <3>4 DEF GateInv
  <2>6. QED
    BY <2>4, <2>5
<1>2. CASE WaveThrough
  <2> DEFINE d == DefaultMeasurement
  <2>1. PICK r : r = RecordOf(baseline, d)
    OBVIOUS
  <2>2. /\ ~gated /\ gated' = gated /\ baseline = <<>> /\ baseline' = baseline
        /\ phase' = "decide" /\ records' = Append(records, r)
        /\ candidates' = Append(candidates, d)
    BY <1>2, <2>1 DEF WaveThrough, GateInv, BaselineInv
  <2>3. r \in Records /\ r.measured = d /\ r.spiked = FALSE /\ d \in AllMeasurements
    <3>1. d \in AllMeasurements
      BY DEF AllMeasurements
    <3>2. QED
      BY <1>0, <2>1, <2>2, <3>1, RecordOfType, NothingSpikesFirst DEF RecordOf
  <2>4. GateTypeOK'
    <3>1. records' \in Seq(Records) /\ candidates' \in Seq(AllMeasurements)
      BY <1>0, <2>2, <2>3
    <3>2. gated' \in BOOLEAN /\ baseline' \in Seq(Measurements) /\ Len(baseline') <= 1
      BY <1>0, <2>2
    <3>3. phase' \in Phases
      BY <2>2 DEF Phases
    <3>4. QED
      BY <3>1, <3>2, <3>3 DEF GateTypeOK, AllMeasurements
  <2>5. \A k \in DOMAIN records' : records'[k].measured = d
    <3>1. \A k \in DOMAIN records' :
              records'[k] = r \/ (k \in DOMAIN records /\ records'[k] = records[k])
      BY <1>0, <2>2, <2>3
    <3>2. QED
      BY <2>2, <2>3, <3>1 DEF GateInv, RecordsInv
  <2>6. RecordsInv' /\ BaselineInv' /\ FlagInv'
    BY <2>2, <2>5, DefaultIsANumber DEF RecordsInv, BaselineInv, FlagInv
  <2>7. AnswerInv' /\ DecideInv'
    <3>1. records' # <<>>
      BY <1>0, <2>2
    <3>2. QED
      BY <2>2, <3>1 DEF AnswerInv, DecideInv
  <2>8. DriftIsStepwise'
    <3> SUFFICES ASSUME NEW i \in DOMAIN records', NEW j \in DOMAIN records', i < j
                 PROVE  /\ d.loss - d.loss <= (j - i) * (LossSpikeThreshold - 1)
                        /\ d.acc - d.acc <= (j - i) * (AccDropThreshold - 1)
      BY <2>5 DEF DriftIsStepwise
    <3>1. j - i \in Nat /\ LossSpikeThreshold - 1 \in Nat /\ AccDropThreshold - 1 \in Nat
      BY <1>0, <2>2, <2>3, GateAssumption
    <3>2. \A x, y \in Nat : x * y >= 0
      OBVIOUS
    <3>3. d.loss - d.loss = 0 /\ d.acc - d.acc = 0
      BY DEF DefaultMeasurement
    <3>4. QED
      BY <3>1, <3>2, <3>3
  <2>9. QED
    BY <2>4, <2>6, <2>7, <2>8 DEF GateInv
<1>3. ASSUME NEW scores \in ScoreMaps, Decide(scores) PROVE GateInv'
  <2>1. /\ phase = "decide" /\ phase' = "validate"
        /\ UNCHANGED <<gated, baseline, records, candidates>>
        /\ EvaluateRecoveryNeed(scores, records[Len(records)].spiked)
    BY <1>3 DEF Decide
  <2>2. GateTypeOK'
    BY <1>0, <2>1 DEF GateTypeOK, Phases, AllMeasurements
  <2>3. RecordsInv' /\ BaselineInv' /\ FlagInv' /\ DriftIsStepwise'
    BY <2>1, QuietStep
  <2>4. records # <<>>
    BY <2>1 DEF GateInv, DecideInv
  <2>5. records[Len(records)].spiked \in BOOLEAN
    <3>1. records[Len(records)] \in Records
      BY <1>0, <2>4
    <3>2. QED
      BY <3>1 DEF Records
  <2>6. AnswerInv'
    <3> SUFFICES ASSUME LossSpikePriority, records[Len(records)].spiked = TRUE
                 PROVE  decision'.state = Triggered
      BY <2>1, <2>5 DEF AnswerInv
    <3>1. EvaluateRecoveryNeed(scores, TRUE)
      BY <2>1
    <3>2. QED
      BY <3>1, SpikeIsAnswered
  <2>7. DecideInv'
    BY <2>1 DEF DecideInv
  <2>8. QED
    BY <2>2, <2>3, <2>6, <2>7 DEF GateInv
<1>4. CASE FailEvaluation
  <2>1. /\ phase = "decide" /\ phase' = "failed"
        /\ UNCHANGED <<gated, baseline, records, candidates>>
    BY <1>4 DEF FailEvaluation
  <2>2. GateTypeOK'
    BY <1>0, <2>1 DEF GateTypeOK, Phases, AllMeasurements
  <2>3. RecordsInv' /\ BaselineInv' /\ FlagInv' /\ DriftIsStepwise'
    BY <2>1, QuietStep
  <2>4. AnswerInv' /\ DecideInv'
    BY <2>1 DEF AnswerInv, DecideInv
  <2>5. QED
    BY <2>2, <2>3, <2>4 DEF GateInv
<1>5. CASE UNCHANGED gateRunVars
  <2>1. UNCHANGED <<gated, baseline, records, phase, candidates, decision>>
    BY <1>5 DEF gateRunVars
  <2>2. GateTypeOK'
    BY <1>0, <2>1 DEF GateTypeOK, AllMeasurements
  <2>3. RecordsInv' /\ BaselineInv' /\ FlagInv' /\ DriftIsStepwise'
    BY <2>1, QuietStep
  <2>4. AnswerInv' /\ DecideInv'
    BY <2>1 DEF GateInv, AnswerInv, DecideInv
  <2>5. QED
    BY <2>2, <2>3, <2>4 DEF GateInv
<1>6. QED
  BY <1>1, <1>2, <1>3, <1>4, <1>5 DEF GateNext

-----------------------------------------------------------------------------
\* The invariant of the gate, together with the invariant of its engine.
THEOREM GateInvariant == GateSpec => [](GateInv /\ TriggerInv)
<1>1. GateInit => GateInv /\ TriggerInv
  BY GateInitInv, TriggerInitInv DEF GateInit
<1>2. GateInv /\ TriggerInv /\ [GateNext]_gateRunVars => (GateInv /\ TriggerInv)'
  <2> SUFFICES ASSUME GateInv, TriggerInv, [GateNext]_gateRunVars
               PROVE  (GateInv /\ TriggerInv)'
    OBVIOUS
  <2>1. TriggerInv'
    BY GateStepIsTriggerStep, TriggerStep
  <2>2. GateInv'
    BY <2>1, GateStep DEF TriggerInv
  <2>3. QED
    BY <2>1, <2>2
<1>3. QED
  BY <1>1, <1>2, PTL DEF GateSpec

\* With the gate in front of it, the recovery decision engine still behaves as
\* its own specification says: the runner asks it once per round, with nothing
\* of its state changed in between (runner.py:387, check_recovery).
THEOREM GateImplementsTrigger == GateSpec => TriggerSpec
<1>1. GateInit => TriggerInit
  BY DEF GateInit
<1>2. GateInv /\ [GateNext]_gateRunVars => [TriggerNext]_triggerVars
  BY GateStepIsTriggerStep
<1>3. QED
  BY GateInvariant, <1>1, <1>2, PTL DEF GateSpec, TriggerSpec

\* Every variable of a gated run keeps its type, NaN losses included
\* (ServerValidationGate, validation_records).
THEOREM GateTypeCorrect == GateSpec => []GateTypeOK
<1>1. GateInv => GateTypeOK
  BY DEF GateInv
<1>2. QED
  BY GateInvariant, <1>1, PTL

\* For all thresholds and all lengths of a spike: as long as candidates stay a
\* threshold worse than the last healthy one, every round triggers recovery
\* (evaluate_checkpoint, the frozen baseline).
THEOREM GateAnswersDegradation == GateSpec => []DegradationIsAnswered
<1>1. GateInv => DegradationIsAnswered
  <2> SUFFICES ASSUME GateInv, LossSpikePriority, gated, phase = "validate", records # <<>>,
                      NEW n, n = Len(records), NEW m \in 1..(n - 1), Quiet(m),
                      \A k \in (m + 1)..(n - 1) : ~Quiet(k),
                      Degraded(records[m].measured, records[n].measured)
               PROVE  decision.state = Triggered
    BY DEF DegradationIsAnswered
  <2>1. n \in DOMAIN records
    <3>1. records \in Seq(Records)
      BY DEF GateInv, GateTypeOK
    <3>2. QED
      BY <3>1
  <2>2. records[n].spiked
    BY <2>1 DEF GateInv, FlagInv
  <2>3. QED
    BY <2>2 DEF GateInv, AnswerInv
<1>2. QED
  BY GateInvariant, <1>1, PTL

\* For all thresholds and numbers of rounds: between healthy rounds the model
\* drifts by less than one threshold per round (evaluate_checkpoint).
THEOREM GateBoundsDrift == GateSpec => []DriftIsStepwise
<1>1. GateInv => DriftIsStepwise
  BY DEF GateInv
<1>2. QED
  BY GateInvariant, <1>1, PTL
=============================================================================
