----------------------- MODULE RecoveryTriggerProofs -----------------------
(***************************************************************************)
(* Machine-checked proofs about the recovery decision engine, for every    *)
(* set of clients, every threshold and every look-back.                    *)
(*                                                                         *)
(* The inductive invariant DequeInv pins the deque to the log of all       *)
(* evaluations position by position; the properties of the component are   *)
(* stated with sets of evaluation numbers and are derived from it.         *)
(***************************************************************************)
EXTENDS RecoveryTrigger, WellFoundedInduction, TLAPS

\* Number of evaluations the deque holds.
Held == IF current_round < LookbackRounds THEN current_round ELSE LookbackRounds

\* Position i of the deque holds evaluation current_round - Held + i.
DequeInv ==
    /\ Len(evaluations) = current_round
    /\ Len(round_history) = Held
    /\ \A i \in 1..Held :
           /\ round_history[i].round = current_round - Held + i
           /\ round_history[i].scores = evaluations[current_round - Held + i]

\* The decision returned last is the one the current deque calls for.
DecisionInv ==
    /\ decision.state = Triggered =>
           /\ decision.quarantined_clients = CollectQuarantinedClients(round_history)
           /\ decision.recovery_round =
                  FindRecoveryRound(round_history, decision.quarantined_clients)
    /\ (decision.state # Triggered /\ current_round > 0) =>
           SuspiciousClients(evaluations[current_round]) = {}

-----------------------------------------------------------------------------
\* Appending to the deque keeps it a sequence of at most LookbackRounds
\* records: the newest at the end, the others in place or shifted by one.
LEMMA RecordRoundShape ==
    ASSUME NEW h \in Seq(RoundRecords), Len(h) <= LookbackRounds,
           NEW n \in Nat \ {0}, NEW scores \in ScoreMaps,
           NEW g, g = RecordRound(h, n, scores),
           NEW shift \in {0, 1}, shift = 0 <=> Len(h) < LookbackRounds
    PROVE  /\ g \in Seq(RoundRecords)
           /\ Len(g) = Len(h) + 1 - shift
           /\ g[Len(g)] = [round |-> n, scores |-> scores]
           /\ \A i \in 1..Len(g) - 1 : g[i] = h[i + shift]
<1> DEFINE rec == [round |-> n, scores |-> scores]
           longer == Append(h, rec)
<1>1. rec \in RoundRecords
  BY DEF RoundRecords
<1>2. /\ longer \in Seq(RoundRecords)
      /\ Len(longer) = Len(h) + 1
      /\ longer[Len(h) + 1] = rec
      /\ \A i \in 1..Len(h) : longer[i] = h[i]
  BY <1>1
<1>3. CASE Len(h) < LookbackRounds
  <2>1. RecordRound(h, n, scores) = longer
    BY <1>2, <1>3, TriggerAssumption DEF RecordRound
  <2>2. QED
    BY <1>2, <1>3, <2>1
<1>4. CASE ~(Len(h) < LookbackRounds)
  <2>1. RecordRound(h, n, scores) = Tail(longer)
    BY <1>2, <1>4, TriggerAssumption DEF RecordRound
  <2>2. /\ Tail(longer) \in Seq(RoundRecords)
        /\ Len(Tail(longer)) = Len(h)
        /\ \A i \in 1..Len(h) : Tail(longer)[i] = longer[i + 1]
    BY <1>2
  <2>3. Len(h) \in Nat /\ Len(h) >= 1
    BY <1>4, TriggerAssumption
  <2>4. QED
    BY <1>2, <1>4, <2>1, <2>2, <2>3
<1>5. QED
  BY <1>3, <1>4

\* The clients collected from a deque are clients.
LEMMA CollectedAreClients ==
    ASSUME NEW h \in Seq(RoundRecords)
    PROVE  CollectQuarantinedClients(h) \subseteq Clients
<1>1. ASSUME NEW i \in DOMAIN h
      PROVE  SuspiciousClients(h[i].scores) \subseteq Clients
  <2>1. h[i] \in RoundRecords
    OBVIOUS
  <2>2. PICK S \in SUBSET Clients : h[i].scores \in [S -> Scores]
    BY <2>1 DEF RoundRecords, ScoreMaps
  <2>3. QED
    BY <2>2 DEF SuspiciousClients
<1>2. QED
  BY <1>1 DEF CollectQuarantinedClients

\* A non-empty set of positions of a sequence has a least element.
LEMMA LeastPosition ==
    ASSUME NEW S, S \subseteq Nat, S # {}
    PROVE  \E i \in S : \A j \in S : i <= j
<1>1. PICK i \in S : \A j \in S : ~(<<j, i>> \in OpToRel(<, Nat))
  BY NatLessThanWellFounded, WFMin, Zenon
<1>2. \A j \in S : ~(j < i)
  BY <1>1 DEF OpToRel
<1>3. QED
  BY <1>2
\* A triggered decision built from a non-empty deque is a well-formed
\* decision: its clients are clients and its round is 0 or a round of the deque.
LEMMA TriggeredDecisionType ==
    ASSUME NEW h \in Seq(RoundRecords),
           NEW reason \in {"VALIDATION_LOSS_SPIKE", "ANOMALY_THRESHOLD_EXCEEDED"}
    PROVE  BuildTriggeredDecision(h, reason) \in Decisions
<1> DEFINE q == CollectQuarantinedClients(h)
           hits == AffectedRecords(h, q)
<1>1. FindRecoveryRound(h, q) \in Nat
  <2>1. CASE hits = {}
    BY <2>1 DEF FindRecoveryRound, NoRound
  <2>2. CASE hits # {}
    <3>1. PICK i \in hits : \A j \in hits : i <= j
      <4>1. hits \subseteq Nat
        BY DEF AffectedRecords
      <4>2. QED
        BY <2>2, <4>1, LeastPosition, Zenon
    <3>2. (CHOOSE k \in hits : \A j \in hits : k <= j) \in DOMAIN h
      BY <3>1 DEF AffectedRecords
    <3>3. ASSUME NEW k \in DOMAIN h PROVE h[k].round \in Nat
      <4>1. h[k] \in RoundRecords
        OBVIOUS
      <4>2. QED
        BY <4>1 DEF RoundRecords
    <3>4. QED
      BY <2>2, <3>2, <3>3 DEF FindRecoveryRound
  <2>3. QED
    BY <2>1, <2>2
<1>2. q \subseteq Clients
  BY CollectedAreClients
<1>3. QED
  BY <1>1, <1>2 DEF BuildTriggeredDecision, Decisions

-----------------------------------------------------------------------------
\* What every evaluation does to the deque and the log, whichever rule fires.
LEMMA RecordKeepsDeque ==
    ASSUME TriggerTypeOK, DequeInv, NEW scores \in ScoreMaps, Record(scores)
    PROVE  /\ current_round' \in Nat /\ current_round' = current_round + 1
           /\ round_history' \in Seq(RoundRecords)
           /\ evaluations' \in Seq(ScoreMaps)
           /\ evaluations'[current_round'] = scores
           /\ DequeInv'
<1>9. PICK n : n = current_round + 1
  OBVIOUS
<1>0. PICK shift \in {0, 1} : shift = 0 <=> Len(round_history) < LookbackRounds
  OBVIOUS
<1>1. /\ current_round \in Nat /\ n \in Nat \ {0}
      /\ round_history \in Seq(RoundRecords) /\ evaluations \in Seq(ScoreMaps)
      /\ Len(round_history) = Held /\ Len(evaluations) = current_round
      /\ Held \in Nat /\ Held <= LookbackRounds /\ LookbackRounds \in Nat \ {0}
  BY <1>9, TriggerAssumption DEF TriggerTypeOK, DequeInv, Held
<1>2. /\ round_history' \in Seq(RoundRecords)
      /\ Len(round_history') = Held + 1 - shift
      /\ round_history'[Len(round_history')] = [round |-> n, scores |-> scores]
      /\ \A i \in 1..Len(round_history') - 1 : round_history'[i] = round_history[i + shift]
  <2>1. round_history' = RecordRound(round_history, n, scores)
    BY <1>9 DEF Record
  <2>2. Len(round_history) <= LookbackRounds
    BY <1>1
  <2>3. QED
    <3>1. /\ round_history' \in Seq(RoundRecords)
          /\ Len(round_history') = Len(round_history) + 1 - shift
          /\ round_history'[Len(round_history')] = [round |-> n, scores |-> scores]
          /\ \A i \in 1..Len(round_history') - 1 : round_history'[i] = round_history[i + shift]
      BY <1>0, <1>1, <2>1, <2>2, RecordRoundShape
    <3>2. QED
      BY <1>1, <3>1, Zenon
<1>3. /\ evaluations' \in Seq(ScoreMaps)
      /\ Len(evaluations') = n
      /\ evaluations'[n] = scores
      /\ \A k \in 1..current_round : evaluations'[k] = evaluations[k]
  BY <1>9, <1>1 DEF Record
<1>4. current_round' = n
  BY <1>9 DEF Record
<1>5. Held' = Held + 1 - shift
  BY <1>0, <1>1, <1>4, <1>9 DEF Held
<1>6. ASSUME NEW i \in 1..Held'
      PROVE  /\ round_history'[i].round = n - Held' + i
             /\ round_history'[i].scores = evaluations'[n - Held' + i]
  <2>1. CASE i = Held'
    <3>1. n - Held' + i = n
      BY <1>1, <1>5, <2>1
    <3>2. QED
      BY <1>2, <1>3, <1>5, <2>1, <3>1
  <2>2. CASE i # Held'
    <3>1. /\ i \in 1..Len(round_history') - 1
          /\ i + shift \in 1..Held
          /\ n - Held' + i = current_round - Held + (i + shift)
      <4>1. /\ i \in Int /\ 1 <= i /\ i <= Held + 1 - shift /\ i # Held + 1 - shift
            /\ Held \in Int /\ shift \in Int /\ 0 <= shift /\ current_round \in Int
            /\ Len(round_history') = Held + 1 - shift
        BY <1>0, <1>1, <1>2, <1>5, <2>2
      <4>2. QED
        BY <1>5, <1>9, <4>1
    <3>2. round_history'[i] = round_history[i + shift]
      BY <1>2, <3>1
    <3>3. /\ round_history[i + shift].round = current_round - Held + (i + shift)
          /\ round_history[i + shift].scores = evaluations[current_round - Held + (i + shift)]
      BY <3>1 DEF DequeInv
    <3>4. current_round - Held + (i + shift) \in 1..current_round
      BY <1>1, <3>1 DEF Held
    <3>5. QED
      BY <1>3, <3>1, <3>2, <3>3, <3>4
  <2>3. QED
    BY <2>1, <2>2
<1>7. QED
  BY <1>9, <1>1, <1>2, <1>3, <1>4, <1>5, <1>6 DEF DequeInv

\* The inductive invariant of the engine.
TriggerInv == TriggerTypeOK /\ DequeInv /\ DecisionInv

LEMMA TriggerInitInv == TriggerInit => TriggerInv
<1> SUFFICES ASSUME TriggerInit PROVE TriggerInv
  OBVIOUS
<1>1. TriggerTypeOK
  BY DEF TriggerInit, TriggerTypeOK, Decisions, NotRequiredDecision, NoRound, NotRequired, Triggered
<1>2. DequeInv
  BY TriggerAssumption DEF TriggerInit, DequeInv, Held
<1>3. DecisionInv
  BY DEF TriggerInit, DecisionInv, NotRequiredDecision, NotRequired, Triggered
<1>4. QED
  BY <1>1, <1>2, <1>3 DEF TriggerInv

\* One evaluation, whichever of the three rules answers it.
LEMMA EvaluationStep ==
    ASSUME TriggerInv, NEW scores \in ScoreMaps, NEW loss_spiked \in BOOLEAN,
           EvaluateRecoveryNeed(scores, loss_spiked)
    PROVE  TriggerInv'
<1>1. Record(scores)
  BY DEF EvaluateRecoveryNeed, ValidationOverride, AnomalyTrigger, NoTrigger
<1>2. /\ current_round' \in Nat /\ current_round' = current_round + 1
      /\ round_history' \in Seq(RoundRecords)
      /\ evaluations' \in Seq(ScoreMaps)
      /\ evaluations'[current_round'] = scores
      /\ DequeInv'
  BY <1>1, RecordKeepsDeque DEF TriggerInv
<1>3. ASSUME NEW reason \in {"VALIDATION_LOSS_SPIKE", "ANOMALY_THRESHOLD_EXCEEDED"},
             Answer(BuildTriggeredDecision(round_history', reason))
      PROVE  TriggerInv'
  <2>1. BuildTriggeredDecision(round_history', reason) \in Decisions
    BY <1>2, TriggeredDecisionType
  <2>2. TriggerTypeOK'
    BY <1>2, <1>3, <2>1 DEF TriggerTypeOK, Answer, Decisions
  <2>3. DecisionInv'
    BY <1>3 DEF DecisionInv, Answer, BuildTriggeredDecision
  <2>4. QED
    BY <1>2, <2>2, <2>3 DEF TriggerInv
<1>4. CASE ValidationOverride(scores, loss_spiked)
  BY <1>3, <1>4 DEF ValidationOverride
<1>5. CASE AnomalyTrigger(scores, loss_spiked)
  BY <1>3, <1>5 DEF AnomalyTrigger
<1>6. CASE NoTrigger(scores, loss_spiked)
  <2>1. NotRequiredDecision \in Decisions
    BY DEF NotRequiredDecision, Decisions, NoRound
  <2>2. TriggerTypeOK'
    BY <1>2, <1>6, <2>1 DEF TriggerTypeOK, NoTrigger, Answer, NotRequiredDecision
  <2>3. DecisionInv'
    BY <1>2, <1>6
       DEF DecisionInv, NoTrigger, Answer, NotRequiredDecision, NotRequired, Triggered
  <2>4. QED
    BY <1>2, <2>2, <2>3 DEF TriggerInv
<1>7. QED
  BY <1>4, <1>5, <1>6 DEF EvaluateRecoveryNeed

\* A step of the engine, or a step that leaves the engine alone.
LEMMA TriggerStep ==
    ASSUME TriggerInv, [TriggerNext]_triggerVars
    PROVE  TriggerInv'
<1>1. CASE TriggerNext
  BY <1>1, EvaluationStep DEF TriggerNext
<1>2. CASE UNCHANGED triggerVars
  BY <1>2 DEF TriggerInv, TriggerTypeOK, DequeInv, DecisionInv, Held, triggerVars,
              CollectQuarantinedClients, FindRecoveryRound, AffectedRecords
<1>3. QED
  BY <1>1, <1>2

\* The engine keeps its inductive invariant for every sequence of rounds.
THEOREM TriggerInvariant == TriggerSpec => []TriggerInv
<1>1. TriggerInv /\ [TriggerNext]_triggerVars => TriggerInv'
  BY TriggerStep
<1>2. QED
  BY TriggerInitInv, <1>1, PTL DEF TriggerSpec
-----------------------------------------------------------------------------
(* From positions of the deque to numbers of evaluations. *)

\* Position i of the deque is evaluation First(i); the positions enumerate the window.
LEMMA WindowPositions ==
    ASSUME TriggerInv
    PROVE  /\ DOMAIN round_history = 1..Held
           /\ Held \in Nat /\ current_round \in Nat /\ Held <= current_round
           /\ \A i \in 1..Held : /\ round_history[i].round = current_round - Held + i
                                /\ round_history[i].round \in Window
                                /\ round_history[i].scores = evaluations[round_history[i].round]
           /\ \A k \in Window : \E i \in 1..Held : k = round_history[i].round
<1>1. /\ DOMAIN round_history = 1..Held
      /\ Held \in Nat /\ current_round \in Nat /\ Held <= current_round
      /\ LookbackRounds \in Nat
      /\ Held <= LookbackRounds
      /\ (Held = current_round \/ Held = LookbackRounds)
  BY TriggerAssumption DEF TriggerInv, TriggerTypeOK, DequeInv, Held
<1>2. \A i \in 1..Held : /\ round_history[i].round = current_round - Held + i
                         /\ round_history[i].scores = evaluations[current_round - Held + i]
  BY DEF TriggerInv, DequeInv
<1>3. ASSUME NEW i \in 1..Held
      PROVE  current_round - Held + i \in Window
  BY <1>1 DEF Window
<1>4. ASSUME NEW k \in Window
      PROVE  \E i \in 1..Held : k = round_history[i].round
  <2>1. /\ k - (current_round - Held) \in 1..Held
        /\ k = current_round - Held + (k - (current_round - Held))
    BY <1>1 DEF Window
  <2>2. QED
    BY <1>2, <2>1
<1>5. QED
  BY <1>1, <1>2, <1>3, <1>4

\* The offenders of a record of the deque are the offenders of its evaluation.
LEMMA OffendersOfRecord ==
    ASSUME TriggerInv, NEW i \in 1..Held
    PROVE  /\ SuspiciousClients(round_history[i].scores)
                = { c \in Clients : Offends(c, round_history[i].round) }
<1>1. PICK S \in SUBSET Clients : round_history[i].scores \in [S -> Scores]
  <2>1. round_history[i] \in RoundRecords
    BY WindowPositions DEF TriggerInv, TriggerTypeOK
  <2>2. QED
    BY <2>1 DEF RoundRecords, ScoreMaps
<1>2. round_history[i].scores = evaluations[round_history[i].round]
  BY WindowPositions
<1>3. QED
  BY <1>1, <1>2 DEF SuspiciousClients, Offends

\* The set of clients collected from the deque is the window's offenders.
LEMMA CollectedAreWindowOffenders ==
    ASSUME TriggerInv
    PROVE  CollectQuarantinedClients(round_history)
               = { c \in Clients : \E k \in Window : Offends(c, k) }
<1>1. ASSUME NEW c
      PROVE  c \in CollectQuarantinedClients(round_history)
                 <=> \E i \in 1..Held : c \in SuspiciousClients(round_history[i].scores)
  BY WindowPositions DEF CollectQuarantinedClients
<1>2. ASSUME NEW c
      PROVE  (\E i \in 1..Held : c \in SuspiciousClients(round_history[i].scores))
                 <=> c \in Clients /\ \E i \in 1..Held : Offends(c, round_history[i].round)
  BY OffendersOfRecord
<1>3. ASSUME NEW c
      PROVE  (\E i \in 1..Held : Offends(c, round_history[i].round))
                 <=> \E k \in Window : Offends(c, k)
  BY WindowPositions
<1>4. QED
  BY <1>1, <1>2, <1>3

LEMMA InvGivesWindow == TriggerInv => HistoryIsRecentWindow
<1> SUFFICES ASSUME TriggerInv PROVE HistoryIsRecentWindow
  OBVIOUS
<1>1. Len(evaluations) = current_round
  BY DEF TriggerInv, DequeInv
<1>2. { round_history[i].round : i \in DOMAIN round_history } = Window
  BY WindowPositions
<1>3. \A i, j \in DOMAIN round_history : i < j => round_history[i].round < round_history[j].round
  BY WindowPositions
<1>4. \A i \in DOMAIN round_history :
          round_history[i].scores = evaluations[round_history[i].round]
  BY WindowPositions
<1>5. QED
  BY <1>1, <1>2, <1>3, <1>4 DEF HistoryIsRecentWindow

LEMMA InvGivesExclusion == TriggerInv => ExclusionMatchesWindow
BY CollectedAreWindowOffenders DEF TriggerInv, DecisionInv, ExclusionMatchesWindow

LEMMA InvGivesEarliestRound == TriggerInv => RecoveryRoundIsEarliest
<1> SUFFICES ASSUME TriggerInv, decision.state = Triggered
             PROVE  RecoveryRoundIsEarliest
  BY DEF RecoveryRoundIsEarliest
<1> DEFINE q == decision.quarantined_clients
           affected == { k \in Window : \E c \in Clients : Offends(c, k) }
           hits == AffectedRecords(round_history, q)
<1>1. /\ q = CollectQuarantinedClients(round_history)
      /\ q = { c \in Clients : \E k \in Window : Offends(c, k) }
      /\ decision.recovery_round = FindRecoveryRound(round_history, q)
  BY CollectedAreWindowOffenders DEF TriggerInv, DecisionInv
<1>2. \A i \in 1..Held : i \in hits <=> round_history[i].round \in affected
  <2> SUFFICES ASSUME NEW i \in 1..Held
               PROVE  i \in hits <=> round_history[i].round \in affected
    OBVIOUS
  <2>1. i \in hits <=> SuspiciousClients(round_history[i].scores) \cap q # {}
    BY WindowPositions DEF AffectedRecords
  <2>2. SuspiciousClients(round_history[i].scores) \subseteq q
    BY OffendersOfRecord, WindowPositions, <1>1
  <2>3. i \in hits <=> SuspiciousClients(round_history[i].scores) # {}
    BY <2>1, <2>2
  <2>4. QED
    BY <2>3, OffendersOfRecord, WindowPositions
<1>3. hits \subseteq 1..Held
  BY WindowPositions DEF AffectedRecords
<1>4. CASE hits = {}
  <2>1. affected = {}
    BY <1>2, <1>4, WindowPositions
  <2>2. decision.recovery_round = NoRound
    BY <1>1, <1>4 DEF FindRecoveryRound
  <2>3. QED
    BY <2>1, <2>2 DEF RecoveryRoundIsEarliest
<1>5. CASE hits # {}
  <2> DEFINE m == CHOOSE i \in hits : \A j \in hits : i <= j
  <2>1. \E i \in hits : \A j \in hits : i <= j
    <3>1. hits \subseteq Nat
      BY <1>3, WindowPositions
    <3>2. QED
      BY <1>5, <3>1, LeastPosition, Zenon
  <2>2. m \in hits /\ \A j \in hits : m <= j
    BY <2>1
  <2>3. decision.recovery_round = round_history[m].round
    BY <1>1, <1>5 DEF FindRecoveryRound
  <2>4. decision.recovery_round \in affected
    BY <1>2, <1>3, <2>2, <2>3
  <2>5. ASSUME NEW k \in affected PROVE decision.recovery_round <= k
    <3>1. PICK i \in 1..Held : k = round_history[i].round
      BY WindowPositions
    <3>2. i \in hits
      BY <1>2, <3>1
    <3>3. m <= i /\ m \in 1..Held
      BY <1>3, <2>2, <3>2
    <3>4. QED
      BY <2>3, <3>1, <3>3, WindowPositions
  <2>6. QED
    BY <2>4, <2>5 DEF RecoveryRoundIsEarliest
<1>6. QED
  BY <1>4, <1>5

LEMMA InvGivesNoSlip == TriggerInv => OffenderNeverSlipsThrough
<1> SUFFICES ASSUME TriggerInv, NEW c \in Clients,
                    current_round > 0, Offends(c, current_round)
             PROVE  decision.state = Triggered /\ c \in decision.quarantined_clients
  BY DEF OffenderNeverSlipsThrough
<1>1. c \in SuspiciousClients(evaluations[current_round])
  BY DEF Offends, SuspiciousClients
<1>2. decision.state = Triggered
  BY <1>1 DEF TriggerInv, DecisionInv
<1>3. current_round \in Window
  BY TriggerAssumption, WindowPositions DEF Window
<1>4. QED
  BY <1>2, <1>3, CollectedAreWindowOffenders DEF TriggerInv, DecisionInv

-----------------------------------------------------------------------------
\* For every number of clients, threshold and look-back, the deque is the last
\* LookbackRounds evaluations: the rolling history of _record_round.
THEOREM TriggerHistory == TriggerSpec => []HistoryIsRecentWindow
BY TriggerInvariant, InvGivesWindow, PTL

\* The engine's variables keep their types, whatever scores it is given:
\* RecoveryTriggerEngine and its RecoveryDecision.
THEOREM TriggerTypeCorrect == TriggerSpec => []TriggerTypeOK
<1>1. TriggerInv => TriggerTypeOK
  BY DEF TriggerInv
<1>2. QED
  BY TriggerInvariant, <1>1, PTL

\* For every number of clients, threshold and look-back, a triggered decision
\* excludes exactly the offenders of the window: _collect_quarantined_clients.
THEOREM TriggerExclusion == TriggerSpec => []ExclusionMatchesWindow
BY TriggerInvariant, InvGivesExclusion, PTL

\* The suggested recovery round is always the earliest affected evaluation of
\* the window: _find_recovery_round.
THEOREM TriggerEarliestRound == TriggerSpec => []RecoveryRoundIsEarliest
BY TriggerInvariant, InvGivesEarliestRound, PTL

\* No offender of the latest evaluation escapes exclusion: Rules 1 and 2 of
\* evaluate_recovery_need.
THEOREM TriggerNoSlip == TriggerSpec => []OffenderNeverSlipsThrough
BY TriggerInvariant, InvGivesNoSlip, PTL
=============================================================================
