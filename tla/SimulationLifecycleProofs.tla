---------------------- MODULE SimulationLifecycleProofs ----------------------
(***************************************************************************)
(* Proofs about runs that share one process, for any number of runs, any   *)
(* length and size a request may ask for, and every interleaving of their  *)
(* threads, failures included.                                             *)
(*                                                                         *)
(* ProgressOf says how far a run's rows, checkpoints and impacts are at    *)
(* each place of its thread.  AloneOf says what the shared module and the  *)
(* shared Sentinel hold for a run that no other run has met so far: what   *)
(* the run itself has put there.                                           *)
(***************************************************************************)
EXTENDS SimulationLifecycle, TLAPS

\* The places of the round loop, and those before it.
InRound == {"train", "subtract", "detect", "impact", "aggregate", "check", "advance"}
SetUp   == {"open", "provision", "initialize"}
Before  == {"none", "create", "queued"} \cup SetUp
Looping == InRound \cup {"next"}

\* The rounds of a run that its row counts.
Counted(r) == IF pc[r] \in InRound THEN local[r].round - 1 ELSE local[r].round

\* The rounds of a run that have their checkpoint.
Saved(r) ==
    IF pc[r] \in InRound \ {"check", "advance"} THEN local[r].round - 1 ELSE local[r].round

TypeInv ==
    /\ LifecycleTypeOK
    /\ sentinel = [last_round |-> sentinel.last_round, cache |-> sentinel.cache,
                   history |-> sentinel.history]
    /\ local \in [Runs -> [params : Configs, background : BOOLEAN, round : 0..MaxRounds,
                           trained : Weights, delta : Weights]]

\* What a run has behind it at each place of its thread.
ProgressOf(r) ==
    /\ pc[r] \in Before => /\ local[r].round = 0
                           /\ \A q \in 0..MaxRounds : <<r, q>> \notin DOMAIN checkpoints
    /\ pc[r] \in InRound => local[r].round >= 1
    /\ pc[r] \in Looping => local[r].round <= local[r].params.rounds
    /\ pc[r] \in Before \cup Looping => rows[r].current_round = Counted(r)
    /\ rows[r].status = "COMPLETED" => pc[r] = "ended"
    /\ pc[r] \in Looping =>
           /\ \A q \in 0..Saved(r) : <<r, q>> \in DOMAIN checkpoints
           /\ \A q \in 1..Counted(r) : <<r, q>> \in recorded
    /\ \A q \in 0..MaxRounds : <<r, q>> \in DOMAIN checkpoints => <<r, 0>> \in DOMAIN checkpoints
    /\ pc[r] \in {"aggregate", "check", "advance"} => <<r, local[r].round>> \in recorded

\* The property CompletedRunIsWhole, of one run.
WholeOf(r) ==
    rows[r].status = "COMPLETED" =>
        /\ rows[r].current_round = local[r].params.rounds
        /\ \A q \in 1..local[r].params.rounds :
               <<r, q>> \in DOMAIN checkpoints /\ <<r, q>> \in recorded

\* The rounds the decision engine has recorded, and those the reputations have.
Remembered(r) == IF pc[r] \in InRound \ {"advance"} THEN local[r].round - 1 ELSE local[r].round
Scored(r) ==
    IF pc[r] \in {"train", "subtract", "detect"} THEN local[r].round - 1 ELSE local[r].round

\* What a run that has met no other finds in the shared objects.
AloneOf(r) ==
    r \notin overlapped =>
        /\ pc[r] \in {"train", "subtract"} => module = checkpoints[<<r, local[r].round - 1>>]
        /\ pc[r] = "subtract" => local[r].trained = Plus(module, Own(r, local[r].round))
        /\ pc[r] \in {"detect", "impact", "aggregate"} => local[r].delta = Own(r, local[r].round)
        /\ pc[r] \in SetUp \cup Looping =>
               /\ sentinel.history = [i \in 1..Remembered(r) |-> <<r, i>>]
               /\ \A c \in 1..local[r].params.clients : sentinel.last_round[c] = Scored(r)
        /\ pc[r] = "impact" => HasImpact(r, local[r].round)

\* The weights of a run's round q, if nobody interferes.
Expected(r, q) ==
    [d \in Deltas |-> checkpoints[<<r, 0>>][d] + IF d[1] = r /\ d[2] <= q THEN 1 ELSE 0]

\* The property AloneMeansIsolated, of one run.
IsolatedOf(r) ==
    r \notin overlapped => \A q \in 1..MaxRounds :
        <<r, q>> \in DOMAIN checkpoints => checkpoints[<<r, q>>] = Expected(r, q)

RunInv(r) == ProgressOf(r) /\ WholeOf(r) /\ AloneOf(r) /\ IsolatedOf(r)

LifecycleInv == TypeInv /\ \A r \in Runs : RunInv(r)

-----------------------------------------------------------------------------
(* The algebra of weights, and what a step does to the runs it is not about. *)

LEMMA WeightsLemma ==
    /\ NoDeltas \in Weights
    /\ \A run, round : Own(run, round) \in Weights
    /\ \A v, w \in Weights : /\ Plus(v, w) \in Weights /\ Minus(v, w) \in Weights
                             /\ Minus(Plus(v, w), v) = w
<1>1. NoDeltas \in Weights /\ \A run, round : Own(run, round) \in Weights
  BY DEF NoDeltas, Own, Weights
<1>2. ASSUME NEW v \in Weights, NEW w \in Weights
      PROVE  /\ Plus(v, w) \in Weights /\ Minus(v, w) \in Weights
             /\ Minus(Plus(v, w), v) = w
  <2>1. \A d \in Deltas : v[d] \in Int /\ w[d] \in Int /\ v[d] + w[d] - v[d] = w[d]
    BY DEF Weights
  <2>2. w = [d \in Deltas |-> w[d]]
    BY DEF Weights
  <2>3. Plus(v, w) \in Weights /\ Minus(v, w) \in Weights
    BY <2>1 DEF Plus, Minus, Weights
  <2>4. Minus(Plus(v, w), v) = [d \in Deltas |-> w[d]]
    BY <2>1 DEF Plus, Minus
  <2>5. QED
    BY <2>2, <2>3, <2>4
<1>3. QED
  BY <1>1, <1>2

\* The bounds of the counters, as numbers.
LEMMA Bounds ==
    ASSUME TypeInv, NEW r \in Runs
    PROVE  /\ MaxRounds \in Nat /\ MaxClients \in Nat
           /\ local[r].round \in Nat /\ local[r].round <= MaxRounds
           /\ local[r].params.rounds \in Nat /\ 1 <= local[r].params.rounds
           /\ local[r].params.rounds <= MaxRounds
           /\ local[r].params.clients \in Nat /\ local[r].params.clients <= MaxClients
BY LifecycleAssumption DEF TypeInv, LifecycleTypeOK, Configs

\* A run that goes on is overlapped with every other that is under way.
LEMMA GoToLemma ==
    ASSUME TypeInv, NEW run \in Runs, NEW place \in Places, GoTo(run, place)
    PROVE  /\ pc' \in [Runs -> Places] /\ pc'[run] = place
           /\ overlapped \subseteq overlapped'
           /\ \A r \in Runs \ {run} :
                  /\ pc'[r] = pc[r]
                  /\ Active(r) /\ place \notin Parked
                         => r \in overlapped'
<1>1. pc' = [pc EXCEPT ![run] = place] /\ pc \in [Runs -> Places]
  BY DEF GoTo, TypeInv, LifecycleTypeOK
<1>2. pc' \in [Runs -> Places] /\ pc'[run] = place /\ \A r \in Runs \ {run} : pc'[r] = pc[r]
  BY <1>1
<1>3. ASSUME NEW r \in Runs \ {run}, Active(r), place \notin Parked
      PROVE  r \in overlapped'
  BY <1>2, <1>3 DEF GoTo, Active, Parked
<1>4. overlapped \subseteq overlapped'
  BY DEF GoTo
<1>5. QED
  BY <1>2, <1>3, <1>4

\* What a step of another run leaves to a run.
LeftAlone(r) ==
    /\ pc'[r] = pc[r] /\ local'[r] = local[r] /\ rows'[r] = rows[r]
    /\ \A q \in 0..MaxRounds :
           /\ <<r, q>> \in DOMAIN checkpoints' <=> <<r, q>> \in DOMAIN checkpoints
           /\ <<r, q>> \in DOMAIN checkpoints => checkpoints'[<<r, q>>] = checkpoints[<<r, q>>]
    /\ recorded \subseteq recorded' /\ overlapped \subseteq overlapped'
    /\ Active(r) => r \in overlapped' \/ UNCHANGED <<module, sentinel>>

LEMMA OthersKeepInv ==
    ASSUME TypeInv, NEW r \in Runs, RunInv(r), LeftAlone(r)
    PROVE  RunInv(r)'
<1> USE DEF RunInv
<1>1. /\ Counted(r)' = Counted(r) /\ Saved(r)' = Saved(r)
      /\ Remembered(r)' = Remembered(r) /\ Scored(r)' = Scored(r)
  BY DEF LeftAlone, Counted, Saved, Remembered, Scored
<1>2. /\ Counted(r) \in Int /\ Counted(r) <= MaxRounds /\ Saved(r) \in Int
      /\ Saved(r) <= MaxRounds /\ MaxRounds \in Nat
  BY Bounds DEF Counted, Saved
<1>3. ProgressOf(r)'
  BY <1>1, <1>2 DEF LeftAlone, ProgressOf
<1>4. WholeOf(r)'
  BY Bounds DEF LeftAlone, WholeOf
<1>5. IsolatedOf(r)'
  <2> SUFFICES ASSUME r \notin overlapped', NEW q \in 1..MaxRounds,
                      <<r, q>> \in DOMAIN checkpoints'
               PROVE  checkpoints'[<<r, q>>] = Expected(r, q)'
    BY DEF IsolatedOf
  <2>1. /\ q \in 0..MaxRounds /\ <<r, q>> \in DOMAIN checkpoints
        /\ checkpoints'[<<r, q>>] = checkpoints[<<r, q>>]
        /\ checkpoints[<<r, q>>] = Expected(r, q)
    BY DEF LeftAlone, IsolatedOf
  <2>2. <<r, 0>> \in DOMAIN checkpoints
    BY <2>1 DEF ProgressOf
  <2>3. checkpoints'[<<r, 0>>] = checkpoints[<<r, 0>>]
    BY <1>2, <2>2 DEF LeftAlone
  <2>4. QED
    BY <2>1, <2>3 DEF Expected
<1>6. AloneOf(r)'
  <2> SUFFICES ASSUME r \notin overlapped' PROVE AloneOf(r)'
    BY DEF AloneOf
  <2>1. r \notin overlapped /\ pc'[r] = pc[r] /\ local'[r] = local[r]
    BY DEF LeftAlone
  <2>2. CASE pc[r] \in SetUp \cup Looping
    <3>1. module' = module /\ sentinel' = sentinel
      BY <2>2 DEF LeftAlone, Active, Parked, SetUp, Looping, InRound
    <3>2. ASSUME pc[r] \in {"train", "subtract"}
          PROVE  checkpoints'[<<r, local[r].round - 1>>] = checkpoints[<<r, local[r].round - 1>>]
      <4>1. /\ local[r].round - 1 \in 0..MaxRounds
            /\ <<r, local[r].round - 1>> \in DOMAIN checkpoints
        BY <3>2, Bounds DEF ProgressOf, Looping, InRound, Saved
      <4>2. QED
        BY <4>1 DEF LeftAlone
    <3>3. QED
      BY <1>1, <2>1, <3>1, <3>2 DEF AloneOf, HasImpact
  <2>3. CASE pc[r] \notin SetUp \cup Looping
    BY <2>1, <2>3 DEF AloneOf, SetUp, Looping, InRound
  <2>4. QED
    BY <2>2, <2>3
<1>7. QED
  BY <1>3, <1>4, <1>5, <1>6

-----------------------------------------------------------------------------
(* The steps.  Each keeps the types, keeps the invariant of its own run, and *)
(* leaves the other runs alone.                                              *)

StepKeeps(run) ==
    /\ TypeInv' /\ RunInv(run)'
    /\ \A r \in Runs \ {run} : LeftAlone(r)

RowType == [status : {"ABSENT", "PENDING", "RUNNING", "COMPLETED", "FAILED"},
            round_count : 0..MaxRounds, current_round : 0..MaxRounds]
LocalType == [params : Configs, background : BOOLEAN, round : 0..MaxRounds,
              trained : Weights, delta : Weights]

\* What the types say of the run that makes the step.
LEMMA OwnTypes ==
    ASSUME TypeInv, NEW run \in Runs
    PROVE  /\ config \in Configs /\ module \in Weights /\ provisioned \subseteq Clients
           /\ rows \in [Runs -> RowType] /\ rows[run] \in RowType
           /\ local \in [Runs -> LocalType] /\ local[run] \in LocalType
           /\ pc \in [Runs -> Places]
BY DEF TypeInv, LifecycleTypeOK, RowType, LocalType

\* A step that changes, besides its place, the run's row and locals only.
LEMMA PrivateStep ==
    ASSUME TypeInv, NEW run \in Runs, NEW place \in Places, GoTo(run, place),
           config' \in Configs, UNCHANGED <<sharedVars, recorded>>,
           rows' \in [Runs -> RowType], \A r \in Runs \ {run} : rows'[r] = rows[r],
           local' \in [Runs -> LocalType], \A r \in Runs \ {run} : local'[r] = local[r]
    PROVE  TypeInv' /\ \A r \in Runs \ {run} : LeftAlone(r)
<1>1. /\ pc' \in [Runs -> Places] /\ \A r \in Runs \ {run} : pc'[r] = pc[r]
      /\ overlapped \subseteq overlapped'
  BY GoToLemma
<1>2. TypeInv'
  <2>1. \A r \in Runs : local'[r].params \in Configs /\ local'[r].round \in 0..MaxRounds
    BY DEF LocalType
  <2>2. QED
    BY <1>1, <2>1 DEF TypeInv, LifecycleTypeOK, sharedVars, RowType, LocalType
<1>3. \A r \in Runs \ {run} : LeftAlone(r)
  BY <1>1 DEF LeftAlone, sharedVars
<1>4. QED
  BY <1>2, <1>3

\* Nothing is promised of a checkpoint that a step does not write.
LEMMA IsolatedKept ==
    ASSUME NEW r, IsolatedOf(r), checkpoints' = checkpoints, overlapped \subseteq overlapped'
    PROVE  IsolatedOf(r)'
BY DEF IsolatedOf, Expected

\* A step before the round loop.
LEMMA BeforeKept ==
    ASSUME TypeInv, NEW run \in Runs, RunInv(run), overlapped \subseteq overlapped',
           pc[run] \in Before, pc'[run] \in Before, local'[run].round = local[run].round,
           checkpoints' = checkpoints, recorded' = recorded,
           rows'[run].current_round = rows[run].current_round,
           rows'[run].status # "COMPLETED"
    PROVE  ProgressOf(run)' /\ WholeOf(run)' /\ IsolatedOf(run)'
<1>1. ProgressOf(run) /\ IsolatedOf(run)
  BY DEF RunInv
<1>2. ProgressOf(run)'
  BY <1>1 DEF ProgressOf, Counted, Before, SetUp, Looping, InRound
<1>3. WholeOf(run)'
  BY DEF WholeOf
<1>4. QED
  BY <1>1, <1>2, <1>3, IsolatedKept

\* A step within a round that saves nothing.
LEMMA RoundKept ==
    ASSUME TypeInv, NEW run \in Runs, RunInv(run), overlapped \subseteq overlapped',
           pc[run] \in InRound, pc'[run] \in InRound,
           pc[run] \in {"check", "advance"} <=> pc'[run] \in {"check", "advance"},
           local'[run].round = local[run].round, local'[run].params = local[run].params,
           checkpoints' = checkpoints, recorded \subseteq recorded', rows' = rows,
           pc'[run] \in {"aggregate", "check", "advance"} =>
               <<run, local[run].round>> \in recorded'
    PROVE  ProgressOf(run)' /\ WholeOf(run)' /\ IsolatedOf(run)'
<1>1. ProgressOf(run) /\ IsolatedOf(run)
  BY DEF RunInv
<1>2. Counted(run)' = Counted(run) /\ Saved(run)' = Saved(run)
  BY DEF Counted, Saved, InRound
<1>3. pc'[run] \in Looping /\ pc'[run] \notin Before /\ pc[run] \in Looping
  BY DEF InRound, Before, SetUp, Looping
<1>4. ProgressOf(run)'
  BY <1>1, <1>2, <1>3 DEF ProgressOf, InRound
<1>5. WholeOf(run)'
  BY <1>1, <1>3 DEF WholeOf, ProgressOf, Looping, InRound
<1>6. QED
  BY <1>1, <1>4, <1>5, IsolatedKept

\* A step that ends the work of a run without completing it.
LEMMA EndKept ==
    ASSUME TypeInv, NEW run \in Runs, RunInv(run), overlapped \subseteq overlapped',
           pc'[run] \in {"failing", "ended", "lost"}, checkpoints' = checkpoints,
           rows'[run].status # "COMPLETED"
    PROVE  RunInv(run)'
<1>1. ProgressOf(run) /\ IsolatedOf(run)
  BY DEF RunInv
<1>2. pc'[run] \notin Before \cup Looping
  BY DEF Before, SetUp, Looping, InRound
<1>3. ProgressOf(run)'
  BY <1>1, <1>2 DEF ProgressOf, Looping, InRound
<1>4. WholeOf(run)' /\ AloneOf(run)'
  BY <1>2 DEF WholeOf, AloneOf, SetUp, Looping, InRound
<1>5. QED
  BY <1>1, <1>3, <1>4, IsolatedKept DEF RunInv

-----------------------------------------------------------------------------
(* The request, and what a run does before its rounds. *)

LEMMA ApplyOverridesStep ==
    ASSUME LifecycleInv, NEW run \in Runs, ApplyOverrides(run)
    PROVE  StepKeeps(run)
<1>1. PICK c \in Overrides, b \in BOOLEAN :
          config' = c /\ local' = [local EXCEPT ![run].background = b]
  BY DEF ApplyOverrides
<1>2. /\ pc[run] = "none" /\ GoTo(run, "create") /\ "create" \in Places
      /\ UNCHANGED <<sharedVars, rows, recorded>>
  BY DEF ApplyOverrides, Places
<1>3. TypeInv /\ RunInv(run)
  BY DEF LifecycleInv
<1>4. /\ local' \in [Runs -> LocalType] /\ \A r \in Runs \ {run} : local'[r] = local[r]
      /\ local'[run].round = local[run].round
  BY <1>1, <1>3, OwnTypes DEF LocalType
<1>5. TypeInv' /\ \A r \in Runs \ {run} : LeftAlone(r)
  BY <1>1, <1>2, <1>3, <1>4, OwnTypes, PrivateStep, LifecycleAssumption
<1>6. pc'[run] = "create" /\ overlapped \subseteq overlapped'
  BY <1>2, <1>3, GoToLemma
<1>7. ProgressOf(run)' /\ WholeOf(run)' /\ IsolatedOf(run)'
  <2>1. rows[run].status # "COMPLETED"
    BY <1>2, <1>3 DEF RunInv, ProgressOf
  <2>2. QED
    BY <1>2, <1>3, <1>4, <1>6, <2>1, BeforeKept DEF Before, sharedVars
<1>8. AloneOf(run)'
  BY <1>6 DEF AloneOf, SetUp, Looping, InRound
<1>9. QED
  BY <1>5, <1>7, <1>8 DEF StepKeeps, RunInv

LEMMA QueueStep ==
    ASSUME LifecycleInv, NEW run \in Runs, CreatePending(run) \/ RunInline(run)
    PROVE  StepKeeps(run)
<1> DEFINE row == [NoRow EXCEPT !.status = "PENDING", !.round_count = config.rounds]
<1>1. /\ pc[run] = "create" /\ GoTo(run, "queued") /\ "queued" \in Places
      /\ UNCHANGED <<config, sharedVars, recorded, local>>
      /\ rows' = [rows EXCEPT ![run] = row] \/ rows' = rows
  BY DEF CreatePending, RunInline, Places
<1>2. TypeInv /\ RunInv(run)
  BY DEF LifecycleInv
<1>3. row \in RowType /\ row.status = "PENDING" /\ row.current_round = 0
  <2>1. config.rounds \in 0..MaxRounds /\ 0 \in 0..MaxRounds
    BY <1>2, OwnTypes, LifecycleAssumption DEF Configs
  <2>2. [NoRow EXCEPT !.status = "PENDING"]
            = [status |-> "PENDING", round_count |-> 0, current_round |-> 0]
    BY DEF NoRow
  <2>3. QED
    BY <2>1, <2>2 DEF RowType
<1> HIDE DEF row
<1>4. /\ rows[run].current_round = 0 /\ rows[run].status # "COMPLETED"
  BY <1>1, <1>2 DEF RunInv, ProgressOf, Counted, Before, InRound
<1>5. /\ rows' \in [Runs -> RowType] /\ \A r \in Runs \ {run} : rows'[r] = rows[r]
      /\ rows'[run].current_round = 0 /\ rows'[run].status # "COMPLETED"
  BY <1>1, <1>2, <1>3, <1>4, OwnTypes
<1>6. TypeInv' /\ \A r \in Runs \ {run} : LeftAlone(r)
  BY <1>1, <1>2, <1>5, OwnTypes, PrivateStep
<1>7. pc'[run] = "queued" /\ overlapped \subseteq overlapped'
  BY <1>1, <1>2, GoToLemma
<1>8. ProgressOf(run)' /\ WholeOf(run)' /\ IsolatedOf(run)'
  BY <1>1, <1>2, <1>4, <1>5, <1>7, BeforeKept DEF Before, sharedVars
<1>9. AloneOf(run)'
  BY <1>7 DEF AloneOf, SetUp, Looping, InRound
<1>10. QED
  BY <1>6, <1>8, <1>9 DEF StepKeeps, RunInv

\* The types of what the runs share.
RegistryType == /\ DOMAIN checkpoints \subseteq Runs \X (0..MaxRounds)
                /\ \A v \in DOMAIN checkpoints : checkpoints[v] \in Weights
SentinelType ==
    /\ sentinel = [last_round |-> sentinel.last_round, cache |-> sentinel.cache,
                   history |-> sentinel.history]
    /\ sentinel.last_round \in [Clients -> 0..MaxRounds]
    /\ DOMAIN sentinel.cache \subseteq 1..MaxRounds
    /\ \A q \in DOMAIN sentinel.cache : sentinel.cache[q] \subseteq Runs \X Clients
    /\ sentinel.history \in Seq(Deltas)
SharedType ==
    /\ module \in Weights /\ provisioned \subseteq Clients
    /\ RegistryType /\ SentinelType
    /\ recorded \subseteq Deltas

LEMMA SharedTypes == ASSUME TypeInv PROVE SharedType
BY DEF TypeInv, LifecycleTypeOK, SharedType, RegistryType, SentinelType

\* A step that writes to what the runs share: it is made under way, so the runs
\* it may disturb become overlapped ones.
LEMMA SharingStep ==
    ASSUME TypeInv, NEW run \in Runs,
           NEW place \in Places \ Parked, GoTo(run, place),
           UNCHANGED <<config, rows>>, SharedType', recorded \subseteq recorded',
           \A r \in Runs \ {run}, q \in 0..MaxRounds :
               /\ <<r, q>> \in DOMAIN checkpoints' <=> <<r, q>> \in DOMAIN checkpoints
               /\ <<r, q>> \in DOMAIN checkpoints =>
                      checkpoints'[<<r, q>>] = checkpoints[<<r, q>>],
           local' \in [Runs -> LocalType], \A r \in Runs \ {run} : local'[r] = local[r]
    PROVE  TypeInv' /\ \A r \in Runs \ {run} : LeftAlone(r)
<1>1. /\ pc' \in [Runs -> Places] /\ overlapped \subseteq overlapped'
      /\ \A r \in Runs \ {run} : pc'[r] = pc[r] /\ (Active(r) => r \in overlapped')
  BY GoToLemma
<1>2. TypeInv'
  <2>1. \A r \in Runs : local'[r].params \in Configs /\ local'[r].round \in 0..MaxRounds
    BY DEF LocalType
  <2>2. QED
    BY <1>1, <2>1
       DEF TypeInv, LifecycleTypeOK, LocalType, SharedType, RegistryType, SentinelType
<1>3. \A r \in Runs \ {run} : LeftAlone(r)
  BY <1>1 DEF LeftAlone
<1>4. QED
  BY <1>2, <1>3

LEMMA ReadConfigStep ==
    ASSUME LifecycleInv, NEW run \in Runs, ReadConfig(run)
    PROVE  StepKeeps(run)
<1>1. /\ pc[run] = "queued" /\ GoTo(run, "open")
      /\ "open" \in Places \ Parked
      /\ local' = [local EXCEPT ![run].params = config, ![run].background = FALSE]
      /\ sentinel' = NewSentinel
      /\ UNCHANGED <<config, module, provisioned, checkpoints, rows, recorded>>
  BY DEF ReadConfig, ResetSentinel, Places, Parked
<1>2. TypeInv /\ RunInv(run)
  BY DEF LifecycleInv
<1>3. /\ local' \in [Runs -> LocalType] /\ \A r \in Runs \ {run} : local'[r] = local[r]
      /\ local'[run].round = local[run].round /\ local'[run].params = config
  BY <1>1, <1>2, OwnTypes DEF LocalType
<1>4. SharedType'
  <2>1. sentinel'.last_round \in [Clients -> 0..MaxRounds] /\ sentinel'.history \in Seq(Deltas)
        /\ DOMAIN sentinel'.cache = {} /\ sentinel'.history = <<>>
    BY <1>1, LifecycleAssumption DEF NewSentinel
  <2>2. SentinelType'
    BY <1>1, <2>1 DEF SentinelType, NewSentinel
  <2>3. QED
    BY <1>1, <1>2, <2>2, SharedTypes DEF SharedType, RegistryType
<1>5. TypeInv' /\ \A r \in Runs \ {run} : LeftAlone(r)
  BY <1>1, <1>2, <1>3, <1>4, SharingStep
<1>6. pc'[run] = "open" /\ overlapped \subseteq overlapped'
  BY <1>1, <1>2, GoToLemma
<1>7. ProgressOf(run)' /\ WholeOf(run)' /\ IsolatedOf(run)'
  <2>1. rows[run].status # "COMPLETED"
    BY <1>1, <1>2 DEF RunInv, ProgressOf
  <2>2. QED
    BY <1>1, <1>2, <1>3, <1>6, <2>1, BeforeKept DEF Before, SetUp
<1>8. AloneOf(run)'
  <2>1. local[run].round = 0
    BY <1>1, <1>2 DEF RunInv, ProgressOf, Before
  <2>2. Remembered(run)' = 0 /\ Scored(run)' = 0
    BY <1>3, <1>6, <2>1 DEF Remembered, Scored, InRound
  <2>3. sentinel'.history = [i \in 1..0 |-> <<run, i>>]
    BY <1>1 DEF NewSentinel
  <2>4. \A c \in 1..local'[run].params.clients : sentinel'.last_round[c] = 0
    BY <1>1, <1>2, <1>3, OwnTypes, LifecycleAssumption DEF NewSentinel, Clients, Configs
  <2>5. QED
    BY <1>6, <2>2, <2>3, <2>4 DEF AloneOf
<1>9. QED
  BY <1>5, <1>7, <1>8 DEF StepKeeps, RunInv

LEMMA OpenRowStep ==
    ASSUME LifecycleInv, NEW run \in Runs, OpenRow(run)
    PROVE  StepKeeps(run)
<1> DEFINE row == IF rows[run].status = "ABSENT"
                  THEN [NoRow EXCEPT !.status = "RUNNING", !.round_count = local[run].params.rounds]
                  ELSE [rows[run] EXCEPT !.status = "RUNNING"]
<1>1. /\ pc[run] = "open" /\ GoTo(run, "provision") /\ "provision" \in Places
      /\ UNCHANGED <<config, sharedVars, recorded, local>> /\ rows' = [rows EXCEPT ![run] = row]
  BY DEF OpenRow, Places
<1>2. TypeInv /\ RunInv(run)
  BY DEF LifecycleInv
<1>3. rows[run].current_round = 0
  BY <1>1, <1>2 DEF RunInv, ProgressOf, Counted, Before, SetUp, InRound
<1>4. row \in RowType /\ row.status = "RUNNING" /\ row.current_round = 0
  <2>1. local[run].params.rounds \in 0..MaxRounds /\ 0 \in 0..MaxRounds
    BY <1>2, Bounds
  <2>2. [NoRow EXCEPT !.status = "RUNNING"]
            = [status |-> "RUNNING", round_count |-> 0, current_round |-> 0]
    BY DEF NoRow
  <2>3. rows[run] \in RowType
    BY <1>2, OwnTypes
  <2>4. QED
    BY <1>3, <2>1, <2>2, <2>3 DEF RowType
<1> HIDE DEF row
<1>5. /\ rows' \in [Runs -> RowType] /\ \A r \in Runs \ {run} : rows'[r] = rows[r]
      /\ rows'[run] = row
  BY <1>1, <1>2, <1>4, OwnTypes
<1>6. TypeInv' /\ \A r \in Runs \ {run} : LeftAlone(r)
  BY <1>1, <1>2, <1>5, OwnTypes, PrivateStep
<1>7. pc'[run] = "provision" /\ overlapped \subseteq overlapped'
  BY <1>1, <1>2, GoToLemma
<1>8. ProgressOf(run)' /\ WholeOf(run)' /\ IsolatedOf(run)'
  BY <1>1, <1>2, <1>3, <1>4, <1>5, <1>7, BeforeKept DEF Before, SetUp, sharedVars
<1>9. AloneOf(run)'
  BY <1>1, <1>2, <1>7 DEF RunInv, AloneOf, Remembered, Scored, SetUp, Looping, InRound, sharedVars
<1>10. QED
  BY <1>6, <1>8, <1>9 DEF StepKeeps, RunInv

LEMMA ProvisionStep ==
    ASSUME LifecycleInv, NEW run \in Runs, Provision(run)
    PROVE  StepKeeps(run)
<1>1. /\ pc[run] = "provision" /\ GoTo(run, "initialize")
      /\ "initialize" \in Places \ Parked
      /\ provisioned' = 1..local[run].params.clients
      /\ UNCHANGED <<config, module, checkpoints, sentinel, rows, recorded, local>>
  BY DEF Provision, Places, Parked
<1>2. TypeInv /\ RunInv(run)
  BY DEF LifecycleInv
<1>3. SharedType'
  <2>1. provisioned' \subseteq Clients
    BY <1>1, <1>2, Bounds DEF Clients
  <2>2. QED
    BY <1>1, <1>2, <2>1, SharedTypes DEF SharedType, RegistryType, SentinelType
<1>4. TypeInv' /\ \A r \in Runs \ {run} : LeftAlone(r)
  BY <1>1, <1>2, <1>3, OwnTypes, SharingStep
<1>5. pc'[run] = "initialize" /\ overlapped \subseteq overlapped'
  BY <1>1, <1>2, GoToLemma
<1>6. ProgressOf(run)' /\ WholeOf(run)' /\ IsolatedOf(run)'
  <2>1. rows[run].status # "COMPLETED"
    BY <1>1, <1>2 DEF RunInv, ProgressOf
  <2>2. QED
    BY <1>1, <1>2, <1>5, <2>1, BeforeKept DEF Before, SetUp
<1>7. AloneOf(run)'
  BY <1>1, <1>2, <1>5 DEF RunInv, AloneOf, Remembered, Scored, SetUp, Looping, InRound
<1>8. QED
  BY <1>4, <1>6, <1>7 DEF StepKeeps, RunInv

\* Saving a run's checkpoint touches no other checkpoint.
LEMMA SaveLemma ==
    ASSUME TypeInv, NEW run \in Runs, NEW n \in 0..MaxRounds, NEW weights \in Weights,
           SaveCheckpoint(<<run, n>>, weights)
    PROVE  /\ RegistryType'
           /\ DOMAIN checkpoints' = DOMAIN checkpoints \cup {<<run, n>>}
           /\ checkpoints'[<<run, n>>] = weights
           /\ \A v \in DOMAIN checkpoints : v # <<run, n>> => checkpoints'[v] = checkpoints[v]
           /\ \A r \in Runs \ {run}, q \in 0..MaxRounds :
                  /\ <<r, q>> \in DOMAIN checkpoints' <=> <<r, q>> \in DOMAIN checkpoints
                  /\ <<r, q>> \in DOMAIN checkpoints =>
                         checkpoints'[<<r, q>>] = checkpoints[<<r, q>>]
<1>1. RegistryType
  BY SharedTypes DEF SharedType
<1>2. /\ DOMAIN checkpoints' = DOMAIN checkpoints \cup {<<run, n>>}
      /\ checkpoints'[<<run, n>>] = weights
      /\ \A v \in DOMAIN checkpoints : v # <<run, n>> => checkpoints'[v] = checkpoints[v]
  BY DEF SaveCheckpoint
<1>3. RegistryType'
  BY <1>1, <1>2 DEF RegistryType
<1>4. QED
  BY <1>2, <1>3

LEMMA InitializeModelStep ==
    ASSUME LifecycleInv, NEW run \in Runs, InitializeModel(run)
    PROVE  StepKeeps(run)
<1>1. /\ pc[run] = "initialize" /\ GoTo(run, "next")
      /\ "next" \in Places \ Parked
      /\ provisioned' = 1..local[run].params.clients
      /\ SaveCheckpoint(<<run, 0>>, module)
      /\ UNCHANGED <<config, module, sentinel, rows, recorded, local>>
  BY DEF InitializeModel, InitialWeights, Places, Parked
<1>2. TypeInv /\ RunInv(run) /\ MaxRounds \in Nat
  BY LifecycleAssumption DEF LifecycleInv
<1>3. /\ RegistryType' /\ DOMAIN checkpoints' = DOMAIN checkpoints \cup {<<run, 0>>}
      /\ \A r \in Runs \ {run}, q \in 0..MaxRounds :
             /\ <<r, q>> \in DOMAIN checkpoints' <=> <<r, q>> \in DOMAIN checkpoints
             /\ <<r, q>> \in DOMAIN checkpoints =>
                    checkpoints'[<<r, q>>] = checkpoints[<<r, q>>]
  <2>1. 0 \in 0..MaxRounds /\ module \in Weights
    BY <1>2, OwnTypes
  <2>2. QED
    BY <1>1, <1>2, <2>1, SaveLemma
<1>4. SharedType'
  <2>1. provisioned' \subseteq Clients
    BY <1>1, <1>2, Bounds DEF Clients
  <2>2. QED
    BY <1>1, <1>2, <1>3, <2>1, SharedTypes DEF SharedType, SentinelType
<1>5. TypeInv' /\ \A r \in Runs \ {run} : LeftAlone(r)
  BY <1>1, <1>2, <1>3, <1>4, OwnTypes, SharingStep
<1>6. pc'[run] = "next" /\ overlapped \subseteq overlapped'
  BY <1>1, <1>2, GoToLemma
<1>7. /\ local[run].round = 0 /\ rows[run].current_round = 0 /\ rows[run].status # "COMPLETED"
      /\ \A q \in 0..MaxRounds : <<run, q>> \notin DOMAIN checkpoints
  BY <1>1, <1>2 DEF RunInv, ProgressOf, Counted, Before, SetUp, InRound
<1>8. ProgressOf(run)'
  <2>1. Counted(run)' = 0 /\ Saved(run)' = 0
    BY <1>1, <1>6, <1>7 DEF Counted, Saved, InRound
  <2>2. /\ local'[run].params.rounds \in Nat
        /\ pc'[run] \in Looping /\ pc'[run] \notin Before \cup InRound
    BY <1>1, <1>2, <1>6, Bounds DEF Looping, Before, SetUp, InRound
  <2>3. /\ \A q \in 0..0 : <<run, q>> \in DOMAIN checkpoints'
        /\ \A q \in 0..MaxRounds : <<run, q>> \in DOMAIN checkpoints' => q = 0
    BY <1>3, <1>7
  <2>4. QED
    BY <1>1, <1>2, <1>6, <1>7, <2>1, <2>2, <2>3 DEF ProgressOf
<1>9. WholeOf(run)' /\ IsolatedOf(run)'
  <2>1. \A q \in 1..MaxRounds : <<run, q>> \notin DOMAIN checkpoints'
    BY <1>3, <1>7
  <2>2. QED
    BY <1>1, <1>7, <2>1 DEF WholeOf, IsolatedOf
<1>10. AloneOf(run)'
  BY <1>1, <1>2, <1>6 DEF RunInv, AloneOf, Remembered, Scored, SetUp, Looping, InRound
<1>11. QED
  BY <1>5, <1>8, <1>9, <1>10 DEF StepKeeps, RunInv

-----------------------------------------------------------------------------
(* The round loop. *)

\* What is known of a run within a round.
LEMMA RoundFacts ==
    ASSUME TypeInv, NEW run \in Runs, RunInv(run), pc[run] \in InRound
    PROVE  /\ local[run].round \in 1..MaxRounds
           /\ local[run].round <= local[run].params.rounds
           /\ rows[run].current_round = local[run].round - 1
           /\ rows[run].status # "COMPLETED"
           /\ \A q \in 0..local[run].round - 1 : <<run, q>> \in DOMAIN checkpoints
           /\ pc[run] \in {"check", "advance"} => <<run, local[run].round>> \in DOMAIN checkpoints
           /\ \A q \in 1..local[run].round - 1 : <<run, q>> \in recorded
           /\ run \notin overlapped =>
                  /\ sentinel.history = [i \in 1..Remembered(run) |-> <<run, i>>]
                  /\ \A c \in 1..local[run].params.clients : sentinel.last_round[c] = Scored(run)
<1>1. /\ pc[run] \in Looping /\ pc[run] \notin {"ended"}
      /\ Counted(run) = local[run].round - 1
      /\ Saved(run) = IF pc[run] \in {"check", "advance"} THEN local[run].round ELSE local[run].round - 1
  BY DEF Looping, InRound, Counted, Saved
<1>2. /\ local[run].round \in 1..MaxRounds /\ local[run].round <= local[run].params.rounds
      /\ rows[run].current_round = local[run].round - 1
      /\ rows[run].status # "COMPLETED"
      /\ \A q \in 0..Saved(run) : <<run, q>> \in DOMAIN checkpoints
      /\ \A q \in 1..local[run].round - 1 : <<run, q>> \in recorded
  BY <1>1, Bounds DEF RunInv, ProgressOf, Looping
<1>3. QED
  BY <1>1, <1>2 DEF RunInv, AloneOf

LEMMA LoadCheckpointStep ==
    ASSUME LifecycleInv, NEW run \in Runs, LoadCheckpoint(run)
    PROVE  StepKeeps(run)
<1> DEFINE n == local[run].round
<1>1. /\ pc[run] = "next" /\ n < local[run].params.rounds /\ GoTo(run, "train")
      /\ "train" \in Places \ Parked
      /\ module' = checkpoints[<<run, n>>]
      /\ local' = [local EXCEPT ![run].round = @ + 1]
      /\ UNCHANGED <<config, provisioned, checkpoints, sentinel, rows, recorded>>
  BY DEF LoadCheckpoint, RoundsOf, Places, Parked
<1>2. TypeInv /\ RunInv(run)
  BY DEF LifecycleInv
<1>3. n \in 0..MaxRounds /\ n + 1 \in 0..MaxRounds /\ n + 1 \in 1..local[run].params.rounds
  BY <1>1, <1>2, Bounds
<1>4. /\ rows[run].current_round = n /\ rows[run].status # "COMPLETED"
      /\ \A q \in 0..n : <<run, q>> \in DOMAIN checkpoints
      /\ \A q \in 1..n : <<run, q>> \in recorded
      /\ \A q \in 0..MaxRounds : <<run, q>> \in DOMAIN checkpoints => <<run, 0>> \in DOMAIN checkpoints
  BY <1>1, <1>2 DEF RunInv, ProgressOf, Counted, Saved, Looping, InRound
<1>5. /\ local' \in [Runs -> LocalType] /\ \A r \in Runs \ {run} : local'[r] = local[r]
      /\ local'[run].round = n + 1 /\ local'[run].params = local[run].params
  BY <1>1, <1>2, <1>3, OwnTypes DEF LocalType
<1> HIDE DEF n
<1>6. SharedType'
  <2>1. <<run, n>> \in DOMAIN checkpoints
    BY <1>3, <1>4
  <2>2. QED
    BY <1>1, <1>2, <2>1, SharedTypes DEF SharedType, RegistryType, SentinelType
<1>7. TypeInv' /\ \A r \in Runs \ {run} : LeftAlone(r)
  BY <1>1, <1>2, <1>5, <1>6, SharingStep
<1>8. pc'[run] = "train" /\ overlapped \subseteq overlapped'
  BY <1>1, <1>2, GoToLemma
<1>9. ProgressOf(run)' /\ WholeOf(run)' /\ IsolatedOf(run)'
  <2>1. Counted(run)' = n /\ Saved(run)' = n
    BY <1>3, <1>5, <1>8 DEF Counted, Saved, InRound
  <2>2. pc'[run] \in Looping /\ pc'[run] \notin Before
    BY <1>8 DEF Looping, Before, SetUp, InRound
  <2>3. ProgressOf(run)'
    BY <1>1, <1>3, <1>4, <1>5, <1>8, <2>1, <2>2 DEF ProgressOf
  <2>4. QED
    BY <1>1, <1>2, <1>4, <1>8, <2>3, IsolatedKept DEF RunInv, WholeOf
<1>10. AloneOf(run)'
  <2>1. (n + 1) - 1 = n
    BY <1>3
  <2>2. Remembered(run) = n /\ Scored(run) = n
    BY <1>1 DEF Remembered, Scored, InRound, n
  <2>3. Remembered(run)' = n /\ Scored(run)' = n
    BY <1>5, <1>8, <2>1 DEF Remembered, Scored, InRound
  <2>4. QED
    BY <1>1, <1>2, <1>5, <1>8, <2>1, <2>2, <2>3
       DEF RunInv, AloneOf, SetUp, Looping, InRound
<1>11. QED
  BY <1>7, <1>9, <1>10 DEF StepKeeps, RunInv

LEMMA TrainStep ==
    ASSUME LifecycleInv, NEW run \in Runs, Train(run)
    PROVE  StepKeeps(run)
<1> DEFINE new == Plus(module, Own(run, local[run].round))
<1>1. /\ pc[run] = "train" /\ GoTo(run, "subtract") /\ "subtract" \in Places
      /\ local' = [local EXCEPT ![run].trained = new]
      /\ UNCHANGED <<config, sharedVars, rows, recorded>>
  BY DEF Train, Places
<1>2. TypeInv /\ RunInv(run)
  BY DEF LifecycleInv
<1>3. new \in Weights
  BY <1>2, OwnTypes, WeightsLemma
<1> HIDE DEF new
<1>4. /\ local' \in [Runs -> LocalType] /\ \A r \in Runs \ {run} : local'[r] = local[r]
      /\ local'[run].round = local[run].round /\ local'[run].params = local[run].params
      /\ local'[run].trained = new
  BY <1>1, <1>2, <1>3, OwnTypes DEF LocalType
<1>5. TypeInv' /\ \A r \in Runs \ {run} : LeftAlone(r)
  BY <1>1, <1>2, <1>4, OwnTypes, PrivateStep
<1>6. pc'[run] = "subtract" /\ overlapped \subseteq overlapped'
  BY <1>1, <1>2, GoToLemma
<1>7. ProgressOf(run)' /\ WholeOf(run)' /\ IsolatedOf(run)'
  BY <1>1, <1>2, <1>4, <1>6, RoundKept DEF InRound, sharedVars
<1>8. AloneOf(run)'
  BY <1>1, <1>2, <1>4, <1>6
     DEF RunInv, AloneOf, Remembered, Scored, SetUp, Looping, InRound, sharedVars, new
<1>9. QED
  BY <1>5, <1>7, <1>8 DEF StepKeeps, RunInv

LEMMA SubtractStep ==
    ASSUME LifecycleInv, NEW run \in Runs, Subtract(run)
    PROVE  StepKeeps(run)
<1> DEFINE new == Minus(local[run].trained, module)
<1>1. /\ pc[run] = "subtract" /\ GoTo(run, "detect") /\ "detect" \in Places
      /\ local' = [local EXCEPT ![run].delta = new, ![run].trained = NoDeltas]
      /\ UNCHANGED <<config, sharedVars, rows, recorded>>
  BY DEF Subtract, Places
<1>2. TypeInv /\ RunInv(run)
  BY DEF LifecycleInv
<1>3. new \in Weights /\ NoDeltas \in Weights
  BY <1>2, OwnTypes, WeightsLemma DEF LocalType
<1>4. run \notin overlapped => new = Own(run, local[run].round)
  BY <1>1, <1>2, OwnTypes, WeightsLemma DEF RunInv, AloneOf
<1> HIDE DEF new
<1>5. /\ local' \in [Runs -> LocalType] /\ \A r \in Runs \ {run} : local'[r] = local[r]
      /\ local'[run].round = local[run].round /\ local'[run].params = local[run].params
      /\ local'[run].delta = new
  BY <1>1, <1>2, <1>3, OwnTypes DEF LocalType
<1>6. TypeInv' /\ \A r \in Runs \ {run} : LeftAlone(r)
  BY <1>1, <1>2, <1>5, OwnTypes, PrivateStep
<1>7. pc'[run] = "detect" /\ overlapped \subseteq overlapped'
  BY <1>1, <1>2, GoToLemma
<1>8. ProgressOf(run)' /\ WholeOf(run)' /\ IsolatedOf(run)'
  BY <1>1, <1>2, <1>5, <1>7, RoundKept DEF InRound, sharedVars
<1>9. AloneOf(run)'
  BY <1>1, <1>2, <1>4, <1>5, <1>7
     DEF RunInv, AloneOf, Remembered, Scored, SetUp, Looping, InRound, sharedVars
<1>10. QED
  BY <1>6, <1>8, <1>9 DEF StepKeeps, RunInv

LEMMA DetectStep ==
    ASSUME LifecycleInv, NEW run \in Runs, Detect(run)
    PROVE  StepKeeps(run)
<1> DEFINE n == local[run].round
           mine == 1..local[run].params.clients
           scored == { c \in mine : sentinel.last_round[c] < n }
           rounds == [c \in Clients |-> IF c \in scored THEN n ELSE sentinel.last_round[c]]
<1>1. PICK cache :
          /\ DOMAIN cache = DOMAIN sentinel.cache \cup {n}
          /\ cache[n] = { <<run, c>> : c \in scored }
          /\ \A q \in DOMAIN sentinel.cache \ {n} : cache[q] = sentinel.cache[q]
          /\ sentinel' = [sentinel EXCEPT !.last_round = rounds, !.cache = cache]
  BY DEF Detect
<1>2. /\ pc[run] = "detect" /\ GoTo(run, "impact")
      /\ "impact" \in Places \ Parked
      /\ UNCHANGED <<config, module, provisioned, checkpoints, rows, recorded, local>>
  BY DEF Detect, Places, Parked
<1>3. TypeInv /\ RunInv(run) /\ SharedType
  BY SharedTypes DEF LifecycleInv
<1>4. n \in 1..MaxRounds /\ n \in 0..MaxRounds
  <2>1. pc[run] \in InRound
    BY <1>2 DEF InRound
  <2>2. n \in 1..MaxRounds
    BY <1>3, <2>1, RoundFacts
  <2>3. QED
    BY <2>2
<1>5. /\ sentinel'.last_round = rounds /\ sentinel'.history = sentinel.history
      /\ sentinel'.cache = cache
      /\ sentinel' = [last_round |-> rounds, cache |-> cache, history |-> sentinel.history]
  BY <1>1, <1>3 DEF SharedType, SentinelType
<1>6. rounds \in [Clients -> 0..MaxRounds]
  BY <1>3, <1>4 DEF SharedType, SentinelType
<1>7. SharedType'
  <2>1. \A c \in scored : c \in Clients
    BY <1>3, Bounds DEF Clients
  <2>2. \A q \in DOMAIN cache : cache[q] \subseteq Runs \X Clients
    <3>1. cache[n] \subseteq Runs \X Clients
      BY <1>1, <2>1
    <3>2. QED
      BY <1>1, <1>3, <3>1 DEF SharedType, SentinelType
  <2>3. SentinelType'
    BY <1>1, <1>3, <1>4, <1>5, <1>6, <2>2 DEF SharedType, SentinelType
  <2>4. QED
    BY <1>2, <1>3, <2>3 DEF SharedType, RegistryType
<1>8. TypeInv' /\ \A r \in Runs \ {run} : LeftAlone(r)
  BY <1>2, <1>3, <1>7, OwnTypes, SharingStep
<1>9. pc'[run] = "impact" /\ overlapped \subseteq overlapped'
  BY <1>2, <1>3, GoToLemma
<1>10. ProgressOf(run)' /\ WholeOf(run)' /\ IsolatedOf(run)'
  BY <1>2, <1>3, <1>9, RoundKept DEF InRound
<1>11. AloneOf(run)'
  <2> SUFFICES ASSUME run \notin overlapped PROVE AloneOf(run)'
    BY <1>9 DEF AloneOf
  <2>1. \A c \in mine : sentinel.last_round[c] = n - 1
    BY <1>2, <1>3, RoundFacts DEF Scored, InRound
  <2>2. \A c \in mine : c \in Clients
    BY <1>3, Bounds DEF Clients
  <2>3. \A c \in mine : rounds[c] = n
    BY <1>4, <2>1, <2>2
  <2>4. Scored(run)' = n /\ Remembered(run)' = Remembered(run)
    BY <1>2, <1>9 DEF Scored, Remembered, InRound
  <2>5. /\ sentinel.history = [i \in 1..Remembered(run) |-> <<run, i>>]
        /\ local[run].delta = Own(run, n)
    BY <1>2, <1>3 DEF RunInv, AloneOf, Looping, InRound
  <2>6. \A c \in 1..local'[run].params.clients : sentinel'.last_round[c] = Scored(run)'
    BY <1>2, <1>5, <2>3, <2>4
  <2>7. sentinel'.history = [i \in 1..Remembered(run)' |-> <<run, i>>]
    BY <1>5, <2>4, <2>5
  <2>8. HasImpact(run, local[run].round)'
    <3>1. scored = mine
      BY <1>4, <2>1
    <3>2. n \in DOMAIN cache /\ { <<run, c>> : c \in mine } \subseteq cache[n]
      BY <1>1, <3>1
    <3>3. QED
      BY <1>2, <1>5, <3>2 DEF HasImpact
  <2>9. QED
    BY <1>2, <1>9, <2>5, <2>6, <2>7, <2>8 DEF AloneOf
<1>12. QED
  BY <1>8, <1>10, <1>11 DEF StepKeeps, RunInv

LEMMA EstimateImpactStep ==
    ASSUME LifecycleInv, NEW run \in Runs, EstimateImpact(run)
    PROVE  StepKeeps(run)
<1> DEFINE n == local[run].round
<1>1. /\ pc[run] = "impact" /\ GoTo(run, "aggregate")
      /\ "aggregate" \in Places \ Parked
      /\ recorded' = recorded \cup {<<run, n>>}
      /\ UNCHANGED <<config, sharedVars, rows, local>>
  BY DEF EstimateImpact, Places, Parked
<1>2. TypeInv /\ RunInv(run) /\ SharedType
  BY SharedTypes DEF LifecycleInv
<1>3. n \in 1..MaxRounds
  BY <1>1, <1>2, RoundFacts DEF InRound
<1>4. SharedType'
  BY <1>1, <1>2, <1>3 DEF SharedType, RegistryType, SentinelType, sharedVars, Deltas
<1>5. TypeInv' /\ \A r \in Runs \ {run} : LeftAlone(r)
  BY <1>1, <1>2, <1>4, OwnTypes, SharingStep DEF sharedVars
<1>6. pc'[run] = "aggregate" /\ overlapped \subseteq overlapped'
  BY <1>1, <1>2, GoToLemma
<1>7. ProgressOf(run)' /\ WholeOf(run)' /\ IsolatedOf(run)'
  BY <1>1, <1>2, <1>6, RoundKept DEF InRound, sharedVars
<1>8. AloneOf(run)'
  BY <1>1, <1>2, <1>6
     DEF RunInv, AloneOf, Remembered, Scored, SetUp, Looping, InRound, sharedVars
<1>9. QED
  BY <1>5, <1>7, <1>8 DEF StepKeeps, RunInv

\* One more own delta on the weights of the round before.
LEMMA NextExpected ==
    ASSUME TypeInv, NEW run \in Runs, NEW n \in 1..MaxRounds,
           <<run, 0>> \in DOMAIN checkpoints,
           NEW base, base = Expected(run, n - 1)
    PROVE  Plus(base, Own(run, n)) = Expected(run, n)
<1>1. checkpoints[<<run, 0>>] \in Weights
  BY SharedTypes DEF SharedType, RegistryType
<1>2. ASSUME NEW d \in Deltas
      PROVE  base[d] + Own(run, n)[d] = Expected(run, n)[d]
  <2>1. checkpoints[<<run, 0>>][d] \in Int
    BY <1>1 DEF Weights
  <2>2. /\ base[d] = checkpoints[<<run, 0>>][d] + IF d[1] = run /\ d[2] <= n - 1 THEN 1 ELSE 0
        /\ Expected(run, n)[d] = checkpoints[<<run, 0>>][d] + IF d[1] = run /\ d[2] <= n THEN 1 ELSE 0
        /\ Own(run, n)[d] = IF d = <<run, n>> THEN 1 ELSE 0
    BY DEF Expected, Own
  <2>3. d[2] \in Int /\ n \in Int /\ (d = <<run, n>> <=> d[1] = run /\ d[2] = n)
    BY LifecycleAssumption DEF Deltas
  <2>4. QED
    BY <2>1, <2>2, <2>3
<1>3. QED
  BY <1>2 DEF Plus, Expected

LEMMA AggregateStep ==
    ASSUME LifecycleInv, NEW run \in Runs, Aggregate(run)
    PROVE  StepKeeps(run)
<1> DEFINE n == local[run].round
           weights == CandidateWeights(run, n)
<1>1. /\ pc[run] = "aggregate" /\ GoTo(run, "check")
      /\ "check" \in Places \ Parked
      /\ module' = weights /\ SaveCheckpoint(<<run, n>>, weights)
      /\ local' = [local EXCEPT ![run].delta = NoDeltas]
      /\ UNCHANGED <<config, provisioned, sentinel, rows, recorded>>
  BY DEF Aggregate, Places, Parked
<1>2. TypeInv /\ RunInv(run) /\ SharedType
  BY SharedTypes DEF LifecycleInv
<1>3. /\ n \in 1..MaxRounds /\ n \in 0..MaxRounds /\ n - 1 \in 0..MaxRounds
      /\ n <= local[run].params.rounds
      /\ rows[run].current_round = n - 1 /\ rows[run].status # "COMPLETED"
      /\ \A q \in 0..n - 1 : <<run, q>> \in DOMAIN checkpoints
      /\ \A q \in 1..n - 1 : <<run, q>> \in recorded
  <2>1. pc[run] \in InRound
    BY <1>1 DEF InRound
  <2>2. n \in 1..MaxRounds
    BY <1>2, <2>1, RoundFacts
  <2>3. n \in 0..MaxRounds /\ n - 1 \in 0..MaxRounds
    BY <2>2, LifecycleAssumption
  <2>4. /\ n <= local[run].params.rounds
        /\ rows[run].current_round = n - 1 /\ rows[run].status # "COMPLETED"
    BY <1>2, <2>1, RoundFacts
  <2>5. /\ \A q \in 0..n - 1 : <<run, q>> \in DOMAIN checkpoints
        /\ \A q \in 1..n - 1 : <<run, q>> \in recorded
    BY <1>2, <2>1, RoundFacts
  <2>6. QED
    BY <2>2, <2>3, <2>4, <2>5
<1>4. /\ <<run, n>> \in recorded
      /\ <<run, n - 1>> \in DOMAIN checkpoints /\ <<run, 0>> \in DOMAIN checkpoints
  BY <1>1, <1>2, <1>3 DEF RunInv, ProgressOf
<1>5. /\ weights = Plus(checkpoints[<<run, n - 1>>], local[run].delta)
      /\ weights \in Weights
  <2>1. weights = Plus(checkpoints[<<run, n - 1>>], local[run].delta)
    BY DEF CandidateWeights
  <2>2. checkpoints[<<run, n - 1>>] \in Weights /\ local[run].delta \in Weights
    BY <1>2, <1>4, OwnTypes DEF SharedType, RegistryType, LocalType
  <2>3. QED
    BY <2>1, <2>2, WeightsLemma
<1>6. /\ local' \in [Runs -> LocalType] /\ \A r \in Runs \ {run} : local'[r] = local[r]
      /\ local'[run].round = n /\ local'[run].params = local[run].params
  BY <1>1, <1>2, OwnTypes, WeightsLemma DEF LocalType
<1> HIDE DEF n, weights
<1>7. /\ RegistryType' /\ DOMAIN checkpoints' = DOMAIN checkpoints \cup {<<run, n>>}
      /\ checkpoints'[<<run, n>>] = weights
      /\ \A v \in DOMAIN checkpoints : v # <<run, n>> => checkpoints'[v] = checkpoints[v]
      /\ \A r \in Runs \ {run}, q \in 0..MaxRounds :
             /\ <<r, q>> \in DOMAIN checkpoints' <=> <<r, q>> \in DOMAIN checkpoints
             /\ <<r, q>> \in DOMAIN checkpoints =>
                    checkpoints'[<<r, q>>] = checkpoints[<<r, q>>]
  <2>1. SaveCheckpoint(<<run, n>>, weights) /\ n \in 0..MaxRounds /\ weights \in Weights /\ TypeInv
    BY <1>1, <1>2, <1>3, <1>5
  <2>2. QED
    BY <2>1, SaveLemma
<1>8. SharedType'
  BY <1>1, <1>2, <1>5, <1>7 DEF SharedType, SentinelType
<1>9. TypeInv' /\ \A r \in Runs \ {run} : LeftAlone(r)
  BY <1>1, <1>2, <1>6, <1>7, <1>8, SharingStep
<1>10. pc'[run] = "check" /\ overlapped \subseteq overlapped'
  BY <1>1, <1>2, GoToLemma
<1>11. ProgressOf(run)' /\ WholeOf(run)'
  <2>1. Counted(run)' = n - 1 /\ Saved(run)' = n
    BY <1>6, <1>10 DEF Counted, Saved, InRound
  <2>2. pc'[run] \in Looping /\ pc'[run] \in InRound /\ pc'[run] \notin Before
    BY <1>10 DEF Looping, Before, SetUp, InRound
  <2>3. /\ \A q \in 0..n : <<run, q>> \in DOMAIN checkpoints'
        /\ <<run, 0>> \in DOMAIN checkpoints'
    BY <1>3, <1>4, <1>7
  <2>4. QED
    BY <1>1, <1>3, <1>4, <1>6, <1>10, <2>1, <2>2, <2>3 DEF ProgressOf, WholeOf
<1>12. IsolatedOf(run)'
  <2> SUFFICES ASSUME run \notin overlapped, NEW q \in 1..MaxRounds, <<run, q>> \in DOMAIN checkpoints'
               PROVE  checkpoints'[<<run, q>>] = Expected(run, q)'
    BY <1>10 DEF IsolatedOf
  <2>1. checkpoints'[<<run, 0>>] = checkpoints[<<run, 0>>] /\ Expected(run, q)' = Expected(run, q)
    <3>1. checkpoints'[<<run, 0>>] = checkpoints[<<run, 0>>]
      BY <1>3, <1>4, <1>7
    <3>2. QED
      BY <3>1 DEF Expected
  <2>2. CASE q # n
    <3>1. <<run, q>> \in DOMAIN checkpoints /\ checkpoints'[<<run, q>>] = checkpoints[<<run, q>>]
      BY <1>7, <2>2
    <3>2. QED
      BY <1>2, <2>1, <3>1 DEF RunInv, IsolatedOf
  <2>3. CASE q = n
    <3>1. checkpoints[<<run, n - 1>>] = Expected(run, n - 1)
      <4>1. CASE n = 1
        <5>1. checkpoints[<<run, 0>>] \in Weights
          BY <1>2, <1>4 DEF SharedType, RegistryType
        <5>2. \A d \in Deltas : checkpoints[<<run, 0>>][d] \in Int /\ d[2] \in Int /\ d[2] >= 1
          BY <5>1, LifecycleAssumption DEF Weights, Deltas
        <5>3. Expected(run, 0) = [d \in Deltas |-> checkpoints[<<run, 0>>][d]]
          BY <5>2 DEF Expected
        <5>4. QED
          BY <4>1, <5>1, <5>3 DEF Weights
      <4>2. CASE n # 1
        <5>1. n - 1 \in 1..MaxRounds
          BY <1>3, <4>2
        <5>2. QED
          BY <1>2, <1>4, <5>1 DEF RunInv, IsolatedOf
      <4>3. QED
        BY <4>1, <4>2
    <3>2. local[run].delta = Own(run, n)
      BY <1>1, <1>2 DEF RunInv, AloneOf, n
    <3>3. weights = Expected(run, n)
      BY <1>2, <1>3, <1>4, <1>5, <3>1, <3>2, NextExpected
    <3>4. QED
      BY <1>7, <2>1, <2>3, <3>3
  <2>4. QED
    BY <2>2, <2>3
<1>13. AloneOf(run)'
  BY <1>1, <1>2, <1>6, <1>10
     DEF RunInv, AloneOf, Remembered, Scored, SetUp, Looping, InRound, n
<1>14. QED
  BY <1>9, <1>11, <1>12, <1>13 DEF StepKeeps, RunInv

LEMMA CheckRecoveryStep ==
    ASSUME LifecycleInv, NEW run \in Runs, CheckRecovery(run)
    PROVE  StepKeeps(run)
<1> DEFINE n == local[run].round
<1>1. /\ pc[run] = "check" /\ GoTo(run, "advance")
      /\ "advance" \in Places \ Parked
      /\ module' = checkpoints[<<run, n>>]
      /\ sentinel' = [sentinel EXCEPT !.history = Append(sentinel.history, <<run, n>>)]
      /\ UNCHANGED <<config, provisioned, checkpoints, rows, recorded, local>>
  BY DEF CheckRecovery, Remember, Places, Parked
<1>2. TypeInv /\ RunInv(run) /\ SharedType
  BY SharedTypes DEF LifecycleInv
<1>3. n \in 1..MaxRounds /\ <<run, n>> \in DOMAIN checkpoints
  BY <1>1, <1>2, RoundFacts DEF InRound
<1>4. /\ sentinel'.last_round = sentinel.last_round /\ sentinel'.cache = sentinel.cache
      /\ sentinel'.history = Append(sentinel.history, <<run, n>>)
      /\ sentinel' = [last_round |-> sentinel.last_round, cache |-> sentinel.cache,
                      history |-> Append(sentinel.history, <<run, n>>)]
  BY <1>1, <1>2 DEF SharedType, SentinelType
<1>5. SharedType'
  <2>1. <<run, n>> \in Deltas
    BY <1>3 DEF Deltas
  <2>2. SentinelType'
    BY <1>2, <1>4, <2>1 DEF SharedType, SentinelType
  <2>3. QED
    BY <1>1, <1>2, <1>3, <2>2 DEF SharedType, RegistryType
<1>6. TypeInv' /\ \A r \in Runs \ {run} : LeftAlone(r)
  BY <1>1, <1>2, <1>5, OwnTypes, SharingStep
<1>7. pc'[run] = "advance" /\ overlapped \subseteq overlapped'
  BY <1>1, <1>2, GoToLemma
<1>8. ProgressOf(run)' /\ WholeOf(run)' /\ IsolatedOf(run)'
  <2>1. <<run, n>> \in recorded
    BY <1>1, <1>2 DEF RunInv, ProgressOf
  <2>2. QED
    BY <1>1, <1>2, <1>7, <2>1, RoundKept DEF InRound
<1>9. AloneOf(run)'
  <2> SUFFICES ASSUME run \notin overlapped PROVE AloneOf(run)'
    BY <1>7 DEF AloneOf
  <2>1. Remembered(run) = n - 1 /\ Scored(run) = n /\ Remembered(run)' = n /\ Scored(run)' = n
    BY <1>1, <1>7 DEF Remembered, Scored, InRound
  <2>2. /\ sentinel.history = [i \in 1..n - 1 |-> <<run, i>>]
        /\ \A c \in 1..local[run].params.clients : sentinel.last_round[c] = n
    BY <1>1, <1>2, <2>1 DEF RunInv, AloneOf, Looping, InRound
  <2>3. Append(sentinel.history, <<run, n>>) = [i \in 1..n |-> <<run, i>>]
    BY <1>3, <2>2
  <2>4. QED
    BY <1>1, <1>4, <1>7, <2>1, <2>2, <2>3 DEF AloneOf
<1>10. QED
  BY <1>6, <1>8, <1>9 DEF StepKeeps, RunInv

LEMMA AdvanceStep ==
    ASSUME LifecycleInv, NEW run \in Runs, Advance(run)
    PROVE  StepKeeps(run)
<1> DEFINE n == local[run].round
<1>1. /\ pc[run] = "advance" /\ GoTo(run, "next") /\ "next" \in Places
      /\ UNCHANGED <<config, sharedVars, recorded, local>>
      /\ rows' = [rows EXCEPT ![run].current_round = n]
  BY DEF Advance, Places
<1>2. TypeInv /\ RunInv(run)
  BY DEF LifecycleInv
<1>3. /\ n \in 1..MaxRounds /\ n <= local[run].params.rounds /\ <<run, n>> \in DOMAIN checkpoints
      /\ rows[run].status # "COMPLETED"
      /\ \A q \in 0..n - 1 : <<run, q>> \in DOMAIN checkpoints
      /\ \A q \in 1..n - 1 : <<run, q>> \in recorded
  <2>1. pc[run] \in InRound
    BY <1>1 DEF InRound
  <2>2. QED
    BY <1>1, <1>2, <2>1, RoundFacts
<1>4. <<run, n>> \in recorded /\ \A q \in 0..MaxRounds :
          <<run, q>> \in DOMAIN checkpoints => <<run, 0>> \in DOMAIN checkpoints
  BY <1>1, <1>2 DEF RunInv, ProgressOf
<1>5. n \in 0..MaxRounds
  BY <1>3
<1> HIDE DEF n
<1>6. /\ rows' \in [Runs -> RowType] /\ \A r \in Runs \ {run} : rows'[r] = rows[r]
      /\ rows'[run].current_round = n /\ rows'[run].status # "COMPLETED"
  BY <1>1, <1>2, <1>3, <1>5, OwnTypes DEF RowType
<1>7. TypeInv' /\ \A r \in Runs \ {run} : LeftAlone(r)
  BY <1>1, <1>2, <1>6, OwnTypes, PrivateStep
<1>8. pc'[run] = "next" /\ overlapped \subseteq overlapped'
  BY <1>1, <1>2, GoToLemma
<1>9. ProgressOf(run)'
  <2>1. Counted(run)' = n /\ Saved(run)' = n
    BY <1>1, <1>8 DEF Counted, Saved, InRound, n
  <2>2. pc'[run] \in Looping /\ pc'[run] \notin Before \cup InRound
    BY <1>8 DEF Looping, Before, SetUp, InRound
  <2>3. /\ \A q \in 0..n : <<run, q>> \in DOMAIN checkpoints
        /\ \A q \in 1..n : <<run, q>> \in recorded
    BY <1>3, <1>4
  <2>4. QED
    BY <1>1, <1>3, <1>4, <1>6, <1>8, <2>1, <2>2, <2>3 DEF ProgressOf, sharedVars, n
<1>10. WholeOf(run)' /\ IsolatedOf(run)'
  BY <1>1, <1>2, <1>6, <1>8, IsolatedKept DEF RunInv, WholeOf, sharedVars
<1>11. AloneOf(run)'
  BY <1>1, <1>2, <1>8
     DEF RunInv, AloneOf, Remembered, Scored, SetUp, Looping, InRound, sharedVars
<1>12. QED
  BY <1>7, <1>9, <1>10, <1>11 DEF StepKeeps, RunInv

LEMMA CompleteStep ==
    ASSUME LifecycleInv, NEW run \in Runs, Complete(run)
    PROVE  StepKeeps(run)
<1> DEFINE n == local[run].round
<1>1. /\ pc[run] = "next" /\ n >= local[run].params.rounds
      /\ GoTo(run, "ended") /\ "ended" \in Places
      /\ UNCHANGED <<config, sharedVars, recorded, local>>
      /\ rows' = [rows EXCEPT ![run].status = "COMPLETED"]
  BY DEF Complete, RoundsOf, Places
<1>2. TypeInv /\ RunInv(run)
  BY DEF LifecycleInv
<1>3. /\ n <= local[run].params.rounds /\ rows[run].current_round = n
      /\ \A q \in 0..n : <<run, q>> \in DOMAIN checkpoints
      /\ \A q \in 1..n : <<run, q>> \in recorded
  BY <1>1, <1>2 DEF RunInv, ProgressOf, Counted, Saved, Looping, InRound
<1>4. n = local[run].params.rounds /\ n \in Nat
  BY <1>1, <1>2, <1>3, Bounds
<1>5. /\ rows' \in [Runs -> RowType] /\ \A r \in Runs \ {run} : rows'[r] = rows[r]
      /\ rows'[run].current_round = n
  BY <1>1, <1>2, <1>3, OwnTypes DEF RowType
<1>6. TypeInv' /\ \A r \in Runs \ {run} : LeftAlone(r)
  BY <1>1, <1>2, <1>5, OwnTypes, PrivateStep
<1>7. pc'[run] = "ended" /\ overlapped \subseteq overlapped'
  BY <1>1, <1>2, GoToLemma
<1>8. WholeOf(run)'
  BY <1>1, <1>3, <1>4, <1>5 DEF WholeOf, sharedVars
<1>9. ProgressOf(run)' /\ AloneOf(run)' /\ IsolatedOf(run)'
  <2>1. pc'[run] \notin Before \cup Looping
    BY <1>7 DEF Before, SetUp, Looping, InRound
  <2>2. QED
    BY <1>1, <1>2, <1>7, <2>1, IsolatedKept
       DEF RunInv, ProgressOf, AloneOf, SetUp, Looping, InRound, sharedVars
<1>10. QED
  BY <1>6, <1>8, <1>9 DEF StepKeeps, RunInv

-----------------------------------------------------------------------------
(* Failures. *)

LEMMA FailSetupStep ==
    ASSUME LifecycleInv, NEW run \in Runs, FailSetup(run)
    PROVE  StepKeeps(run)
<1>1. /\ pc[run] \in SetUp /\ GoTo(run, "ended") /\ "ended" \in Places
      /\ UNCHANGED <<config, sharedVars, rows, recorded, local>>
  BY DEF FailSetup, SetUp, Places
<1>2. TypeInv /\ RunInv(run)
  BY DEF LifecycleInv
<1>3. TypeInv' /\ \A r \in Runs \ {run} : LeftAlone(r)
  BY <1>1, <1>2, OwnTypes, PrivateStep
<1>4. pc'[run] = "ended" /\ overlapped \subseteq overlapped'
  BY <1>1, <1>2, GoToLemma
<1>5. rows[run].status # "COMPLETED"
  BY <1>1, <1>2 DEF RunInv, ProgressOf, SetUp
<1>6. QED
  BY <1>1, <1>2, <1>3, <1>4, <1>5, EndKept DEF StepKeeps, sharedVars

LEMMA FailRoundStep ==
    ASSUME LifecycleInv, NEW run \in Runs, FailRound(run)
    PROVE  StepKeeps(run)
<1> DEFINE n == local[run].round
<1>1. /\ pc[run] \in Looping /\ GoTo(run, "failing")
      /\ "failing" \in Places \ Parked
      /\ module' = module \/ (pc[run] = "next" /\ module' = checkpoints[<<run, n>>])
      /\ local' = [local EXCEPT ![run].trained = NoDeltas, ![run].delta = NoDeltas]
      /\ UNCHANGED <<config, provisioned, checkpoints, sentinel, rows, recorded>>
  <2>1. /\ pc[run] \in {"next", "train", "subtract", "detect", "impact", "aggregate", "check", "advance"}
        /\ module' \in IF pc[run] = "next" THEN {module, checkpoints[<<run, n>>]} ELSE {module}
        /\ GoTo(run, "failing")
        /\ local' = [local EXCEPT ![run].trained = NoDeltas, ![run].delta = NoDeltas]
        /\ UNCHANGED <<config, provisioned, checkpoints, sentinel, rows, recorded>>
    BY DEF FailRound
  <2>2. pc[run] \in Looping
    BY <2>1 DEF Looping, InRound
  <2>3. "failing" \in Places \ Parked
    BY DEF Places, Parked
  <2>4. module' = module \/ (pc[run] = "next" /\ module' = checkpoints[<<run, n>>])
    BY <2>1
  <2>5. QED
    BY <2>1, <2>2, <2>3, <2>4
<1>2. TypeInv /\ RunInv(run) /\ SharedType
  BY SharedTypes DEF LifecycleInv
<1>3. pc[run] = "next" => <<run, n>> \in DOMAIN checkpoints
  <2>1. pc[run] = "next" => Saved(run) = n /\ pc[run] \in Looping
    BY DEF Saved, Looping, InRound
  <2>2. n \in 0..n
    BY <1>2, Bounds
  <2>3. QED
    BY <1>2, <2>1, <2>2 DEF RunInv, ProgressOf
<1>4. /\ local' \in [Runs -> LocalType] /\ \A r \in Runs \ {run} : local'[r] = local[r]
  BY <1>1, <1>2, OwnTypes, WeightsLemma DEF LocalType
<1>5. SharedType'
  BY <1>1, <1>2, <1>3 DEF SharedType, RegistryType, SentinelType
<1>6. TypeInv' /\ \A r \in Runs \ {run} : LeftAlone(r)
  BY <1>1, <1>2, <1>4, <1>5, SharingStep
<1>7. pc'[run] = "failing" /\ overlapped \subseteq overlapped'
  BY <1>1, <1>2, GoToLemma
<1>8. rows[run].status # "COMPLETED"
  BY <1>1, <1>2 DEF RunInv, ProgressOf, Looping, InRound
<1>9. QED
  BY <1>1, <1>2, <1>6, <1>7, <1>8, EndKept DEF StepKeeps

LEMMA RecordFailureStep ==
    ASSUME LifecycleInv, NEW run \in Runs, RecordFailure(run)
    PROVE  StepKeeps(run)
<1>1. /\ pc[run] = "failing" /\ GoTo(run, "ended") /\ "ended" \in Places
      /\ UNCHANGED <<config, sharedVars, recorded, local>>
      /\ rows' = [rows EXCEPT ![run] = [rows[run] EXCEPT !.status = "FAILED"]]
  BY DEF RecordFailure, FailedRow, Places
<1>2. TypeInv /\ RunInv(run)
  BY DEF LifecycleInv
<1>3. /\ rows' \in [Runs -> RowType] /\ \A r \in Runs \ {run} : rows'[r] = rows[r]
      /\ rows'[run].status # "COMPLETED"
  BY <1>1, <1>2, OwnTypes DEF RowType
<1>4. TypeInv' /\ \A r \in Runs \ {run} : LeftAlone(r)
  BY <1>1, <1>2, <1>3, OwnTypes, PrivateStep
<1>5. pc'[run] = "ended" /\ overlapped \subseteq overlapped'
  BY <1>1, <1>2, GoToLemma
<1>6. QED
  BY <1>1, <1>2, <1>3, <1>4, <1>5, EndKept DEF StepKeeps, sharedVars

LEMMA LoseFailureStep ==
    ASSUME LifecycleInv, NEW run \in Runs, LoseFailure(run)
    PROVE  StepKeeps(run)
<1>1. /\ pc[run] = "failing" /\ GoTo(run, "lost") /\ "lost" \in Places
      /\ UNCHANGED <<config, sharedVars, rows, recorded, local>>
  BY DEF LoseFailure, Places
<1>2. TypeInv /\ RunInv(run)
  BY DEF LifecycleInv
<1>3. TypeInv' /\ \A r \in Runs \ {run} : LeftAlone(r)
  BY <1>1, <1>2, OwnTypes, PrivateStep
<1>4. pc'[run] = "lost" /\ overlapped \subseteq overlapped'
  BY <1>1, <1>2, GoToLemma
<1>5. rows[run].status # "COMPLETED"
  BY <1>1, <1>2 DEF RunInv, ProgressOf
<1>6. QED
  BY <1>1, <1>2, <1>3, <1>4, <1>5, EndKept DEF StepKeeps, sharedVars

-----------------------------------------------------------------------------
(* The results. *)

\* At every place of a run's thread its row, its checkpoints and its impacts are as
\* far as the thread is, and a run that has met no other finds in the shared module
\* and the shared Sentinel what it has put there (run_simulation, _run_round).
THEOREM LifecycleInvariant == LifecycleSpec => []LifecycleInv
<1>1. LifecycleInit => LifecycleInv
  <2> SUFFICES ASSUME LifecycleInit PROVE LifecycleInv
    OBVIOUS
  <2>1. MaxRounds \in Nat /\ MaxClients \in Nat /\ config \in Configs
    BY LifecycleAssumption DEF LifecycleInit
  <2>2. config.clients \in 1..MaxClients
    BY <2>1 DEF Configs
  <2>3. SharedType
    <3>1. module \in Weights /\ provisioned \subseteq Clients
      BY <2>1, <2>2, WeightsLemma DEF LifecycleInit, Clients
    <3>2. RegistryType /\ DOMAIN checkpoints = {}
      BY DEF LifecycleInit, RegistryType
    <3>3. SentinelType
      BY <2>1 DEF LifecycleInit, SentinelType, NewSentinel
    <3>4. QED
      BY <3>1, <3>2, <3>3 DEF SharedType, LifecycleInit
  <2>4. rows \in [Runs -> RowType] /\ \A r \in Runs : rows[r] = NoRow
    BY <2>1 DEF LifecycleInit, RowType, NoRow
  <2>5. local \in [Runs -> LocalType] /\ \A r \in Runs : local[r].round = 0
    BY <2>1, WeightsLemma DEF LifecycleInit, LocalType, NoLocals
  <2>6. pc \in [Runs -> Places] /\ \A r \in Runs : pc[r] = "none"
    BY DEF LifecycleInit, Places
  <2>7. TypeInv
    BY <2>1, <2>3, <2>4, <2>5, <2>6
       DEF TypeInv, LifecycleTypeOK, SharedType, RegistryType, SentinelType, RowType, LocalType
  <2>8. ASSUME NEW r \in Runs PROVE RunInv(r)
    <3>1. \A q \in 0..MaxRounds : <<r, q>> \notin DOMAIN checkpoints
      BY DEF LifecycleInit
    <3>2. /\ rows[r].current_round = 0 /\ rows[r].status = "ABSENT"
      BY <2>4 DEF NoRow
    <3>3. pc[r] = "none" /\ pc[r] \notin SetUp \cup Looping /\ Counted(r) = 0
      BY <2>5, <2>6 DEF SetUp, Looping, InRound, Counted
    <3>4. ProgressOf(r)
      BY <2>5, <3>1, <3>2, <3>3 DEF ProgressOf, Looping, InRound
    <3>5. WholeOf(r) /\ AloneOf(r) /\ IsolatedOf(r)
      BY <2>1, <3>1, <3>2, <3>3 DEF WholeOf, AloneOf, IsolatedOf
    <3>6. QED
      BY <3>4, <3>5 DEF RunInv
  <2>9. QED
    BY <2>7, <2>8 DEF LifecycleInv
<1>2. ASSUME LifecycleInv, [LifecycleNext]_lifecycleVars PROVE LifecycleInv'
  <2>1. CASE UNCHANGED lifecycleVars
    <3>1. TypeInv'
      BY <1>2, <2>1 DEF LifecycleInv, TypeInv, LifecycleTypeOK, lifecycleVars, sharedVars
    <3>2. \A r \in Runs : LeftAlone(r)
      BY <2>1 DEF LeftAlone, lifecycleVars, sharedVars
    <3>3. QED
      BY <1>2, <3>1, <3>2, OthersKeepInv DEF LifecycleInv
  <2>2. ASSUME NEW run \in Runs, Request(run) \/ Work(run) PROVE LifecycleInv'
    <3>1. StepKeeps(run)
      BY <1>2, <2>2, ApplyOverridesStep, QueueStep, ReadConfigStep, OpenRowStep, ProvisionStep,
         InitializeModelStep, LoadCheckpointStep, TrainStep, SubtractStep, DetectStep,
         EstimateImpactStep, AggregateStep, CheckRecoveryStep, AdvanceStep, CompleteStep,
         FailSetupStep, FailRoundStep, RecordFailureStep, LoseFailureStep DEF Request, Work
    <3>2. ASSUME NEW r \in Runs PROVE RunInv(r)'
      <4>1. CASE r = run
        BY <3>1, <4>1 DEF StepKeeps
      <4>2. CASE r # run
        BY <1>2, <3>1, <4>2, OthersKeepInv DEF LifecycleInv, StepKeeps
      <4>3. QED
        BY <4>1, <4>2
    <3>3. QED
      BY <3>1, <3>2 DEF LifecycleInv, StepKeeps
  <2>3. QED
    BY <1>2, <2>1, <2>2 DEF LifecycleNext
<1>3. QED
  BY <1>1, <1>2, PTL DEF LifecycleSpec

\* Every variable keeps its type, for any number of runs.
THEOREM LifecycleTypeCorrect == LifecycleSpec => []LifecycleTypeOK
<1>1. LifecycleInv => LifecycleTypeOK
  BY DEF LifecycleInv, TypeInv
<1>2. QED
  BY <1>1, LifecycleInvariant, PTL

\* A run that has met no other finds the impact of each of its updates, however
\* many rounds the runs before it put into the Sentinel (reset, estimate_impact).
THEOREM LoneRunsFindTheirImpacts == LifecycleSpec => []AloneFindsItsImpacts
<1>1. LifecycleInv => AloneFindsItsImpacts
  BY DEF LifecycleInv, RunInv, AloneOf, AloneFindsItsImpacts
<1>2. QED
  BY <1>1, LifecycleInvariant, PTL

\* A completed run has all the rounds it read at its start, whatever requests came
\* later (run_simulation's total_rounds).
THEOREM CompletedRunsAreWhole == LifecycleSpec => []CompletedRunIsWhole
<1>1. LifecycleInv => CompletedRunIsWhole
  BY DEF LifecycleInv, RunInv, WholeOf, CompletedRunIsWhole
<1>2. QED
  BY <1>1, LifecycleInvariant, PTL

\* A run that meets no other publishes its initial model plus its own deltas, each
\* once, whatever ran before it (train_clients, client.train, aggregate).
THEOREM LoneRunsAreIsolated == LifecycleSpec => []AloneMeansIsolated
<1>1. LifecycleInv => AloneMeansIsolated
  BY DEF LifecycleInv, RunInv, IsolatedOf, Expected, AloneMeansIsolated
<1>2. QED
  BY <1>1, LifecycleInvariant, PTL

\* A run that meets no other is judged by its own history alone (reset,
\* update_reputation, _record_round).
THEOREM LoneRunsAreRemembered == LifecycleSpec => []AloneMeansRemembered
<1>1. LifecycleInv => AloneMeansRemembered
  <2> SUFFICES ASSUME LifecycleInv, NEW r \in Runs \ overlapped, pc[r] = "advance"
               PROVE  /\ sentinel.history = [i \in 1..local[r].round |-> <<r, i>>]
                      /\ \A c \in 1..local[r].params.clients :
                             sentinel.last_round[c] = local[r].round
    BY DEF AloneMeansRemembered
  <2>1. Remembered(r) = local[r].round /\ Scored(r) = local[r].round
    BY DEF Remembered, Scored, InRound
  <2>2. AloneOf(r) /\ pc[r] \in SetUp \cup Looping
    BY DEF LifecycleInv, RunInv, Looping, InRound
  <2>3. QED
    BY <2>1, <2>2 DEF AloneOf
<1>2. QED
  BY <1>1, LifecycleInvariant, PTL
=============================================================================
