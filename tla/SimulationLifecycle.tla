------------------------ MODULE SimulationLifecycle ------------------------
(***************************************************************************)
(* Runs that share one process: the POST /simulations handler and          *)
(* SimulationService.start_simulation, the worker threads they start, and  *)
(* the three adapters and the configuration object all of them share       *)
(* (backend/main.py builds one of each).                                   *)
(*                                                                         *)
(* A run's own steps are coarse here: RoundPipeline has their detail.  What *)
(* counts is what they read and write in the shared objects.  One client    *)
(* stands for all of a run when it trains; a model is how often each run's  *)
(* delta of each round is in it, beyond the weights the process began with. *)
(***************************************************************************)
EXTENDS Integers, Sequences

CONSTANTS
    Runs,
    MaxRounds,     \* bound on round_count
    MaxClients,    \* bound on client_count
    Overrides      \* what a request may put into the configuration

Configs == [rounds : 1..MaxRounds, clients : 1..MaxClients]

ASSUME LifecycleAssumption ==
    /\ MaxRounds \in Nat \ {0} /\ MaxClients \in Nat \ {0}
    /\ Overrides \subseteq Configs /\ Overrides # {}

Clients == 1..MaxClients
Deltas == Runs \X (1..MaxRounds)

VARIABLES
    config,        \* the AppConfig
    module,        \* P1: the weights in the one nn.Module
    provisioned,   \* P1: the clients of the ClientManager
    checkpoints,   \* P1: the registry, <<run, round>> -> weights
    sentinel,      \* P3: the Sentinel and the adapter's cache
    rows,          \* the SimulationRun table
    recorded,      \* the <<run, round>> with impact rows
    pc,            \* run -> where its request or its thread is
    local,         \* run -> the locals of run_simulation and _run_round
    overlapped     \* history variable: runs that shared the adapters in time

sharedVars == <<module, provisioned, checkpoints, sentinel>>
lifecycleVars == <<config, sharedVars, rows, recorded, pc, local, overlapped>>

NoDeltas == [d \in Deltas |-> 0]
Plus(v, w)  == [d \in Deltas |-> v[d] + w[d]]
Minus(v, w) == [d \in Deltas |-> v[d] - w[d]]
Own(run, round) == [d \in Deltas |-> IF d = <<run, round>> THEN 1 ELSE 0]

\* cache: round -> the updates, as <<run, client>>, whose impact it holds.
NewSentinel == [last_round |-> [c \in Clients |-> 0], cache |-> <<>>, history |-> <<>>]
NoRow == [status |-> "ABSENT", round_count |-> 0, current_round |-> 0]
NoLocals(c) == [params |-> c, background |-> FALSE, round |-> 0,
                trained |-> NoDeltas, delta |-> NoDeltas]

\* The process after its start-up: adapters built, clients provisioned.
LifecycleInit ==
    /\ config \in Overrides
    /\ module = NoDeltas
    /\ provisioned = 1..config.clients
    /\ checkpoints = <<>>
    /\ sentinel = NewSentinel
    /\ rows = [r \in Runs |-> NoRow]
    /\ recorded = {}
    /\ pc = [r \in Runs |-> "none"]
    /\ local = [r \in Runs |-> NoLocals(config)]
    /\ overlapped = {}

-----------------------------------------------------------------------------
(* Helpers. An operator marked Mutant is a slip the code could have had. *)

\* Where a run is before its thread enters run_simulation and after it left it.
Parked == {"none", "create", "queued", "ended", "lost"}
Active(r) == pc[r] \notin Parked

\* run moves on to a place; runs that are active together overlap.
GoTo(run, place) ==
    /\ pc' = [pc EXCEPT ![run] = place]
    /\ overlapped' = overlapped \cup
           { r \in Runs : Active(r)' /\ \E s \in Runs \ {r} : Active(s)' }

\* Mutant: the range of the loop is one too long.
RoundsInclusive(run) == local[run].params.rounds + 1

\* Mutant: the loop looks at the shared configuration again.
RoundsOfConfig(run) == config.rounds

\* total_rounds, read once.
RoundsOf(run) == local[run].params.rounds

\* sen_imp_map[update_id] finds every update this run sent in this round.
HasImpact(run, round) ==
    /\ round \in DOMAIN sentinel.cache
    /\ { <<run, c>> : c \in 1..local[run].params.clients } \subseteq sentinel.cache[round]

\* Mutant: the Sentinel of the run before is kept.
SentinelKept == sentinel

\* reset: a new Sentinel and an empty cache.
ResetSentinel == NewSentinel

\* Candidates are named after their run; initial models after a fresh uuid.
SaveCheckpoint(version, weights) ==
    checkpoints' = [v \in DOMAIN checkpoints \cup {version} |->
                       IF v = version THEN weights ELSE checkpoints[v]]

\* Mutant: every round starts from the initial model.
CandidateOnInitial(run, round) == Plus(checkpoints[<<run, 0>>], local[run].delta)

\* aggregate: the checkpoint the round started from, plus the delta.
CandidateWeights(run, round) == Plus(checkpoints[<<run, round - 1>>], local[run].delta)

\* Mutant: the history holds one record.
RememberLast(history, run, round) == <<<<run, round>>>>

\* _record_round; the window of the decision engine is longer than a run here.
Remember(history, run, round) == Append(history, <<run, round>>)
-----------------------------------------------------------------------------
(* The request: start_simulation in the handler's thread. *)

\* The overrides go into the shared configuration.
ApplyOverrides(run) ==
    /\ pc[run] = "none"
    /\ \E c \in Overrides, b \in BOOLEAN :
           /\ config' = c
           /\ local' = [local EXCEPT ![run].background = b]
    /\ GoTo(run, "create")
    /\ UNCHANGED <<sharedVars, rows, recorded>>

\* A background run gets its row now, from the configuration as it is now.
CreatePending(run) ==
    /\ pc[run] = "create" /\ local[run].background
    /\ rows' = [rows EXCEPT ![run] = [NoRow EXCEPT !.status = "PENDING",
                                              !.round_count = config.rounds]]
    /\ GoTo(run, "queued")
    /\ UNCHANGED <<config, sharedVars, recorded, local>>

RunInline(run) ==
    /\ pc[run] = "create" /\ ~local[run].background
    /\ GoTo(run, "queued")
    /\ UNCHANGED <<config, sharedVars, rows, recorded, local>>

(* The run, in its worker thread or in the handler's. *)

\* run_simulation reads its parameters and resets the Sentinel.
ReadConfig(run) ==
    /\ pc[run] = "queued"
    /\ local' = [local EXCEPT ![run].params = config, ![run].background = FALSE]
    /\ sentinel' = ResetSentinel
    /\ GoTo(run, "open")
    /\ UNCHANGED <<config, module, provisioned, checkpoints, rows, recorded>>

\* Create the row of an inline run; RUNNING.
OpenRow(run) ==
    /\ pc[run] = "open"
    /\ rows' = [rows EXCEPT ![run] =
           IF @.status = "ABSENT"
           THEN [NoRow EXCEPT !.status = "RUNNING", !.round_count = local[run].params.rounds]
           ELSE [@ EXCEPT !.status = "RUNNING"]]
    /\ GoTo(run, "provision")
    /\ UNCHANGED <<config, sharedVars, recorded, local>>

\* provision_clients: a new ClientManager.
Provision(run) ==
    /\ pc[run] = "provision"
    /\ provisioned' = 1..local[run].params.clients
    /\ GoTo(run, "initialize")
    /\ UNCHANGED <<config, module, checkpoints, sentinel, rows, recorded, local>>

\* The initial model is whatever the module holds.
InitialWeights == module

InitializeModel(run) ==
    /\ pc[run] = "initialize"
    /\ provisioned' = 1..local[run].params.clients
    /\ SaveCheckpoint(<<run, 0>>, InitialWeights)
    /\ GoTo(run, "next")
    /\ UNCHANGED <<config, module, sentinel, rows, recorded, local>>

\* The round loop; train_clients loads the checkpoint and finds its clients.
LoadCheckpoint(run) ==
    /\ pc[run] = "next" /\ local[run].round < RoundsOf(run)
    /\ 1..local[run].params.clients \subseteq provisioned
    /\ module' = checkpoints[<<run, local[run].round>>]
    /\ local' = [local EXCEPT ![run].round = @ + 1]
    /\ GoTo(run, "train")
    /\ UNCHANGED <<config, provisioned, checkpoints, sentinel, rows, recorded>>

\* client.train: a deep copy of the module is trained.
Train(run) ==
    /\ pc[run] = "train"
    /\ local' = [local EXCEPT ![run].trained = Plus(module, Own(run, local[run].round))]
    /\ GoTo(run, "subtract")
    /\ UNCHANGED <<config, sharedVars, rows, recorded>>

\* client.train: the delta is taken against the module as it is by then.
Subtract(run) ==
    /\ pc[run] = "subtract"
    /\ local' = [local EXCEPT ![run].delta = Minus(local[run].trained, module),
                            ![run].trained = NoDeltas]
    /\ GoTo(run, "detect")
    /\ UNCHANGED <<config, sharedVars, rows, recorded>>

\* detect: clients whose reputation is already past the round fail, and their
\* results have no update id; the cache entry of the round is written anew.
Detect(run) ==
    /\ pc[run] = "detect"
    /\ LET round  == local[run].round
           mine   == 1..local[run].params.clients
           scored == { c \in mine : sentinel.last_round[c] < round }
       IN  sentinel' = [sentinel EXCEPT
               !.last_round = [c \in Clients |-> IF c \in scored THEN round ELSE @[c]],
               !.cache = [q \in DOMAIN @ \cup {round} |->
                             IF q = round THEN { <<run, c>> : c \in scored } ELSE @[q]]]
    /\ GoTo(run, "impact")
    /\ UNCHANGED <<config, module, provisioned, checkpoints, rows, recorded, local>>

\* estimate_impact reads the cache of the round; the runner aligns by update.
EstimateImpact(run) ==
    /\ pc[run] = "impact"
    /\ HasImpact(run, local[run].round)
    /\ recorded' = recorded \cup {<<run, local[run].round>>}
    /\ GoTo(run, "aggregate")
    /\ UNCHANGED <<config, sharedVars, rows, local>>

Aggregate(run) ==
    /\ pc[run] = "aggregate"
    /\ module' = CandidateWeights(run, local[run].round)
    /\ SaveCheckpoint(<<run, local[run].round>>, CandidateWeights(run, local[run].round))
    /\ local' = [local EXCEPT ![run].delta = NoDeltas]
    /\ GoTo(run, "check")
    /\ UNCHANGED <<config, provisioned, sentinel, rows, recorded>>

\* evaluate and check_recovery: the decision engine's history is shared too.
CheckRecovery(run) ==
    /\ pc[run] = "check"
    /\ module' = checkpoints[<<run, local[run].round>>]
    /\ sentinel' = [sentinel EXCEPT !.history = Remember(@, run, local[run].round)]
    /\ GoTo(run, "advance")
    /\ UNCHANGED <<config, provisioned, checkpoints, rows, recorded, local>>

Advance(run) ==
    /\ pc[run] = "advance"
    /\ rows' = [rows EXCEPT ![run].current_round = local[run].round]
    /\ GoTo(run, "next")
    /\ UNCHANGED <<config, sharedVars, recorded, local>>

Complete(run) ==
    /\ pc[run] = "next" /\ local[run].round >= RoundsOf(run)
    /\ rows' = [rows EXCEPT ![run].status = "COMPLETED"]
    /\ GoTo(run, "ended")
    /\ UNCHANGED <<config, sharedVars, recorded, local>>

\* Set-up raises before the try block: the thread logs it and ends.
FailSetup(run) ==
    /\ pc[run] \in {"open", "provision", "initialize"}
    /\ GoTo(run, "ended")
    /\ UNCHANGED <<config, sharedVars, rows, recorded, local>>

\* A round raises: a client or an impact that is not there, or anything else.
FailRound(run) ==
    /\ pc[run] \in {"next", "train", "subtract", "detect", "impact", "aggregate", "check", "advance"}
    /\ module' \in IF pc[run] = "next" THEN {module, checkpoints[<<run, local[run].round>>]}
                                       ELSE {module}
    /\ local' = [local EXCEPT ![run].trained = NoDeltas, ![run].delta = NoDeltas]
    /\ GoTo(run, "failing")
    /\ UNCHANGED <<config, provisioned, checkpoints, sentinel, rows, recorded>>

\* Mutant: the handler of the exception leaves the row alone.
FailedRowForgotten(row) == row

FailedRow(row) == [row EXCEPT !.status = "FAILED"]

RecordFailure(run) ==
    /\ pc[run] = "failing"
    /\ rows' = [rows EXCEPT ![run] = FailedRow(@)]
    /\ GoTo(run, "ended")
    /\ UNCHANGED <<config, sharedVars, recorded, local>>

\* The handler's own rollback, query or commit raises: the thread ends with the
\* row as it is.
LoseFailure(run) ==
    /\ pc[run] = "failing"
    /\ GoTo(run, "lost")
    /\ UNCHANGED <<config, sharedVars, rows, recorded, local>>

Request(run) == ApplyOverrides(run)

Work(run) ==
    \/ CreatePending(run) \/ RunInline(run) \/ ReadConfig(run) \/ OpenRow(run)
    \/ Provision(run) \/ InitializeModel(run) \/ LoadCheckpoint(run) \/ Train(run)
    \/ Subtract(run) \/ Detect(run) \/ EstimateImpact(run) \/ Aggregate(run)
    \/ CheckRecovery(run) \/ Advance(run) \/ Complete(run)
    \/ FailSetup(run) \/ FailRound(run) \/ RecordFailure(run) \/ LoseFailure(run)

LifecycleNext == \E run \in Runs : Request(run) \/ Work(run)

LifecycleSpec ==
    /\ LifecycleInit /\ [][LifecycleNext]_lifecycleVars
    /\ \A run \in Runs : WF_lifecycleVars(Work(run))
-----------------------------------------------------------------------------
Places == {"none", "create", "queued", "open", "provision", "initialize", "next", "train",
           "subtract", "detect", "impact", "aggregate", "check", "advance", "failing", "ended",
           "lost"}

Weights == [Deltas -> Int]

LifecycleTypeOK ==
    /\ config \in Configs
    /\ module \in Weights
    /\ provisioned \subseteq Clients
    /\ DOMAIN checkpoints \subseteq Runs \X (0..MaxRounds)
    /\ \A v \in DOMAIN checkpoints : checkpoints[v] \in Weights
    /\ sentinel.last_round \in [Clients -> 0..MaxRounds]
    /\ DOMAIN sentinel.cache \subseteq 1..MaxRounds
    /\ \A q \in DOMAIN sentinel.cache : sentinel.cache[q] \subseteq Runs \X Clients
    /\ sentinel.history \in Seq(Deltas)
    /\ rows \in [Runs -> [status : {"ABSENT", "PENDING", "RUNNING", "COMPLETED", "FAILED"},
                          round_count : 0..MaxRounds, current_round : 0..MaxRounds]]
    /\ recorded \subseteq Deltas
    /\ pc \in [Runs -> Places]
    /\ \A r \in Runs : local[r].params \in Configs /\ local[r].round \in 0..MaxRounds

\* A run that has met no other finds the impact of every update it sent, whatever
\* ran before it: the Sentinel refuses none of its clients for a round an earlier
\* run already scored, and the cache, keyed by the round alone, holds its own
\* results (reset, update_reputation, estimate_impact, _run_round's look-up).
AloneFindsItsImpacts ==
    \A r \in Runs \ overlapped : pc[r] = "impact" => HasImpact(r, local[r].round)

\* A completed run ran the number of rounds it read at its start, each recorded
\* and checkpointed, whatever later requests wrote into the shared configuration
\* (run_simulation's total_rounds).
CompletedRunIsWhole ==
    \A r \in Runs : rows[r].status = "COMPLETED" =>
        /\ rows[r].current_round = local[r].params.rounds
        /\ \A q \in 1..local[r].params.rounds :
               <<r, q>> \in DOMAIN checkpoints /\ <<r, q>> \in recorded

\* The weights a run publishes are its initial model plus its own deltas, each
\* round's exactly once, as long as no other run shared the adapters with it:
\* the one module every run loads, trains on and subtracts from leaks nothing
\* across the steps of a run (train_clients, client.train, aggregate).
AloneMeansIsolated ==
    \A r \in Runs \ overlapped : \A q \in 1..MaxRounds :
        <<r, q>> \in DOMAIN checkpoints =>
            checkpoints[<<r, q>>] = [d \in Deltas |->
                checkpoints[<<r, 0>>][d] + IF d[1] = r /\ d[2] <= q THEN 1 ELSE 0]

\* Without overlap the Sentinel remembers exactly the rounds of the run: its
\* reputations and the decision engine's history are neither lost nor foreign
\* when the run asks for a recovery decision (reset, update_reputation).
AloneMeansRemembered ==
    \A r \in Runs \ overlapped :
        pc[r] = "advance" =>
            /\ sentinel.history = [i \in 1..local[r].round |-> <<r, i>>]
            /\ \A c \in 1..local[r].params.clients : sentinel.last_round[c] = local[r].round

\* Every run that entered its round loop ends with a final status in its row,
\* however many others run beside it, unless the handler of its failure failed
\* itself (run_simulation's try and except).
StartedRunsSettle ==
    \A r \in Runs :
        (pc[r] = "next") ~> (rows[r].status \in {"COMPLETED", "FAILED"} \/ pc[r] = "lost")

\* "The same configuration should produce substantially reproducible results"
\* (engineering contract, section 49): every run starts from the weights the
\* process began with.
RunsStartAlike ==
    \A r \in Runs : <<r, 0>> \in DOMAIN checkpoints => checkpoints[<<r, 0>>] = NoDeltas
=============================================================================
