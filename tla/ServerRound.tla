----------------------------- MODULE ServerRound -----------------------------
(***************************************************************************)
(* core/federated/server.py: the stand-alone federated server with its     *)
(* client manager, aggregator, evaluator and checkpoint registry.  One     *)
(* caller at a time executes rounds; a round may fail in training, in the  *)
(* aggregation, in the evaluation or when its checkpoint is saved, and     *)
(* the caller may try again with other clients.  A call with no client or  *)
(* more clients than there are, or to a server without evaluation data, is *)
(* refused before it changes anything and is left out.                     *)
(*                                                                         *)
(* Weights are the set of updates added to the initial model, and whether  *)
(* every entry of every tensor is finite.                                  *)
(***************************************************************************)
EXTENDS Integers, Sequences, FiniteSets

CONSTANTS
    Clients,            \* clients that may be registered
    InitialVersions,    \* n for which a server may begin with "model_v<n>"
    MaxCalls            \* bound on the calls of execute_round*

ASSUME ServerAssumption ==
    /\ InitialVersions \subseteq Nat
    /\ MaxCalls \in Nat

UpdateIds == (1..MaxCalls) \X Clients
Weights == [updates : SUBSET UpdateIds, finite : BOOLEAN]

VARIABLES
    registered,       \* ClientManager._clients
    global_model,     \* the weights of the module
    checkpoints,      \* CheckpointManager: n -> the weights of "model_v<n>"
    current_round,
    current_version,  \* n of current_model_version
    initial_version,
    history,          \* RoundResults: the updates and the decisions of a round
    pc,               \* where the call is
    call,             \* its locals: clients, updates, decisions, previous_state
    calls,            \* calls made so far
    issued,           \* ids of all the updates clients have made
    save_refused      \* history variable: a checkpoint has been refused

callVars   == <<pc, call, calls>>
commitVars == <<checkpoints, current_round, current_version, initial_version, history>>
serverVars == <<registered, global_model, commitVars, callVars, issued, save_refused>>

Untouched == [updates |-> {}, finite |-> TRUE]
NoCall == [clients |-> {}, updates |-> {}, finite |-> TRUE, decisions |-> {},
           previous_state |-> Untouched]

\* __init__ snapshots the initial state under the version it was given.
ServerInit ==
    /\ registered \in SUBSET Clients
    /\ initial_version \in InitialVersions
    /\ global_model = Untouched
    /\ checkpoints = [n \in {initial_version} |-> Untouched]
    /\ current_round = 0
    /\ current_version = initial_version
    /\ history = <<>>
    /\ pc = "idle" /\ call = NoCall /\ calls = 0
    /\ issued = {}
    /\ save_refused = FALSE
-----------------------------------------------------------------------------
(* ClientManager, between rounds. *)

RegisterClient ==
    /\ pc = "idle"
    /\ \E c \in Clients \ registered : registered' = registered \cup {c}
    /\ UNCHANGED <<global_model, commitVars, callVars, issued, save_refused>>

RemoveClient ==
    /\ pc = "idle"
    /\ \E c \in registered : registered' = registered \ {c}
    /\ UNCHANGED <<global_model, commitVars, callVars, issued, save_refused>>
-----------------------------------------------------------------------------
(* _run_round. *)

\* Mutant: rounds count on from the version.
NextVersion == current_version + 1

TargetRound == current_round + 1

\* The call ends, in an exception or with its result.
Return == pc' = "idle" /\ call' = NoCall /\ UNCHANGED calls

\* execute_round, or execute_round_with_decisions when decisions is not empty:
\* sample clients and keep the state to roll back to.  Decisions can only name
\* updates that exist by now.
BeginRound ==
    /\ pc = "idle" /\ calls < MaxCalls
    /\ \E selected \in (SUBSET registered) \ {{}}, decisions \in SUBSET issued :
           call' = [NoCall EXCEPT !.clients = selected, !.decisions = decisions,
                                  !.previous_state = global_model]
    /\ calls' = calls + 1
    /\ pc' = "train"
    /\ UNCHANGED <<registered, global_model, commitVars, issued, save_refused>>

\* uuid4: no id is used twice.
UpdateId(c) == <<calls, c>>

\* client.train for every selected client.  Weights that are not finite do not
\* give a finite delta; finite weights may or may not.
TrainClients ==
    /\ pc = "train"
    /\ \E finite \in IF global_model.finite THEN BOOLEAN ELSE {FALSE} :
           call' = [call EXCEPT !.updates = { UpdateId(c) : c \in call.clients },
                                !.finite = finite]
    /\ issued' = issued \cup call'.updates
    /\ pc' = "aggregate"
    /\ UNCHANGED <<registered, global_model, commitVars, calls, save_refused>>

\* One decision per update and one update per decision, or none at all.
DecisionsMatch == call.decisions \in {{}, call.updates}

CandidateUpdates == call.previous_state.updates \cup call.updates

\* The mean of the deltas is added to previous_state and loaded; a sum of
\* finite numbers may overflow.
Aggregate ==
    /\ pc = "aggregate"
    /\ DecisionsMatch /\ call.finite
    /\ \E finite \in BOOLEAN : global_model' = [updates |-> CandidateUpdates, finite |-> finite]
    /\ pc' = "evaluate"
    /\ UNCHANGED <<registered, commitVars, call, calls, issued, save_refused>>

Evaluate ==
    /\ pc = "evaluate"
    /\ pc' = "save"
    /\ UNCHANGED <<registered, global_model, commitVars, call, calls, issued, save_refused>>

\* A client fails, or the aggregator refuses what it is given.
FailRound ==
    /\ pc \in {"train", "aggregate"}
    /\ issued' \in IF pc = "train" THEN { issued \cup { UpdateId(c) : c \in done } :
                                              done \in (SUBSET call.clients) \ {call.clients} }
                   ELSE {issued}
    /\ Return
    /\ UNCHANGED <<registered, global_model, commitVars, save_refused>>

\* Mutant: the weights are not restored.
KeepCandidate == global_model

RolledBack == call.previous_state

\* Atomic rollback
FailEvaluation ==
    /\ pc = "evaluate"
    /\ global_model' = RolledBack
    /\ Return
    /\ UNCHANGED <<registered, commitVars, issued, save_refused>>

\* CheckpointManager.save
Refused(n, weights) == n \in DOMAIN checkpoints \/ ~weights.finite

\* Mutant: the state before the round is saved.
SavedPrevious == call.previous_state

SavedState == global_model

\* Save, advance, and remember the round.
Commit ==
    /\ pc = "save"
    /\ ~Refused(TargetRound, global_model)
    /\ checkpoints' = [n \in DOMAIN checkpoints \cup {TargetRound} |->
                          IF n = TargetRound THEN SavedState ELSE checkpoints[n]]
    /\ current_round' = TargetRound
    /\ current_version' = TargetRound
    /\ history' = Append(history, [updates |-> call.updates, decisions |-> call.decisions])
    /\ Return
    /\ UNCHANGED <<registered, global_model, initial_version, issued, save_refused>>

\* Mutant: the round counts although its model was refused.
RoundCounts == TargetRound

RoundAfterRefusal == current_round

\* save raises: nothing of the round is committed, and nothing is rolled back.
RefuseSave ==
    /\ pc = "save"
    /\ Refused(TargetRound, global_model)
    /\ save_refused' = TRUE
    /\ current_round' = RoundAfterRefusal
    /\ Return
    /\ UNCHANGED <<registered, global_model, checkpoints, current_version, initial_version,
                   history, issued>>

ServerNext ==
    \/ RegisterClient \/ RemoveClient
    \/ BeginRound \/ TrainClients \/ Aggregate \/ Evaluate \/ Commit
    \/ FailRound \/ FailEvaluation \/ RefuseSave

ServerSpec == ServerInit /\ [][ServerNext]_serverVars
-----------------------------------------------------------------------------
ServerTypeOK ==
    /\ registered \subseteq Clients
    /\ global_model \in Weights
    /\ DOMAIN checkpoints \subseteq InitialVersions \cup (1..MaxCalls)
    /\ \A n \in DOMAIN checkpoints : checkpoints[n] \in Weights
    /\ current_round \in 0..MaxCalls
    /\ {current_version, initial_version} \subseteq DOMAIN checkpoints
    /\ history \in Seq([updates : SUBSET UpdateIds, decisions : SUBSET UpdateIds])
    /\ pc \in {"idle", "train", "aggregate", "evaluate", "save"}
    /\ call \in [clients : SUBSET Clients, updates : SUBSET UpdateIds, finite : BOOLEAN,
                 decisions : SUBSET UpdateIds, previous_state : Weights]
    /\ calls \in 0..MaxCalls
    /\ issued \subseteq UpdateIds
    /\ save_refused \in BOOLEAN

\* The version a committed round was trained on.
BaseOf(round) == IF round = 1 THEN initial_version ELSE round - 1

\* The checkpoint of every committed round is the one before it plus exactly
\* the updates its result reports: whatever failed in between, and however
\* often, left nothing behind in a model that was saved later (_run_round's
\* snapshot, rollback and commit; RoundResult is kept "for auditing/recovery").
HistoryIsLineage ==
    /\ Len(history) = current_round
    /\ \A r \in 1..current_round :
           /\ {r, BaseOf(r)} \subseteq DOMAIN checkpoints
           /\ checkpoints[r].finite
           /\ checkpoints[r].updates = checkpoints[BaseOf(r)].updates \cup history[r].updates
           /\ checkpoints[BaseOf(r)].updates \cap history[r].updates = {}

\* Between two calls the module holds the checkpoint that current_model_version
\* names, as long as no checkpoint was refused: the one failure after which the
\* weights are not restored is that of the save itself.
WeightsFollowVersion ==
    pc = "idle" /\ ~save_refused => global_model = checkpoints[current_version]

\* Once a checkpoint has been refused no round is ever committed again: the
\* target version stays the one that exists, or the weights stay infinite and
\* no update trained on them passes the aggregator (save, _aggregate_impl).
RefusedForever == [][save_refused => history' = history]_serverVars

\* A round with decisions is never committed: decisions must name the ids of
\* the updates, and the server makes new ones after it was given the decisions
\* (execute_round_with_decisions, client.train, aggregate_with_decisions).
DecisionsComeTooSoon == \A r \in 1..Len(history) : history[r].decisions = {}
=============================================================================
