-------------------------- MODULE ServerRoundProofs --------------------------
(***************************************************************************)
(* What ServerRound keeps for every number of clients, calls and initial   *)
(* versions.  The inductive invariant says, beyond the properties          *)
(* themselves, where the ids of updates come from (Fresh), what the module *)
(* holds in the middle of a call (Held), and why a refusal is final        *)
(* (Stuck).                                                                *)
(***************************************************************************)
EXTENDS ServerRound, TLAPS

Quiet == {"idle", "train", "aggregate"}   \* the module is as it was before the call
Done  == {"aggregate", "evaluate", "save"} \* the clients have been trained

\* Every call commits at most one round, and the version follows the round.
Counted ==
    /\ current_round <= calls
    /\ pc # "idle" => current_round < calls
    /\ Len(history) = current_round
    /\ current_version = BaseOf(current_round + 1)
    /\ {initial_version} \cup (1..current_round) \subseteq DOMAIN checkpoints

\* Ids of earlier calls, and of this one.
Before(ids) == \A u \in ids : u[1] < calls

Fresh ==
    /\ \A u \in issued : u[1] <= calls
    /\ pc = "train" => Before(issued) /\ call.clients # {}
    /\ pc # "idle" => Before(call.decisions) /\ Before(call.previous_state.updates)
    /\ pc \in Done => call.updates # {} /\ \A u \in call.updates : u[1] = calls
    /\ pc \in Done => call.updates \subseteq issued
    /\ pc \notin Quiet => call.decisions = {}
    /\ pc # "idle" => call.previous_state.updates \subseteq issued
    /\ global_model.updates \subseteq issued

\* The module and the state to roll back to.
Held ==
    /\ pc # "idle" /\ ~save_refused => call.previous_state = checkpoints[current_version]
    /\ pc \in Quiet /\ ~save_refused => global_model = checkpoints[current_version]
    /\ pc \in Quiet \ {"idle"} => call.previous_state = global_model
    /\ pc \notin Quiet => global_model.updates = call.previous_state.updates \cup call.updates

\* Either the version the next round wants exists, or nothing gets past the
\* aggregator.
Stuck ==
    save_refused => \/ TargetRound \in DOMAIN checkpoints
                    \/ /\ ~global_model.finite
                       /\ pc \in Quiet
                       /\ pc = "aggregate" => ~call.finite

ServerInv ==
    /\ ServerTypeOK /\ Counted /\ Fresh /\ Held /\ Stuck
    /\ HistoryIsLineage /\ DecisionsComeTooSoon
-----------------------------------------------------------------------------
\* The locals between two calls.
LEMMA ReturnTyped ==
    NoCall \in [clients : SUBSET Clients, updates : SUBSET UpdateIds, finite : BOOLEAN,
               decisions : SUBSET UpdateIds, previous_state : Weights]
  BY DEF NoCall, Untouched, Weights

\* The invariant holds of a new server.
LEMMA ServerInitially == ServerInit => ServerInv
<1> SUFFICES ASSUME ServerInit PROVE ServerInv
  OBVIOUS
<1> USE ServerAssumption DEF ServerInit, Untouched
<1>1. ServerTypeOK
  <2>1. Untouched \in Weights
    BY DEF Weights
  <2>2. /\ DOMAIN checkpoints \subseteq InitialVersions \cup (1..MaxCalls)
        /\ {current_version, initial_version} \subseteq DOMAIN checkpoints
        /\ \A n \in DOMAIN checkpoints : checkpoints[n] = Untouched
    OBVIOUS
  <2>3. history \in Seq([updates : SUBSET UpdateIds, decisions : SUBSET UpdateIds])
    OBVIOUS
  <2>4. call \in [clients : SUBSET Clients, updates : SUBSET UpdateIds, finite : BOOLEAN,
                 decisions : SUBSET UpdateIds, previous_state : Weights]
    BY ReturnTyped
  <2>5. current_round \in 0..MaxCalls /\ calls \in 0..MaxCalls
    OBVIOUS
  <2>6. registered \subseteq Clients /\ issued \subseteq UpdateIds
    OBVIOUS
  <2>7. pc \in {"idle", "train", "aggregate", "evaluate", "save"} /\ save_refused \in BOOLEAN
    OBVIOUS
  <2>8. global_model = Untouched
    OBVIOUS
  <2> HIDE DEF ServerInit, Untouched
  <2> QED
    BY <2>1, <2>2, <2>3, <2>4, <2>5, <2>6, <2>7, <2>8 DEF ServerTypeOK
<1>2. Counted
  BY DEF Counted, BaseOf
<1>3. Fresh
  BY DEF Fresh, Quiet, Done
<1>4. Held
  BY DEF Held, Quiet
<1>5. Stuck
  BY DEF Stuck
<1>6. HistoryIsLineage /\ DecisionsComeTooSoon
  BY DEF HistoryIsLineage, DecisionsComeTooSoon
<1> QED
  BY <1>1, <1>2, <1>3, <1>4, <1>5, <1>6 DEF ServerInv

\* Properties of committed rounds outlive every step that commits none.
LEMMA LineageKept ==
    ASSUME HistoryIsLineage, DecisionsComeTooSoon,
           UNCHANGED <<checkpoints, current_round, initial_version, history>>
    PROVE  HistoryIsLineage' /\ DecisionsComeTooSoon'
  BY DEF HistoryIsLineage, DecisionsComeTooSoon, BaseOf

\* The round counters, likewise.
LEMMA CountKept ==
    ASSUME Counted, UNCHANGED commitVars, calls' = calls, pc' = "idle" \/ pc # "idle"
    PROVE  Counted'
  BY DEF Counted, commitVars, BaseOf

LEMMA RegisterStep == ServerInv /\ (RegisterClient \/ RemoveClient) => ServerInv'
<1> SUFFICES ASSUME ServerInv, RegisterClient \/ RemoveClient PROVE ServerInv'
  OBVIOUS
<1>1. /\ UNCHANGED <<global_model, commitVars, callVars, issued, save_refused>>
      /\ pc = "idle"
      /\ registered' \subseteq Clients
  BY DEF RegisterClient, RemoveClient, ServerInv, ServerTypeOK
<1> USE DEF ServerInv, commitVars, callVars
<1>2. ServerTypeOK'
  BY <1>1 DEF ServerTypeOK
<1>3. Counted'
  BY <1>1 DEF Counted, BaseOf
<1>4. Fresh'
  BY <1>1 DEF Fresh, Before
<1>5. Held' /\ Stuck'
  BY <1>1 DEF Held, Stuck, TargetRound
<1>6. HistoryIsLineage' /\ DecisionsComeTooSoon'
  BY <1>1, LineageKept
<1> QED
  BY <1>2, <1>3, <1>4, <1>5, <1>6

LEMMA BeginStep == ServerInv /\ BeginRound => ServerInv'
<1> SUFFICES ASSUME ServerInv, BeginRound PROVE ServerInv'
  OBVIOUS
<1> USE DEF ServerInv
<1>1. PICK selected \in (SUBSET registered) \ {{}}, decisions \in SUBSET issued :
          call' = [NoCall EXCEPT !.clients = selected, !.decisions = decisions,
                                 !.previous_state = global_model]
  BY DEF BeginRound
<1>2. /\ call'.clients = selected /\ call'.decisions = decisions
      /\ call'.previous_state = global_model
      /\ call'.updates = {} /\ call'.finite = TRUE
      /\ call' \in [clients : SUBSET Clients, updates : SUBSET UpdateIds, finite : BOOLEAN,
                    decisions : SUBSET UpdateIds, previous_state : Weights]
  BY <1>1 DEF NoCall, Untouched, ServerTypeOK
<1>3. /\ pc = "idle" /\ pc' = "train"
      /\ calls < MaxCalls /\ calls' = calls + 1
      /\ calls \in Nat /\ calls' \in 0..MaxCalls
      /\ UNCHANGED <<registered, global_model, commitVars, issued, save_refused>>
  BY ServerAssumption DEF BeginRound, ServerTypeOK
<1>4. ServerTypeOK'
  BY <1>2, <1>3 DEF ServerTypeOK, commitVars
<1>5. Counted'
  BY <1>3, ServerAssumption DEF Counted, BaseOf, commitVars, ServerTypeOK
<1>6. Fresh'
  <2>1. \A u \in issued : u[1] \in Nat /\ u[1] < calls + 1
    BY <1>3 DEF Fresh, ServerTypeOK, UpdateIds
  <2>2. \A u \in issued' : u[1] <= calls'
    BY <1>3, <2>1
  <2>3. Before(issued)' /\ Before(call.decisions)' /\ Before(call.previous_state.updates)'
    BY <1>2, <1>3, <2>1 DEF Before, Fresh
  <2> QED
    BY <1>1, <1>2, <1>3, <2>2, <2>3 DEF Fresh, Quiet, Done
<1>7. Held' /\ Stuck'
  BY <1>2, <1>3 DEF Held, Stuck, Quiet, TargetRound, commitVars
<1>8. HistoryIsLineage' /\ DecisionsComeTooSoon'
  BY <1>3, LineageKept DEF commitVars
<1> QED
  BY <1>4, <1>5, <1>6, <1>7, <1>8

LEMMA TrainStep == ServerInv /\ TrainClients => ServerInv'
<1> SUFFICES ASSUME ServerInv, TrainClients PROVE ServerInv'
  OBVIOUS
<1> USE DEF ServerInv
<1>1. PICK finite \in BOOLEAN :
          /\ global_model.finite = FALSE => finite = FALSE
          /\ call' = [call EXCEPT !.updates = { UpdateId(c) : c \in call.clients },
                                  !.finite = finite]
  BY DEF TrainClients
<1>2. /\ pc = "train" /\ pc' = "aggregate"
      /\ calls \in 1..MaxCalls
      /\ issued' = issued \cup call'.updates
      /\ UNCHANGED <<registered, global_model, commitVars, calls, save_refused>>
  BY ServerAssumption DEF TrainClients, Counted, ServerTypeOK
<1> DEFINE new == { <<calls, c>> : c \in call.clients }
<1>a. new \subseteq UpdateIds
  BY <1>2 DEF UpdateIds, ServerTypeOK
<1>b. call' = [call EXCEPT !.updates = new, !.finite = finite]
  BY <1>1 DEF UpdateId
<1>c. new # {} /\ \A u \in new : u[1] = calls
  <2>1. PICK c \in call.clients : TRUE
    BY <1>2 DEF Fresh
  <2>2. <<calls, c>> \in new
    BY <2>1
  <2>3. \A u \in new : u[1] = calls
    OBVIOUS
  <2> QED
    BY <2>2, <2>3
<1> HIDE DEF new
<1>3. /\ call'.clients = call.clients /\ call'.decisions = call.decisions
      /\ call'.previous_state = call.previous_state
      /\ call'.updates = new
      /\ call'.finite = finite
      /\ call' \in [clients : SUBSET Clients, updates : SUBSET UpdateIds, finite : BOOLEAN,
                    decisions : SUBSET UpdateIds, previous_state : Weights]
  BY <1>a, <1>b DEF ServerTypeOK
<1>4. ServerTypeOK'
  BY <1>2, <1>3 DEF ServerTypeOK, commitVars
<1>5. Counted'
  BY <1>2, CountKept
<1>6. Fresh'
  <2>1. call'.updates # {} /\ \A u \in call'.updates : u[1] = calls
    BY <1>3, <1>c
  <2>2. \A u \in issued' : u[1] <= calls
    BY <1>2, <2>1 DEF Fresh
  <2> QED
    BY <1>2, <1>3, <2>1, <2>2 DEF Fresh, Before, Quiet, Done
<1>7. Held'
  BY <1>2, <1>3 DEF Held, Quiet, commitVars
<1>8. Stuck'
  BY <1>1, <1>2, <1>3 DEF Stuck, Quiet, TargetRound, commitVars, ServerTypeOK, Weights
<1>9. HistoryIsLineage' /\ DecisionsComeTooSoon'
  BY <1>2, LineageKept DEF commitVars
<1> QED
  BY <1>4, <1>5, <1>6, <1>7, <1>8, <1>9

LEMMA AggregateStep == ServerInv /\ Aggregate => ServerInv'
<1> SUFFICES ASSUME ServerInv, Aggregate PROVE ServerInv'
  OBVIOUS
<1> USE DEF ServerInv
<1>1. PICK finite \in BOOLEAN : global_model' = [updates |-> CandidateUpdates, finite |-> finite]
  BY DEF Aggregate
<1>2. /\ pc = "aggregate" /\ pc' = "evaluate"
      /\ DecisionsMatch /\ call.finite
      /\ UNCHANGED <<registered, commitVars, call, calls, issued, save_refused>>
  BY DEF Aggregate
<1>3. /\ global_model'.updates = call.previous_state.updates \cup call.updates
      /\ global_model' \in Weights
  BY <1>1 DEF CandidateUpdates, ServerTypeOK, Weights
<1>4. ServerTypeOK'
  BY <1>2, <1>3 DEF ServerTypeOK, commitVars
<1>5. Counted'
  BY <1>2, CountKept
<1>6. Fresh'
  <2>1. call.decisions = {}
    <3> SUFFICES ASSUME call.decisions = call.updates PROVE FALSE
      BY <1>2 DEF DecisionsMatch
    <3>1. PICK u \in call.updates : u[1] = calls
      BY <1>2 DEF Fresh, Done
    <3>2. u[1] < calls
      BY <1>2 DEF Fresh, Before
    <3> QED
      BY <3>1, <3>2 DEF ServerTypeOK
  <2> QED
    BY <1>2, <1>3, <2>1 DEF Fresh, Before, Quiet, Done
<1>7. Held'
  BY <1>2, <1>3 DEF Held, Quiet, commitVars
<1>8. Stuck'
  BY <1>2 DEF Stuck, TargetRound, commitVars
<1>9. HistoryIsLineage' /\ DecisionsComeTooSoon'
  BY <1>2, LineageKept DEF commitVars
<1> QED
  BY <1>4, <1>5, <1>6, <1>7, <1>8, <1>9

LEMMA EvaluateStep == ServerInv /\ Evaluate => ServerInv'
<1> SUFFICES ASSUME ServerInv, Evaluate PROVE ServerInv'
  OBVIOUS
<1> USE DEF ServerInv
<1>1. /\ pc = "evaluate" /\ pc' = "save"
      /\ UNCHANGED <<registered, global_model, commitVars, call, calls, issued, save_refused>>
  BY DEF Evaluate
<1>2. ServerTypeOK'
  BY <1>1 DEF ServerTypeOK, commitVars
<1>3. Counted'
  BY <1>1, CountKept
<1>4. Fresh'
  BY <1>1 DEF Fresh, Before, Quiet, Done
<1>5. Held' /\ Stuck'
  BY <1>1 DEF Held, Stuck, Quiet, TargetRound, commitVars
<1>6. HistoryIsLineage' /\ DecisionsComeTooSoon'
  BY <1>1, LineageKept DEF commitVars
<1> QED
  BY <1>2, <1>3, <1>4, <1>5, <1>6

LEMMA FailRoundStep == ServerInv /\ FailRound => ServerInv'
<1> SUFFICES ASSUME ServerInv, FailRound PROVE ServerInv'
  OBVIOUS
<1> USE DEF ServerInv
<1>1. /\ pc \in {"train", "aggregate"} /\ pc' = "idle" /\ call' = NoCall
      /\ calls \in 1..MaxCalls
      /\ UNCHANGED <<registered, global_model, commitVars, calls, save_refused>>
  BY ServerAssumption DEF FailRound, Return, Counted, ServerTypeOK
<1>2. PICK done \in SUBSET call.clients : issued' = issued \cup { <<calls, c>> : c \in done }
  <2>1. CASE pc = "train"
    BY <2>1 DEF FailRound, UpdateId
  <2>2. CASE pc = "aggregate"
    <3>1. issued' = issued \cup { <<calls, c>> : c \in {} }
      BY <2>2 DEF FailRound
    <3> QED
      BY <3>1
  <2> QED
    BY <1>1, <2>1, <2>2
<1>3. /\ issued' \subseteq UpdateIds
      /\ \A u \in issued' : u[1] <= calls
  BY <1>1, <1>2 DEF UpdateIds, ServerTypeOK, Fresh
<1>4. ServerTypeOK'
  BY <1>1, <1>3, ReturnTyped DEF ServerTypeOK, commitVars
<1>5. Counted'
  BY <1>1, CountKept
<1>6. Fresh'
  BY <1>1, <1>2, <1>3 DEF Fresh, Quiet, Done
<1>7. Held' /\ Stuck'
  BY <1>1 DEF Held, Stuck, Quiet, TargetRound, commitVars
<1>8. HistoryIsLineage' /\ DecisionsComeTooSoon'
  BY <1>1, LineageKept DEF commitVars
<1> QED
  BY <1>4, <1>5, <1>6, <1>7, <1>8

LEMMA FailEvaluationStep == ServerInv /\ FailEvaluation => ServerInv'
<1> SUFFICES ASSUME ServerInv, FailEvaluation PROVE ServerInv'
  OBVIOUS
<1> USE DEF ServerInv
<1>1. /\ pc = "evaluate" /\ pc' = "idle" /\ call' = NoCall
      /\ global_model' = call.previous_state
      /\ UNCHANGED <<registered, commitVars, issued, calls, save_refused>>
  BY DEF FailEvaluation, Return, RolledBack
<1>2. ServerTypeOK'
  BY <1>1, ReturnTyped DEF ServerTypeOK, commitVars
<1>3. Counted'
  BY <1>1, CountKept
<1>4. Fresh'
  BY <1>1 DEF Fresh, Quiet, Done
<1>5. Held' /\ Stuck'
  BY <1>1 DEF Held, Stuck, Quiet, TargetRound, commitVars
<1>6. HistoryIsLineage' /\ DecisionsComeTooSoon'
  BY <1>1, LineageKept DEF commitVars
<1> QED
  BY <1>2, <1>3, <1>4, <1>5, <1>6

LEMMA RefuseStep == ServerInv /\ RefuseSave => ServerInv'
<1> SUFFICES ASSUME ServerInv, RefuseSave PROVE ServerInv'
  OBVIOUS
<1> USE DEF ServerInv
<1>1. /\ pc = "save" /\ pc' = "idle" /\ call' = NoCall
      /\ Refused(TargetRound, global_model)
      /\ save_refused' = TRUE
      /\ UNCHANGED <<registered, global_model, commitVars, issued, calls>>
  BY DEF RefuseSave, Return, RoundAfterRefusal, commitVars
<1>2. ServerTypeOK'
  BY <1>1, ReturnTyped DEF ServerTypeOK, commitVars
<1>3. Counted'
  BY <1>1, CountKept
<1>4. Fresh'
  BY <1>1 DEF Fresh, Quiet, Done
<1>5. Held' /\ Stuck'
  BY <1>1 DEF Held, Stuck, Quiet, Refused, TargetRound, commitVars
<1>6. HistoryIsLineage' /\ DecisionsComeTooSoon'
  BY <1>1, LineageKept DEF commitVars
<1> QED
  BY <1>2, <1>3, <1>4, <1>5, <1>6

\* A round is only committed if none was refused before.
LEMMA CommitUnrefused == ServerInv /\ Commit => ~save_refused
  BY DEF ServerInv, Commit, Stuck, Refused, Quiet

LEMMA CommitStep == ServerInv /\ Commit => ServerInv'
<1> SUFFICES ASSUME ServerInv, Commit PROVE ServerInv'
  OBVIOUS
<1> USE DEF ServerInv
<1>0. PICK T : T = TargetRound
  OBVIOUS
<1>1. /\ pc = "save" /\ pc' = "idle" /\ call' = NoCall
      /\ T \notin DOMAIN checkpoints /\ global_model.finite
      /\ current_round' = T /\ current_version' = T
      /\ history' = Append(history, [updates |-> call.updates, decisions |-> call.decisions])
      /\ UNCHANGED <<registered, global_model, initial_version, issued, calls, save_refused>>
  BY <1>0 DEF Commit, Refused, Return
<1>2. /\ DOMAIN checkpoints' = DOMAIN checkpoints \cup {T}
      /\ checkpoints'[T] = global_model
      /\ \A n \in DOMAIN checkpoints : checkpoints'[n] = checkpoints[n]
  BY <1>0, <1>1 DEF Commit, SavedState
<1>3. /\ current_round \in Nat /\ T = current_round + 1 /\ T \in 1..MaxCalls /\ T <= calls
  BY <1>0, <1>1, ServerAssumption DEF ServerTypeOK, Counted, TargetRound
<1>4. /\ ~save_refused
      /\ current_version = BaseOf(T) /\ current_version \in DOMAIN checkpoints
      /\ call.previous_state = checkpoints[current_version]
      /\ global_model.updates = call.previous_state.updates \cup call.updates
      /\ call.decisions = {}
  BY <1>1, <1>3, CommitUnrefused DEF Held, Quiet, Counted, Fresh, ServerTypeOK
<1>5. /\ Len(history) = current_round
      /\ history' \in Seq([updates : SUBSET UpdateIds, decisions : SUBSET UpdateIds])
      /\ Len(history') = T
      /\ \A r \in 1..current_round : history'[r] = history[r]
      /\ history'[T] = [updates |-> call.updates, decisions |-> call.decisions]
  BY <1>1, <1>3 DEF ServerTypeOK, HistoryIsLineage
<1>6. ServerTypeOK'
  <2>1. checkpoints'[T] \in Weights
    BY <1>2 DEF ServerTypeOK
  <2>2. \A n \in DOMAIN checkpoints' : checkpoints'[n] \in Weights
    BY <1>2, <2>1 DEF ServerTypeOK
  <2> QED
    BY <1>1, <1>2, <1>3, <1>5, <2>2, ReturnTyped DEF ServerTypeOK
<1>7. Counted'
  <2>1. BaseOf(current_round + 1)' = T
    BY <1>1, <1>3 DEF BaseOf
  <2>2. 1..T = (1..current_round) \cup {T}
    BY <1>3
  <2> QED
    BY <1>1, <1>2, <1>3, <1>5, <2>1, <2>2 DEF Counted
<1>8. Fresh'
  BY <1>1 DEF Fresh, Quiet, Done
<1>9. Held' /\ Stuck'
  BY <1>1, <1>2, <1>4 DEF Held, Stuck, Quiet
<1>10. HistoryIsLineage'
  <2>1. call.updates \cap checkpoints[BaseOf(T)].updates = {}
    BY <1>1, <1>4 DEF Fresh, Before, Done, ServerTypeOK
  <2>2. ASSUME NEW r \in 1..T
        PROVE  /\ {r, BaseOf(r)} \subseteq DOMAIN checkpoints'
               /\ checkpoints'[r].finite
               /\ checkpoints'[r].updates = checkpoints'[BaseOf(r)].updates \cup history'[r].updates
               /\ checkpoints'[BaseOf(r)].updates \cap history'[r].updates = {}
    <3>1. CASE r = T
      BY <3>1, <1>1, <1>2, <1>4, <1>5, <2>1
    <3>2. CASE r # T
      <4>1. r \in 1..current_round
        BY <3>2, <1>3
      <4>2. /\ {r, BaseOf(r)} \subseteq DOMAIN checkpoints
            /\ checkpoints[r].finite
            /\ checkpoints[r].updates = checkpoints[BaseOf(r)].updates \cup history[r].updates
            /\ checkpoints[BaseOf(r)].updates \cap history[r].updates = {}
        BY <4>1 DEF HistoryIsLineage
      <4> QED
        BY <4>1, <4>2, <1>2, <1>5
    <3> QED
      BY <3>1, <3>2
  <2>3. \A r \in 1..T : BaseOf(r)' = BaseOf(r)
    BY <1>1 DEF BaseOf
  <2> QED
    BY <1>1, <1>5, <2>2, <2>3 DEF HistoryIsLineage
<1>11. DecisionsComeTooSoon'
  <2> SUFFICES ASSUME NEW r \in 1..T PROVE history'[r].decisions = {}
    BY <1>5 DEF DecisionsComeTooSoon
  <2>1. CASE r = T
    BY <2>1, <1>4, <1>5
  <2>2. CASE r # T
    BY <2>2, <1>3, <1>5 DEF DecisionsComeTooSoon
  <2> QED
    BY <2>1, <2>2
<1> QED
  BY <1>6, <1>7, <1>8, <1>9, <1>10, <1>11

LEMMA StutterStep == ServerInv /\ UNCHANGED serverVars => ServerInv'
<1> SUFFICES ASSUME ServerInv, UNCHANGED serverVars PROVE ServerInv'
  OBVIOUS
<1> USE DEF ServerInv, serverVars, commitVars, callVars
<1>1. ServerTypeOK'
  BY DEF ServerTypeOK
<1>2. Counted' /\ HistoryIsLineage' /\ DecisionsComeTooSoon'
  BY LineageKept DEF Counted, BaseOf
<1>3. Fresh'
  BY DEF Fresh, Before
<1>4. Held' /\ Stuck'
  BY DEF Held, Stuck, TargetRound
<1> QED
  BY <1>1, <1>2, <1>3, <1>4

\* The invariant holds in every state of every server.
THEOREM ServerInvariant == ServerSpec => []ServerInv
<1>1. ServerInv /\ [ServerNext]_serverVars => ServerInv'
  BY RegisterStep, BeginStep, TrainStep, AggregateStep, EvaluateStep, FailRoundStep,
     FailEvaluationStep, RefuseStep, CommitStep, StutterStep DEF ServerNext
<1> QED
  BY <1>1, ServerInitially, PTL DEF ServerSpec

\* Type correctness, for every set of clients and number of calls.
THEOREM ServerTypeCorrect == ServerSpec => []ServerTypeOK
<1>1. ServerInv => ServerTypeOK
  BY DEF ServerInv
<1> QED
  BY <1>1, ServerInvariant, PTL

\* However many calls fail in between, a saved model is the one before it plus
\* the updates its round reports (_run_round's roll-back and commit).
THEOREM ServerKeepsLineage == ServerSpec => []HistoryIsLineage
<1>1. ServerInv => HistoryIsLineage
  BY DEF ServerInv
<1> QED
  BY <1>1, ServerInvariant, PTL

\* Between calls the module holds the current version, unless a save was refused.
THEOREM ServerHoldsVersion == ServerSpec => []WeightsFollowVersion
<1>1. ServerInv => WeightsFollowVersion
  BY DEF ServerInv, Held, Quiet, WeightsFollowVersion
<1> QED
  BY <1>1, ServerInvariant, PTL

\* execute_round_with_decisions never commits a round.
THEOREM ServerRefusesDecisions == ServerSpec => []DecisionsComeTooSoon
<1>1. ServerInv => DecisionsComeTooSoon
  BY DEF ServerInv
<1> QED
  BY <1>1, ServerInvariant, PTL

\* A refused checkpoint is the end of the server's history.
THEOREM ServerRefusedForever == ServerSpec => RefusedForever
<1>1. ServerInv /\ [ServerNext]_serverVars => (save_refused => history' = history)
  <2> SUFFICES ASSUME ServerInv, [ServerNext]_serverVars, save_refused PROVE history' = history
    OBVIOUS
  <2>1. ~Commit
    BY CommitUnrefused
  <2> QED
    BY <2>1 DEF ServerNext, RegisterClient, RemoveClient, BeginRound, TrainClients, Aggregate,
       Evaluate, FailRound, FailEvaluation, RefuseSave, serverVars, commitVars
<1>2. ServerInv /\ [ServerNext]_serverVars => [save_refused => history' = history]_serverVars
  BY <1>1
<1> QED
  BY <1>2, ServerInvariant, PTL DEF ServerSpec, RefusedForever
=============================================================================
