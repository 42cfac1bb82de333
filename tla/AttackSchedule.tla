---------------------------- MODULE AttackSchedule ----------------------------
(***************************************************************************)
(* Who attacks in which round: the scenario builders (simulation/scenarios)*)
(* fill an AttackManager, P2AttackAdapter keeps the last one it built and  *)
(* the key it built it for, and every run asks the one adapter of the      *)
(* process: per client before training, per update after it, and once more *)
(* for the ground truth after the response decisions.                      *)
(*                                                                         *)
(* Clients are numbered in the order of get_client_ids.  What an attack    *)
(* does to the numbers is left out: a client is damaged or it is not.  The *)
(* "honest" entries get_attack adds to the ground truth are left out too:  *)
(* get_attacker_ids skips them.                                            *)
(***************************************************************************)
EXTENDS Integers, Sequences, FiniteSets, SequencesExt

CONSTANTS
    Runs,
    Requests,      \* attack configurations a run may be started with
    MaxRounds,     \* bound on the rounds of a request
    MaxClients,    \* bound on its clients
    NameOrder      \* the clients as Python sorts their ids: "client-10" before "client-2"

Scenarios == {"normal", "backdoor", "label_poisoning", "model_poisoning",
              "mixed_attack", "sleeper", "sybil"}
DataKinds   == {"backdoor", "label_flip"}
UpdateKinds == {"scaling", "sign_flip", "sybil"}
Kinds == DataKinds \cup UpdateKinds

\* What is left of a request after the configuration: `shuffled` is the client
\* list as random.Random(seed) shuffles it, `targets` the clients it names.
AttackConfigs ==
    [enabled : BOOLEAN, scenario : Scenarios, clients : 1..MaxClients,
     attacker_count : 0..MaxClients, targets : Seq(Nat), shuffled : Seq(1..MaxClients),
     start_round : 1..MaxRounds, rounds : 1..MaxRounds]

ASSUME AttackAssumption ==
    /\ MaxRounds \in Nat \ {0} /\ MaxClients \in Nat \ {0}
    /\ NameOrder \in Seq(1..MaxClients)
    /\ Len(NameOrder) = MaxClients /\ ToSet(NameOrder) = 1..MaxClients
    /\ Requests # {}
    /\ \A q \in Requests :
           /\ q \in AttackConfigs
           /\ q.start_round <= q.rounds /\ q.attacker_count <= q.clients
           /\ Len(q.shuffled) = q.clients /\ ToSet(q.shuffled) = 1..q.clients

VARIABLES
    manager,       \* None, or the schedule: <<a set of <<round, client, kind>>>>
    key,           \* None, or the configuration `manager` was built for
    pc,            \* run -> where it is
    at,            \* run -> its configuration, round and client
    damage,        \* run -> the <<round, client, kind>> that were carried out
    named,         \* run -> the <<round, client>> get_attacker_ids has named
    overlapped     \* history variable: two runs have used the adapter in turns

attackVars == <<manager, key, pc, at, damage, named, overlapped>>

None == <<>>
Planned == IF manager = None THEN {} ELSE manager[1]
-----------------------------------------------------------------------------
(* The adapter's arguments for the builders. *)

\* The elements of s that are in S, in the order of s.
Filter(s, S) ==
    LET kept[n \in 0..Len(s)] ==
            IF n = 0 THEN <<>>
            ELSE IF s[n] \in S THEN Append(kept[n - 1], s[n]) ELSE kept[n - 1]
    IN  kept[Len(s)]

\* sorted(...), by id
Sorted(clients) == Filter(NameOrder, clients)

\* ScenarioManager.get_attack_params asks for two attackers of a mixed attack.
AttackerCount(q) ==
    IF q.scenario = "mixed_attack" /\ q.attacker_count < 2 THEN 2 ELSE q.attacker_count

\* Mutant: a named client need not exist.
TargetClientsUnfiltered(q) == IF q.targets # <<>> THEN q.targets ELSE <<q.clients>>

\* The named clients that exist, else the first of the shuffle, sorted.
TargetClients(q) ==
    LET named_ones == Filter(q.targets, 1..q.clients)
        count == IF AttackerCount(q) > q.clients THEN q.clients ELSE AttackerCount(q)
    IN  IF named_ones # <<>> THEN named_ones
        ELSE Sorted(ToSet(SubSeq(q.shuffled, 1, count)))

\* `targets or [client_ids[-1]]`
TargetsOrLast(q) == IF TargetClients(q) = <<>> THEN <<q.clients>> ELSE TargetClients(q)

\* The sybil scenario falls back to the last two clients.
SybilTargets(q) ==
    IF Len(TargetClients(q)) < 2 /\ q.clients >= 2 THEN <<q.clients - 1, q.clients>>
    ELSE TargetClients(q)

SleeperTarget(q) == IF TargetClients(q) = <<>> THEN 1 ELSE TargetClients(q)[1]
StealthRound(q) == IF q.start_round - 1 > 1 THEN q.start_round - 1 ELSE 1

\* The first half of the targets flips signs, the rest plants a backdoor.
Split(q) == IF Len(TargetClients(q)) \div 2 > 1 THEN Len(TargetClients(q)) \div 2 ELSE 1
Byzantine(q) == ToSet(SubSeq(TargetClients(q), 1, Split(q)))
Backdoored(q) ==
    LET rest == SubSeq(TargetClients(q), Split(q) + 1, Len(TargetClients(q)))
    IN  IF rest # <<>> THEN ToSet(rest) ELSE ToSet(SubSeq(TargetClients(q), 1, 1))

(* The builders. *)

\* The ValueErrors of the builders.
StartsTooLate(q) == q.scenario # "normal" /\ q.start_round > q.rounds
SleeperRefused(q) ==
    q.scenario = "sleeper" /\ ~(1 < StealthRound(q) /\ StealthRound(q) < q.start_round)
SybilRefused(q) == q.scenario = "sybil" /\ Len(SybilTargets(q)) < 2

MixedRefused(q) ==
    q.scenario = "mixed_attack" /\
        (Byzantine(q) \cap Backdoored(q) # {} \/ Byzantine(q) \cup Backdoored(q) = {})

Unbuildable(q) == StartsTooLate(q) \/ SleeperRefused(q) \/ SybilRefused(q) \/ MixedRefused(q)

\* The clients a kind of attack is scheduled on from start_round on.
From(q, clients, kind) == (q.start_round..q.rounds) \X clients \X {kind}

NormalSchedule(q) == {}
BackdoorSchedule(q) == From(q, ToSet(TargetsOrLast(q)), "backdoor")
LabelPoisoningSchedule(q) == From(q, ToSet(TargetsOrLast(q)), "label_flip")
ModelPoisoningSchedule(q) == From(q, ToSet(TargetsOrLast(q)), "scaling")
SybilSchedule(q) == From(q, ToSet(SybilTargets(q)), "sybil")
MixedSchedule(q) == From(q, Byzantine(q), "sign_flip") \cup From(q, Backdoored(q), "backdoor")
SleeperSchedule(q) ==
    {<<StealthRound(q), SleeperTarget(q), "backdoor">>} \cup From(q, {SleeperTarget(q)}, "scaling")

\* _builders
Schedule(q) ==
    CASE q.scenario = "normal"          -> NormalSchedule(q)
      [] q.scenario = "backdoor"        -> BackdoorSchedule(q)
      [] q.scenario = "label_poisoning" -> LabelPoisoningSchedule(q)
      [] q.scenario = "model_poisoning" -> ModelPoisoningSchedule(q)
      [] q.scenario = "mixed_attack"    -> MixedSchedule(q)
      [] q.scenario = "sleeper"         -> SleeperSchedule(q)
      [] q.scenario = "sybil"           -> SybilSchedule(q)

\* Mutant: the cache is keyed by the clients alone.
KeyByClients(q) == <<q.clients>>

\* The clients, the scenario and every value of the configuration.
KeyOf(q) == <<q>>
-----------------------------------------------------------------------------
(* The runs. *)

NoRun == [config |-> CHOOSE q \in Requests : TRUE, round |-> 0, client |-> 0]

AttackInit ==
    /\ manager = None /\ key = None
    /\ pc = [r \in Runs |-> "none"]
    /\ at = [r \in Runs |-> NoRun]
    /\ damage = [r \in Runs |-> {}]
    /\ named = [r \in Runs |-> {}]
    /\ overlapped = FALSE

\* Between the two assignments of _ensure_manager (209 and 210) is a place too.
Places == {"none", "data_ensure", "data_key", "data_ask", "update_ensure", "update_key",
           "update_ask", "identify", "ended"}

Config(run) == at[run].config
LastClient(run) == at[run].client = Config(run).clients

\* Someone else is under way while this run is.
GoTo(run, place) ==
    /\ pc' = [pc EXCEPT ![run] = place]
    /\ overlapped' = (overlapped \/ \E r \in Runs \ {run} : pc[r] \notin {"none", "ended"})

Start(run) ==
    /\ pc[run] = "none"
    /\ \E q \in Requests : at' = [at EXCEPT ![run] = [config |-> q, round |-> 1, client |-> 1]]
    /\ GoTo(run, "data_ensure")
    /\ UNCHANGED <<manager, key, damage, named>>

\* config.get("enabled", True)
Enabled(q) == q.enabled

\* Mutant: the key is stored before the builder has run.
KeyStoredEarly(run) == key' = KeyOf(Config(run))

\* What a builder that raises leaves in the adapter.
KeyAfterFailure(run) == UNCHANGED key

\* _ensure_manager, called from place: the cached manager will do, or one is
\* built and the key is stored next, or the builder raises and the run fails.
Ensure(run, place, store, ask) ==
    /\ pc[run] = place /\ Enabled(Config(run))
    /\ LET cached == manager # None /\ key = KeyOf(Config(run)) IN
       \/ cached /\ GoTo(run, ask) /\ UNCHANGED <<manager, key>>
       \/ /\ ~cached /\ ~Unbuildable(Config(run))
          /\ manager' = <<Schedule(Config(run))>>
          /\ GoTo(run, store) /\ UNCHANGED key
       \/ /\ ~cached /\ Unbuildable(Config(run))
          /\ KeyAfterFailure(run)
          /\ GoTo(run, "ended") /\ UNCHANGED manager
    /\ UNCHANGED <<at, damage, named>>

StoreKey(run, place, ask) ==
    /\ pc[run] = place
    /\ key' = KeyOf(Config(run))
    /\ GoTo(run, ask)
    /\ UNCHANGED <<manager, at, damage, named>>

\* get_attack of the manager there is by now, and the hook of these kinds.
Attack(run, kinds) ==
    damage' = [damage EXCEPT ![run] = @ \cup
        { <<at[run].round, at[run].client, k>> : k \in
            { k \in kinds : <<at[run].round, at[run].client, k>> \in Planned } }]

\* apply_data_attack, once per client; the hooks of update attacks do nothing.
EnsureForData(run) == Ensure(run, "data_ensure", "data_key", "data_ask")
StoreKeyForData(run) == StoreKey(run, "data_key", "data_ask")

NoDataAttack(run) ==
    /\ pc[run] = "data_ensure" /\ ~Enabled(Config(run))
    /\ GoTo(run, "update_ensure")
    /\ UNCHANGED <<manager, key, at, damage, named>>

AttackData(run) ==
    /\ pc[run] = "data_ask"
    /\ Attack(run, DataKinds)
    /\ IF LastClient(run)
       THEN GoTo(run, "update_ensure") /\ at' = [at EXCEPT ![run].client = 1]
       ELSE GoTo(run, "data_ensure") /\ at' = [at EXCEPT ![run].client = @ + 1]
    /\ UNCHANGED <<manager, key, named>>

\* apply_attacks: the manager is ensured once and asked for every update.
EnsureForUpdates(run) == Ensure(run, "update_ensure", "update_key", "update_ask")
StoreKeyForUpdates(run) == StoreKey(run, "update_key", "update_ask")

NoUpdateAttack(run) ==
    /\ pc[run] = "update_ensure" /\ ~Enabled(Config(run))
    /\ GoTo(run, "identify")
    /\ UNCHANGED <<manager, key, at, damage, named>>

AttackUpdate(run) ==
    /\ pc[run] = "update_ask"
    /\ Attack(run, UpdateKinds)
    /\ IF LastClient(run)
       THEN GoTo(run, "identify") /\ at' = [at EXCEPT ![run].client = 1]
       ELSE UNCHANGED <<pc, overlapped>> /\ at' = [at EXCEPT ![run].client = @ + 1]
    /\ UNCHANGED <<manager, key, named>>

\* Mutant: the ground truth of the round before.
AttackersBefore(q, round) == { c \in 1..MaxClients : \E k \in Kinds : <<round - 1, c, k>> \in Planned }

\* get_attacker_ids does not ensure the manager once there is one.
AttackersOf(q, round) ==
    { c \in 1..MaxClients : q.enabled /\ \E k \in Kinds : <<round, c, k>> \in Planned }

GetAttackerIds(run) ==
    /\ pc[run] = "identify"
    /\ named' = [named EXCEPT ![run] = @ \cup
           ({at[run].round} \X AttackersOf(Config(run), at[run].round))]
    /\ at' = [at EXCEPT ![run].round = @ + 1]
    /\ GoTo(run, IF at[run].round < Config(run).rounds THEN "data_ensure" ELSE "ended")
    /\ UNCHANGED <<manager, key, damage>>

\* Anything else in the round raises: the adapter keeps what it has.
Abort(run) ==
    /\ pc[run] \notin {"none", "data_key", "update_key", "ended"}
    /\ GoTo(run, "ended")
    /\ UNCHANGED <<manager, key, at, damage, named>>

AttackNext == \E run \in Runs :
    \/ Start(run)
    \/ EnsureForData(run) \/ StoreKeyForData(run) \/ NoDataAttack(run) \/ AttackData(run)
    \/ EnsureForUpdates(run) \/ StoreKeyForUpdates(run) \/ NoUpdateAttack(run) \/ AttackUpdate(run)
    \/ GetAttackerIds(run) \/ Abort(run)

AttackSpec == AttackInit /\ [][AttackNext]_attackVars
-----------------------------------------------------------------------------
Attacks == (1..MaxRounds) \X (1..MaxClients) \X Kinds

AttackTypeOK ==
    /\ Len(manager) <= 1 /\ Planned \subseteq Attacks
    /\ Len(key) <= 1 /\ ToSet(key) \subseteq Requests
    /\ pc \in [Runs -> Places]
    /\ \A r \in Runs : at[r].config \in Requests /\ at[r].round \in 0..(MaxRounds + 1)
                       /\ at[r].client \in 0..MaxClients
    /\ damage \in [Runs -> SUBSET Attacks]
    /\ named \in [Runs -> SUBSET ((1..MaxRounds) \X (1..MaxClients))]
    /\ overlapped \in BOOLEAN

\* The rounds a run has been named attackers for.
RoundsJudged(r) == 1..(at[r].round - 1)

\* The ground truth the metrics are computed from is what really happened: as
\* long as runs do not share the adapter in time, the clients get_attacker_ids
\* names for a round are those whose data or update was attacked in it, though
\* it is asked of whatever manager is there after the decisions (runner.py 302).
TruthMatchesDamage ==
    ~overlapped => \A r \in Runs : \A q \in RoundsJudged(r), c \in 1..MaxClients :
        <<q, c>> \in named[r] <=> \E k \in Kinds : <<q, c, k>> \in damage[r]

\* Without overlap, a run's manager is its own although the adapter keeps the
\* manager of earlier runs: no attack but those of its scenario, none before
\* its start round save the sleeper's one stealth round, and from then on every
\* judged round is attacked (_ensure_manager's key, the scenario builders).
RunSuffersItsScenario ==
    ~overlapped => \A r \in Runs :
        LET q == at[r].config
            attacking == q.enabled /\ q.scenario # "normal"
        IN  /\ \A d \in damage[r] :
                   /\ attacking
                   /\ d[1] >= q.start_round \/ (q.scenario = "sleeper" /\ d[1] = q.start_round - 1
                                                /\ d[1] > 1 /\ d[3] = "backdoor")
                   /\ q.scenario \in {"backdoor", "sybil"} => d[3] = q.scenario
            /\ \A e \in RoundsJudged(r) :
                   attacking /\ e >= q.start_round => \E d \in damage[r] : d[1] = e

\* What the adapter would answer from its cache is what it would build: a
\* builder that raised has left neither its key nor a part of a schedule.
CacheAnswersItsKey ==
    ~overlapped /\ key # None /\ (\A r \in Runs : pc[r] \notin {"data_key", "update_key"}) =>
        manager = <<Schedule(key[1])>> /\ ~Unbuildable(key[1])

=============================================================================
