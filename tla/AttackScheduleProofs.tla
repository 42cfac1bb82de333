------------------------ MODULE AttackScheduleProofs ------------------------
(***************************************************************************)
(* Proofs about the attack adapter that all runs share, for any number of  *)
(* runs, any configurations and every interleaving of their calls.         *)
(*                                                                         *)
(* TypeInv holds whoever uses the adapter.  AloneInv holds as long as no   *)
(* two runs use it in turns: what a run has suffered and what it was told  *)
(* are its plan as far as it has come, although the adapter answers from   *)
(* the manager it built for an earlier call.                               *)
(***************************************************************************)
EXTENDS AttackSchedule, SequenceTheorems, WellFoundedInduction, TLAPS

DataPlaces   == {"data_ensure", "data_key", "data_ask"}
UpdatePlaces == {"update_ensure", "update_key", "update_ask"}
KeyPlaces    == {"data_key", "update_key"}
AskPlaces    == {"data_ask", "update_ask"}
UnderWay     == DataPlaces \cup UpdatePlaces \cup {"identify"}

Journeys == [config : Requests, round : 0..(MaxRounds + 1), client : 0..MaxClients]

\* What a run is to suffer.
Plan(q) == IF q.enabled /\ ~Unbuildable(q) THEN Schedule(q) ELSE {}

Shapes ==
    /\ manager = None \/ (\E q \in Requests : ~Unbuildable(q) /\ manager = <<Schedule(q)>>)
    /\ key = None \/ (\E q \in Requests : key = <<q>>)
    /\ pc \in [Runs -> Places]
    /\ at \in [Runs -> Journeys]
    /\ damage \in [Runs -> SUBSET Attacks]
    /\ named \in [Runs -> SUBSET ((1..MaxRounds) \X (1..MaxClients))]
    /\ overlapped \in BOOLEAN

\* Where a run may be, whoever else uses the adapter.
PlaceOf(r) ==
    /\ at[r].round <= Config(r).rounds + 1
    /\ pc[r] \in UnderWay => /\ at[r].round \in 1..Config(r).rounds
                             /\ at[r].client \in 1..Config(r).clients
    /\ pc[r] \in KeyPlaces \cup AskPlaces => Config(r).enabled
    /\ pc[r] = "identify" /\ Config(r).enabled => at[r].client = 1
    /\ pc[r] = "none" => at[r].round = 0 /\ damage[r] = {} /\ named[r] = {}

TypeInv == Shapes /\ \A r \in Runs : PlaceOf(r)

\* The attacks of kind k on client c that the round under way has behind it.
Done(r, c, k) ==
    \/ pc[r] \in DataPlaces /\ k \in DataKinds /\ c < at[r].client
    \/ pc[r] \in UpdatePlaces /\ (k \in DataKinds \/ c < at[r].client)
    \/ pc[r] = "identify"

\* A run suffers its own plan, as far as it has come, and is told so.
SufferedOf(r) ==
    /\ damage[r] \subseteq Plan(Config(r))
    /\ \A d \in Plan(Config(r)) :
           d[1] < at[r].round \/ (d[1] = at[r].round /\ Done(r, d[2], d[3])) => d \in damage[r]
    /\ Config(r).enabled /\ at[r].round >= 2 => ~Unbuildable(Config(r))
    /\ \A e \in 1..MaxRounds, c \in 1..MaxClients :
           <<e, c>> \in named[r] <=> /\ e < at[r].round
                                     /\ \E k \in Kinds : <<e, c, k>> \in Plan(Config(r))

\* The manager a run is about to ask is its own.
AnsweredOf(r) ==
    /\ pc[r] \in KeyPlaces => manager = <<Schedule(Config(r))>> /\ ~Unbuildable(Config(r))
    /\ pc[r] \in AskPlaces \cup {"update_ensure", "identify"} /\ Config(r).enabled =>
           /\ manager = <<Schedule(Config(r))>> /\ key = <<Config(r)>>
           /\ ~Unbuildable(Config(r))

AloneInv ==
    ~overlapped =>
        /\ \A r, s \in Runs : pc[r] \in UnderWay /\ pc[s] \in UnderWay => r = s
        /\ \A r \in Runs : SufferedOf(r) /\ AnsweredOf(r)

ScheduleInv == TypeInv /\ CacheAnswersItsKey /\ AloneInv
-----------------------------------------------------------------------------
(* Filter. *)

LEMMA Least ==
    ASSUME NEW S, S \subseteq Nat, S # {}
    PROVE  \E i \in S : \A j \in S : i <= j
<1>1. PICK i \in S : \A j \in S : ~(<<j, i>> \in OpToRel(<, Nat))
  BY NatLessThanWellFounded, WFMin, Zenon
<1>2. \A j \in S : ~(j < i)
  BY <1>1 DEF OpToRel
<1>3. QED
  BY <1>2

\* What holds at 0 and is handed on below N holds up to N.
LEMMA UpTo ==
    ASSUME NEW N \in Nat, NEW G, 0 \in G, \A n \in Nat : n < N /\ n \in G => n + 1 \in G
    PROVE  \A n \in 0..N : n \in G
<1> DEFINE Missed == { n \in 0..N : n \notin G }
<1> SUFFICES ASSUME Missed # {} PROVE FALSE
  OBVIOUS
<1>1. PICK i \in Missed : \A j \in Missed : i <= j
  <2>1. Missed \subseteq Nat
    OBVIOUS
  <2> HIDE DEF Missed
  <2>2. QED
    BY <2>1, Least, Zenon
<1>2. \A j \in Missed : ~(j < i)
  BY <1>1
<1>3. i \in 0..N /\ i \notin G /\ i # 0
  BY <1>1
<1>4. i - 1 \in 0..N /\ i - 1 \notin Missed
  BY <1>2, <1>3
<1>5. i - 1 \in G /\ i - 1 \in Nat /\ i - 1 < N /\ (i - 1) + 1 = i
  BY <1>3, <1>4
<1>6. QED
  BY <1>3, <1>5

\* One step of Filter, and what its recursion must satisfy up to n.
Kept1(s, S, prev, n) == IF s[n] \in S THEN Append(prev, s[n]) ELSE prev

Keeps(s, S, n, f) ==
    /\ f \in [0..n -> Seq(S)]
    /\ f[0] = <<>>
    /\ \A i \in 1..n : f[i] = Kept1(s, S, f[i - 1], i)

LEMMA KeepsExtend ==
    ASSUME NEW s, NEW S, NEW n \in Nat, \E f : Keeps(s, S, n, f)
    PROVE  \E f : Keeps(s, S, n + 1, f)
<1>1. PICK f : Keeps(s, S, n, f)
  OBVIOUS
<1> DEFINE last == Kept1(s, S, f[n], n + 1)
           g == [i \in 0..(n + 1) |-> IF i = n + 1 THEN last ELSE f[i]]
<1>2. f[n] \in Seq(S) /\ last \in Seq(S)
  BY <1>1 DEF Keeps, Kept1
<1>3. \A i \in 0..n : i \in 0..(n + 1) /\ i # n + 1 /\ g[i] = f[i] /\ f[i] \in Seq(S)
  BY <1>1 DEF Keeps
<1>4. g[n + 1] = last
  OBVIOUS
<1>5. \A i \in 0..(n + 1) : i = n + 1 \/ i \in 0..n
  OBVIOUS
<1>6. g \in [0..(n + 1) -> Seq(S)]
  <2>1. \A i \in 0..(n + 1) : g[i] \in Seq(S)
    BY <1>2, <1>3, <1>4, <1>5
  <2>2. QED
    BY <2>1
<1>7. g[0] = <<>>
  BY <1>1, <1>3 DEF Keeps
<1>8. ASSUME NEW i \in 1..(n + 1) PROVE g[i] = Kept1(s, S, g[i - 1], i)
  <2>1. i - 1 \in 0..n /\ g[i - 1] = f[i - 1]
    BY <1>3
  <2>2. CASE i = n + 1
    <3>1. i - 1 = n
      BY <2>2
    <3>2. QED
      BY <1>4, <2>1, <2>2, <3>1
  <2>3. CASE i # n + 1
    <3>1. i \in 1..n /\ g[i] = f[i]
      BY <1>3, <2>3
    <3>2. QED
      BY <1>1, <2>1, <3>1 DEF Keeps
  <2>4. QED
    BY <2>2, <2>3
<1> HIDE DEF g
<1>9. QED
  BY <1>6, <1>7, <1>8 DEF Keeps

\* The last of the steps is Filter's result.
LEMMA FilterSteps ==
    ASSUME NEW s, NEW S, Len(s) \in Nat
    PROVE  \E f : Keeps(s, S, Len(s), f) /\ Filter(s, S) = f[Len(s)]
<1> DEFINE Solved == { n \in Nat : \E f : Keeps(s, S, n, f) }
<1>1. \E f : Keeps(s, S, Len(s), f)
  <2>1. Keeps(s, S, 0, [i \in 0..0 |-> <<>>])
    BY DEF Keeps
  <2>2. 0 \in Solved
    BY <2>1
  <2>3. \A n \in Nat : n < Len(s) /\ n \in Solved => n + 1 \in Solved
    BY KeepsExtend
  <2> HIDE DEF Solved
  <2>4. \A n \in 0..Len(s) : n \in Solved
    BY <2>2, <2>3, UpTo
  <2>5. Len(s) \in 0..Len(s)
    OBVIOUS
  <2>6. QED
    BY <2>4, <2>5 DEF Solved
<1> DEFINE Recursion(f) == f = [n \in 0..Len(s) |->
               IF n = 0 THEN <<>>
               ELSE IF s[n] \in S THEN Append(f[n - 1], s[n]) ELSE f[n - 1]]
           kept == CHOOSE f : Recursion(f)
<1>2. \E f : Recursion(f)
  <2>1. PICK f : Keeps(s, S, Len(s), f)
    BY <1>1
  <2>2. f = [n \in 0..Len(s) |-> f[n]]
    BY <2>1 DEF Keeps
  <2>3. \A n \in 0..Len(s) : f[n] = IF n = 0 THEN <<>>
               ELSE IF s[n] \in S THEN Append(f[n - 1], s[n]) ELSE f[n - 1]
    <3> SUFFICES ASSUME NEW n \in 0..Len(s)
                 PROVE  f[n] = IF n = 0 THEN <<>>
                               ELSE IF s[n] \in S THEN Append(f[n - 1], s[n]) ELSE f[n - 1]
      OBVIOUS
    <3>1. CASE n = 0
      BY <2>1, <3>1 DEF Keeps
    <3>2. CASE n # 0
      <4>1. n \in 1..Len(s)
        BY <3>2
      <4>2. f[n] = Kept1(s, S, f[n - 1], n)
        BY <2>1, <4>1 DEF Keeps
      <4>3. QED
        BY <3>2, <4>2 DEF Kept1
    <3>3. QED
      BY <3>1, <3>2
  <2>4. Recursion(f)
    BY <2>2, <2>3
  <2>5. QED
    BY <2>4
<1>3. Recursion(kept)
  BY <1>2, Zenon
<1>4. Filter(s, S) = kept[Len(s)]
  BY Zenon DEF Filter
<1> HIDE DEF kept
<1>5. /\ DOMAIN kept = 0..Len(s) /\ kept = [n \in 0..Len(s) |-> kept[n]]
      /\ kept[0] = <<>>
      /\ \A n \in 1..Len(s) : kept[n] = Kept1(s, S, kept[n - 1], n)
  <2>1. /\ DOMAIN kept = 0..Len(s) /\ kept = [n \in 0..Len(s) |-> kept[n]]
        /\ kept[0] = <<>>
    BY <1>3
  <2>2. ASSUME NEW n \in 1..Len(s) PROVE kept[n] = Kept1(s, S, kept[n - 1], n)
    <3>1. n \in 0..Len(s) /\ n # 0
      OBVIOUS
    <3>2. kept[n] = IF s[n] \in S THEN Append(kept[n - 1], s[n]) ELSE kept[n - 1]
      BY <1>3, <3>1
    <3>3. QED
      BY <3>2 DEF Kept1
  <2>3. QED
    BY <2>1, <2>2
<1> DEFINE Typed == { n \in Nat : n <= Len(s) => kept[n] \in Seq(S) }
<1>6. \A n \in 0..Len(s) : n \in Typed
  <2>1. 0 \in Typed
    BY <1>5
  <2>2. ASSUME NEW n \in Nat, n < Len(s), n \in Typed PROVE n + 1 \in Typed
    <3>1. n + 1 \in 1..Len(s) /\ (n + 1) - 1 = n /\ kept[n] \in Seq(S)
      BY <2>2
    <3>2. kept[n + 1] = Kept1(s, S, kept[n], n + 1)
      BY <1>5, <3>1
    <3>3. kept[n + 1] \in Seq(S)
      <4>1. CASE s[n + 1] \in S
        BY <3>1, <3>2, <4>1 DEF Kept1
      <4>2. CASE s[n + 1] \notin S
        BY <3>1, <3>2, <4>2 DEF Kept1
      <4>3. QED
        BY <4>1, <4>2
    <3>4. QED
      BY <3>3
  <2> HIDE DEF Typed
  <2>3. QED
    BY <2>1, <2>2, UpTo
<1>7. Keeps(s, S, Len(s), kept)
  <2>1. \A n \in 0..Len(s) : kept[n] \in Seq(S)
    BY <1>6
  <2>2. kept \in [0..Len(s) -> Seq(S)]
    BY <1>5, <2>1
  <2>3. QED
    BY <1>5, <2>2 DEF Keeps
<1>8. QED
  BY <1>4, <1>7

\* Filter keeps the elements that are in S, and no others.
LEMMA FilterLemma ==
    ASSUME NEW T, NEW s \in Seq(T), NEW S
    PROVE  Filter(s, S) \in Seq(S) /\ ToSet(Filter(s, S)) = ToSet(s) \cap S
<1>1. Len(s) \in Nat /\ DOMAIN s = 1..Len(s)
  OBVIOUS
<1>2. PICK f : Keeps(s, S, Len(s), f) /\ Filter(s, S) = f[Len(s)]
  BY <1>1, FilterSteps
<1> DEFINE Exact == { n \in Nat : n <= Len(s) => ToSet(f[n]) = { s[i] : i \in 1..n } \cap S }
<1>3. \A n \in 0..Len(s) : n \in Exact
  <2>1. 0 \in Exact
    BY <1>2 DEF Keeps, ToSet
  <2>2. ASSUME NEW n \in Nat, n < Len(s), n \in Exact PROVE n + 1 \in Exact
    <3>1. n + 1 \in 1..Len(s) /\ (n + 1) - 1 = n /\ n \in 0..Len(s)
      BY <2>2
    <3>2. f[n] \in Seq(S) /\ f[n + 1] = Kept1(s, S, f[n], n + 1)
      BY <1>2, <3>1 DEF Keeps
    <3>3. ToSet(f[n]) = { s[i] : i \in 1..n } \cap S
      BY <2>2
    <3>4. { s[i] : i \in 1..(n + 1) } = { s[i] : i \in 1..n } \cup {s[n + 1]}
      <4>1. \A i \in 1..(n + 1) : i \in 1..n \/ i = n + 1
        OBVIOUS
      <4>2. 1..n \subseteq 1..(n + 1) /\ n + 1 \in 1..(n + 1)
        OBVIOUS
      <4>3. QED
        BY <4>1, <4>2
    <3>5. s[n + 1] \in S => ToSet(Append(f[n], s[n + 1])) = ToSet(f[n]) \cup {s[n + 1]}
      <4> SUFFICES ASSUME s[n + 1] \in S
                   PROVE  ToSet(Append(f[n], s[n + 1])) = ToSet(f[n]) \cup {s[n + 1]}
        OBVIOUS
      <4> DEFINE h == Append(f[n], s[n + 1])
                 m == Len(f[n])
      <4>1. /\ m \in Nat /\ DOMAIN f[n] = 1..m /\ DOMAIN h = 1..(m + 1)
            /\ h[m + 1] = s[n + 1] /\ \A i \in 1..m : h[i] = f[n][i]
        BY <3>2
      <4>2. \A i \in 1..(m + 1) : i \in 1..m \/ i = m + 1
        BY <4>1
      <4>3. 1..m \subseteq 1..(m + 1) /\ m + 1 \in 1..(m + 1)
        BY <4>1
      <4> HIDE DEF h, m
      <4>4. ToSet(h) = ToSet(f[n]) \cup {s[n + 1]}
        BY <4>1, <4>2, <4>3 DEF ToSet
      <4>5. QED
        BY <4>4 DEF h
    <3>6. CASE s[n + 1] \in S
      <4>1. f[n + 1] = Append(f[n], s[n + 1])
        BY <3>2, <3>6 DEF Kept1
      <4>2. ToSet(f[n + 1]) = ({ s[i] : i \in 1..n } \cap S) \cup {s[n + 1]}
        BY <3>3, <3>5, <3>6, <4>1
      <4>3. ToSet(f[n + 1]) = { s[i] : i \in 1..(n + 1) } \cap S
        BY <3>4, <3>6, <4>2
      <4>4. QED
        BY <4>3
    <3>7. CASE s[n + 1] \notin S
      <4>1. f[n + 1] = f[n]
        BY <3>2, <3>7 DEF Kept1
      <4>2. ToSet(f[n + 1]) = { s[i] : i \in 1..(n + 1) } \cap S
        BY <3>3, <3>4, <3>7, <4>1
      <4>3. QED
        BY <4>2
    <3>8. QED
      BY <3>6, <3>7
  <2> HIDE DEF Exact
  <2>3. QED
    BY <1>1, <2>1, <2>2, UpTo
<1>4. f[Len(s)] \in Seq(S) /\ ToSet(f[Len(s)]) = { s[i] : i \in 1..Len(s) } \cap S
  BY <1>1, <1>2, <1>3 DEF Keeps
<1>5. QED
  BY <1>1, <1>2, <1>4 DEF ToSet

-----------------------------------------------------------------------------
(* The schedules. *)

LEMMA RequestFacts ==
    ASSUME NEW q \in Requests
    PROVE  /\ q.clients \in 1..MaxClients /\ q.clients \in Nat /\ q.clients >= 1
           /\ q.attacker_count \in 0..q.clients
           /\ q.start_round \in 1..q.rounds /\ q.rounds \in 1..MaxRounds
           /\ q.targets \in Seq(Nat)
           /\ q.shuffled \in Seq(1..MaxClients) /\ Len(q.shuffled) = q.clients
           /\ ToSet(q.shuffled) = 1..q.clients
           /\ q.scenario \in Scenarios /\ q.enabled \in BOOLEAN
           /\ MaxRounds \in Nat /\ MaxClients \in Nat
<1>1. q \in AttackConfigs
  BY AttackAssumption
<1>2. /\ q.clients \in 1..MaxClients /\ q.attacker_count \in 0..MaxClients
      /\ q.start_round \in 1..MaxRounds /\ q.rounds \in 1..MaxRounds
      /\ q.targets \in Seq(Nat) /\ q.shuffled \in Seq(1..MaxClients)
      /\ q.scenario \in Scenarios /\ q.enabled \in BOOLEAN
  BY <1>1 DEF AttackConfigs
<1>3. /\ q.start_round <= q.rounds /\ q.attacker_count <= q.clients
      /\ Len(q.shuffled) = q.clients /\ ToSet(q.shuffled) = 1..q.clients
      /\ MaxRounds \in Nat /\ MaxClients \in Nat
  BY AttackAssumption
<1>4. /\ q.clients \in Nat /\ q.clients >= 1
      /\ q.attacker_count \in 0..q.clients /\ q.start_round \in 1..q.rounds
  BY <1>2, <1>3
<1>5. QED
  BY <1>2, <1>3, <1>4

\* The targets are clients of the run, and a mixed attack always has one.
LEMMA TargetsLemma ==
    ASSUME NEW q \in Requests
    PROVE  /\ TargetClients(q) \in Seq(1..q.clients)
           /\ q.scenario = "mixed_attack" => TargetClients(q) # <<>>
<1> DEFINE count == IF AttackerCount(q) > q.clients THEN q.clients ELSE AttackerCount(q)
           first == SubSeq(q.shuffled, 1, count)
           named_ones == Filter(q.targets, 1..q.clients)
<1>1. AttackerCount(q) \in Nat /\ (q.scenario = "mixed_attack" => AttackerCount(q) >= 2)
  BY RequestFacts DEF AttackerCount
<1>2. count \in 0..q.clients /\ (q.scenario = "mixed_attack" => count >= 1)
  BY <1>1, RequestFacts
<1>3. named_ones \in Seq(1..q.clients)
  BY RequestFacts, FilterLemma
<1> HIDE DEF count
<1>4. first \in Seq(1..MaxClients) /\ Len(first) = count
      /\ \A i \in 1..count : first[i] = q.shuffled[i]
  BY <1>2, RequestFacts
<1>5. ToSet(first) \subseteq 1..q.clients
  <2>1. \A i \in 1..count : i \in 1..q.clients /\ first[i] \in ToSet(q.shuffled)
    BY <1>2, <1>4, RequestFacts DEF ToSet
  <2>2. DOMAIN first = 1..count
    BY <1>4
  <2>3. QED
    BY <2>1, <2>2, RequestFacts DEF ToSet
<1>6. /\ Sorted(ToSet(first)) \in Seq(ToSet(first))
      /\ ToSet(Sorted(ToSet(first))) = ToSet(NameOrder) \cap ToSet(first)
  <2>1. NameOrder \in Seq(1..MaxClients)
    BY AttackAssumption
  <2>2. QED
    BY <2>1, FilterLemma DEF Sorted
<1>7. Sorted(ToSet(first)) \in Seq(1..q.clients)
  BY <1>5, <1>6, SeqMonotonic, Zenon
<1>8. q.scenario = "mixed_attack" => Sorted(ToSet(first)) # <<>>
  <2> SUFFICES ASSUME q.scenario = "mixed_attack" PROVE Sorted(ToSet(first)) # <<>>
    OBVIOUS
  <2>1. 1 \in DOMAIN first
    BY <1>2, <1>4
  <2>2. first[1] \in ToSet(first) /\ first[1] \in ToSet(NameOrder)
    <3>1. first[1] \in ToSet(first)
      BY <2>1 DEF ToSet
    <3>2. first[1] \in 1..MaxClients
      BY <1>4, <2>1
    <3>3. QED
      BY <3>1, <3>2, AttackAssumption
  <2>3. ToSet(<<>>) = {}
    BY DEF ToSet
  <2>4. QED
    BY <1>6, <2>2, <2>3
<1>9. TargetClients(q) = IF named_ones # <<>> THEN named_ones ELSE Sorted(ToSet(first))
  BY DEF TargetClients, count
<1>10. QED
  BY <1>3, <1>7, <1>8, <1>9

LEMMA FromLemma ==
    ASSUME NEW q \in Requests, NEW C \in SUBSET (1..q.clients), NEW kind \in Kinds
    PROVE  /\ From(q, C, kind) \subseteq (1..q.rounds) \X (1..q.clients) \X Kinds
           /\ \A d \in From(q, C, kind) : d[1] >= q.start_round /\ d[3] = kind
           /\ C # {} => \A e \in q.start_round..q.rounds : \E d \in From(q, C, kind) : d[1] = e
<1>1. q.start_round..q.rounds \subseteq 1..q.rounds
  BY RequestFacts
<1>2. From(q, C, kind) \subseteq (1..q.rounds) \X (1..q.clients) \X Kinds
  BY <1>1 DEF From
<1>3. \A d \in From(q, C, kind) : d[1] >= q.start_round /\ d[3] = kind
  BY RequestFacts DEF From
<1>4. ASSUME NEW c \in C, NEW e \in q.start_round..q.rounds
      PROVE  \E d \in From(q, C, kind) : d[1] = e
  <2>1. <<e, c, kind>> \in From(q, C, kind) /\ <<e, c, kind>>[1] = e
    BY DEF From
  <2>2. QED
    BY <2>1
<1>5. QED
  BY <1>2, <1>3, <1>4

\* The clients the builders are given.
LEMMA TargetSets ==
    ASSUME NEW q \in Requests
    PROVE  /\ ToSet(TargetsOrLast(q)) \in SUBSET (1..q.clients) /\ ToSet(TargetsOrLast(q)) # {}
           /\ ToSet(SybilTargets(q)) \in SUBSET (1..q.clients)
           /\ Len(SybilTargets(q)) \in Nat
           /\ Len(SybilTargets(q)) >= 2 => ToSet(SybilTargets(q)) # {}
           /\ SleeperTarget(q) \in 1..q.clients
           /\ q.scenario = "mixed_attack" => /\ Byzantine(q) \in SUBSET (1..q.clients)
                                             /\ Backdoored(q) \in SUBSET (1..q.clients)
<1> DEFINE T == 1..q.clients
           t == TargetClients(q)
<1>1. t \in Seq(T) /\ (q.scenario = "mixed_attack" => t # <<>>)
  BY TargetsLemma
<1>2. q.clients \in T /\ 1 \in T /\ (q.clients >= 2 => q.clients - 1 \in T)
  BY RequestFacts
<1> HIDE DEF T
<1>3. \A s \in Seq(T) : /\ ToSet(s) \in SUBSET T
                        /\ s # <<>> => ToSet(s) # {}
                        /\ Len(s) >= 2 => ToSet(s) # {}
  <2> SUFFICES ASSUME NEW s \in Seq(T)
               PROVE  /\ ToSet(s) \in SUBSET T
                      /\ s # <<>> => ToSet(s) # {}
                      /\ Len(s) >= 2 => ToSet(s) # {}
    OBVIOUS
  <2>1. Len(s) \in Nat /\ DOMAIN s = 1..Len(s) /\ \A i \in DOMAIN s : s[i] \in T
    OBVIOUS
  <2>2. s # <<>> \/ Len(s) >= 2 => 1 \in DOMAIN s
    BY <2>1
  <2>3. QED
    BY <2>1, <2>2 DEF ToSet
<1>4. TargetsOrLast(q) \in Seq(T) /\ TargetsOrLast(q) # <<>>
  BY <1>1, <1>2 DEF TargetsOrLast
<1>5. SybilTargets(q) \in Seq(T)
  BY <1>1, <1>2 DEF SybilTargets
<1>6. SleeperTarget(q) \in T
  BY <1>1, <1>2 DEF SleeperTarget
<1>7. ASSUME q.scenario = "mixed_attack"
      PROVE  Byzantine(q) \in SUBSET T /\ Backdoored(q) \in SUBSET T
  <2> DEFINE m == Len(t)
  <2>1. m \in Nat /\ m >= 1
    BY <1>1, <1>7
  <2>2. Split(q) \in 1..m
    BY <2>1 DEF Split
  <2>3. SubSeq(t, 1, Split(q)) \in Seq(T)
    BY <1>1, <2>1, <2>2
  <2>4. SubSeq(t, Split(q) + 1, m) \in Seq(T)
    BY <1>1, <2>1, <2>2
  <2>5. SubSeq(t, 1, 1) \in Seq(T)
    BY <1>1, <2>1
  <2>6. QED
    BY <1>3, <2>3, <2>4, <2>5 DEF Byzantine, Backdoored
<1>8. Len(SybilTargets(q)) \in Nat
  BY <1>5
<1>9. QED
  BY <1>3, <1>4, <1>5, <1>6, <1>7, <1>8 DEF T

\* A schedule that can be built.
LEMMA ScheduleLemma ==
    ASSUME NEW q \in Requests, ~Unbuildable(q)
    PROVE  /\ Schedule(q) \subseteq (1..q.rounds) \X (1..q.clients) \X Kinds
           /\ \A d \in Schedule(q) :
                  /\ q.scenario # "normal"
                  /\ d[1] >= q.start_round \/ (q.scenario = "sleeper" /\ d[1] = q.start_round - 1
                                               /\ d[1] > 1 /\ d[3] = "backdoor")
                  /\ q.scenario \in {"backdoor", "sybil"} => d[3] = q.scenario
           /\ q.scenario # "normal" =>
                  \A e \in q.start_round..q.rounds : \E d \in Schedule(q) : d[1] = e
<1> DEFINE All == (1..q.rounds) \X (1..q.clients) \X Kinds
<1>1. {"backdoor", "label_flip", "scaling", "sign_flip", "sybil"} \subseteq Kinds
  BY DEF Kinds, DataKinds, UpdateKinds
<1>2. CASE q.scenario = "normal"
  BY <1>2 DEF Schedule, NormalSchedule
<1>3. CASE q.scenario = "backdoor"
  <2>1. Schedule(q) = From(q, ToSet(TargetsOrLast(q)), "backdoor")
    BY <1>3 DEF Schedule, BackdoorSchedule
  <2>2. "backdoor" \in Kinds
    BY <1>1
  <2>3. /\ Schedule(q) \subseteq All
        /\ \A d \in Schedule(q) : d[1] >= q.start_round /\ d[3] = "backdoor"
        /\ \A e \in q.start_round..q.rounds : \E d \in Schedule(q) : d[1] = e
    BY <2>1, <2>2, FromLemma, TargetSets
  <2>4. QED
    BY <1>3, <2>3
<1>4. CASE q.scenario = "label_poisoning"
  <2>1. Schedule(q) = From(q, ToSet(TargetsOrLast(q)), "label_flip")
    BY <1>4 DEF Schedule, LabelPoisoningSchedule
  <2>2. QED
    BY <1>1, <1>4, <2>1, FromLemma, TargetSets
<1>5. CASE q.scenario = "model_poisoning"
  <2>1. Schedule(q) = From(q, ToSet(TargetsOrLast(q)), "scaling")
    BY <1>5 DEF Schedule, ModelPoisoningSchedule
  <2>2. QED
    BY <1>1, <1>5, <2>1, FromLemma, TargetSets
<1>6. CASE q.scenario = "sybil"
  <2>1. Schedule(q) = From(q, ToSet(SybilTargets(q)), "sybil")
    BY <1>6 DEF Schedule, SybilSchedule
  <2>2. ToSet(SybilTargets(q)) # {}
    <3>1. ~(Len(SybilTargets(q)) < 2)
      BY <1>6 DEF Unbuildable, SybilRefused
    <3>2. QED
      BY <3>1, TargetSets
  <2>3. QED
    BY <1>1, <1>6, <2>1, <2>2, FromLemma, TargetSets
<1>7. CASE q.scenario = "mixed_attack"
  <2> DEFINE B == From(q, Byzantine(q), "sign_flip")
             D == From(q, Backdoored(q), "backdoor")
  <2>1. Schedule(q) = B \cup D
    BY <1>7 DEF Schedule, MixedSchedule
  <2>2. Byzantine(q) # {} \/ Backdoored(q) # {}
    BY <1>7 DEF Unbuildable, MixedRefused
  <2>3. /\ B \subseteq All /\ \A d \in B : d[1] >= q.start_round
        /\ Byzantine(q) # {} => \A e \in q.start_round..q.rounds : \E d \in B : d[1] = e
    BY <1>1, <1>7, FromLemma, TargetSets
  <2>4. /\ D \subseteq All /\ \A d \in D : d[1] >= q.start_round
        /\ Backdoored(q) # {} => \A e \in q.start_round..q.rounds : \E d \in D : d[1] = e
    BY <1>1, <1>7, FromLemma, TargetSets
  <2> HIDE DEF B, D
  <2>5. QED
    BY <1>7, <2>1, <2>2, <2>3, <2>4
<1>8. CASE q.scenario = "sleeper"
  <2> DEFINE S == From(q, {SleeperTarget(q)}, "scaling")
             stealth == <<StealthRound(q), SleeperTarget(q), "backdoor">>
  <2>1. Schedule(q) = {stealth} \cup S
    BY <1>8 DEF Schedule, SleeperSchedule
  <2>2. StealthRound(q) = q.start_round - 1 /\ StealthRound(q) > 1 /\ StealthRound(q) \in 1..q.rounds
    BY <1>8, RequestFacts DEF Unbuildable, SleeperRefused, StealthRound
  <2>3. stealth \in All /\ stealth[1] = q.start_round - 1 /\ stealth[1] > 1 /\ stealth[3] = "backdoor"
    BY <1>1, <2>2, TargetSets
  <2>4. /\ S \subseteq All /\ \A d \in S : d[1] >= q.start_round
        /\ \A e \in q.start_round..q.rounds : \E d \in S : d[1] = e
    <3>1. {SleeperTarget(q)} \in SUBSET (1..q.clients) /\ {SleeperTarget(q)} # {}
      BY TargetSets
    <3>2. QED
      BY <1>1, <3>1, FromLemma
  <2> HIDE DEF S, stealth
  <2>5. QED
    BY <1>8, <2>1, <2>3, <2>4
<1>9. QED
  BY <1>2, <1>3, <1>4, <1>5, <1>6, <1>7, <1>8, RequestFacts DEF Scenarios

-----------------------------------------------------------------------------
(* What a step of one run owes the others. *)

Kept(r) ==
    pc'[r] = pc[r] /\ at'[r] = at[r] /\ damage'[r] = damage[r] /\ named'[r] = named[r]

\* What the cache answers between two steps of run.
Answers(run) ==
    key # None /\ pc[run] \notin KeyPlaces =>
        manager = <<Schedule(key[1])>> /\ ~Unbuildable(key[1])

Idle(run) == \A r \in Runs \ {run} : pc[r] \notin UnderWay

Sound(run) ==
    /\ Shapes' /\ PlaceOf(run)'
    /\ \A r \in Runs \ {run} : Kept(r)
    /\ ~overlapped' => /\ ~overlapped /\ Idle(run)
                       /\ SufferedOf(run)' /\ AnsweredOf(run)' /\ Answers(run)'

LEMMA Assemble ==
    ASSUME ScheduleInv, NEW run \in Runs, Sound(run)
    PROVE  ScheduleInv'
<1>1. ASSUME NEW r \in Runs PROVE PlaceOf(r)'
  <2>1. CASE r = run
    BY <2>1 DEF Sound
  <2>2. CASE r # run
    BY <2>2 DEF Sound, Kept, PlaceOf, Config, ScheduleInv, TypeInv
  <2>3. QED
    BY <2>1, <2>2
<1>2. ASSUME ~overlapped' PROVE CacheAnswersItsKey'
  BY <1>2 DEF Sound, Answers, CacheAnswersItsKey, KeyPlaces
<1>3. ASSUME ~overlapped'
      PROVE  /\ \A r, s \in Runs : pc'[r] \in UnderWay /\ pc'[s] \in UnderWay => r = s
             /\ \A r \in Runs : SufferedOf(r)' /\ AnsweredOf(r)'
  <2>1. \A r \in Runs \ {run} : pc'[r] \notin UnderWay
    BY <1>3 DEF Sound, Idle, Kept
  <2>2. ASSUME NEW r \in Runs \ {run} PROVE SufferedOf(r)' /\ AnsweredOf(r)'
    <3>1. SufferedOf(r) /\ Kept(r)
      BY <1>3 DEF Sound, ScheduleInv, AloneInv
    <3>2. SufferedOf(r)'
      BY <3>1 DEF SufferedOf, Done, Config, Kept
    <3>3. pc'[r] \notin KeyPlaces \cup AskPlaces \cup {"update_ensure", "identify"}
      BY <2>1 DEF UnderWay, DataPlaces, UpdatePlaces, KeyPlaces, AskPlaces
    <3>4. QED
      BY <3>2, <3>3 DEF AnsweredOf
  <2>3. QED
    BY <1>3, <2>1, <2>2 DEF Sound
<1>4. CacheAnswersItsKey'
  BY <1>2 DEF CacheAnswersItsKey
<1>5. QED
  BY <1>1, <1>3, <1>4 DEF Sound, ScheduleInv, TypeInv, AloneInv

\* Without overlap a run is alone when it moves.
LEMMA GoToLemma ==
    ASSUME ScheduleInv, NEW run \in Runs, NEW place \in Places, GoTo(run, place)
    PROVE  /\ pc' \in [Runs -> Places] /\ pc'[run] = place
           /\ \A r \in Runs \ {run} : pc'[r] = pc[r]
           /\ overlapped' \in BOOLEAN
           /\ ~overlapped' => ~overlapped /\ Idle(run)
<1>1. pc \in [Runs -> Places] /\ overlapped \in BOOLEAN
  BY DEF ScheduleInv, TypeInv, Shapes
<1>2. pc' = [pc EXCEPT ![run] = place]
  BY DEF GoTo
<1>3. overlapped' = (overlapped \/ \E r \in Runs \ {run} : pc[r] \notin {"none", "ended"})
  BY DEF GoTo
<1>4. \A r \in Runs : pc[r] \notin {"none", "ended"} <=> pc[r] \in UnderWay
  BY <1>1 DEF Places, UnderWay, DataPlaces, UpdatePlaces
<1>5. ~overlapped' => ~overlapped /\ Idle(run)
  BY <1>3, <1>4 DEF Idle
<1>6. QED
  BY <1>1, <1>2, <1>3, <1>5

\* What is known of the run that moves.
LEMMA Here ==
    ASSUME ScheduleInv, NEW run \in Runs
    PROVE  /\ Shapes /\ PlaceOf(run)
           /\ at[run] \in Journeys /\ Config(run) \in Requests
           /\ at[run].round \in Nat /\ at[run].client \in Nat
           /\ pc[run] \in Places
           /\ ~overlapped => /\ SufferedOf(run) /\ AnsweredOf(run)
                             /\ Idle(run) => Answers(run)
<1>1. Shapes /\ PlaceOf(run) /\ pc[run] \in Places /\ at[run] \in Journeys
  BY DEF ScheduleInv, TypeInv, Shapes
<1>2. /\ Config(run) \in Requests
      /\ at[run].round \in Nat /\ at[run].client \in Nat
  BY <1>1, AttackAssumption DEF Journeys, Config
<1>3. ASSUME ~overlapped, Idle(run) PROVE Answers(run)
  <2>1. \A r \in Runs : pc[r] \in KeyPlaces => r = run
    BY <1>3 DEF Idle, UnderWay, KeyPlaces, DataPlaces, UpdatePlaces
  <2>2. QED
    BY <1>3, <2>1 DEF ScheduleInv, CacheAnswersItsKey, Answers, KeyPlaces
<1>4. QED
  BY <1>1, <1>2, <1>3 DEF ScheduleInv, AloneInv

\* A plan consists of attacks on the run's own clients in its own rounds.
LEMMA PlanLemma ==
    ASSUME NEW q \in Requests
    PROVE  /\ ~Unbuildable(q) => Schedule(q) \subseteq Attacks
           /\ \A d \in Plan(q) : /\ d = <<d[1], d[2], d[3]>> /\ d[1] \in 1..q.rounds
                                 /\ d[2] \in 1..q.clients /\ d[3] \in Kinds
<1> SUFFICES ASSUME ~Unbuildable(q)
             PROVE  /\ Schedule(q) \subseteq Attacks
                    /\ \A d \in Plan(q) : /\ d = <<d[1], d[2], d[3]>> /\ d[1] \in 1..q.rounds
                                          /\ d[2] \in 1..q.clients /\ d[3] \in Kinds
  BY DEF Plan
<1>1. Schedule(q) \subseteq (1..q.rounds) \X (1..q.clients) \X Kinds
  BY ScheduleLemma
<1>2. 1..q.rounds \subseteq 1..MaxRounds /\ 1..q.clients \subseteq 1..MaxClients
  BY RequestFacts
<1>3. \A d \in Schedule(q) : /\ d = <<d[1], d[2], d[3]>> /\ d[1] \in 1..q.rounds
                             /\ d[2] \in 1..q.clients /\ d[3] \in Kinds
  BY <1>1
<1>4. Schedule(q) \subseteq Attacks
  BY <1>1, <1>2 DEF Attacks
<1>5. QED
  BY <1>3, <1>4 DEF Plan

LEMMA PlannedLemma == ASSUME Shapes PROVE Planned \subseteq Attacks
<1>1. CASE manager = None
  BY <1>1 DEF Planned
<1>2. CASE manager # None
  <2>1. PICK q \in Requests : ~Unbuildable(q) /\ manager = <<Schedule(q)>>
    BY <1>2 DEF Shapes
  <2>2. Planned = Schedule(q)
    BY <1>2, <2>1 DEF Planned
  <2>3. QED
    BY <2>1, <2>2, PlanLemma
<1>3. QED
  BY <1>1, <1>2

\* A step that only moves the run on.
LEMMA SufferedKept ==
    ASSUME NEW run, SufferedOf(run), UNCHANGED <<damage, named>>, at'[run] = at[run],
           \A d \in Plan(Config(run)) : Done(run, d[2], d[3])' => Done(run, d[2], d[3])
    PROVE  SufferedOf(run)'
<1>1. Config(run)' = Config(run)
  BY DEF Config
<1>2. QED
  BY <1>1 DEF SufferedOf

-----------------------------------------------------------------------------
(* The steps. *)

LEMMA StartStep ==
    ASSUME ScheduleInv, NEW run \in Runs, Start(run)
    PROVE  ScheduleInv'
<1>1. PICK q \in Requests :
          at' = [at EXCEPT ![run] = [config |-> q, round |-> 1, client |-> 1]]
  BY DEF Start
<1>2. /\ pc[run] = "none" /\ GoTo(run, "data_ensure")
      /\ UNCHANGED <<manager, key, damage, named>>
  BY DEF Start
<1>3. Shapes /\ PlaceOf(run) /\ (~overlapped /\ Idle(run) => Answers(run))
  BY Here
<1>4. /\ q.rounds \in 1..MaxRounds /\ q.clients \in 1..MaxClients
      /\ MaxRounds \in Nat /\ MaxClients \in Nat
  BY RequestFacts
<1>5. /\ pc' \in [Runs -> Places] /\ pc'[run] = "data_ensure"
      /\ \A r \in Runs \ {run} : pc'[r] = pc[r]
      /\ overlapped' \in BOOLEAN
      /\ ~overlapped' => ~overlapped /\ Idle(run)
  <2>1. "data_ensure" \in Places
    BY DEF Places
  <2>2. QED
    BY <1>2, <2>1, GoToLemma
<1>6. /\ at'[run] = [config |-> q, round |-> 1, client |-> 1]
      /\ \A r \in Runs \ {run} : at'[r] = at[r]
      /\ at' \in [Runs -> Journeys]
  <2>1. [config |-> q, round |-> 1, client |-> 1] \in Journeys
    BY <1>4 DEF Journeys
  <2>2. QED
    BY <1>1, <1>3, <2>1 DEF Shapes
<1>7. Shapes'
  BY <1>2, <1>3, <1>5, <1>6 DEF Shapes
<1>8. Config(run)' = q /\ at'[run].round = 1 /\ at'[run].client = 1
  BY <1>6 DEF Config
<1>9. PlaceOf(run)'
  BY <1>4, <1>5, <1>8 DEF PlaceOf, KeyPlaces, AskPlaces
<1>10. SufferedOf(run)'
  <2>1. damage'[run] = {} /\ named'[run] = {}
    BY <1>2, <1>3 DEF PlaceOf
  <2>2. ASSUME NEW d \in Plan(q)
        PROVE  ~(d[1] < 1) /\ ~(d[2] < 1) /\ d[1] \in Nat
    BY <1>4, PlanLemma
  <2>3. ASSUME NEW e \in 1..MaxRounds PROVE ~(e < 1)
    OBVIOUS
  <2>4. \A c, k : Done(run, c, k)' => c < 1
    BY <1>5, <1>8 DEF Done, UpdatePlaces
  <2>5. QED
    BY <1>8, <2>1, <2>2, <2>3, <2>4 DEF SufferedOf
<1>11. AnsweredOf(run)' /\ (~overlapped' => Answers(run)')
  BY <1>2, <1>3, <1>5, <1>8 DEF AnsweredOf, Answers, KeyPlaces, AskPlaces
<1>12. QED
  BY <1>2, <1>5, <1>6, <1>7, <1>9, <1>10, <1>11, Assemble DEF Sound, Kept

\* A step that moves the run on without touching its journey.
LEMMA Onward ==
    ASSUME ScheduleInv, NEW run \in Runs, NEW place \in Places \ {"none"}, GoTo(run, place),
           UNCHANGED <<at, damage, named>>,
           manager' = None \/ (\E q \in Requests : ~Unbuildable(q) /\ manager' = <<Schedule(q)>>),
           key' = None \/ (\E q \in Requests : key' = <<q>>),
           place \in UnderWay => pc[run] \in UnderWay,
           place \in KeyPlaces \cup AskPlaces => Config(run).enabled,
           place = "identify" => ~Config(run).enabled,
           \A c, k : Config(run).enabled /\ Done(run, c, k)' => Done(run, c, k),
           ~overlapped /\ Idle(run) => AnsweredOf(run)' /\ Answers(run)'
    PROVE  ScheduleInv'
<1>1. /\ Shapes /\ PlaceOf(run) /\ at[run] \in Journeys /\ Config(run) \in Requests
      /\ ~overlapped => SufferedOf(run)
  BY Here
<1>2. /\ pc' \in [Runs -> Places] /\ pc'[run] = place
      /\ \A r \in Runs \ {run} : pc'[r] = pc[r]
      /\ overlapped' \in BOOLEAN
      /\ ~overlapped' => ~overlapped /\ Idle(run)
  BY GoToLemma
<1>3. Shapes'
  BY <1>1, <1>2 DEF Shapes
<1>4. Config(run)' = Config(run)
  BY DEF Config
<1>5. PlaceOf(run)'
  BY <1>1, <1>2, <1>4 DEF PlaceOf
<1>6. ASSUME ~overlapped PROVE SufferedOf(run)'
  <2>1. \A d \in Plan(Config(run)) : Config(run).enabled
    BY DEF Plan
  <2>2. QED
    BY <1>1, <1>6, <2>1, SufferedKept
<1>7. QED
  BY <1>2, <1>3, <1>5, <1>6, Assemble DEF Sound, Kept

\* The manager is cached, or built for the run that asks, or the builder raises.
LEMMA EnsureStep ==
    ASSUME ScheduleInv, NEW run \in Runs, NEW place, NEW store, NEW ask,
           \/ place = "data_ensure" /\ store = "data_key" /\ ask = "data_ask"
           \/ place = "update_ensure" /\ store = "update_key" /\ ask = "update_ask",
           Ensure(run, place, store, ask)
    PROVE  ScheduleInv'
<1> DEFINE q == Config(run)
           cached == manager # None /\ key = KeyOf(q)
<1>1. /\ pc[run] = place /\ q.enabled /\ UNCHANGED <<at, damage, named>>
      /\ \/ cached /\ GoTo(run, ask) /\ UNCHANGED <<manager, key>>
         \/ /\ ~cached /\ ~Unbuildable(q) /\ manager' = <<Schedule(q)>>
            /\ GoTo(run, store) /\ UNCHANGED key
         \/ /\ ~cached /\ Unbuildable(q) /\ UNCHANGED key
            /\ GoTo(run, "ended") /\ UNCHANGED manager
  BY DEF Ensure, Enabled, KeyAfterFailure
<1>2. /\ Shapes /\ PlaceOf(run) /\ q \in Requests
      /\ ~overlapped => AnsweredOf(run) /\ (Idle(run) => Answers(run))
  BY Here
<1>3. /\ {place, store, ask} \subseteq UnderWay /\ ask \in Places \ {"none"} /\ store \in Places \ {"none"}
      /\ place \notin KeyPlaces \cup AskPlaces /\ store \in KeyPlaces /\ ask \in AskPlaces
      /\ ask \notin KeyPlaces /\ store \notin AskPlaces \cup {"update_ensure", "identify"}
      /\ store # "identify" /\ ask # "identify" /\ place # "identify"
  BY DEF Places, UnderWay, DataPlaces, UpdatePlaces, KeyPlaces, AskPlaces
<1>4. /\ \A p \in {store, ask} : /\ p \in DataPlaces <=> place \in DataPlaces
                                 /\ p \in UpdatePlaces <=> place \in UpdatePlaces
  BY DEF DataPlaces, UpdatePlaces
<1>5. /\ manager = None \/ (\E p \in Requests : ~Unbuildable(p) /\ manager = <<Schedule(p)>>)
      /\ key = None \/ (\E p \in Requests : key = <<p>>)
      /\ pc \in [Runs -> Places]
  BY <1>2 DEF Shapes
<1>6. ASSUME NEW p \in {store, ask}, GoTo(run, p)
      PROVE  /\ pc'[run] = p
             /\ \A c, k : Done(run, c, k)' => Done(run, c, k)
  <2>1. pc'[run] = p
    BY <1>3, <1>5, <1>6 DEF GoTo
  <2>2. QED
    BY <1>1, <1>3, <1>4, <2>1 DEF Done
<1>7. Config(run)' = q
  BY <1>1 DEF Config
<1> HIDE DEF q
<1>8. CASE cached /\ GoTo(run, ask) /\ UNCHANGED <<manager, key>>
  <2>1. ASSUME ~overlapped, Idle(run) PROVE AnsweredOf(run)' /\ Answers(run)'
    <3>1. key = <<q>> /\ manager = <<Schedule(q)>> /\ ~Unbuildable(q)
      BY <1>1, <1>2, <1>3, <1>8, <2>1 DEF Answers, KeyOf, None
    <3>2. pc'[run] = ask
      BY <1>6, <1>8
    <3>3. QED
      BY <1>3, <1>7, <1>8, <3>1, <3>2 DEF AnsweredOf, Answers
  <2>2. QED
    BY <1>1, <1>3, <1>5, <1>6, <1>8, <2>1, Onward DEF q
<1>9. CASE /\ ~cached /\ ~Unbuildable(q) /\ manager' = <<Schedule(q)>>
           /\ GoTo(run, store) /\ UNCHANGED key
  <2>1. pc'[run] = store
    BY <1>6, <1>9
  <2>2. AnsweredOf(run)' /\ Answers(run)'
    BY <1>3, <1>7, <1>9, <2>1 DEF AnsweredOf, Answers
  <2>3. QED
    BY <1>1, <1>2, <1>3, <1>5, <1>6, <1>9, <2>2, Onward DEF q
<1>10. CASE /\ ~cached /\ Unbuildable(q) /\ UNCHANGED key
            /\ GoTo(run, "ended") /\ UNCHANGED manager
  <2>1. "ended" \in Places \ {"none"}
    BY DEF Places
  <2>2. "ended" \notin UnderWay \cup KeyPlaces \cup AskPlaces \cup {"update_ensure", "identify"}
    BY DEF UnderWay, DataPlaces, UpdatePlaces, KeyPlaces, AskPlaces
  <2>3. pc'[run] = "ended"
    BY <1>5, <1>10 DEF GoTo
  <2>4. \A c, k : ~Done(run, c, k)'
    BY <2>2, <2>3 DEF Done, UnderWay
  <2>5. ASSUME ~overlapped, Idle(run) PROVE AnsweredOf(run)' /\ Answers(run)'
    BY <1>1, <1>2, <1>3, <1>10, <2>2, <2>3, <2>5 DEF AnsweredOf, Answers
  <2>6. QED
    BY <1>1, <1>5, <1>10, <2>1, <2>2, <2>4, <2>5, Onward
<1>11. QED
  BY <1>1, <1>8, <1>9, <1>10 DEF q

LEMMA StoreKeyStep ==
    ASSUME ScheduleInv, NEW run \in Runs, NEW place, NEW ask,
           \/ place = "data_key" /\ ask = "data_ask"
           \/ place = "update_key" /\ ask = "update_ask",
           StoreKey(run, place, ask)
    PROVE  ScheduleInv'
<1> DEFINE q == Config(run)
<1>1. /\ pc[run] = place /\ key' = <<q>> /\ GoTo(run, ask)
      /\ UNCHANGED <<manager, at, damage, named>>
  BY DEF StoreKey, KeyOf
<1>2. Shapes /\ PlaceOf(run) /\ q \in Requests /\ (~overlapped => AnsweredOf(run))
  BY Here
<1>3. /\ {place, ask} \subseteq UnderWay /\ ask \in Places \ {"none"}
      /\ place \in KeyPlaces /\ ask \in AskPlaces /\ ask \notin KeyPlaces
      /\ ask # "identify" /\ place # "identify"
      /\ ask \in DataPlaces <=> place \in DataPlaces
      /\ ask \in UpdatePlaces <=> place \in UpdatePlaces
  BY DEF Places, UnderWay, DataPlaces, UpdatePlaces, KeyPlaces, AskPlaces
<1>4. q.enabled
  BY <1>1, <1>2, <1>3 DEF PlaceOf
<1>5. /\ manager = None \/ (\E p \in Requests : ~Unbuildable(p) /\ manager = <<Schedule(p)>>)
      /\ pc \in [Runs -> Places]
  BY <1>2 DEF Shapes
<1>6. pc'[run] = ask
  BY <1>1, <1>5 DEF GoTo
<1>7. Config(run)' = q
  BY <1>1 DEF Config
<1>8. \A c, k : Done(run, c, k)' => Done(run, c, k)
  BY <1>1, <1>3, <1>6 DEF Done
<1> HIDE DEF q
<1>9. ASSUME ~overlapped PROVE AnsweredOf(run)' /\ Answers(run)'
  <2>1. manager = <<Schedule(q)>> /\ ~Unbuildable(q)
    BY <1>1, <1>2, <1>3, <1>9 DEF AnsweredOf, q
  <2>2. QED
    BY <1>1, <1>3, <1>6, <1>7, <2>1 DEF AnsweredOf, Answers
<1>10. QED
  BY <1>1, <1>2, <1>3, <1>4, <1>5, <1>8, <1>9, Onward DEF q

\* An attack that is switched off asks nothing.
LEMMA NoAttackStep ==
    ASSUME ScheduleInv, NEW run \in Runs, NoDataAttack(run) \/ NoUpdateAttack(run)
    PROVE  ScheduleInv'
<1>1. PICK place \in {"update_ensure", "identify"} :
          /\ pc[run] \in {"data_ensure", "update_ensure"} /\ ~Config(run).enabled
          /\ GoTo(run, place) /\ UNCHANGED <<manager, key, at, damage, named>>
  BY DEF NoDataAttack, NoUpdateAttack, Enabled
<1>2. Shapes /\ (~overlapped => (Idle(run) => Answers(run)))
  BY Here
<1>3. /\ pc[run] \in UnderWay /\ pc[run] \notin KeyPlaces
      /\ place \in Places \ {"none"} /\ place \notin KeyPlaces \cup AskPlaces
  BY <1>1 DEF Places, UnderWay, DataPlaces, UpdatePlaces, KeyPlaces, AskPlaces
<1>4. pc'[run] = place
  BY <1>1, <1>2 DEF GoTo, Shapes
<1>5. ASSUME ~overlapped, Idle(run) PROVE AnsweredOf(run)' /\ Answers(run)'
  <2>1. Config(run)' = Config(run)
    BY <1>1 DEF Config
  <2>2. QED
    BY <1>1, <1>2, <1>3, <1>4, <1>5, <2>1 DEF AnsweredOf, Answers
<1>6. QED
  BY <1>1, <1>2, <1>3, <1>5, Onward DEF Shapes

\* The round fails for another reason.
LEMMA AbortStep ==
    ASSUME ScheduleInv, NEW run \in Runs, Abort(run)
    PROVE  ScheduleInv'
<1>1. /\ pc[run] \notin KeyPlaces /\ GoTo(run, "ended")
      /\ UNCHANGED <<manager, key, at, damage, named>>
  BY DEF Abort, KeyPlaces
<1>2. Shapes /\ (~overlapped => (Idle(run) => Answers(run)))
  BY Here
<1>3. "ended" \in Places \ {"none"}
  BY DEF Places
<1>4. "ended" \notin UnderWay \cup KeyPlaces \cup AskPlaces \cup {"update_ensure", "identify"}
  BY DEF UnderWay, DataPlaces, UpdatePlaces, KeyPlaces, AskPlaces
<1>5. pc'[run] = "ended"
  BY <1>1, <1>2 DEF GoTo, Shapes
<1>6. \A c, k : ~Done(run, c, k)'
  BY <1>4, <1>5 DEF Done, UnderWay
<1>7. ASSUME ~overlapped, Idle(run) PROVE AnsweredOf(run)' /\ Answers(run)'
  BY <1>1, <1>2, <1>4, <1>5, <1>7 DEF AnsweredOf, Answers
<1>8. QED
  BY <1>1, <1>2, <1>3, <1>4, <1>6, <1>7, Onward DEF Shapes

\* What one call carries out is part of the plan.
LEMMA AttackLemma ==
    ASSUME ScheduleInv, NEW run \in Runs, NEW kinds \in SUBSET Kinds,
           pc[run] \in AskPlaces, Attack(run, kinds)
    PROVE  /\ damage' \in [Runs -> SUBSET Attacks]
           /\ \A r \in Runs \ {run} : damage'[r] = damage[r]
           /\ damage[run] \subseteq damage'[run]
           /\ ~overlapped =>
                  /\ damage'[run] \subseteq Plan(Config(run))
                  /\ \A d \in Plan(Config(run)) :
                         /\ d[1] = at[run].round /\ d[2] = at[run].client /\ d[3] \in kinds
                         => d \in damage'[run]
<1> DEFINE new == { <<at[run].round, at[run].client, k>> : k \in
                      { k \in kinds : <<at[run].round, at[run].client, k>> \in Planned } }
<1>1. damage' = [damage EXCEPT ![run] = damage[run] \cup new]
  BY DEF Attack
<1>2. /\ Shapes /\ PlaceOf(run) /\ Config(run) \in Requests
      /\ ~overlapped => SufferedOf(run) /\ AnsweredOf(run)
  BY Here
<1>3. /\ \A x \in new : x \in Planned
      /\ \A k \in kinds : <<at[run].round, at[run].client, k>> \in Planned
                          => <<at[run].round, at[run].client, k>> \in new
  BY Zenon
<1>4. Planned \subseteq Attacks
  BY <1>2, PlannedLemma
<1> HIDE DEF new
<1>5. /\ damage' \in [Runs -> SUBSET Attacks]
      /\ \A r \in Runs \ {run} : damage'[r] = damage[r]
      /\ damage'[run] = damage[run] \cup new
  <2>1. damage \in [Runs -> SUBSET Attacks]
    BY <1>2 DEF Shapes
  <2>2. damage[run] \cup new \in SUBSET Attacks
    BY <1>3, <1>4, <2>1
  <2>3. QED
    BY <1>1, <2>1, <2>2
<1>6. ASSUME ~overlapped
      PROVE  /\ damage'[run] \subseteq Plan(Config(run))
             /\ \A d \in Plan(Config(run)) :
                    /\ d[1] = at[run].round /\ d[2] = at[run].client /\ d[3] \in kinds
                    => d \in damage'[run]
  <2>1. manager = <<Schedule(Config(run))>> /\ ~Unbuildable(Config(run)) /\ Config(run).enabled
    <3>1. pc[run] \in KeyPlaces \cup AskPlaces /\ pc[run] \in AskPlaces \cup {"update_ensure", "identify"}
      OBVIOUS
    <3>2. Config(run).enabled
      BY <1>2, <3>1 DEF PlaceOf
    <3>3. QED
      BY <1>2, <1>6, <3>1, <3>2 DEF AnsweredOf
  <2>2. Planned = Plan(Config(run))
    BY <2>1 DEF Planned, None, Plan
  <2>3. damage[run] \subseteq Plan(Config(run))
    BY <1>2, <1>6 DEF SufferedOf
  <2>4. ASSUME NEW d \in Plan(Config(run)),
               d[1] = at[run].round, d[2] = at[run].client, d[3] \in kinds
        PROVE  d \in new
    <3>1. d = <<at[run].round, at[run].client, d[3]>>
      BY <1>2, <2>4, PlanLemma
    <3>2. QED
      BY <1>3, <2>2, <2>4, <3>1
  <2>5. QED
    BY <1>3, <1>5, <2>2, <2>3, <2>4
<1>7. QED
  BY <1>5, <1>6

\* The next client is asked about, or the last one is behind.
LEMMA AttackDataStep ==
    ASSUME ScheduleInv, NEW run \in Runs, AttackData(run)
    PROVE  ScheduleInv'
<1> DEFINE q == Config(run)
           c == at[run].client
<1>1. /\ pc[run] = "data_ask" /\ Attack(run, DataKinds) /\ UNCHANGED <<manager, key, named>>
      /\ \/ /\ c = q.clients /\ GoTo(run, "update_ensure")
            /\ at' = [at EXCEPT ![run].client = 1]
         \/ /\ c # q.clients /\ GoTo(run, "data_ensure")
            /\ at' = [at EXCEPT ![run].client = c + 1]
  BY DEF AttackData, LastClient
<1>2. /\ Shapes /\ PlaceOf(run) /\ at[run] \in Journeys /\ q \in Requests
      /\ ~overlapped => SufferedOf(run) /\ AnsweredOf(run) /\ (Idle(run) => Answers(run))
  BY Here
<1>3. /\ q.enabled /\ at[run].round \in 1..q.rounds /\ c \in 1..q.clients
      /\ at[run].round <= q.rounds + 1
  BY <1>1, <1>2 DEF PlaceOf, UnderWay, DataPlaces, KeyPlaces, AskPlaces
<1>4. q.clients \in Nat /\ q.clients >= 1 /\ q.clients <= MaxClients /\ MaxClients \in Nat
  BY <1>2, RequestFacts
<1>5. PICK n \in 1..q.clients, place \in {"data_ensure", "update_ensure"} :
          /\ GoTo(run, place) /\ at' = [at EXCEPT ![run].client = n]
          /\ \/ c = q.clients /\ place = "update_ensure" /\ n = 1
             \/ c # q.clients /\ place = "data_ensure" /\ n = c + 1
  <2>1. c # q.clients => c + 1 \in 1..q.clients
    BY <1>3, <1>4
  <2>2. 1 \in 1..q.clients
    BY <1>4
  <2>3. QED
    BY <1>1, <2>1, <2>2
<1>6. /\ pc' \in [Runs -> Places] /\ pc'[run] = place
      /\ \A r \in Runs \ {run} : pc'[r] = pc[r]
      /\ overlapped' \in BOOLEAN
      /\ ~overlapped' => ~overlapped /\ Idle(run)
  <2>1. place \in Places
    BY DEF Places
  <2>2. QED
    BY <1>5, <2>1, GoToLemma
<1>7. /\ at'[run] = [at[run] EXCEPT !.client = n] /\ at' \in [Runs -> Journeys]
      /\ \A r \in Runs \ {run} : at'[r] = at[r]
  <2>1. [at[run] EXCEPT !.client = n] \in Journeys
    BY <1>2, <1>4 DEF Journeys
  <2>2. at' = [at EXCEPT ![run] = [at[run] EXCEPT !.client = n]]
    BY <1>5
  <2>3. QED
    BY <1>2, <2>1, <2>2 DEF Shapes
<1>8. Config(run)' = q /\ at'[run].round = at[run].round /\ at'[run].client = n
  BY <1>2, <1>7 DEF Journeys, Config
<1>9. /\ damage' \in [Runs -> SUBSET Attacks]
      /\ \A r \in Runs \ {run} : damage'[r] = damage[r]
      /\ damage[run] \subseteq damage'[run]
      /\ ~overlapped =>
             /\ damage'[run] \subseteq Plan(q)
             /\ \A d \in Plan(q) : d[1] = at[run].round /\ d[2] = c /\ d[3] \in DataKinds
                    => d \in damage'[run]
  <2>1. DataKinds \in SUBSET Kinds /\ pc[run] \in AskPlaces
    BY <1>1 DEF Kinds, AskPlaces
  <2>2. QED
    BY <1>1, <2>1, AttackLemma
<1>10. Shapes'
  BY <1>1, <1>2, <1>6, <1>7, <1>9 DEF Shapes
<1>11. PlaceOf(run)'
  <2>1. place \notin KeyPlaces \cup AskPlaces \cup {"none", "identify"}
    BY DEF KeyPlaces, AskPlaces
  <2>2. QED
    BY <1>3, <1>6, <1>8, <2>1 DEF PlaceOf
<1>12. ASSUME ~overlapped PROVE SufferedOf(run)'
  <2>1. ASSUME NEW d \in Plan(q), d[1] < at[run].round \/ (d[1] = at[run].round /\ Done(run, d[2], d[3])')
        PROVE  d \in damage'[run]
    <3>1. CASE d[1] < at[run].round
      BY <1>2, <1>9, <1>12, <2>1, <3>1 DEF SufferedOf
    <3>2. CASE d[1] = at[run].round /\ Done(run, d[2], d[3])'
      <4>1. d[2] \in 1..q.clients
        BY <1>2, PlanLemma
      <4>2. d[3] \in DataKinds /\ (d[2] < c \/ d[2] = c)
        BY <1>3, <1>4, <1>5, <1>6, <1>8, <3>2, <4>1 DEF Done, DataPlaces, UpdatePlaces
      <4>3. CASE d[2] = c
        BY <1>9, <1>12, <3>2, <4>2, <4>3
      <4>4. CASE d[2] < c
        <5>1. Done(run, d[2], d[3])
          BY <1>1, <4>2, <4>4 DEF Done, DataPlaces
        <5>2. QED
          BY <1>2, <1>9, <1>12, <3>2, <5>1 DEF SufferedOf
      <4>5. QED
        BY <4>2, <4>3, <4>4
    <3>3. QED
      BY <2>1, <3>1, <3>2
  <2>2. QED
    BY <1>1, <1>2, <1>8, <1>9, <1>12, <2>1 DEF SufferedOf
<1>13. ASSUME ~overlapped, Idle(run) PROVE AnsweredOf(run)' /\ Answers(run)'
  BY <1>1, <1>2, <1>3, <1>6, <1>8, <1>13 DEF AnsweredOf, Answers, KeyPlaces, AskPlaces
<1>14. QED
  BY <1>1, <1>6, <1>7, <1>9, <1>10, <1>11, <1>12, <1>13, Assemble DEF Sound, Kept

\* The next update is asked about, or the last one is behind.
LEMMA AttackUpdateStep ==
    ASSUME ScheduleInv, NEW run \in Runs, AttackUpdate(run)
    PROVE  ScheduleInv'
<1> DEFINE q == Config(run)
           c == at[run].client
<1>1. /\ pc[run] = "update_ask" /\ Attack(run, UpdateKinds) /\ UNCHANGED <<manager, key, named>>
      /\ \/ /\ c = q.clients /\ GoTo(run, "identify")
            /\ at' = [at EXCEPT ![run].client = 1]
         \/ /\ c # q.clients /\ UNCHANGED <<pc, overlapped>>
            /\ at' = [at EXCEPT ![run].client = c + 1]
  BY DEF AttackUpdate, LastClient
<1>2. /\ Shapes /\ PlaceOf(run) /\ at[run] \in Journeys /\ q \in Requests
      /\ ~overlapped => SufferedOf(run) /\ AnsweredOf(run) /\ (Idle(run) => Answers(run))
  BY Here
<1>3. /\ q.enabled /\ at[run].round \in 1..q.rounds /\ c \in 1..q.clients
      /\ at[run].round <= q.rounds + 1
  BY <1>1, <1>2 DEF PlaceOf, UnderWay, UpdatePlaces, KeyPlaces, AskPlaces
<1>4. q.clients \in Nat /\ q.clients >= 1 /\ q.clients <= MaxClients /\ MaxClients \in Nat
  BY <1>2, RequestFacts
<1>5. PICK n \in 1..q.clients, place \in {"update_ask", "identify"} :
          /\ pc' \in [Runs -> Places] /\ pc'[run] = place
          /\ \A r \in Runs \ {run} : pc'[r] = pc[r]
          /\ overlapped' \in BOOLEAN
          /\ ~overlapped' => ~overlapped /\ Idle(run)
          /\ at' = [at EXCEPT ![run].client = n]
          /\ \/ c = q.clients /\ place = "identify" /\ n = 1
             \/ c # q.clients /\ place = "update_ask" /\ n = c + 1
  <2>1. CASE c = q.clients /\ GoTo(run, "identify") /\ at' = [at EXCEPT ![run].client = 1]
    <3>1. "identify" \in Places
      BY DEF Places
    <3>2. /\ pc' \in [Runs -> Places] /\ pc'[run] = "identify"
          /\ \A r \in Runs \ {run} : pc'[r] = pc[r]
          /\ overlapped' \in BOOLEAN
          /\ ~overlapped' => ~overlapped /\ Idle(run)
      BY <2>1, <3>1, GoToLemma
    <3>3. 1 \in 1..q.clients
      BY <1>4
    <3>4. QED
      BY <2>1, <3>2, <3>3
  <2>2. CASE /\ c # q.clients /\ UNCHANGED <<pc, overlapped>>
             /\ at' = [at EXCEPT ![run].client = c + 1]
    <3>1. c + 1 \in 1..q.clients
      BY <1>3, <1>4, <2>2
    <3>2. pc[run] \in UnderWay
      BY <1>1 DEF UnderWay, UpdatePlaces
    <3>3. ~overlapped => Idle(run)
      BY <3>2 DEF ScheduleInv, AloneInv, Idle
    <3>4. pc \in [Runs -> Places] /\ overlapped \in BOOLEAN
      BY <1>2 DEF Shapes
    <3>5. QED
      BY <1>1, <2>2, <3>1, <3>3, <3>4
  <2>3. QED
    BY <1>1, <2>1, <2>2
<1>6. /\ at'[run] = [at[run] EXCEPT !.client = n] /\ at' \in [Runs -> Journeys]
      /\ \A r \in Runs \ {run} : at'[r] = at[r]
  <2>1. [at[run] EXCEPT !.client = n] \in Journeys
    BY <1>2, <1>4 DEF Journeys
  <2>2. at' = [at EXCEPT ![run] = [at[run] EXCEPT !.client = n]]
    BY <1>5
  <2>3. QED
    BY <1>2, <2>1, <2>2 DEF Shapes
<1>7. Config(run)' = q /\ at'[run].round = at[run].round /\ at'[run].client = n
  BY <1>2, <1>6 DEF Journeys, Config
<1>8. /\ damage' \in [Runs -> SUBSET Attacks]
      /\ \A r \in Runs \ {run} : damage'[r] = damage[r]
      /\ damage[run] \subseteq damage'[run]
      /\ ~overlapped =>
             /\ damage'[run] \subseteq Plan(q)
             /\ \A d \in Plan(q) : d[1] = at[run].round /\ d[2] = c /\ d[3] \in UpdateKinds
                    => d \in damage'[run]
  <2>1. UpdateKinds \in SUBSET Kinds /\ pc[run] \in AskPlaces
    BY <1>1 DEF Kinds, AskPlaces
  <2>2. QED
    BY <1>1, <2>1, AttackLemma
<1>9. Shapes'
  BY <1>1, <1>2, <1>5, <1>6, <1>8 DEF Shapes
<1>10. PlaceOf(run)'
  <2>1. place \notin KeyPlaces /\ place # "none" /\ (place = "identify" => n = 1)
    BY <1>5 DEF KeyPlaces
  <2>2. QED
    BY <1>3, <1>5, <1>7, <2>1 DEF PlaceOf
<1>11. ASSUME ~overlapped PROVE SufferedOf(run)'
  <2>1. ASSUME NEW d \in Plan(q), d[1] < at[run].round \/ (d[1] = at[run].round /\ Done(run, d[2], d[3])')
        PROVE  d \in damage'[run]
    <3>1. CASE d[1] < at[run].round
      BY <1>2, <1>8, <1>11, <2>1, <3>1 DEF SufferedOf
    <3>2. CASE d[1] = at[run].round /\ Done(run, d[2], d[3])'
      <4>1. d[2] \in 1..q.clients /\ d[3] \in Kinds
        BY <1>2, PlanLemma
      <4>2. d[3] \in DataKinds \/ d[2] < c \/ d[2] = c
        BY <1>3, <1>4, <1>5, <1>7, <3>2, <4>1 DEF Done, DataPlaces, UpdatePlaces
      <4>3. CASE d[3] \notin DataKinds /\ d[2] = c
        <5>1. d[3] \in UpdateKinds
          BY <4>1, <4>3 DEF Kinds
        <5>2. QED
          BY <1>8, <1>11, <3>2, <4>3, <5>1
      <4>4. CASE d[3] \in DataKinds \/ d[2] < c
        <5>1. Done(run, d[2], d[3])
          BY <1>1, <4>4 DEF Done, UpdatePlaces
        <5>2. QED
          BY <1>2, <1>8, <1>11, <3>2, <5>1 DEF SufferedOf
      <4>5. QED
        BY <4>2, <4>3, <4>4
    <3>3. QED
      BY <2>1, <3>1, <3>2
  <2>2. QED
    BY <1>1, <1>2, <1>7, <1>8, <1>11, <2>1 DEF SufferedOf
<1>12. ASSUME ~overlapped, Idle(run) PROVE AnsweredOf(run)' /\ Answers(run)'
  <2>1. pc[run] \in AskPlaces \cup {"update_ensure", "identify"} /\ place \notin KeyPlaces
    BY <1>1 DEF KeyPlaces, AskPlaces
  <2>2. manager = <<Schedule(q)>> /\ key = <<q>> /\ ~Unbuildable(q)
    BY <1>2, <1>3, <1>12, <2>1 DEF AnsweredOf
  <2>3. QED
    BY <1>1, <1>5, <1>7, <2>1, <2>2 DEF AnsweredOf, Answers
<1>13. QED
  BY <1>1, <1>5, <1>6, <1>8, <1>9, <1>10, <1>11, <1>12, Assemble DEF Sound, Kept

\* A run is told who attacked in the round that is behind it.
LEMMA GetAttackerIdsStep ==
    ASSUME ScheduleInv, NEW run \in Runs, GetAttackerIds(run)
    PROVE  ScheduleInv'
<1> DEFINE q == Config(run)
           n == at[run].round
           told == {n} \X AttackersOf(q, n)
<1>1. /\ pc[run] = "identify" /\ named' = [named EXCEPT ![run] = named[run] \cup told]
      /\ at' = [at EXCEPT ![run] = [at[run] EXCEPT !.round = n + 1]]
      /\ GoTo(run, IF n < q.rounds THEN "data_ensure" ELSE "ended")
      /\ UNCHANGED <<manager, key, damage>>
  BY DEF GetAttackerIds
<1>2. /\ Shapes /\ PlaceOf(run) /\ at[run] \in Journeys /\ q \in Requests
      /\ ~overlapped => SufferedOf(run) /\ AnsweredOf(run) /\ (Idle(run) => Answers(run))
  BY Here
<1>3. /\ n \in 1..q.rounds /\ at[run].client \in 1..q.clients
      /\ q.rounds \in 1..MaxRounds /\ MaxRounds \in Nat /\ MaxClients \in Nat
  BY <1>1, <1>2, RequestFacts DEF PlaceOf, UnderWay
<1>4. /\ n \in Nat /\ n + 1 <= q.rounds + 1 /\ n + 1 \in 0..(MaxRounds + 1) /\ n \in 1..MaxRounds
      /\ n < q.rounds => n + 1 \in 1..q.rounds
  BY <1>3
<1>5. PICK place \in {"data_ensure", "ended"} :
          GoTo(run, place) /\ (place = "data_ensure" => n < q.rounds)
  BY <1>1
<1>6. /\ pc' \in [Runs -> Places] /\ pc'[run] = place
      /\ \A r \in Runs \ {run} : pc'[r] = pc[r]
      /\ overlapped' \in BOOLEAN
      /\ ~overlapped' => ~overlapped /\ Idle(run)
  <2>1. place \in Places
    BY DEF Places
  <2>2. QED
    BY <1>5, <2>1, GoToLemma
<1>7. /\ at'[run] = [at[run] EXCEPT !.round = n + 1] /\ at' \in [Runs -> Journeys]
      /\ \A r \in Runs \ {run} : at'[r] = at[r]
  <2>1. [at[run] EXCEPT !.round = n + 1] \in Journeys
    BY <1>2, <1>4 DEF Journeys
  <2>2. QED
    BY <1>1, <1>2, <2>1 DEF Shapes
<1>8. Config(run)' = q /\ at'[run].round = n + 1 /\ at'[run].client = at[run].client
  BY <1>2, <1>7 DEF Journeys, Config
<1>9. /\ named'[run] = named[run] \cup told
      /\ \A r \in Runs \ {run} : named'[r] = named[r]
      /\ named' \in [Runs -> SUBSET ((1..MaxRounds) \X (1..MaxClients))]
      /\ named[run] \subseteq (1..MaxRounds) \X (1..MaxClients)
  <2>1. told \subseteq (1..MaxRounds) \X (1..MaxClients)
    BY <1>4 DEF AttackersOf
  <2>2. named \in [Runs -> SUBSET ((1..MaxRounds) \X (1..MaxClients))]
    BY <1>2 DEF Shapes
  <2> HIDE DEF told
  <2>3. named[run] \cup told \in SUBSET ((1..MaxRounds) \X (1..MaxClients))
    BY <2>1, <2>2
  <2>4. QED
    BY <1>1, <2>2, <2>3
<1>10. Shapes'
  BY <1>1, <1>2, <1>6, <1>7, <1>9 DEF Shapes
<1>11. /\ place \notin KeyPlaces \cup AskPlaces \cup {"update_ensure", "identify", "none"}
       /\ pc[run] \notin KeyPlaces /\ pc[run] \in AskPlaces \cup {"update_ensure", "identify"}
       /\ place \notin UpdatePlaces /\ (place \in UnderWay => place = "data_ensure")
  BY <1>1 DEF KeyPlaces, AskPlaces, UpdatePlaces, DataPlaces, UnderWay
<1>12. PlaceOf(run)'
  BY <1>3, <1>4, <1>5, <1>6, <1>8, <1>11 DEF PlaceOf
<1>13. ASSUME ~overlapped PROVE SufferedOf(run)'
  <2>1. q.enabled => manager = <<Schedule(q)>> /\ ~Unbuildable(q)
    BY <1>2, <1>11, <1>13 DEF AnsweredOf
  <2>2. q.enabled => Planned = Plan(q)
    BY <2>1 DEF Planned, None, Plan
  <2>3. ~q.enabled => Plan(q) = {}
    BY DEF Plan
  <2>4. \A k : <<n, k>> \in told <=> k \in AttackersOf(q, n)
    OBVIOUS
  <2>5. ASSUME NEW k \in 1..MaxClients
        PROVE  k \in AttackersOf(q, n) <=> \E kind \in Kinds : <<n, k, kind>> \in Plan(q)
    BY <2>2, <2>3 DEF AttackersOf
  <2>6. /\ damage[run] \subseteq Plan(q)
        /\ \A d \in Plan(q) : d[1] < n \/ (d[1] = n /\ Done(run, d[2], d[3])) => d \in damage[run]
        /\ \A e \in 1..MaxRounds, k \in 1..MaxClients :
               <<e, k>> \in named[run] <=> e < n /\ \E kind \in Kinds : <<e, k, kind>> \in Plan(q)
    BY <1>2, <1>13 DEF SufferedOf
  <2>7. \A e : e \in 1..MaxRounds => (e < n + 1 <=> e < n \/ e = n) /\ ~(n < n)
    BY <1>4
  <2>8. ASSUME NEW e \in 1..MaxRounds, NEW k \in 1..MaxClients
        PROVE  <<e, k>> \in named'[run] <=> e < n + 1 /\ \E kind \in Kinds : <<e, k, kind>> \in Plan(q)
    <3>1. <<e, k>> \in named'[run] <=> <<e, k>> \in named[run] \/ <<e, k>> \in told
      BY <1>9
    <3>2. <<e, k>> \in told <=> e = n /\ k \in AttackersOf(q, n)
      OBVIOUS
    <3> HIDE DEF told
    <3>3. CASE e = n
      <4>1. <<e, k>> \notin named[run]
        BY <2>6, <2>7, <3>3
      <4>2. QED
        BY <2>5, <2>7, <3>1, <3>2, <3>3, <4>1
    <3>4. CASE e # n
      BY <2>6, <2>7, <3>1, <3>2, <3>4
    <3>5. QED
      BY <3>3, <3>4
  <2>9. ASSUME NEW d \in Plan(q), d[1] < n + 1 \/ (d[1] = n + 1 /\ Done(run, d[2], d[3])')
        PROVE  d \in damage[run]
    <3>1. d[1] \in Nat /\ d[2] \in 1..q.clients
      BY <1>2, <1>3, PlanLemma
    <3>2. Done(run, d[2], d[3])
      BY <1>1 DEF Done
    <3>3. CASE d[1] < n \/ d[1] = n
      BY <2>6, <3>2, <3>3
    <3>4. CASE d[1] = n + 1 /\ Done(run, d[2], d[3])'
      <4>1. place = "data_ensure" /\ d[2] < at[run].client
        BY <1>6, <1>8, <1>11, <3>4 DEF Done, DataPlaces
      <4>2. q.enabled
        BY DEF Plan
      <4>3. at[run].client = 1
        BY <1>1, <1>2, <4>2 DEF PlaceOf
      <4>4. QED
        BY <3>1, <4>1, <4>3
    <3>5. QED
      BY <1>4, <2>9, <3>1, <3>3, <3>4
  <2>10. q.enabled /\ at'[run].round >= 2 => ~Unbuildable(q)
    BY <2>1
  <2> HIDE DEF q, n, told
  <2>11. QED
    BY <1>1, <1>8, <2>6, <2>8, <2>9, <2>10 DEF SufferedOf
<1>14. ASSUME ~overlapped, Idle(run) PROVE AnsweredOf(run)' /\ Answers(run)'
  BY <1>1, <1>2, <1>6, <1>11, <1>14 DEF AnsweredOf, Answers
<1>15. QED
  BY <1>1, <1>6, <1>7, <1>9, <1>10, <1>12, <1>13, <1>14, Assemble DEF Sound, Kept

-----------------------------------------------------------------------------
(* The invariant. *)

LEMMA AtTheStart == ASSUME AttackInit PROVE ScheduleInv
<1> DEFINE first == CHOOSE q \in Requests : TRUE
<1>1. first \in Requests
  <2>1. \E q \in Requests : TRUE
    BY AttackAssumption
  <2>2. QED
    BY <2>1, Zenon
<1>2. NoRun = [config |-> first, round |-> 0, client |-> 0]
  BY DEF NoRun
<1> HIDE DEF first
<1>3. /\ manager = None /\ key = None /\ overlapped = FALSE
      /\ pc = [r \in Runs |-> "none"] /\ at = [r \in Runs |-> NoRun]
      /\ damage = [r \in Runs |-> {}] /\ named = [r \in Runs |-> {}]
  BY DEF AttackInit
<1>4. MaxRounds \in Nat /\ MaxClients \in Nat
  BY AttackAssumption
<1>5. NoRun \in Journeys
  BY <1>1, <1>2, <1>4 DEF Journeys
<1>6. "none" \in Places
  BY DEF Places
<1>7. "none" \notin UnderWay \cup KeyPlaces \cup AskPlaces \cup {"update_ensure", "identify"}
  BY DEF UnderWay, DataPlaces, UpdatePlaces, KeyPlaces, AskPlaces
<1>8. Shapes
  BY <1>3, <1>5, <1>6 DEF Shapes
<1>9. ASSUME NEW r \in Runs
      PROVE  /\ Config(r) = first /\ at[r].round = 0
             /\ pc[r] = "none" /\ damage[r] = {} /\ named[r] = {}
  BY <1>2, <1>3 DEF Config
<1>10. ASSUME NEW r \in Runs PROVE PlaceOf(r)
  <2>1. first.rounds \in Nat
    BY <1>1, RequestFacts
  <2>2. QED
    BY <1>7, <1>9, <2>1 DEF PlaceOf
<1>11. ASSUME NEW r \in Runs PROVE SufferedOf(r) /\ AnsweredOf(r)
  <2>1. \A d \in Plan(first) : ~(d[1] < 0) /\ d[1] # 0
    <3>1. first.rounds \in Nat
      BY <1>1, RequestFacts
    <3>2. QED
      BY <1>1, <3>1, PlanLemma
  <2>2. \A e \in 1..MaxRounds : ~(e < 0)
    OBVIOUS
  <2>3. SufferedOf(r)
    BY <1>9, <2>1, <2>2 DEF SufferedOf
  <2>4. QED
    BY <1>7, <1>9, <2>3 DEF AnsweredOf
<1>12. CacheAnswersItsKey
  BY <1>3 DEF CacheAnswersItsKey
<1>13. \A r \in Runs : pc[r] \notin UnderWay
  BY <1>7, <1>9
<1>14. QED
  BY <1>8, <1>10, <1>11, <1>12, <1>13 DEF ScheduleInv, TypeInv, AloneInv

LEMMA AtRest == ASSUME ScheduleInv, UNCHANGED attackVars PROVE ScheduleInv'
<1>1. UNCHANGED <<manager, key, pc, at, damage, named, overlapped>>
  BY DEF attackVars
<1>2. TypeInv' <=> TypeInv
  BY <1>1 DEF TypeInv, Shapes, PlaceOf, Config
<1>3. CacheAnswersItsKey' <=> CacheAnswersItsKey
  BY <1>1 DEF CacheAnswersItsKey
<1>4. AloneInv' <=> AloneInv
  BY <1>1 DEF AloneInv, SufferedOf, AnsweredOf, Done, Config
<1>5. QED
  BY <1>2, <1>3, <1>4 DEF ScheduleInv

\* Whoever shares the adapter, and however their calls fall between each
\* other's: the adapter holds nothing or a whole schedule some configuration
\* builds.  As long as no two runs have used it in turns, every run has suffered
\* and was told its own plan as far as it has come, though the adapter answers
\* from a cache it also fills for other runs (p2_attack_adapter.py).
THEOREM ScheduleInvariant == AttackSpec => []ScheduleInv
<1>1. AttackInit => ScheduleInv
  BY AtTheStart
<1>2. ScheduleInv /\ [AttackNext]_attackVars => ScheduleInv'
  <2> SUFFICES ASSUME ScheduleInv, [AttackNext]_attackVars PROVE ScheduleInv'
    OBVIOUS
  <2>1. CASE UNCHANGED attackVars
    BY <2>1, AtRest
  <2>2. ASSUME NEW run \in Runs, Start(run) PROVE ScheduleInv'
    BY <2>2, StartStep
  <2>3. ASSUME NEW run \in Runs, EnsureForData(run) \/ EnsureForUpdates(run) PROVE ScheduleInv'
    BY <2>3, EnsureStep DEF EnsureForData, EnsureForUpdates
  <2>4. ASSUME NEW run \in Runs, StoreKeyForData(run) \/ StoreKeyForUpdates(run) PROVE ScheduleInv'
    BY <2>4, StoreKeyStep DEF StoreKeyForData, StoreKeyForUpdates
  <2>5. ASSUME NEW run \in Runs, NoDataAttack(run) \/ NoUpdateAttack(run) PROVE ScheduleInv'
    BY <2>5, NoAttackStep
  <2>6. ASSUME NEW run \in Runs, AttackData(run) PROVE ScheduleInv'
    BY <2>6, AttackDataStep
  <2>7. ASSUME NEW run \in Runs, AttackUpdate(run) PROVE ScheduleInv'
    BY <2>7, AttackUpdateStep
  <2>8. ASSUME NEW run \in Runs, GetAttackerIds(run) PROVE ScheduleInv'
    BY <2>8, GetAttackerIdsStep
  <2>9. ASSUME NEW run \in Runs, Abort(run) PROVE ScheduleInv'
    BY <2>9, AbortStep
  <2>10. QED
    BY <2>1, <2>2, <2>3, <2>4, <2>5, <2>6, <2>7, <2>8, <2>9 DEF AttackNext
<1>3. QED
  BY <1>1, <1>2, PTL DEF AttackSpec

-----------------------------------------------------------------------------
(* What it means. *)

\* The manager is absent or one schedule within the bounds, the key is absent
\* or one configuration, and every run's journey stays within its rounds.
THEOREM AttackTypeCorrect == AttackSpec => []AttackTypeOK
<1>1. ScheduleInv => AttackTypeOK
  <2> SUFFICES ASSUME ScheduleInv PROVE AttackTypeOK
    OBVIOUS
  <2>1. /\ manager = None \/ (\E q \in Requests : ~Unbuildable(q) /\ manager = <<Schedule(q)>>)
        /\ key = None \/ (\E q \in Requests : key = <<q>>)
        /\ pc \in [Runs -> Places] /\ at \in [Runs -> Journeys]
        /\ damage \in [Runs -> SUBSET Attacks]
        /\ named \in [Runs -> SUBSET ((1..MaxRounds) \X (1..MaxClients))]
        /\ overlapped \in BOOLEAN
    BY DEF ScheduleInv, TypeInv, Shapes
  <2>2. Len(<<>>) <= 1 /\ ToSet(<<>>) = {}
    BY DEF ToSet
  <2>3. ASSUME NEW x PROVE Len(<<x>>) <= 1 /\ ToSet(<<x>>) = {x}
    BY DEF ToSet
  <2>4. Len(manager) <= 1
    BY <2>1, <2>2, <2>3 DEF None
  <2>5. Len(key) <= 1 /\ ToSet(key) \subseteq Requests
    BY <2>1, <2>2, <2>3 DEF None
  <2>6. Planned \subseteq Attacks
    BY PlannedLemma DEF ScheduleInv, TypeInv
  <2>7. \A r \in Runs : at[r].config \in Requests /\ at[r].round \in 0..(MaxRounds + 1)
                        /\ at[r].client \in 0..MaxClients
    BY <2>1 DEF Journeys
  <2>8. QED
    BY <2>1, <2>4, <2>5, <2>6, <2>7 DEF AttackTypeOK
<1>2. QED
  BY <1>1, ScheduleInvariant, PTL

\* A run's rounds that have been judged are rounds of its configuration.
LEMMA JudgedLemma ==
    ASSUME ScheduleInv, NEW r \in Runs, NEW e \in RoundsJudged(r)
    PROVE  /\ Config(r) \in Requests
           /\ e \in 1..MaxRounds /\ e \in 1..Config(r).rounds /\ e < at[r].round
           /\ at[r].round >= 2
<1>1. PlaceOf(r) /\ Config(r) \in Requests /\ at[r].round \in Nat
  BY Here
<1>2. Config(r).rounds \in 1..MaxRounds /\ MaxRounds \in Nat /\ at[r].round <= Config(r).rounds + 1
  BY <1>1, RequestFacts DEF PlaceOf
<1>3. e \in Int /\ e >= 1 /\ e <= at[r].round - 1
  BY <1>1 DEF RoundsJudged
<1>4. QED
  BY <1>1, <1>2, <1>3

\* The ground truth the metrics are computed from is what happened: of a round
\* that has been judged, exactly the clients that were attacked are named.
THEOREM TruthIsTheDamage == AttackSpec => []TruthMatchesDamage
<1>1. ScheduleInv => TruthMatchesDamage
  <2> SUFFICES ASSUME ScheduleInv, ~overlapped, NEW r \in Runs,
                      NEW e \in RoundsJudged(r), NEW c \in 1..MaxClients
               PROVE  <<e, c>> \in named[r] <=> \E k \in Kinds : <<e, c, k>> \in damage[r]
    BY DEF TruthMatchesDamage
  <2>1. Config(r) \in Requests /\ e \in 1..MaxRounds /\ e < at[r].round
    BY JudgedLemma
  <2>2. SufferedOf(r)
    BY DEF ScheduleInv, AloneInv
  <2>3. <<e, c>> \in named[r] <=> \E k \in Kinds : <<e, c, k>> \in Plan(Config(r))
    BY <2>1, <2>2 DEF SufferedOf
  <2>4. ASSUME NEW k \in Kinds
        PROVE  <<e, c, k>> \in Plan(Config(r)) <=> <<e, c, k>> \in damage[r]
    <3>1. <<e, c, k>>[1] = e
      OBVIOUS
    <3>2. QED
      BY <2>1, <2>2, <3>1 DEF SufferedOf
  <2>5. QED
    BY <2>3, <2>4
<1>2. QED
  BY <1>1, ScheduleInvariant, PTL

\* A run that has the adapter to itself suffers its own scenario: nothing when
\* attacks are off, nothing before the start round save the sleeper's stealth
\* round, and an attack in every judged round from the start round on.
THEOREM RunsSufferTheirScenario == AttackSpec => []RunSuffersItsScenario
<1>1. ScheduleInv => RunSuffersItsScenario
  <2> SUFFICES ASSUME ScheduleInv, ~overlapped, NEW r \in Runs
               PROVE  LET q == Config(r)
                          attacking == q.enabled /\ q.scenario # "normal"
                      IN  /\ \A d \in damage[r] :
                                 /\ attacking
                                 /\ d[1] >= q.start_round
                                    \/ (q.scenario = "sleeper" /\ d[1] = q.start_round - 1
                                        /\ d[1] > 1 /\ d[3] = "backdoor")
                                 /\ q.scenario \in {"backdoor", "sybil"} => d[3] = q.scenario
                          /\ \A e \in RoundsJudged(r) :
                                 attacking /\ e >= q.start_round => \E d \in damage[r] : d[1] = e
    BY DEF RunSuffersItsScenario, Config
  <2> DEFINE q == Config(r)
  <2>1. SufferedOf(r) /\ q \in Requests
    BY Here
  <2> HIDE DEF q
  <2>2. damage[r] \subseteq Plan(q)
    BY <2>1 DEF SufferedOf, q
  <2>3. ASSUME NEW d \in damage[r]
        PROVE  /\ q.enabled /\ q.scenario # "normal"
               /\ d[1] >= q.start_round \/ (q.scenario = "sleeper" /\ d[1] = q.start_round - 1
                                            /\ d[1] > 1 /\ d[3] = "backdoor")
               /\ q.scenario \in {"backdoor", "sybil"} => d[3] = q.scenario
    <3>1. q.enabled /\ ~Unbuildable(q) /\ d \in Schedule(q)
      BY <2>2 DEF Plan
    <3>2. QED
      BY <2>1, <3>1, ScheduleLemma
  <2>4. ASSUME NEW e \in RoundsJudged(r), q.enabled, q.scenario # "normal", e >= q.start_round
        PROVE  \E d \in damage[r] : d[1] = e
    <3>1. e \in 1..q.rounds /\ e < at[r].round /\ at[r].round >= 2
      BY JudgedLemma DEF q
    <3>2. ~Unbuildable(q)
      BY <2>1, <2>4, <3>1 DEF SufferedOf, q
    <3>3. e \in q.start_round..q.rounds
      BY <2>1, <2>4, <3>1, RequestFacts
    <3>4. PICK d \in Schedule(q) : d[1] = e
      BY <2>1, <2>4, <3>2, <3>3, ScheduleLemma
    <3>5. d \in Plan(q)
      BY <2>4, <3>2 DEF Plan
    <3>6. d \in damage[r]
      BY <2>1, <3>1, <3>4, <3>5 DEF SufferedOf, q
    <3>7. QED
      BY <3>4, <3>6
  <2>5. QED
    BY <2>3, <2>4 DEF q
<1>2. QED
  BY <1>1, ScheduleInvariant, PTL

\* The adapter would answer from its cache what it would build: a builder that
\* raised has left neither its key nor a part of a schedule.
THEOREM CacheIsWhatItsKeyBuilds == AttackSpec => []CacheAnswersItsKey
<1>1. ScheduleInv => CacheAnswersItsKey
  BY DEF ScheduleInv
<1>2. QED
  BY <1>1, ScheduleInvariant, PTL
=============================================================================
