---------------------------- MODULE SentinelProofs ----------------------------
(***************************************************************************)
(* Proofs about the Sentinel, from the arithmetic of its measurements to   *)
(* its verdicts:                                                           *)
(*                                                                         *)
(*   ScaledArithmetic    what the root, the sums and the median return;    *)
(*   UpdateMeasurement   every signal of every update stays in its range;  *)
(*   SentinelEngine      what the scores of one engine mean to the         *)
(*                       thresholds of the next, and what the reputation   *)
(*                       remembers, for any profiles and any rounds;       *)
(*   UpdateScreening     a screened round is a round of SentinelEngine, so *)
(*                       its properties hold of measured updates too.      *)
(*                                                                         *)
(* The root, the sums and the flattened updates are recursive functions.   *)
(* That such a function exists is an induction over a set, which Least,    *)
(* UpTo and UpToSet carry out; its values are then those of its equations. *)
(***************************************************************************)
EXTENDS UpdateScreening, FiniteSetTheorems, TLAPS

-----------------------------------------------------------------------------
(* Induction over an interval and over the subsets of a finite set.        *)

LEMMA Least ==
    ASSUME NEW S, S \subseteq Nat, S # {}
    PROVE  \E i \in S : \A j \in S : i <= j
<1>1. PICK i \in S : \A j \in S : ~(<<j, i>> \in OpToRel(<, Nat))
  BY NatLessThanWellFounded, WFMin, Zenon
<1>2. \A j \in S : ~(j < i)
  BY <1>1 DEF OpToRel
<1>3. QED
  BY <1>2

\* What holds at 0 and is handed on below N holds up to N.
LEMMA UpTo ==
    ASSUME NEW N \in Nat, NEW G, 0 \in G, \A n \in Nat : n < N /\ n \in G => n + 1 \in G
    PROVE  \A n \in 0..N : n \in G
<1> DEFINE Missed == { n \in 0..N : n \notin G }
<1> SUFFICES ASSUME Missed # {} PROVE FALSE
  OBVIOUS
<1>1. PICK i \in Missed : \A j \in Missed : i <= j
  <2>1. Missed \subseteq Nat
    OBVIOUS
  <2> HIDE DEF Missed
  <2>2. QED
    BY <2>1, Least, Zenon
<1>2. \A j \in Missed : ~(j < i)
  BY <1>1
<1>3. i \in 0..N /\ i \notin G /\ i # 0
  BY <1>1
<1>4. i - 1 \in 0..N /\ i - 1 \notin Missed
  BY <1>2, <1>3
<1>5. i - 1 \in G /\ i - 1 \in Nat /\ i - 1 < N /\ (i - 1) + 1 = i
  BY <1>3, <1>4
<1>6. QED
  BY <1>3, <1>5

\* What holds of the empty set, and of a set when it holds of the set less any one
\* element, holds of every subset of a finite set.
LEMMA UpToSet ==
    ASSUME NEW S, IsFiniteSet(S), NEW G, {} \in G,
           \A T \in SUBSET S : T # {} /\ (\A x \in T : T \ {x} \in G) => T \in G
    PROVE  \A T \in SUBSET S : T \in G
<1> DEFINE N == Cardinality(S)
           Sized == { n \in Nat : \A T \in SUBSET S : Cardinality(T) = n => T \in G }
<1>1. N \in Nat
  BY FS_CardinalityType
<1>2. 0 \in Sized
  <2>1. ASSUME NEW T \in SUBSET S, Cardinality(T) = 0 PROVE T \in G
    <3>1. T = {}
      BY <2>1, FS_Subset, FS_EmptySet
    <3>2. QED
      BY <3>1
  <2>2. QED
    BY <2>1
<1>3. ASSUME NEW n \in Nat, n < N, n \in Sized PROVE n + 1 \in Sized
  <2>1. ASSUME NEW T \in SUBSET S, Cardinality(T) = n + 1 PROVE T \in G
    <3>1. IsFiniteSet(T)
      BY FS_Subset
    <3>2. T # {}
      <4>1. Cardinality(T) # 0
        BY <2>1
      <4>2. QED
        BY <4>1, FS_EmptySet, Zenon
    <3>3. ASSUME NEW x \in T PROVE T \ {x} \in G
      <4>1. Cardinality(T \ {x}) = Cardinality(T) - 1
        BY <3>1, FS_RemoveElement, Zenon
      <4>2. Cardinality(T \ {x}) = n
        BY <2>1, <4>1
      <4>3. T \ {x} \in SUBSET S
        OBVIOUS
      <4>4. QED
        BY <1>3, <4>2, <4>3
    <3>4. QED
      BY <3>2, <3>3
  <2>2. QED
    BY <2>1
<1> HIDE DEF Sized
<1>4. \A n \in 0..N : n \in Sized
  BY <1>1, <1>2, <1>3, UpTo
<1>5. ASSUME NEW T \in SUBSET S PROVE T \in G
  <2>1. Cardinality(T) \in Nat /\ Cardinality(T) <= N
    BY FS_Subset, FS_CardinalityType
  <2>2. Cardinality(T) \in 0..N
    BY <1>1, <2>1
  <2>3. Cardinality(T) \in Sized
    BY <1>4, <2>2
  <2>4. QED
    BY <2>3 DEF Sized
<1>6. QED
  BY <1>5

-----------------------------------------------------------------------------
(* The integer square root. *)

\* One step of ISqrt's recursion: the root of m, from the root of m \div 4.
RootOf(m, q) ==
    LET r == 2 * q + 1 IN IF r <= m \div r THEN r ELSE r - 1

\* A function that is right up to n.
Roots(n, g) ==
    /\ g \in [0..n -> Nat]
    /\ \A m \in 0..n : g[m] = IF m = 0 THEN 0 ELSE RootOf(m, g[m \div 4])

\* One more pair of binary digits: the root of m from the root of its quarter.
LEMMA RootOfBounds ==
    ASSUME NEW m \in Nat, m # 0, NEW q \in Nat
    PROVE  /\ RootOf(m, q) \in Nat
           /\ RootOf(m, q) >= 1
           /\ q * q <= m \div 4 => RootOf(m, q) * RootOf(m, q) <= m
<1> DEFINE r == 2 * q + 1
<1>1. r \in Nat /\ r >= 1
  OBVIOUS
<1>2. CASE r <= m \div r
  <2>1. RootOf(m, q) = r
    BY <1>2 DEF RootOf
  <2>2. PICK d \in Int : d = m \div r
    BY <1>1
  <2>3. r * d <= m
    BY <1>1, <2>2
  <2>4. r * r <= r * d
    BY <1>1, <1>2, <2>2
  <2>5. r * r <= m
    BY <1>1, <2>3, <2>4
  <2>6. QED
    BY <1>1, <2>1, <2>5
<1>3. CASE ~(r <= m \div r)
  <2>1. RootOf(m, q) = 2 * q
    BY <1>1, <1>3 DEF RootOf
  <2>2. q # 0
    BY <1>3
  <2>3. ASSUME q * q <= m \div 4 PROVE (2 * q) * (2 * q) <= m
    <3>1. PICK s \in Nat : s = q * q
      OBVIOUS
    <3>2. 4 * s <= m
      BY <2>3, <3>1
    <3>3. (2 * q) * (2 * q) = 4 * s
      BY <3>1
    <3>4. QED
      BY <3>2, <3>3
  <2>4. QED
    BY <2>1, <2>2, <2>3
<1>4. QED
  BY <1>2, <1>3

\* The table of roots up to n extends by one entry.
LEMMA RootsExtend ==
    ASSUME NEW n \in Nat, \E g : Roots(n, g)
    PROVE  \E g : Roots(n + 1, g)
<1>1. PICK f : Roots(n, f)
  OBVIOUS
<1> DEFINE top == RootOf(n + 1, f[(n + 1) \div 4])
           g == [m \in 0..(n + 1) |-> IF m = n + 1 THEN top ELSE f[m]]
<1>2. (n + 1) \div 4 \in 0..n
  OBVIOUS
<1>3. f[(n + 1) \div 4] \in Nat
  BY <1>1, <1>2 DEF Roots
<1>4. top \in Nat
  <2>1. PICK q \in Nat : q = f[(n + 1) \div 4]
    BY <1>3
  <2>2. n + 1 \in Nat /\ n + 1 # 0
    OBVIOUS
  <2>3. RootOf(n + 1, q) \in Nat
    BY <2>2, RootOfBounds
  <2>4. QED
    BY <2>1, <2>3
<1>5. \A m \in 0..n : m \in 0..(n + 1) /\ m # n + 1 /\ g[m] = f[m] /\ f[m] \in Nat
  BY <1>1 DEF Roots
<1>6. g[n + 1] = top
  OBVIOUS
<1>7. \A m \in 0..(n + 1) : m = n + 1 \/ m \in 0..n
  OBVIOUS
<1>8. g \in [0..(n + 1) -> Nat]
  <2>1. \A m \in 0..(n + 1) : g[m] \in Nat
    BY <1>4, <1>5, <1>6, <1>7
  <2>2. QED
    BY <2>1
<1> HIDE DEF g, top
<1>9. ASSUME NEW m \in 0..(n + 1)
      PROVE  g[m] = IF m = 0 THEN 0 ELSE RootOf(m, g[m \div 4])
  <2>1. CASE m = n + 1
    <3>1. g[(n + 1) \div 4] = f[(n + 1) \div 4]
      BY <1>2, <1>5
    <3>2. QED
      BY <1>6, <2>1, <3>1 DEF top
  <2>2. CASE m \in 0..n
    <3>1. m \div 4 \in 0..n
      BY <2>2
    <3>2. g[m \div 4] = f[m \div 4] /\ g[m] = f[m]
      BY <1>5, <2>2, <3>1
    <3>3. QED
      BY <1>1, <2>2, <3>2 DEF Roots
  <2>3. QED
    BY <1>7, <2>1, <2>2
<1>10. QED
  BY <1>8, <1>9 DEF Roots

\* ISqrt is a root: a natural number whose square does not exceed the argument, and
\* zero only for zero.
LEMMA ISqrtLemma ==
    ASSUME NEW n \in Nat
    PROVE  /\ ISqrt(n) \in Nat
           /\ ISqrt(n) * ISqrt(n) <= n
           /\ n >= 1 => ISqrt(n) >= 1
<1>1. \E g : Roots(n, g)
  <2> DEFINE Solvable == { k \in Nat : \E g : Roots(k, g) }
  <2>1. 0 \in Solvable
    <3>1. Roots(0, [m \in 0..0 |-> 0])
      BY DEF Roots
    <3>2. QED
      BY <3>1
  <2>2. \A k \in Nat : k < n /\ k \in Solvable => k + 1 \in Solvable
    BY RootsExtend
  <2> HIDE DEF Solvable
  <2>3. \A k \in 0..n : k \in Solvable
    BY <2>1, <2>2, UpTo
  <2>4. n \in Solvable
    BY <2>3
  <2>5. QED
    BY <2>4 DEF Solvable
<1> DEFINE IsRoot(g) == g = [m \in 0..n |->
                IF m = 0 THEN 0
                ELSE LET r == 2 * g[m \div 4] + 1
                     IN  IF r <= m \div r THEN r ELSE r - 1]
           root == CHOOSE g : IsRoot(g)
<1>2. \E g : IsRoot(g)
  <2>1. PICK g : Roots(n, g)
    BY <1>1
  <2>2. IsRoot(g)
    BY <2>1, Zenon DEF Roots, RootOf
  <2>3. QED
    BY <2>2
<1>3. IsRoot(root)
  BY <1>2, Zenon
<1>4. ISqrt(n) = root[n]
  BY Zenon DEF ISqrt
<1> HIDE DEF root
<1>5. root[0] = 0 /\ \A m \in 0..n : m # 0 => root[m] = RootOf(m, root[m \div 4])
  BY <1>3 DEF RootOf
<1> DEFINE Right(m) == /\ root[m] \in Nat /\ root[m] * root[m] <= m
                       /\ m >= 1 => root[m] >= 1
           RightTo == { k \in Nat : \A m \in 0..n : m <= k => Right(m) }
<1>6. 0 \in RightTo
  BY <1>5
<1>7. ASSUME NEW k \in Nat, k < n, k \in RightTo PROVE k + 1 \in RightTo
  <2>1. ASSUME NEW m \in 0..n, m <= k + 1 PROVE Right(m)
    <3>1. CASE m <= k
      BY <1>7, <3>1
    <3>2. CASE m = k + 1
      <4>1. m \div 4 \in 0..n /\ m \div 4 <= k /\ m \in Nat /\ m # 0
        BY <3>2
      <4>2. PICK q : q = root[m \div 4]
        OBVIOUS
      <4>3. q \in Nat /\ q * q <= m \div 4
        BY <1>7, <4>1, <4>2
      <4>4. root[m] = RootOf(m, q)
        BY <1>5, <4>1, <4>2
      <4>5. QED
        BY <4>1, <4>3, <4>4, RootOfBounds
    <3>3. QED
      BY <2>1, <3>1, <3>2
  <2>2. QED
    BY <2>1
<1> HIDE DEF RightTo
<1>8. \A k \in 0..n : k \in RightTo
  BY <1>6, <1>7, UpTo
<1>9. n \in RightTo /\ n \in 0..n
  BY <1>8
<1>10. Right(n)
  BY <1>9 DEF RightTo
<1>11. QED
  BY <1>4, <1>10

-----------------------------------------------------------------------------
(* Sums over a finite set, taken in the order in which ch picks the        *)
(* elements.                                                               *)

Picks(D, ch) == \A T \in SUBSET D : T # {} => ch[T] \in T

UpToSize(D, k) == { T \in SUBSET D : Cardinality(T) <= k }

\* A function that is right on the subsets of up to k elements.
SumsTo(D, v, ch, k, g) ==
    /\ g \in [UpToSize(D, k) -> Int]
    /\ \A T \in UpToSize(D, k) : g[T] = IF T = {} THEN 0 ELSE v[ch[T]] + g[T \ {ch[T]}]

\* And on all of them.
Sums(D, v, ch, g) ==
    /\ g \in [SUBSET D -> Int]
    /\ \A T \in SUBSET D : g[T] = IF T = {} THEN 0 ELSE v[ch[T]] + g[T \ {ch[T]}]

\* The table of sums over the subsets of up to k elements extends by one size.
LEMMA SumsExtend ==
    ASSUME NEW D, IsFiniteSet(D), NEW v \in [D -> Int], NEW ch, Picks(D, ch),
           NEW k \in Nat, \E g : SumsTo(D, v, ch, k, g)
    PROVE  \E g : SumsTo(D, v, ch, k + 1, g)
<1>1. PICK f : SumsTo(D, v, ch, k, f)
  OBVIOUS
<1> DEFINE g == [T \in UpToSize(D, k + 1) |->
                    IF T = {} THEN 0 ELSE v[ch[T]] + f[T \ {ch[T]}]]
<1>2. ASSUME NEW T \in UpToSize(D, k + 1), T # {}
      PROVE  /\ ch[T] \in D /\ T \ {ch[T]} \in UpToSize(D, k)
             /\ T \ {ch[T]} \in UpToSize(D, k + 1)
  <2>1. T \in SUBSET D /\ Cardinality(T) <= k + 1
    BY DEF UpToSize
  <2>2. ch[T] \in T
    BY <1>2, <2>1 DEF Picks
  <2>3. IsFiniteSet(T) /\ Cardinality(T) \in Nat
    BY <2>1, FS_Subset, FS_CardinalityType
  <2>4. Cardinality(T \ {ch[T]}) = Cardinality(T) - 1
    BY <2>2, <2>3, FS_RemoveElement, Zenon
  <2>5. Cardinality(T \ {ch[T]}) <= k /\ Cardinality(T \ {ch[T]}) <= k + 1
    BY <2>1, <2>3, <2>4
  <2>6. T \ {ch[T]} \in SUBSET D /\ ch[T] \in D
    BY <2>1, <2>2
  <2>7. QED
    BY <2>5, <2>6, Zenon DEF UpToSize
<1>3. g \in [UpToSize(D, k + 1) -> Int]
  <2>1. ASSUME NEW T \in UpToSize(D, k + 1), T # {} PROVE v[ch[T]] + f[T \ {ch[T]}] \in Int
    <3>1. v[ch[T]] \in Int
      BY <1>2, <2>1
    <3>2. f[T \ {ch[T]}] \in Int
      BY <1>1, <1>2, <2>1 DEF SumsTo
    <3>3. QED
      BY <3>1, <3>2
  <2>2. QED
    BY <2>1
<1>4. ASSUME NEW T \in UpToSize(D, k) PROVE T \in UpToSize(D, k + 1) /\ g[T] = f[T]
  <2>1. T \in SUBSET D /\ Cardinality(T) <= k
    BY DEF UpToSize
  <2>2. Cardinality(T) \in Nat
    BY <2>1, FS_Subset, FS_CardinalityType
  <2>3. Cardinality(T) <= k + 1
    BY <2>1, <2>2
  <2>4. T \in UpToSize(D, k + 1)
    BY <2>1, <2>3, Zenon DEF UpToSize
  <2>5. g[T] = IF T = {} THEN 0 ELSE v[ch[T]] + f[T \ {ch[T]}]
    BY <2>4, Zenon
  <2>6. f[T] = IF T = {} THEN 0 ELSE v[ch[T]] + f[T \ {ch[T]}]
    BY <1>1, Zenon DEF SumsTo
  <2>7. QED
    BY <2>4, <2>5, <2>6, Zenon
<1>5. ASSUME NEW T \in UpToSize(D, k + 1)
      PROVE  g[T] = IF T = {} THEN 0 ELSE v[ch[T]] + g[T \ {ch[T]}]
  <2>1. g[T] = IF T = {} THEN 0 ELSE v[ch[T]] + f[T \ {ch[T]}]
    BY Zenon
  <2>2. T # {} => g[T \ {ch[T]}] = f[T \ {ch[T]}]
    BY <1>2, <1>4
  <2> HIDE DEF g
  <2>3. QED
    BY <2>1, <2>2, Zenon
<1>6. QED
  <2> HIDE DEF g
  <2>1. QED
    BY <1>3, <1>5, Zenon DEF SumsTo

\* Every finite index set has the table of the sums over its subsets.
LEMMA SumsExist ==
    ASSUME NEW D, IsFiniteSet(D), NEW v \in [D -> Int], NEW ch, Picks(D, ch)
    PROVE  \E g : Sums(D, v, ch, g)
<1> DEFINE N == Cardinality(D)
           Solvable == { k \in Nat : \E g : SumsTo(D, v, ch, k, g) }
<1>1. N \in Nat
  BY FS_CardinalityType
<1>2. 0 \in Solvable
  <2>1. \A T \in UpToSize(D, 0) : T = {}
    <3> SUFFICES ASSUME NEW T \in UpToSize(D, 0) PROVE T = {}
      OBVIOUS
    <3>1. T \in SUBSET D /\ Cardinality(T) <= 0
      BY DEF UpToSize
    <3>2. IsFiniteSet(T) /\ Cardinality(T) \in Nat
      BY <3>1, FS_Subset, FS_CardinalityType
    <3>3. Cardinality(T) = 0
      BY <3>1, <3>2
    <3>4. QED
      BY <3>2, <3>3, FS_EmptySet, Zenon
  <2> DEFINE g == [T \in UpToSize(D, 0) |-> 0]
  <2>2. g \in [UpToSize(D, 0) -> Int]
    OBVIOUS
  <2>3. SumsTo(D, v, ch, 0, g)
    BY <2>1, <2>2, Zenon DEF SumsTo
  <2>4. QED
    BY <2>3
<1>3. \A k \in Nat : k < N /\ k \in Solvable => k + 1 \in Solvable
  BY SumsExtend
<1> HIDE DEF Solvable
<1>4. \A k \in 0..N : k \in Solvable
  BY <1>1, <1>2, <1>3, UpTo
<1>5. N \in Solvable
  <2>1. N \in 0..N
    BY <1>1
  <2>2. QED
    BY <1>4, <2>1
<1>6. PICK g : SumsTo(D, v, ch, N, g)
  BY <1>5 DEF Solvable
<1>7. UpToSize(D, N) = SUBSET D
  BY FS_Subset DEF UpToSize
<1>8. QED
  BY <1>6, <1>7 DEF SumsTo, Sums

\* SumFunction is such a sum.
LEMMA SumFunctionUnfolds ==
    ASSUME NEW D, IsFiniteSet(D), NEW v \in [D -> Int]
    PROVE  \E ch, g : Picks(D, ch) /\ Sums(D, v, ch, g) /\ SumFunction(v) = g[D]
<1> DEFINE ch == [T \in SUBSET D |-> CHOOSE x \in T : TRUE]
           IsSum(g) == g = [T \in SUBSET D |->
                               IF T = {} THEN 0
                               ELSE LET x == CHOOSE x \in T : TRUE
                                    IN  v[x] + g[T \ {x}]]
           sum == CHOOSE g : IsSum(g)
<1>1. Picks(D, ch)
  BY DEF Picks
<1>2. PICK f : Sums(D, v, ch, f)
  BY <1>1, SumsExist
<1>3. IsSum(f)
  BY <1>2, Zenon DEF Sums
<1>4. IsSum(sum)
  BY <1>3, Zenon
<1>5. SumFunction(v) = sum[D]
  BY Zenon DEF SumFunction, SumFunctionOnSet, FoldFunctionOnSet, MapThenFoldSet
<1>6. \A T \in SUBSET D : sum[T] \in Int
  <2> DEFINE Integral == { T \in SUBSET D : sum[T] \in Int }
  <2> HIDE DEF sum
  <2>1. {} \in Integral
    BY <1>4
  <2>2. ASSUME NEW T \in SUBSET D, T # {}, \A x \in T : T \ {x} \in Integral PROVE T \in Integral
    <3>1. PICK x \in T : x = CHOOSE y \in T : TRUE
      BY <2>2
    <3>2. sum[T] = v[x] + sum[T \ {x}]
      BY <1>4, <2>2, <3>1, Zenon
    <3>3. sum[T \ {x}] \in Int /\ v[x] \in Int
      BY <2>2, <3>1
    <3>4. QED
      BY <3>2, <3>3
  <2> HIDE DEF Integral
  <2>3. \A T \in SUBSET D : T \in Integral
    BY <2>1, <2>2, UpToSet
  <2>4. QED
    BY <2>3 DEF Integral
<1>7. Sums(D, v, ch, sum)
  <2>1. \A T \in SUBSET D : sum[T] = IF T = {} THEN 0 ELSE v[ch[T]] + sum[T \ {ch[T]}]
    <3> HIDE DEF sum
    <3>1. QED
      BY <1>4, Zenon
  <2>2. sum \in [SUBSET D -> Int]
    <3> HIDE DEF sum
    <3>1. sum = [T \in SUBSET D |-> sum[T]]
      BY <1>4
    <3>2. QED
      BY <1>6, <3>1
  <2> HIDE DEF sum
  <2>3. QED
    BY <2>1, <2>2, Zenon DEF Sums
<1>8. QED
  BY <1>1, <1>5, <1>7

\* A sum of integers, each at most b from zero, is an integer at most b times their
\* number from zero.
LEMMA SumFunctionBounds ==
    ASSUME NEW D, IsFiniteSet(D), NEW v \in [D -> Int], NEW b \in Nat,
           \A x \in D : -b <= v[x] /\ v[x] <= b
    PROVE  /\ SumFunction(v) \in Int
           /\ -(b * Cardinality(D)) <= SumFunction(v) /\ SumFunction(v) <= b * Cardinality(D)
<1>1. PICK ch, g : Picks(D, ch) /\ Sums(D, v, ch, g) /\ SumFunction(v) = g[D]
  BY SumFunctionUnfolds
<1> DEFINE Bounded == { T \in SUBSET D : /\ -(b * Cardinality(T)) <= g[T]
                                         /\ g[T] <= b * Cardinality(T) }
<1>2. {} \in Bounded
  BY <1>1, FS_EmptySet DEF Sums
<1>3. ASSUME NEW T \in SUBSET D, T # {}, \A x \in T : T \ {x} \in Bounded PROVE T \in Bounded
  <2>1. PICK x \in T : x = ch[T]
    BY <1>1, <1>3 DEF Picks
  <2>2. g[T] = v[x] + g[T \ {x}]
    BY <1>1, <1>3, <2>1, Zenon DEF Sums
  <2>3. IsFiniteSet(T)
    BY FS_Subset
  <2>4. Cardinality(T \ {x}) = Cardinality(T) - 1
    BY <2>3, FS_RemoveElement, Zenon
  <2>5. PICK n \in Int : n = Cardinality(T)
    BY <2>3, FS_CardinalityType
  <2>6. PICK rest \in Int : rest = g[T \ {x}]
    BY <1>1 DEF Sums
  <2>7. PICK first \in Int : first = v[x] /\ -b <= first /\ first <= b
    OBVIOUS
  <2>8. -(b * (n - 1)) <= rest /\ rest <= b * (n - 1)
    BY <1>3, <2>4, <2>5, <2>6
  <2>9. g[T] = first + rest
    BY <2>2, <2>6, <2>7
  <2>10. b * (n - 1) = b * n - b /\ b * n \in Int
    OBVIOUS
  <2>11. -(b * n) <= g[T] /\ g[T] <= b * n
    BY <2>7, <2>8, <2>9, <2>10
  <2>12. QED
    BY <2>5, <2>11
<1> HIDE DEF Bounded
<1>4. \A T \in SUBSET D : T \in Bounded
  BY <1>2, <1>3, UpToSet
<1>5. D \in Bounded
  BY <1>4
<1>6. SumFunction(v) \in Int
  BY <1>1 DEF Sums
<1>7. QED
  BY <1>1, <1>5, <1>6 DEF Bounded

\* The sum of integers over a finite index set is an integer.
LEMMA SumFunctionInt ==
    ASSUME NEW D, IsFiniteSet(D), NEW v \in [D -> Int]
    PROVE  SumFunction(v) \in Int
<1>1. PICK ch, g : Picks(D, ch) /\ Sums(D, v, ch, g) /\ SumFunction(v) = g[D]
  BY SumFunctionUnfolds
<1>2. QED
  BY <1>1 DEF Sums

-----------------------------------------------------------------------------
(* The greatest of a finite set, and sums over a sequence.                 *)

LEMMA Extremes ==
    ASSUME NEW S, IsFiniteSet(S), S \subseteq Int, S # {}
    PROVE  /\ \E m \in S : \A x \in S : x <= m
           /\ \E m \in S : \A x \in S : m <= x
<1> DEFINE HasBoth == { T \in SUBSET S : T # {} => /\ \E m \in T : \A x \in T : x <= m
                                                   /\ \E m \in T : \A x \in T : m <= x }
<1>1. {} \in HasBoth
  OBVIOUS
<1>2. ASSUME NEW T \in SUBSET S, T # {}, \A x \in T : T \ {x} \in HasBoth PROVE T \in HasBoth
  <2>1. PICK x \in T : TRUE
    BY <1>2
  <2>2. x \in Int /\ \A y \in T : y \in Int
    OBVIOUS
  <2>3. CASE T \ {x} = {}
    <3>1. \A y \in T : y = x
      BY <2>3
    <3>2. QED
      BY <2>2, <3>1
  <2>4. CASE T \ {x} # {}
    <3>1. PICK m \in T \ {x} : \A y \in T \ {x} : y <= m
      BY <1>2, <2>4
    <3>2. PICK l \in T \ {x} : \A y \in T \ {x} : l <= y
      BY <1>2, <2>4
    <3>3. \E u \in T : \A y \in T : y <= u
      BY <2>2, <3>1
    <3>4. \E u \in T : \A y \in T : u <= y
      BY <2>2, <3>2
    <3>5. QED
      BY <3>3, <3>4
  <2>5. QED
    BY <2>3, <2>4
<1> HIDE DEF HasBoth
<1>3. \A T \in SUBSET S : T \in HasBoth
  BY <1>1, <1>2, UpToSet
<1>4. S \in HasBoth
  BY <1>3
<1>5. QED
  BY <1>4 DEF HasBoth

\* A finite set of integers that is not empty has its maximum.
LEMMA MaxLemma ==
    ASSUME NEW S, IsFiniteSet(S), S \subseteq Int, S # {}
    PROVE  Max(S) \in S /\ \A x \in S : x <= Max(S)
<1>1. PICK m \in S : \A x \in S : x <= m
  BY Extremes
<1>2. \A y \in S : m >= y
  BY <1>1
<1>3. Max(S) \in S /\ \A y \in S : Max(S) >= y
  BY <1>2, Zenon DEF Max
<1>4. QED
  BY <1>3

\* The maximum of 1..k is k.
LEMMA MaxOfInterval == ASSUME NEW k \in Nat, k # 0 PROVE Max(1..k) = k
<1>1. IsFiniteSet(1..k) /\ 1..k \subseteq Int /\ k \in 1..k
  BY FS_Interval
<1>2. Max(1..k) \in 1..k /\ k <= Max(1..k)
  BY <1>1, MaxLemma, Zenon
<1>3. QED
  BY <1>2

\* The partial sums of s.
Partial(s, p) ==
    /\ p \in [0..Len(s) -> Int]
    /\ p[0] = 0
    /\ \A k \in 1..Len(s) : p[k] = p[k - 1] + s[k]

\* A sum is the last of the partial sums of its sequence.
LEMMA TotalUnfolds ==
    ASSUME NEW s \in Seq(Int)
    PROVE  \E p : Partial(s, p) /\ Total(s) = p[Len(s)]
<1> DEFINE n == Len(s)
           D == 1..n
           ch == [T \in SUBSET D |-> Max(T)]
           IsSum(g) == g = [T \in SUBSET D |->
                               IF T = {} THEN 0
                               ELSE LET x == Max(T) IN g[T \ {x}] + s[x]]
           sum == CHOOSE g : IsSum(g)
<1>1. n \in Nat /\ IsFiniteSet(D) /\ D \subseteq Int /\ DOMAIN s = D /\ s \in [D -> Int]
  BY FS_Interval
<1> HIDE DEF D, n
<1>2. ASSUME NEW T \in SUBSET D, T # {} PROVE Max(T) \in T
  BY <1>1, <1>2, FS_Subset, MaxLemma
<1>3. Picks(D, ch)
  BY <1>2 DEF Picks
<1>4. PICK f : Sums(D, s, ch, f)
  BY <1>1, <1>3, SumsExist
<1>5. IsSum(f)
  <2>1. ASSUME NEW T \in SUBSET D
        PROVE  f[T] = IF T = {} THEN 0 ELSE LET x == Max(T) IN f[T \ {x}] + s[x]
    <3>1. CASE T = {}
      BY <1>4, <3>1 DEF Sums
    <3>2. CASE T # {}
      <4>1. PICK x \in D : x = Max(T)
        BY <1>2, <3>2
      <4>2. f[T] = s[x] + f[T \ {x}]
        BY <1>4, <3>2, <4>1, Zenon DEF Sums
      <4>3. s[x] \in Int /\ f[T \ {x}] \in Int
        BY <1>1, <1>4 DEF Sums
      <4>4. f[T] = f[T \ {x}] + s[x]
        BY <4>2, <4>3
      <4>5. QED
        BY <3>2, <4>1, <4>4, Zenon
    <3>3. QED
      BY <3>1, <3>2
  <2>2. f = [T \in SUBSET D |-> f[T]]
    BY <1>4 DEF Sums
  <2>3. QED
    BY <2>1, <2>2, Zenon
<1>6. IsSum(sum)
  BY <1>5, Zenon
<1>7. Total(s) = sum[D]
  BY <1>1, Zenon DEF Total, FoldLeft, MapThenFoldSet
<1> HIDE DEF sum
<1>8. sum[{}] = 0
  BY <1>6, Zenon
<1>9. ASSUME NEW k \in 1..n PROVE sum[1..k] = sum[1..(k - 1)] + s[k]
  <2>1. 1..k \in SUBSET D /\ 1..k # {} /\ (1..k) \ {k} = 1..(k - 1)
    <3>1. k \in Nat /\ k \in 1..k /\ 1..k \in SUBSET D
      BY <1>1 DEF D
    <3>2. ASSUME NEW j PROVE j \in (1..k) \ {k} <=> j \in 1..(k - 1)
      BY <3>1
    <3>3. (1..k) \ {k} = 1..(k - 1)
      BY <3>2
    <3>4. QED
      BY <3>1, <3>3
  <2>2. Max(1..k) = k
    BY <1>1, MaxOfInterval
  <2>3. sum[1..k] = sum[(1..k) \ {k}] + s[k]
    BY <1>6, <2>1, <2>2, Zenon
  <2>4. QED
    BY <2>1, <2>3
<1> DEFINE p == [k \in 0..n |-> sum[1..k]]
           Integral == { k \in Nat : sum[1..k] \in Int }
<1>10. 0 \in Integral
  <2>1. 1..0 = {}
    OBVIOUS
  <2>2. QED
    BY <1>8, <2>1
<1>11. ASSUME NEW k \in Nat, k < n, k \in Integral PROVE k + 1 \in Integral
  <2>1. k + 1 \in 1..n /\ (k + 1) - 1 = k
    BY <1>1, <1>11
  <2>2. sum[1..(k + 1)] = sum[1..k] + s[k + 1]
    BY <1>9, <2>1
  <2>3. s[k + 1] \in Int
    BY <1>1, <2>1 DEF D
  <2>4. QED
    BY <1>11, <2>2, <2>3
<1> HIDE DEF Integral
<1>12. \A k \in 0..n : k \in Integral
  BY <1>1, <1>10, <1>11, UpTo
<1>13. p \in [0..n -> Int]
  BY <1>12 DEF Integral
<1>14. p[0] = 0
  <2>1. 1..0 = {} /\ 0 \in 0..n
    BY <1>1
  <2>2. QED
    BY <1>8, <2>1
<1>15. \A k \in 1..n : p[k] = p[k - 1] + s[k]
  <2>1. ASSUME NEW k \in 1..n PROVE p[k] = p[k - 1] + s[k]
    <3>1. k \in 0..n /\ k - 1 \in 0..n
      BY <1>1
    <3>2. QED
      BY <1>9, <3>1
  <2>2. QED
    BY <2>1
<1>16. p[n] = Total(s)
  <2>1. n \in 0..n
    BY <1>1
  <2>2. QED
    BY <1>7, <2>1 DEF D
<1> HIDE DEF p
<1>17. QED
  BY <1>13, <1>14, <1>15, <1>16 DEF Partial, n

\* A function on 1..n is a sequence of length n.
LEMMA FunctionIsSeq ==
    ASSUME NEW S, NEW n \in Nat, NEW f \in [1..n -> S]
    PROVE  f \in Seq(S) /\ Len(f) = n
OBVIOUS

\* A sum of integers lies between the least and the greatest of them times their number.
LEMMA TotalBounds ==
    ASSUME NEW s \in Seq(Int), NEW low \in Int, NEW high \in Int,
           \A i \in 1..Len(s) : low <= s[i] /\ s[i] <= high
    PROVE  /\ Total(s) \in Int
           /\ low * Len(s) <= Total(s) /\ Total(s) <= high * Len(s)
<1>1. PICK p : Partial(s, p) /\ Total(s) = p[Len(s)]
  BY TotalUnfolds
<1>2. PICK n \in Nat : n = Len(s)
  OBVIOUS
<1> DEFINE Bounded == { k \in 0..n : low * k <= p[k] /\ p[k] <= high * k }
<1>3. 0 \in Bounded
  BY <1>1, <1>2 DEF Partial
<1>4. ASSUME NEW k \in Nat, k < n, k \in Bounded PROVE k + 1 \in Bounded
  <2>1. k + 1 \in 1..n /\ (k + 1) - 1 = k /\ k + 1 \in 0..n /\ k \in 0..n
    BY <1>4
  <2>2. PICK x \in Int : x = s[k + 1] /\ low <= x /\ x <= high
    BY <1>2, <2>1
  <2>3. PICK before \in Int : before = p[k]
    BY <1>1, <1>2, <2>1 DEF Partial
  <2>4. p[k + 1] = before + x
    BY <1>1, <1>2, <2>1, <2>2, <2>3 DEF Partial
  <2>5. PICK l \in Int, h \in Int : l = low * k /\ h = high * k
    OBVIOUS
  <2>6. low * (k + 1) = l + low /\ high * (k + 1) = h + high
    BY <2>5
  <2>7. l <= before /\ before <= h
    BY <1>4, <2>3, <2>5
  <2>8. low * (k + 1) <= p[k + 1] /\ p[k + 1] <= high * (k + 1)
    BY <2>2, <2>4, <2>6, <2>7
  <2>9. QED
    BY <2>1, <2>8
<1> HIDE DEF Bounded
<1>5. \A k \in 0..n : k \in Bounded
  BY <1>3, <1>4, UpTo
<1>6. n \in Bounded
  BY <1>5
<1>7. Total(s) \in Int
  BY <1>1 DEF Partial
<1>8. QED
  BY <1>1, <1>2, <1>6, <1>7 DEF Bounded

\* A sum of integers is an integer.
LEMMA TotalInt == ASSUME NEW s \in Seq(Int) PROVE Total(s) \in Int
<1>1. PICK p : Partial(s, p) /\ Total(s) = p[Len(s)]
  BY TotalUnfolds
<1>2. QED
  BY <1>1 DEF Partial

\* A sum of terms that are not negative is not negative.
LEMMA TotalNonnegative ==
    ASSUME NEW s \in Seq(Int), \A i \in 1..Len(s) : 0 <= s[i]
    PROVE  Total(s) \in Int /\ 0 <= Total(s)
<1>1. PICK p : Partial(s, p) /\ Total(s) = p[Len(s)]
  BY TotalUnfolds
<1>2. PICK n \in Nat : n = Len(s)
  OBVIOUS
<1> DEFINE Nonnegative == { k \in 0..n : 0 <= p[k] }
<1>3. 0 \in Nonnegative
  BY <1>1, <1>2 DEF Partial
<1>4. ASSUME NEW k \in Nat, k < n, k \in Nonnegative PROVE k + 1 \in Nonnegative
  <2>1. k + 1 \in 1..n /\ (k + 1) - 1 = k /\ k + 1 \in 0..n /\ k \in 0..n
    BY <1>4
  <2>2. PICK x \in Int : x = s[k + 1] /\ 0 <= x
    BY <1>2, <2>1
  <2>3. PICK before \in Int : before = p[k] /\ 0 <= before
    BY <1>1, <1>2, <1>4, <2>1 DEF Partial
  <2>4. p[k + 1] = before + x
    BY <1>1, <1>2, <2>1, <2>2, <2>3 DEF Partial
  <2>5. QED
    BY <2>1, <2>2, <2>3, <2>4
<1> HIDE DEF Nonnegative
<1>5. \A k \in 0..n : k \in Nonnegative
  BY <1>3, <1>4, UpTo
<1>6. n \in Nonnegative
  BY <1>5
<1>7. QED
  BY <1>1, <1>2, <1>6 DEF Nonnegative, Partial

\* No square is negative.
LEMMA SquareNonnegative == ASSUME NEW x \in Int PROVE x * x \in Int /\ 0 <= x * x
<1>1. CASE x >= 0
  BY <1>1
<1>2. CASE x < 0
  <2>1. PICK y \in Int : y = -x /\ y >= 0
    BY <1>2
  <2>2. x * x = y * y /\ 0 <= y * y
    BY <2>1
  <2>3. QED
    BY <2>2
<1>3. QED
  BY <1>1, <1>2

\* Cauchy's inequality for k values whose sum is T and whose squares add up to Q, and
\* what it needs to grow.
Cauchy(k, T, Q) ==
    /\ 0 <= k * Q - T * T
    /\ \A a \in Int : 0 <= Q - 2 * (a * T) + k * (a * a)

\* The inequality between a sum and a sum of squares survives one more term.
LEMMA CauchyGrows ==
    ASSUME NEW k \in Nat, NEW T \in Int, NEW Q \in Int, NEW x \in Int, Cauchy(k, T, Q)
    PROVE  Cauchy(k + 1, T + x, Q + x * x)
<1>0. /\ 0 <= k * Q - T * T
      /\ \A a \in Int : 0 <= Q - 2 * (a * T) + k * (a * a)
  BY DEF Cauchy
<1>1. (k + 1) * (Q + x * x) - (T + x) * (T + x)
          = (k * Q - T * T) + (Q - 2 * (x * T) + k * (x * x))
  <2>1. PICK xx \in Int, kq \in Int, tt \in Int, xt \in Int, kx \in Int :
            xx = x * x /\ kq = k * Q /\ tt = T * T /\ xt = x * T /\ kx = k * xx
    OBVIOUS
  <2>2. (k + 1) * (Q + xx) = kq + kx + Q + xx
    BY <2>1
  <2>3. (T + x) * (T + x) = tt + 2 * xt + xx
    BY <2>1
  <2>4. QED
    BY <2>1, <2>2, <2>3
<1>2. 0 <= (k + 1) * (Q + x * x) - (T + x) * (T + x)
  <2>1. PICK u \in Int : u = k * Q - T * T /\ 0 <= u
    BY <1>0
  <2>2. PICK w \in Int : w = Q - 2 * (x * T) + k * (x * x) /\ 0 <= w
    BY <1>0
  <2>3. QED
    BY <1>1, <2>1, <2>2
<1>3. ASSUME NEW a \in Int
      PROVE  0 <= (Q + x * x) - 2 * (a * (T + x)) + (k + 1) * (a * a)
  <2>1. PICK d \in Int : d = (x - a) * (x - a) /\ 0 <= d
    BY SquareNonnegative
  <2>2. PICK xx \in Int, at \in Int, ax \in Int, aa \in Int, ka \in Int :
            xx = x * x /\ at = a * T /\ ax = a * x /\ aa = a * a /\ ka = k * aa
    OBVIOUS
  <2>3. d = xx - 2 * ax + aa
    BY <2>1, <2>2
  <2>4. a * (T + x) = at + ax /\ (k + 1) * aa = ka + aa
    BY <2>2
  <2>5. 0 <= Q - 2 * at + ka
    BY <1>0, <2>2
  <2>6. QED
    BY <2>1, <2>2, <2>3, <2>4, <2>5
<1>4. QED
  BY <1>2, <1>3 DEF Cauchy

Squares(s) == [i \in 1..Len(s) |-> s[i] * s[i]]

\* The squares of a sequence, term by term.
LEMMA SquaresLemma ==
    ASSUME NEW s \in Seq(Int)
    PROVE  /\ Squares(s) \in Seq(Int) /\ Len(Squares(s)) = Len(s)
           /\ \A i \in 1..Len(s) : Squares(s)[i] = s[i] * s[i]
<1>1. Squares(s) \in [1..Len(s) -> Int]
  BY DEF Squares
<1>2. QED
  BY <1>1, FunctionIsSeq DEF Squares

\* A variance is not negative.
LEMMA ScatterNonnegative ==
    ASSUME NEW s \in Seq(Int)
    PROVE  ScatterOf(s) \in Nat
<1>1. PICK p : Partial(s, p) /\ Total(s) = p[Len(s)]
  BY TotalUnfolds
<1>2. PICK q : Partial(Squares(s), q) /\ Total(Squares(s)) = q[Len(s)]
  BY TotalUnfolds, SquaresLemma
<1>3. PICK n \in Nat : n = Len(s)
  OBVIOUS
<1>4. /\ p \in [0..n -> Int] /\ p[0] = 0 /\ \A k \in 1..n : p[k] = p[k - 1] + s[k]
      /\ q \in [0..n -> Int] /\ q[0] = 0 /\ \A k \in 1..n : q[k] = q[k - 1] + s[k] * s[k]
  BY <1>1, <1>2, <1>3, SquaresLemma DEF Partial
<1> DEFINE Bounded == { k \in 0..n : Cauchy(k, p[k], q[k]) }
<1>5. 0 \in Bounded
  BY <1>4 DEF Cauchy
<1>6. ASSUME NEW k \in Nat, k < n, k \in Bounded PROVE k + 1 \in Bounded
  <2>1. k + 1 \in 1..n /\ (k + 1) - 1 = k /\ k + 1 \in 0..n /\ k \in 0..n
    BY <1>6
  <2>2. PICK T \in Int, Q \in Int, x \in Int : T = p[k] /\ Q = q[k] /\ x = s[k + 1]
    <3>1. p[k] \in Int /\ q[k] \in Int
      BY <1>4, <2>1
    <3>2. s[k + 1] \in Int
      BY <1>3, <2>1
    <3>3. QED
      BY <3>1, <3>2, Zenon
  <2>3. p[k + 1] = T + x /\ q[k + 1] = Q + x * x
    <3>1. PICK j \in 1..n : j = k + 1 /\ j - 1 = k
      BY <2>1
    <3>2. p[j] = p[j - 1] + s[j] /\ q[j] = q[j - 1] + s[j] * s[j]
      BY <1>4
    <3>3. QED
      BY <2>2, <3>1, <3>2
  <2>4. Cauchy(k, T, Q)
    BY <1>6, <2>2
  <2>5. Cauchy(k + 1, T + x, Q + x * x)
    BY <2>4, CauchyGrows
  <2>6. QED
    BY <2>1, <2>3, <2>5
<1> HIDE DEF Bounded
<1>7. \A k \in 0..n : k \in Bounded
  BY <1>5, <1>6, UpTo
<1>8. n \in Bounded
  BY <1>7
<1>9. PICK T \in Int, Q \in Int : T = p[n] /\ Q = q[n]
  BY <1>4
<1>10. n * Q - T * T \in Int /\ 0 <= n * Q - T * T
  <2>1. Cauchy(n, T, Q)
    BY <1>8, <1>9 DEF Bounded
  <2>2. QED
    BY <2>1 DEF Cauchy
<1>11. ScatterOf(s) = Len(s) * Total(Squares(s)) - Total(s) * Total(s)
  <2>1. DOMAIN s = 1..Len(s)
    OBVIOUS
  <2>2. QED
    BY <2>1, Zenon DEF ScatterOf, TotalOf, Squares
<1>12. ScatterOf(s) = n * Q - T * T
  BY <1>1, <1>2, <1>3, <1>9, <1>11
<1>13. QED
  BY <1>10, <1>12

-----------------------------------------------------------------------------
(* The median.                                                             *)

\* The points of f, as Median ranks them, and the k-th smallest of their values.
Points(f) == { <<f[i], i>> : i \in DOMAIN f }

Below(f, x) == { p \in Points(f) : p[1] < x }

UpToValue(f, x) == { p \in Points(f) : p[1] <= x }

Ranked(f, k, x) ==
    /\ x \in { p[1] : p \in Points(f) }
    /\ Cardinality(Below(f, x)) < k
    /\ Cardinality(UpToValue(f, x)) >= k

\* Every rank from one to the size of the index set is held by some value.
LEMMA RankExists ==
    ASSUME NEW D, IsFiniteSet(D), NEW f \in [D -> Int],
           NEW k \in Nat, 1 <= k, k <= Cardinality(D)
    PROVE  \E x : Ranked(f, k, x)
<1> DEFINE P == Points(f)
           V == { p[1] : p \in P }
           At(i) == <<f[i], i>>
<1>1. DOMAIN f = D
  OBVIOUS
<1>2. \A p \in P : \E i \in D : p = <<f[i], i>>
  BY <1>1 DEF Points
<1>3. \A i \in D : <<f[i], i>> \in P
  BY <1>1 DEF Points
<1>4. \A p \in P : p[1] \in Int
  BY <1>2
<1> HIDE DEF P
<1>5. IsFiniteSet(P)
  <2> DEFINE s == [i \in D |-> <<f[i], i>>]
  <2>1. s \in [D -> P]
    BY <1>3
  <2>2. \A p \in P : \E i \in D : s[i] = p
    BY <1>2
  <2> HIDE DEF s
  <2>3. s \in Surjection(D, P)
    BY <2>1, <2>2 DEF Surjection
  <2>4. QED
    BY <2>3, FS_Surjection
<1>6. Cardinality(D) <= Cardinality(P)
  <2> DEFINE s == [i \in D |-> <<f[i], i>>]
  <2>1. s \in [D -> P]
    BY <1>3
  <2>2. \A i, j \in D : s[i] = s[j] => i = j
    OBVIOUS
  <2> HIDE DEF s
  <2>3. s \in Injection(D, P)
    BY <2>1, <2>2 DEF Injection, IsInjective
  <2>4. QED
    BY <1>5, <2>3, FS_Injection
<1>7. IsFiniteSet(V)
  <2> DEFINE s == [p \in P |-> p[1]]
  <2>1. s \in [P -> V]
    OBVIOUS
  <2>2. \A v \in V : \E p \in P : s[p] = v
    OBVIOUS
  <2> HIDE DEF s, V
  <2>3. s \in Surjection(P, V)
    BY <2>1, <2>2 DEF Surjection
  <2>4. QED
    BY <1>5, <2>3, FS_Surjection
<1>8. V \subseteq Int /\ \A p \in P : p[1] \in V
  BY <1>4
<1>9. V # {}
  <2>1. Cardinality(D) # 0
    BY FS_CardinalityType
  <2>2. D # {}
    BY <2>1, FS_EmptySet, Zenon
  <2>3. QED
    BY <1>3, <1>8, <2>2
<1>10. \A x : Cardinality(Below(f, x)) \in Nat /\ IsFiniteSet(Below(f, x))
  <2> SUFFICES ASSUME NEW x PROVE Cardinality(Below(f, x)) \in Nat /\ IsFiniteSet(Below(f, x))
    OBVIOUS
  <2>1. Below(f, x) \in SUBSET P
    BY DEF Below, P
  <2>2. QED
    BY <1>5, <2>1, FS_Subset, FS_CardinalityType
<1> DEFINE G == { x \in V : Cardinality(UpToValue(f, x)) >= k }
<1>11. \E x \in V : x \in G
  <2>1. PICK m \in V : \A x \in V : x <= m
    BY <1>7, <1>8, <1>9, Extremes
  <2>2. UpToValue(f, m) = P
    BY <1>8, <2>1 DEF UpToValue, P
  <2>3. Cardinality(P) >= k
    BY <1>5, <1>6, FS_CardinalityType
  <2>4. QED
    BY <2>1, <2>2, <2>3
<1> HIDE DEF V
<1>12. PICK x \in G : \A y \in G : x <= y
  <2>1. G \in SUBSET V
    OBVIOUS
  <2>2. IsFiniteSet(G) /\ G \subseteq Int /\ G # {}
    BY <1>7, <1>8, <1>11, <2>1, FS_Subset
  <2> HIDE DEF G
  <2>3. QED
    BY <2>2, Extremes
<1>13. Cardinality(Below(f, x)) < k
  <2> SUFFICES ASSUME ~(Cardinality(Below(f, x)) < k) PROVE FALSE
    OBVIOUS
  <2>1. Cardinality(Below(f, x)) >= k /\ Cardinality(Below(f, x)) # 0
    BY <1>10
  <2>2. Below(f, x) # {}
    BY <2>1, FS_EmptySet, Zenon
  <2> DEFINE W == { v \in V : v < x }
  <2>3. W # {}
    BY <1>8, <2>2 DEF Below, P
  <2>4. W \in SUBSET V
    OBVIOUS
  <2>5. IsFiniteSet(W) /\ W \subseteq Int
    BY <1>7, <1>8, <2>4, FS_Subset
  <2> HIDE DEF W
  <2>6. PICK y \in W : \A v \in W : v <= y
    BY <2>3, <2>5, Extremes
  <2>7. y \in V /\ y < x /\ y \in Int /\ x \in Int
    BY <1>8, <2>6 DEF W
  <2>8. \A p \in P : p[1] < x <=> p[1] <= y
    <3> SUFFICES ASSUME NEW p \in P PROVE p[1] < x <=> p[1] <= y
      OBVIOUS
    <3>1. PICK v \in Int : v = p[1] /\ v \in V
      BY <1>4, <1>8
    <3>2. v < x => v <= y
      BY <2>6, <3>1 DEF W
    <3>3. QED
      BY <2>7, <3>1, <3>2
  <2>9. UpToValue(f, y) = Below(f, x)
    BY <2>8 DEF UpToValue, Below, P
  <2>10. y \in G
    BY <2>1, <2>7, <2>9
  <2>11. x <= y
    BY <1>12, <2>10
  <2>12. QED
    BY <2>7, <2>11
<1>14. x \in V /\ Cardinality(UpToValue(f, x)) >= k
  BY <1>12
<1>15. Ranked(f, k, x)
  BY <1>13, <1>14 DEF Ranked, V, P
<1>16. QED
  BY <1>15

\* A median is the mean of two of the values.
LEMMA MedianLemma ==
    ASSUME NEW D, IsFiniteSet(D), D # {}, NEW f \in [D -> Int]
    PROVE  \E x, y \in D : Median(f) = (f[x] + f[y]) \div 2
<1> DEFINE n == Cardinality(D)
           Kth(k) == CHOOSE x \in { p[1] : p \in Points(f) } :
                         /\ Cardinality(Below(f, x)) < k
                         /\ Cardinality(UpToValue(f, x)) >= k
<1>1. n \in Nat /\ n # 0
  BY FS_CardinalityType, FS_EmptySet
<1>2. DOMAIN f = D
  OBVIOUS
<1>3. Median(f) = (Kth((n + 1) \div 2) + Kth((n + 2) \div 2)) \div 2
  BY <1>2, Zenon DEF Median, Points, Below, UpToValue
<1>4. ASSUME NEW k \in Nat, 1 <= k, k <= n PROVE \E x \in D : Kth(k) = f[x]
  <2>1. PICK x : Ranked(f, k, x)
    BY <1>4, RankExists
  <2>2. Ranked(f, k, Kth(k))
    BY <2>1, Zenon DEF Ranked
  <2>3. \A v \in { p[1] : p \in Points(f) } : \E i \in D : v = f[i]
    BY <1>2 DEF Points
  <2>4. QED
    BY <2>2, <2>3, Zenon DEF Ranked
<1> HIDE DEF Kth
<1>5. PICK k \in Nat, l \in Nat :
          /\ k = (n + 1) \div 2 /\ 1 <= k /\ k <= n
          /\ l = (n + 2) \div 2 /\ 1 <= l /\ l <= n
  <2> HIDE DEF n
  <2>1. (n + 1) \div 2 \in Nat /\ 1 <= (n + 1) \div 2 /\ (n + 1) \div 2 <= n
    BY <1>1
  <2>2. (n + 2) \div 2 \in Nat /\ 1 <= (n + 2) \div 2 /\ (n + 2) \div 2 <= n
    BY <1>1
  <2>3. QED
    BY <2>1, <2>2
<1>6. PICK x \in D, y \in D : Kth(k) = f[x] /\ Kth(l) = f[y]
  BY <1>4, <1>5
<1>7. QED
  BY <1>3, <1>5, <1>6

-----------------------------------------------------------------------------
(* The parameters of an update, one after the other.                       *)

Vectors == Seq(Int) \ {<<>>}

\* Updates of one or more layers, none of them empty.
Layered == Seq(Vectors) \ {<<>>}

SameShape(u, w) ==
    /\ Len(u) = Len(w)
    /\ \A l \in 1..Len(u) : Len(u[l]) = Len(w[l])

\* What a vector is: a sequence of integers that is not empty.
LEMMA VectorLemma ==
    /\ \A v \in Vectors : /\ v \in Seq(Int) /\ Len(v) \in Nat /\ Len(v) >= 1
                          /\ DOMAIN v = 1..Len(v) /\ \A i \in 1..Len(v) : v[i] \in Int
    /\ \A v \in Seq(Int) : Len(v) >= 1 => v \in Vectors
<1>1. ASSUME NEW v \in Vectors
      PROVE  /\ v \in Seq(Int) /\ Len(v) \in Nat /\ Len(v) >= 1
             /\ DOMAIN v = 1..Len(v) /\ \A i \in 1..Len(v) : v[i] \in Int
  BY DEF Vectors
<1>2. ASSUME NEW v \in Seq(Int), Len(v) >= 1 PROVE v \in Vectors
  BY <1>2 DEF Vectors
<1>3. QED
  BY <1>1, <1>2

\* What an update is: a sequence of layers, each a vector.
LEMMA LayeredLemma ==
    ASSUME NEW u \in Layered
    PROVE  /\ u \in Seq(Vectors) /\ Len(u) \in Nat /\ Len(u) >= 1 /\ DOMAIN u = 1..Len(u)
           /\ \A l \in 1..Len(u) : u[l] \in Vectors
BY DEF Layered

\* The first layers of u, up to each, in one sequence.
Flattens(u, k, F) ==
    /\ F \in [1..k -> Seq(Int)]
    /\ \A i \in 1..k : F[i] = IF i = 1 THEN u[i] ELSE F[i - 1] \o u[i]

\* The concatenation of the first k layers extends by one layer.
LEMMA FlattensExtend ==
    ASSUME NEW u \in Layered, NEW k \in Nat, k < Len(u), \E F : Flattens(u, k, F)
    PROVE  \E F : Flattens(u, k + 1, F)
<1>1. PICK f : Flattens(u, k, f)
  OBVIOUS
<1> DEFINE last == IF k = 0 THEN u[1] ELSE f[k] \o u[k + 1]
           F == [i \in 1..(k + 1) |-> IF i = k + 1 THEN last ELSE f[i]]
<1>2. k + 1 \in 1..Len(u) /\ u[k + 1] \in Seq(Int)
  <2>1. k + 1 \in 1..Len(u)
    BY LayeredLemma
  <2>2. QED
    BY <2>1, LayeredLemma, VectorLemma
<1>3. last \in Seq(Int)
  <2>1. CASE k = 0
    <3>1. u[1] \in Seq(Int)
      BY <1>2, <2>1
    <3>2. QED
      BY <2>1, <3>1
  <2>2. CASE k # 0
    <3>1. k \in 1..k
      BY <2>2
    <3>2. f[k] \in Seq(Int)
      BY <1>1, <3>1 DEF Flattens
    <3>3. QED
      BY <1>2, <2>2, <3>2
  <2>3. QED
    BY <2>1, <2>2
<1> HIDE DEF last
<1>4. \A i \in 1..k : i \in 1..(k + 1) /\ i # k + 1 /\ F[i] = f[i] /\ f[i] \in Seq(Int)
  <2>1. \A i \in 1..k : i \in 1..(k + 1) /\ i # k + 1
    OBVIOUS
  <2>2. \A i \in 1..k : F[i] = f[i]
    BY <2>1
  <2>3. \A i \in 1..k : f[i] \in Seq(Int)
    BY <1>1 DEF Flattens
  <2>4. QED
    BY <2>1, <2>2, <2>3
<1>5. F[k + 1] = last /\ \A i \in 1..(k + 1) : i = k + 1 \/ i \in 1..k
  OBVIOUS
<1>6. F \in [1..(k + 1) -> Seq(Int)]
  <2>1. \A i \in 1..(k + 1) : F[i] \in Seq(Int)
    BY <1>3, <1>4, <1>5
  <2>2. QED
    BY <2>1
<1> HIDE DEF F
<1>7. ASSUME NEW i \in 1..(k + 1)
      PROVE  F[i] = IF i = 1 THEN u[i] ELSE F[i - 1] \o u[i]
  <2>1. CASE i = k + 1
    <3>1. k # 0 => k \in 1..k /\ F[k] = f[k]
      BY <1>4
    <3>2. i - 1 = k /\ (i = 1 <=> k = 0)
      BY <2>1
    <3>3. QED
      BY <1>5, <2>1, <3>1, <3>2 DEF last
  <2>2. CASE i \in 1..k
    <3>1. i # 1 => i - 1 \in 1..k
      BY <2>2
    <3>2. i # 1 => F[i - 1] = f[i - 1]
      BY <1>4, <3>1
    <3>3. F[i] = f[i]
      BY <1>4, <2>2
    <3>4. f[i] = IF i = 1 THEN u[i] ELSE f[i - 1] \o u[i]
      BY <1>1, <2>2 DEF Flattens
    <3>5. QED
      BY <3>2, <3>3, <3>4
  <2>3. QED
    BY <1>5, <2>1, <2>2
<1>8. QED
  BY <1>6, <1>7 DEF Flattens

\* The flat form of an update is the concatenation of all of its layers.
LEMMA FlatUnfolds ==
    ASSUME NEW u \in Layered
    PROVE  \E F : Flattens(u, Len(u), F) /\ Flat(u) = F[Len(u)]
<1> DEFINE n == Len(u)
           IsFlat(F) == F = [i \in 1..Len(u) |-> IF i = 1 THEN u[i] ELSE F[i - 1] \o u[i]]
           flat == CHOOSE F : IsFlat(F)
<1>1. n \in Nat /\ n >= 1
  BY LayeredLemma
<1>2. \E F : Flattens(u, n, F)
  <2> DEFINE Solvable == { k \in 0..n : \E F : Flattens(u, k, F) }
  <2>1. 0 \in Solvable
    <3> DEFINE none == [i \in 1..0 |-> <<>>]
    <3>1. none \in [1..0 -> Seq(Int)] /\ \A i \in 1..0 : FALSE
      OBVIOUS
    <3>2. Flattens(u, 0, none)
      BY <3>1 DEF Flattens
    <3>3. QED
      BY <1>1, <3>2
  <2>2. ASSUME NEW k \in Nat, k < n, k \in Solvable PROVE k + 1 \in Solvable
    <3>1. k + 1 \in 0..n
      BY <1>1, <2>2
    <3>2. QED
      BY <2>2, <3>1, FlattensExtend
  <2> HIDE DEF Solvable
  <2>3. \A k \in 0..n : k \in Solvable
    BY <1>1, <2>1, <2>2, UpTo
  <2>4. n \in Solvable
    BY <1>1, <2>3
  <2>5. QED
    BY <2>4 DEF Solvable
<1>3. \E F : IsFlat(F)
  <2>1. PICK F : Flattens(u, n, F)
    BY <1>2
  <2>2. IsFlat(F)
    BY <2>1, Zenon DEF Flattens
  <2>3. QED
    BY <2>2
<1>4. IsFlat(flat)
  BY <1>3, Zenon
<1>5. Flat(u) = flat[n]
  <2>1. Len(u) # 0
    BY <1>1
  <2>2. QED
    BY <2>1, Zenon DEF Flat, FlattenSeq
<1> HIDE DEF flat
<1> DEFINE Good == { k \in Nat : k + 1 <= n => flat[k + 1] \in Seq(Int) }
<1>6. \A k \in 1..n : u[k] \in Seq(Int)
  BY LayeredLemma, VectorLemma
<1>7. 0 \in Good
  <2>1. 1 \in 1..n
    BY <1>1
  <2>2. flat[1] = u[1]
    BY <1>4, <2>1
  <2>3. QED
    BY <1>6, <2>1, <2>2
<1>8. ASSUME NEW k \in Nat, k < n, k \in Good PROVE k + 1 \in Good
  <2> SUFFICES ASSUME k + 2 <= n PROVE flat[k + 2] \in Seq(Int)
    OBVIOUS
  <2>1. k + 2 \in 1..n /\ k + 2 # 1 /\ (k + 2) - 1 = k + 1
    BY <1>1
  <2>2. flat[k + 2] = flat[k + 1] \o u[k + 2]
    BY <1>4, <2>1
  <2>3. flat[k + 1] \in Seq(Int) /\ u[k + 2] \in Seq(Int)
    BY <1>6, <1>8, <2>1
  <2>4. QED
    BY <2>2, <2>3
<1> HIDE DEF Good
<1>9. \A k \in 0..n : k \in Good
  BY <1>1, <1>7, <1>8, UpTo
<1>10. \A k \in 1..n : flat[k] \in Seq(Int)
  <2> SUFFICES ASSUME NEW k \in 1..n PROVE flat[k] \in Seq(Int)
    OBVIOUS
  <2>1. k - 1 \in 0..n /\ (k - 1) + 1 = k /\ k <= n
    BY <1>1
  <2>2. k - 1 \in Good
    BY <1>9, <2>1
  <2>3. QED
    BY <2>1, <2>2 DEF Good
<1>11. flat \in [1..n -> Seq(Int)]
  BY <1>4, <1>10
<1>12. \A i \in 1..n : flat[i] = IF i = 1 THEN u[i] ELSE flat[i - 1] \o u[i]
  BY <1>4
<1>13. QED
  BY <1>5, <1>11, <1>12 DEF Flattens

\* Flattening gives a vector, and vectors of one length from updates of one shape.
LEMMA FlatLemma ==
    ASSUME NEW u \in Layered, NEW w \in Layered, SameShape(u, w)
    PROVE  Flat(u) \in Vectors /\ Len(Flat(u)) = Len(Flat(w))
<1>1. PICK F : Flattens(u, Len(u), F) /\ Flat(u) = F[Len(u)]
  BY FlatUnfolds
<1>2. PICK G : Flattens(w, Len(w), G) /\ Flat(w) = G[Len(w)]
  BY FlatUnfolds
<1>3. PICK n \in Nat : n = Len(u) /\ n = Len(w) /\ n >= 1
  BY LayeredLemma DEF SameShape
<1>4. \A i \in 1..n : /\ F[i] \in Seq(Int) /\ F[i] = IF i = 1 THEN u[i] ELSE F[i - 1] \o u[i]
                      /\ G[i] \in Seq(Int) /\ G[i] = IF i = 1 THEN w[i] ELSE G[i - 1] \o w[i]
  BY <1>1, <1>2, <1>3 DEF Flattens
<1>5. \A i \in 1..n : u[i] \in Vectors /\ w[i] \in Vectors /\ Len(u[i]) = Len(w[i])
  BY <1>3, LayeredLemma DEF SameShape
<1> DEFINE Alike == { k \in Nat : k + 1 <= n => Len(F[k + 1]) >= 1 /\ Len(F[k + 1]) = Len(G[k + 1]) }
<1>6. 0 \in Alike
  <2>1. 1 \in 1..n
    BY <1>3
  <2>2. F[1] = u[1] /\ G[1] = w[1]
    BY <1>4, <2>1
  <2>3. QED
    BY <1>5, <2>1, <2>2, VectorLemma
<1>7. ASSUME NEW k \in Nat, k < n, k \in Alike PROVE k + 1 \in Alike
  <2> SUFFICES ASSUME k + 2 <= n PROVE Len(F[k + 2]) >= 1 /\ Len(F[k + 2]) = Len(G[k + 2])
    OBVIOUS
  <2>1. k + 2 \in 1..n /\ k + 1 \in 1..n /\ k + 2 # 1 /\ (k + 2) - 1 = k + 1
    BY <1>3
  <2>2. F[k + 2] = F[k + 1] \o u[k + 2] /\ G[k + 2] = G[k + 1] \o w[k + 2]
    BY <1>4, <2>1
  <2>3. PICK a \in Seq(Int), b \in Seq(Int), x \in Seq(Int), y \in Seq(Int) :
            /\ a = F[k + 1] /\ b = G[k + 1] /\ x = u[k + 2] /\ y = w[k + 2]
            /\ Len(x) = Len(y)
    <3>1. F[k + 1] \in Seq(Int) /\ G[k + 1] \in Seq(Int)
      BY <1>4, <2>1
    <3>2. /\ u[k + 2] \in Seq(Int) /\ w[k + 2] \in Seq(Int)
          /\ Len(u[k + 2]) = Len(w[k + 2])
      BY <1>5, <2>1, VectorLemma
    <3>3. QED
      BY <3>1, <3>2, Zenon
  <2>4. Len(a) >= 1 /\ Len(a) = Len(b)
    BY <1>7, <2>1, <2>3
  <2>5. Len(a \o x) = Len(a) + Len(x) /\ Len(b \o y) = Len(b) + Len(y) /\ Len(x) \in Nat
    OBVIOUS
  <2>6. F[k + 2] = a \o x /\ G[k + 2] = b \o y
    BY <2>2, <2>3, Zenon
  <2>7. Len(a \o x) >= 1 /\ Len(a \o x) = Len(b \o y)
    <3>1. PICK p \in Nat, q \in Nat : p = Len(a) /\ p = Len(b) /\ q = Len(x) /\ q = Len(y)
      BY <2>3, <2>4
    <3>2. Len(a \o x) = p + q /\ Len(b \o y) = p + q /\ p >= 1
      BY <2>4, <2>5, <3>1, Zenon
    <3>3. p + q >= 1
      BY <3>2
    <3>4. QED
      BY <3>2, <3>3, Zenon
  <2>8. QED
    BY <2>6, <2>7, Zenon
<1> HIDE DEF Alike
<1>8. \A k \in 0..n : k \in Alike
  BY <1>3, <1>6, <1>7, UpTo
<1>9. n - 1 \in Alike /\ (n - 1) + 1 = n
  <2>1. n - 1 \in 0..n
    BY <1>3
  <2>2. QED
    BY <1>8, <2>1
<1>10. Len(F[n]) >= 1 /\ Len(F[n]) = Len(G[n])
  BY <1>9 DEF Alike
<1>11. F[n] \in Seq(Int)
  <2>1. n \in 1..n
    BY <1>3
  <2>2. QED
    BY <1>4, <2>1
<1>12. QED
  BY <1>1, <1>2, <1>3, <1>10, <1>11, VectorLemma

-----------------------------------------------------------------------------
(* Vectors.                                                                *)

LEMMA FiniteValues ==
    ASSUME NEW D, IsFiniteSet(D), NEW f, DOMAIN f = D
    PROVE  IsFiniteSet({ f[x] : x \in D })
<1> DEFINE V == { f[x] : x \in D }
           s == [x \in D |-> f[x]]
<1>1. s \in [D -> V] /\ \A v \in V : \E x \in D : s[x] = v
  OBVIOUS
<1> HIDE DEF s, V
<1>2. s \in Surjection(D, V)
  BY <1>1 DEF Surjection
<1>3. IsFiniteSet(V)
  BY <1>2, FS_Surjection
<1>4. QED
  BY <1>3 DEF V

\* An absolute value is a natural number.
LEMMA AbsLemma == ASSUME NEW x \in Int PROVE Abs(x) \in Nat
BY DEF Abs

\* So is the largest absolute entry of a vector.
LEMMA LargestLemma == ASSUME NEW v \in Vectors PROVE Largest(v) \in Nat
<1> DEFINE D == 1..Len(v)
           f == [i \in D |-> Abs(v[i])]
           V == { f[i] : i \in D }
<1>1. /\ Len(v) \in Nat /\ Len(v) >= 1 /\ DOMAIN v = D
      /\ \A i \in D : v[i] \in Int
  BY VectorLemma
<1>2. IsFiniteSet(D) /\ 1 \in D
  BY <1>1, FS_Interval
<1>3. V = { Abs(v[i]) : i \in DOMAIN v }
  BY <1>1
<1>4. \A i \in D : f[i] \in Nat
  BY <1>1, AbsLemma
<1>5. DOMAIN f = D
  OBVIOUS
<1> HIDE DEF f, D
<1>6. IsFiniteSet(V)
  BY <1>2, <1>5, FiniteValues
<1>7. V \subseteq Nat /\ V \subseteq Int /\ V # {}
  BY <1>2, <1>4
<1> HIDE DEF V
<1>8. Max(V) \in Nat
  BY <1>6, <1>7, MaxLemma
<1>9. QED
  BY <1>3, <1>8 DEF Largest

\* A vector scaled to a direction keeps its length.
LEMMA DirectionLemma ==
    ASSUME NEW v \in Vectors, NEW k \in Nat
    PROVE  Direction(v, k) \in Vectors /\ Len(Direction(v, k)) = Len(v)
<1>1. PICK m \in Nat : m = Largest(v)
  BY LargestLemma
<1> DEFINE Component(x) == (IF x < 0 THEN -1 ELSE 1) * ((k * Abs(x) + m \div 2) \div m)
           d == [i \in DOMAIN v |-> Component(v[i])]
<1>2. Direction(v, k) = IF m = 0 THEN v ELSE d
  BY <1>1, Zenon DEF Direction
<1>3. /\ v \in Seq(Int) /\ Len(v) \in Nat /\ Len(v) >= 1 /\ DOMAIN v = 1..Len(v)
      /\ \A i \in 1..Len(v) : v[i] \in Int
  BY VectorLemma
<1>4. CASE m = 0
  BY <1>2, <1>4, Zenon
<1>5. CASE m # 0
  <2>1. ASSUME NEW x \in Int PROVE Component(x) \in Int
    <3>1. PICK a \in Nat : a = Abs(x)
      BY AbsLemma
    <3>2. k * a + m \div 2 \in Int
      OBVIOUS
    <3>3. (k * a + m \div 2) \div m \in Int
      BY <1>5, <3>2
    <3>4. PICK y \in Int : y = (k * Abs(x) + m \div 2) \div m
      BY <3>1, <3>3
    <3>5. (IF x < 0 THEN -1 ELSE 1) * y \in Int
      OBVIOUS
    <3>6. QED
      BY <3>4, <3>5, Zenon
  <2> HIDE DEF Component
  <2>2. d \in [1..Len(v) -> Int]
    BY <1>3, <2>1
  <2> HIDE DEF d
  <2>3. d \in Seq(Int) /\ Len(d) = Len(v)
    BY <1>3, <2>2, FunctionIsSeq
  <2>4. d \in Vectors
    BY <1>3, <2>3, VectorLemma
  <2>5. QED
    BY <1>2, <1>5, <2>3, <2>4, Zenon
<1>6. QED
  BY <1>4, <1>5

\* The inner product of two vectors of one length is an integer.
LEMMA DotLemma ==
    ASSUME NEW u \in Vectors, NEW w \in Vectors, Len(u) = Len(w)
    PROVE  Dot(u, w) \in Int
<1> DEFINE products == [i \in DOMAIN u |-> u[i] * w[i]]
<1>1. /\ Len(u) \in Nat /\ DOMAIN u = 1..Len(u)
      /\ \A i \in 1..Len(u) : u[i] \in Int /\ w[i] \in Int
  BY VectorLemma
<1>2. \A i \in 1..Len(u) : u[i] * w[i] \in Int
  BY <1>1
<1>3. products \in [1..Len(u) -> Int]
  BY <1>1, <1>2
<1> HIDE DEF products
<1>4. products \in Seq(Int)
  BY <1>1, <1>3, FunctionIsSeq
<1>5. Total(products) \in Int
  BY <1>4, TotalInt
<1>6. QED
  BY <1>5, Zenon DEF Dot, products

\* That of a vector with itself is not negative.
LEMMA DotSquare == ASSUME NEW v \in Vectors PROVE Dot(v, v) \in Nat
<1>1. v \in Seq(Int) /\ DOMAIN v = 1..Len(v) /\ \A i \in 1..Len(v) : v[i] \in Int
  BY VectorLemma
<1>2. Dot(v, v) = Total(Squares(v))
  BY <1>1, Zenon DEF Dot, Squares
<1>3. /\ Squares(v) \in Seq(Int) /\ Len(Squares(v)) = Len(v)
      /\ \A i \in 1..Len(v) : Squares(v)[i] = v[i] * v[i]
  BY <1>1, SquaresLemma
<1>4. \A i \in 1..Len(v) : 0 <= v[i] * v[i]
  BY <1>1, SquareNonnegative
<1>5. \A i \in 1..Len(Squares(v)) : 0 <= Squares(v)[i]
  BY <1>3, <1>4
<1>6. Total(Squares(v)) \in Int /\ 0 <= Total(Squares(v))
  BY <1>3, <1>5, TotalNonnegative
<1>7. QED
  BY <1>2, <1>6

\* A norm is a natural number.
LEMMA NormLemma == ASSUME NEW v \in Vectors PROVE Norm(v) \in Nat
BY DotSquare, ISqrtLemma DEF Norm

\* Rounding included, a cosine is one.
LEMMA CosineLemma ==
    ASSUME NEW u \in Vectors, NEW w \in Vectors, Len(u) = Len(w)
    PROVE  Cosine(u, w) \in Int /\ -1000 <= Cosine(u, w) /\ Cosine(u, w) <= 1000
<1>1. PICK a \in Vectors, b \in Vectors :
          a = Direction(u, 100) /\ b = Direction(w, 100) /\ Len(a) = Len(b)
  <2>1. PICK h \in Nat : h = 100
    OBVIOUS
  <2>2. /\ Direction(u, h) \in Vectors /\ Len(Direction(u, h)) = Len(u)
        /\ Direction(w, h) \in Vectors /\ Len(Direction(w, h)) = Len(w)
    BY DirectionLemma
  <2>3. QED
    BY <2>1, <2>2
<1>2. PICK p \in Nat, q \in Nat, r \in Int :
          p = Dot(a, a) /\ q = Dot(b, b) /\ r = Dot(a, b)
  BY <1>1, DotLemma, DotSquare
<1>3. p * q \in Nat
  OBVIOUS
<1>4. PICK lengths \in Nat : lengths = ISqrt(p * q)
  BY <1>3, ISqrtLemma
<1>5. Cosine(u, w) = IF lengths = 0 THEN 0 ELSE Clipped((1000 * r) \div lengths, -1000, 1000)
  BY <1>1, <1>2, <1>4 DEF Cosine
<1>6. ASSUME NEW x \in Int
      PROVE  /\ Clipped(x, -1000, 1000) \in Int
             /\ -1000 <= Clipped(x, -1000, 1000) /\ Clipped(x, -1000, 1000) <= 1000
  BY DEF Clipped
<1>7. lengths # 0 => (1000 * r) \div lengths \in Int
  OBVIOUS
<1>8. CASE lengths = 0
  BY <1>5, <1>8
<1>9. CASE lengths # 0
  <2>1. PICK x \in Int : x = (1000 * r) \div lengths
    BY <1>7, <1>9
  <2>2. Cosine(u, w) = Clipped(x, -1000, 1000)
    BY <1>5, <1>9, <2>1
  <2>3. QED
    BY <1>6, <2>2
<1>10. QED
  BY <1>8, <1>9

\* x / (x + scale) in thousandths stays within 0..1000, below 1000 for a positive scale.
LEMMA SaturatingLemma ==
    ASSUME NEW x \in Nat, NEW scale \in Nat
    PROVE  /\ Saturating(x, scale) \in Int
           /\ 0 <= Saturating(x, scale) /\ Saturating(x, scale) <= 1000
           /\ scale >= 1 => Saturating(x, scale) <= 999
<1>1. CASE x = 0
  BY <1>1 DEF Saturating
<1>2. CASE x # 0
  <2>1. PICK y \in Int : y = 1000 * x /\ 0 <= y
    OBVIOUS
  <2>2. PICK z \in Int : z = x + scale /\ z >= 1
    BY <1>2
  <2>3. PICK q \in Int : q = y \div z
    BY <2>2
  <2>4. z * q <= y /\ y < z * q + z
    BY <2>1, <2>2, <2>3
  <2>5. 0 <= q
    <3>1. ASSUME q <= -1 PROVE FALSE
      <4>1. z * q <= z * (-1)
        BY <2>2, <2>3, <3>1
      <4>2. QED
        BY <2>1, <2>2, <2>4, <4>1
    <3>2. QED
      BY <2>3, <3>1
  <2>6. q <= 1000
    <3>1. ASSUME q >= 1001 PROVE FALSE
      <4>1. z * q >= z * 1001
        BY <2>2, <2>3, <3>1
      <4>2. z * 1001 > 1000 * x
        BY <1>2, <2>2
      <4>3. QED
        BY <2>1, <2>2, <2>4, <4>1, <4>2
    <3>2. QED
      BY <2>3, <3>1
  <2>7. ASSUME scale >= 1, q = 1000 PROVE FALSE
    <3>1. z * 1000 <= 1000 * x
      BY <2>1, <2>4, <2>7
    <3>2. QED
      BY <2>2, <2>7, <3>1
  <2>8. Saturating(x, scale) = q
    BY <1>2, <2>1, <2>2, <2>3 DEF Saturating
  <2>9. QED
    BY <2>3, <2>5, <2>6, <2>7, <2>8
<1>3. QED
  BY <1>1, <1>2

\* A distance of at most two saturates at two thirds.
LEMMA SaturatingDistance ==
    ASSUME NEW x \in Nat, x <= 2000
    PROVE  Saturating(x, 1000) <= 666
<1>1. CASE x = 0
  BY <1>1 DEF Saturating
<1>2. CASE x # 0
  <2>1. PICK z \in Int : z = x + 1000 /\ z >= 1000
    OBVIOUS
  <2>2. PICK q \in Int : q = (1000 * x) \div z
    BY <2>1
  <2>3. z * q <= 1000 * x
    BY <2>1, <2>2
  <2>4. ASSUME q >= 667 PROVE FALSE
    <3>1. z * q >= z * 667
      BY <2>1, <2>2, <2>4
    <3>2. z * 667 > 1000 * x
      BY <2>1
    <3>3. QED
      BY <2>1, <2>3, <3>1, <3>2
  <2>5. Saturating(x, 1000) = q
    BY <1>2, <2>1, <2>2 DEF Saturating
  <2>6. QED
    BY <2>2, <2>4, <2>5
<1>3. QED
  BY <1>1, <1>2

-----------------------------------------------------------------------------
(* The signals of an update alone.                                         *)

LEMMA MedianRange ==
    ASSUME NEW D, IsFiniteSet(D), D # {}, NEW f \in [D -> Int]
    PROVE  /\ Median(f) \in Int
           /\ (\A x \in D : 0 <= f[x]) => 0 <= Median(f)
<1>1. PICK x \in D, y \in D : Median(f) = (f[x] + f[y]) \div 2
  BY MedianLemma
<1>2. PICK a \in Int, b \in Int : a = f[x] /\ b = f[y]
  OBVIOUS
<1>3. Median(f) = (a + b) \div 2
  BY <1>1, <1>2
<1>4. (a + b) \div 2 \in Int /\ (0 <= a /\ 0 <= b => 0 <= (a + b) \div 2)
  OBVIOUS
<1>5. (\A z \in D : 0 <= f[z]) => 0 <= a /\ 0 <= b
  BY <1>2
<1>6. QED
  BY <1>3, <1>4, <1>5

\* The median absolute deviation of a vector is a natural number.
LEMMA MedianDeviationLemma == ASSUME NEW v \in Vectors PROVE MedianDeviation(v) \in Nat
<1> DEFINE D == 1..Len(v)
           f == [i \in DOMAIN v |-> Abs(v[i] - Median(v))]
<1>1. /\ Len(v) \in Nat /\ Len(v) >= 1 /\ DOMAIN v = D
      /\ \A i \in D : v[i] \in Int
  BY VectorLemma
<1>2. IsFiniteSet(D) /\ D # {}
  <2>1. IsFiniteSet(D)
    BY <1>1, FS_Interval
  <2>2. 1 \in D
    BY <1>1
  <2>3. QED
    BY <2>1, <2>2
<1>3. v \in [D -> Int]
  BY <1>1, VectorLemma
<1> HIDE DEF D
<1>4. PICK m \in Int : m = Median(v)
  BY <1>2, <1>3, MedianRange
<1>5. \A i \in D : v[i] - m \in Int
  BY <1>1, <1>4
<1>6. \A i \in D : Abs(v[i] - m) \in Nat
  BY <1>5, AbsLemma
<1>7. f \in [D -> Int] /\ \A i \in D : 0 <= f[i]
  BY <1>1, <1>4, <1>6
<1> HIDE DEF f
<1>8. Median(f) \in Int /\ 0 <= Median(f)
  BY <1>2, <1>7, MedianRange
<1>9. Median(f) \in Nat
  BY <1>8
<1>10. QED
  BY <1>9, Zenon DEF MedianDeviation, f

\* The sum of a function of the components, as Skewness and Kurtosis take it.
LEMMA MappedTotal ==
    ASSUME NEW s \in Seq(Int), NEW f \in [DOMAIN s -> Int]
    PROVE  Total(f) \in Int
<1>1. DOMAIN s = 1..Len(s) /\ Len(s) \in Nat
  OBVIOUS
<1>2. f \in [1..Len(s) -> Int]
  BY <1>1
<1>3. f \in Seq(Int)
  BY <1>1, <1>2, FunctionIsSeq
<1>4. QED
  BY <1>3, TotalInt

\* Its skewness is an integer.
LEMMA SkewnessLemma == ASSUME NEW v \in Vectors PROVE Skewness(v) \in Int
<1>1. PICK d \in Vectors : d = Direction(v, 12)
  <2>1. PICK k \in Nat : k = 12
    OBVIOUS
  <2>2. QED
    BY <2>1, DirectionLemma
<1>2. /\ d \in Seq(Int) /\ Len(d) \in Nat /\ Len(d) >= 1 /\ DOMAIN d = 1..Len(d)
      /\ \A i \in 1..Len(d) : d[i] \in Int
  BY VectorLemma
<1>3. PICK n \in Nat : n = Len(d) /\ n >= 1
  BY <1>2
<1>4. PICK t \in Int : t = Total(d)
  BY <1>2, TotalInt
<1>5. PICK s \in Nat : s = ScatterOf(d)
  BY <1>2, ScatterNonnegative
<1>6. PICK std \in Nat : std = ISqrt(s) /\ (s >= 1 => std >= 1)
  BY ISqrtLemma
<1> DEFINE cubes == [i \in DOMAIN d |-> (n * d[i] - t) * (n * d[i] - t) * (n * d[i] - t)]
<1>7. cubes \in [DOMAIN d -> Int]
  <2>1. ASSUME NEW i \in DOMAIN d
        PROVE  (n * d[i] - t) * (n * d[i] - t) * (n * d[i] - t) \in Int
    <3>1. PICK y \in Int : y = n * d[i] - t
      BY <1>2
    <3>2. y * y * y \in Int
      OBVIOUS
    <3>3. QED
      BY <3>1, <3>2
  <2>2. QED
    BY <2>1
<1>8. Skewness(v) = IF s = 0 THEN 0 ELSE (10 * ((10 * Total(cubes)) \div (n * s))) \div std
  BY <1>1, <1>3, <1>4, <1>5, <1>6, Zenon DEF Skewness, TotalOf
<1> HIDE DEF cubes
<1>9. PICK c \in Int : c = Total(cubes)
  BY <1>2, <1>7, MappedTotal
<1>10. CASE s = 0
  BY <1>8, <1>10
<1>11. CASE s # 0
  <2>1. PICK ns \in Nat : ns = n * s /\ ns >= 1
    <3>1. n * s \in Nat /\ n * s >= 1
      BY <1>3, <1>11
    <3>2. QED
      BY <3>1
  <2>2. PICK q \in Int : q = (10 * c) \div ns
    BY <2>1
  <2>3. (10 * q) \div std \in Int
    BY <1>6, <1>11
  <2>4. Skewness(v) = (10 * q) \div std
    BY <1>8, <1>9, <1>11, <2>1, <2>2
  <2>5. QED
    BY <2>3, <2>4
<1>12. QED
  BY <1>10, <1>11

\* Its excess kurtosis is an integer.
LEMMA KurtosisLemma == ASSUME NEW v \in Vectors PROVE Kurtosis(v) \in Int
<1>1. PICK d \in Vectors : d = Direction(v, 12)
  <2>1. PICK k \in Nat : k = 12
    OBVIOUS
  <2>2. QED
    BY <2>1, DirectionLemma
<1>2. /\ d \in Seq(Int) /\ Len(d) \in Nat /\ Len(d) >= 1 /\ DOMAIN d = 1..Len(d)
      /\ \A i \in 1..Len(d) : d[i] \in Int
  BY VectorLemma
<1>3. PICK n \in Nat : n = Len(d) /\ n >= 1
  BY <1>2
<1>4. PICK t \in Int : t = Total(d)
  BY <1>2, TotalInt
<1>5. PICK s \in Nat : s = ScatterOf(d)
  BY <1>2, ScatterNonnegative
<1> DEFINE fourths == [i \in DOMAIN d |-> (n * d[i] - t) * (n * d[i] - t)
                                             * (n * d[i] - t) * (n * d[i] - t)]
<1>6. fourths \in [DOMAIN d -> Int]
  <2>1. ASSUME NEW i \in DOMAIN d
        PROVE  (n * d[i] - t) * (n * d[i] - t) * (n * d[i] - t) * (n * d[i] - t) \in Int
    <3>1. PICK y \in Int : y = n * d[i] - t
      BY <1>2
    <3>2. y * y * y * y \in Int
      OBVIOUS
    <3>3. QED
      BY <3>1, <3>2
  <2>2. QED
    BY <2>1
<1>7. Kurtosis(v) = IF s = 0 THEN 0 ELSE ((Total(fourths) \div s) * 100) \div (n * s) - 300
  BY <1>1, <1>3, <1>4, <1>5, Zenon DEF Kurtosis, TotalOf
<1> HIDE DEF fourths
<1>8. PICK f \in Int : f = Total(fourths)
  BY <1>2, <1>6, MappedTotal
<1>9. CASE s = 0
  BY <1>7, <1>9
<1>10. CASE s # 0
  <2>1. PICK ns \in Nat : ns = n * s /\ ns >= 1
    <3>1. n * s \in Nat /\ n * s >= 1
      BY <1>3, <1>10
    <3>2. QED
      BY <3>1
  <2>2. PICK q \in Int : q = f \div s
    BY <1>10
  <2>3. (q * 100) \div ns - 300 \in Int
    BY <2>1
  <2>4. Kurtosis(v) = (q * 100) \div ns - 300
    BY <1>7, <1>8, <1>10, <2>1, <2>2
  <2>5. QED
    BY <2>3, <2>4
<1>11. QED
  BY <1>9, <1>10

\* What the global group does not hold reads as zero.
LEMMA NotFound ==
    ASSUME NEW value
    PROVE  /\ Found("global_statistics", "interquartile_range", value) = 0
           /\ Found("global_statistics", "parameter_sparsity", value) = 0
           /\ Found("global_statistics", "l2_norm", value) = 0
           /\ Found("global_statistics", "rms", value) = 0
           /\ Found("global_statistics", "energy", value) = 0
           /\ Found("global_statistics", "skewness", value) = value
           /\ Found("global_statistics", "kurtosis", value) = value
           /\ Found("global_statistics", "mad", value) = value
<1>1. Statistics["global_statistics"] = GlobalStatistics
  BY DEF Statistics
<1>2. QED
  BY <1>1 DEF Found, GlobalStatistics

\* The flat form of an update is a vector.
LEMMA FlatOfLayered == ASSUME NEW u \in Layered PROVE Flat(u) \in Vectors
<1>1. SameShape(u, u)
  BY DEF SameShape
<1>2. QED
  BY <1>1, FlatLemma

\* The distribution signal of an update never reaches three quarters.
LEMMA DistributionSignalRange ==
    ASSUME NEW u \in Layered
    PROVE  /\ DistributionSignal(u) \in Int
           /\ 0 <= DistributionSignal(u) /\ DistributionSignal(u) <= 749
<1>1. PICK v \in Vectors : v = Flat(u)
  BY FlatOfLayered
<1>2. PICK skew \in Nat, kurt \in Nat, mad \in Nat :
          skew = Abs(Skewness(v)) /\ kurt = Abs(Kurtosis(v)) /\ mad = MedianDeviation(v)
  BY SkewnessLemma, KurtosisLemma, MedianDeviationLemma, AbsLemma
<1>3. PICK a \in Int, b \in Int, c \in Int :
          /\ a = Saturating(skew, 500) /\ 0 <= a /\ a <= 999
          /\ b = Saturating(kurt, 1000) /\ 0 <= b /\ b <= 999
          /\ c = Saturating(mad, Unit) /\ 0 <= c /\ c <= 999
  <2>1. PICK k \in Nat, l \in Nat : k = 500 /\ l = 1000 /\ k >= 1 /\ l >= 1
    OBVIOUS
  <2>2. Unit \in Nat /\ Unit >= 1
    BY UnitAssumption
  <2>3. Saturating(skew, k) \in Int /\ 0 <= Saturating(skew, k) /\ Saturating(skew, k) <= 999
    BY <2>1, SaturatingLemma
  <2>4. Saturating(kurt, l) \in Int /\ 0 <= Saturating(kurt, l) /\ Saturating(kurt, l) <= 999
    BY <2>1, SaturatingLemma
  <2>5. /\ Saturating(mad, Unit) \in Int /\ 0 <= Saturating(mad, Unit)
        /\ Saturating(mad, Unit) <= 999
    BY <2>2, SaturatingLemma
  <2>6. QED
    BY <2>1, <2>3, <2>4, <2>5
<1>4. Saturating(0, Unit) = 0
  BY DEF Saturating
<1>5. DistributionSignal(u)
          = (Saturating(Abs(Skewness(v)), 500) + Saturating(Abs(Kurtosis(v)), 1000)
               + Saturating(MedianDeviation(v), Unit) + Saturating(0, Unit)) \div 4
  <2>1. /\ Found("global_statistics", "skewness", Skewness(v)) = Skewness(v)
        /\ Found("global_statistics", "kurtosis", Kurtosis(v)) = Kurtosis(v)
        /\ Found("global_statistics", "mad", MedianDeviation(v)) = MedianDeviation(v)
        /\ Found("global_statistics", "interquartile_range", InterquartileRange(v)) = 0
    BY NotFound, Zenon
  <2>2. QED
    BY <1>1, <2>1, SMT DEF DistributionSignal
<1>6. DistributionSignal(u) = (a + b + c + 0) \div 4
  BY <1>2, <1>3, <1>4, <1>5, SMT
<1>7. QED
  BY <1>3, <1>6

\* The statistics hold no sparsity, so the sparsity signal is zero.
LEMMA NothingSparse == ASSUME NEW u PROVE SparsitySignal(u) = 0
BY NotFound, SMT DEF SparsitySignal

\* They hold no drift either.
LEMMA NothingDrifts == ASSUME NEW u PROVE Drift(u) = 0
<1>1. Drift(u) = Saturating(0 + 0 + 0, Unit)
  BY NotFound, Zenon DEF Drift
<1>2. 0 + 0 + 0 = 0 /\ Saturating(0, Unit) = 0
  BY DEF Saturating
<1>3. QED
  BY <1>1, <1>2

\* A natural number divided by a positive one is a natural number.
LEMMA QuotientNat ==
    ASSUME NEW a \in Nat, NEW b \in Nat, b >= 1
    PROVE  a \div b \in Nat
OBVIOUS

\* The impact of one layer stays below one.
LEMMA LayerImpactRange ==
    ASSUME NEW v \in Vectors
    PROVE  LayerImpact(v) \in Int /\ 0 <= LayerImpact(v) /\ LayerImpact(v) <= 999
<1>1. PICK n \in Nat : n = Len(v) /\ n >= 1
  BY VectorLemma
<1>2. PICK rms \in Nat : rms = ISqrt(Dot(v, v) \div n)
  <2>1. Dot(v, v) \div n \in Nat
    BY <1>1, DotSquare, QuotientNat
  <2>2. QED
    BY <2>1, ISqrtLemma
<1>3. PICK variance \in Nat : variance = ScatterOf(v) \div (n * n * Unit)
  <2>1. n * n \in Nat /\ n * n >= 1
    BY <1>1
  <2>2. n * n * Unit \in Nat /\ n * n * Unit >= 1
    BY <2>1, UnitAssumption
  <2>3. ScatterOf(v) \in Nat
    BY VectorLemma, ScatterNonnegative
  <2>4. QED
    BY <2>2, <2>3, QuotientNat
<1>4. PICK max_abs \in Nat : max_abs = Largest(v)
  BY LargestLemma
<1>5. LayerStatistics(v) = [rms |-> rms, variance |-> variance, max_abs |-> max_abs]
  BY <1>1, <1>2, <1>3, <1>4, Zenon DEF LayerStatistics
<1>6. LayerImpact(v) = Saturating(rms + variance + max_abs, Unit)
  BY <1>5 DEF LayerImpact
<1>7. rms + variance + max_abs \in Nat /\ Unit \in Nat /\ Unit >= 1
  BY UnitAssumption
<1>8. QED
  BY <1>6, <1>7, SaturatingLemma

\* The displacement of an update stays within one.
LEMMA DisplacementRange ==
    ASSUME NEW u \in Layered
    PROVE  Displacement(u) \in Int /\ 0 <= Displacement(u) /\ Displacement(u) <= 1000
<1>1. /\ Len(u) \in Nat /\ Len(u) >= 1 /\ DOMAIN u = 1..Len(u)
      /\ \A l \in 1..Len(u) : u[l] \in Vectors
  BY LayeredLemma
<1>2. PICK n \in Nat : n = Len(u) /\ n >= 1
  BY <1>1
<1> DEFINE impacts == [l \in DOMAIN u |-> LayerImpact(u[l])]
<1>3. \A l \in 1..n : LayerImpact(u[l]) \in Int /\ 0 <= LayerImpact(u[l]) /\ LayerImpact(u[l]) <= 999
  BY <1>1, <1>2, LayerImpactRange
<1>4. impacts \in [1..n -> Int] /\ \A l \in 1..n : 0 <= impacts[l] /\ impacts[l] <= 999
  BY <1>1, <1>2, <1>3
<1>5. Displacement(u) = Total(impacts) \div n
  BY <1>2, Zenon DEF Displacement, TotalOf
<1> HIDE DEF impacts
<1>6. impacts \in Seq(Int) /\ Len(impacts) = n
  BY <1>4, FunctionIsSeq
<1>7. PICK most \in Int : most = 999
  OBVIOUS
<1>8. PICK least \in Int : least = 0
  OBVIOUS
<1>9. /\ Total(impacts) \in Int
      /\ least * n <= Total(impacts) /\ Total(impacts) <= most * n
  <2>1. \A l \in 1..Len(impacts) : least <= impacts[l] /\ impacts[l] <= most
    BY <1>4, <1>6, <1>7, <1>8
  <2>2. /\ Total(impacts) \in Int
        /\ least * Len(impacts) <= Total(impacts) /\ Total(impacts) <= most * Len(impacts)
    BY <1>6, <2>1, TotalBounds
  <2>3. QED
    BY <1>6, <2>2
<1>10. PICK t \in Int : t = Total(impacts) /\ 0 <= t /\ t <= 999 * n
  BY <1>7, <1>8, <1>9
<1>11. PICK q \in Int : q = t \div n
  BY <1>2
<1>12. n * q <= t /\ t < n * q + n
  BY <1>2, <1>10, <1>11
<1>13. 0 <= q
  <2>1. ASSUME q <= -1 PROVE FALSE
    <3>1. n * q <= n * (-1)
      BY <1>2, <1>11, <2>1
    <3>2. QED
      BY <1>2, <1>10, <1>12, <3>1
  <2>2. QED
    BY <1>11, <2>1
<1>14. q <= 1000
  <2>1. ASSUME q >= 1001 PROVE FALSE
    <3>1. n * q >= n * 1001
      BY <1>2, <1>11, <2>1
    <3>2. QED
      BY <1>2, <1>10, <1>12, <3>1
  <2>2. QED
    BY <1>11, <2>1
<1>15. QED
  BY <1>5, <1>10, <1>11, <1>13, <1>14

-----------------------------------------------------------------------------
(* The signals of an update among its peers.                               *)

\* A round's updates: finitely many, layered, and all of one shape.
OneShape(peers) ==
    /\ IsFiniteSet(DOMAIN peers)
    /\ \A c \in DOMAIN peers :
           peers[c] \in Layered /\ \A d \in DOMAIN peers : SameShape(peers[c], peers[d])

\* Two updates of one round flatten to vectors of one length.
LEMMA PeerFlat ==
    ASSUME NEW peers, OneShape(peers), NEW c \in DOMAIN peers, NEW d \in DOMAIN peers
    PROVE  /\ Flat(peers[c]) \in Vectors /\ Flat(peers[d]) \in Vectors
           /\ Len(Flat(peers[c])) = Len(Flat(peers[d]))
<1>1. /\ peers[c] \in Layered /\ peers[d] \in Layered
      /\ SameShape(peers[c], peers[d]) /\ SameShape(peers[d], peers[c])
  BY DEF OneShape
<1>2. QED
  BY <1>1, FlatLemma, FlatOfLayered

\* The magnitude signal stays within one.
LEMMA MagnitudeSignalRange ==
    ASSUME NEW peers, OneShape(peers), NEW c \in DOMAIN peers
    PROVE  /\ MagnitudeSignal(peers, c) \in Int
           /\ 0 <= MagnitudeSignal(peers, c) /\ MagnitudeSignal(peers, c) <= 1000
<1> DEFINE norms == [d \in DOMAIN peers |-> Norm(Flat(peers[d]))]
<1>1. \A d \in DOMAIN peers : Norm(Flat(peers[d])) \in Nat
  BY PeerFlat, NormLemma
<1>2. norms \in [DOMAIN peers -> Int] /\ \A d \in DOMAIN peers : 0 <= norms[d]
  BY <1>1
<1>3. IsFiniteSet(DOMAIN peers) /\ DOMAIN peers # {}
  BY DEF OneShape
<1>4. MagnitudeSignal(peers, c)
          = Saturating(Abs(Norm(Flat(peers[c])) - Median(norms)), Median(norms))
  BY Zenon DEF MagnitudeSignal
<1> HIDE DEF norms
<1>5. PICK median \in Nat : median = Median(norms)
  <2>1. Median(norms) \in Int /\ 0 <= Median(norms)
    BY <1>2, <1>3, MedianRange
  <2>2. QED
    BY <2>1
<1>6. PICK norm \in Nat : norm = Norm(Flat(peers[c]))
  BY <1>1
<1>7. norm - median \in Int
  OBVIOUS
<1>8. PICK away \in Nat : away = Abs(norm - median)
  BY <1>7, AbsLemma
<1>9. MagnitudeSignal(peers, c) = Saturating(away, median)
  BY <1>4, <1>5, <1>6, <1>8
<1>10. QED
  BY <1>9, SaturatingLemma

\* The centroid of a round is a vector of its length.
LEMMA CentroidLemma ==
    ASSUME NEW peers, OneShape(peers), NEW c \in DOMAIN peers
    PROVE  Centroid(peers) \in Vectors /\ Len(Centroid(peers)) = Len(Flat(peers[c]))
<1> DEFINE Column(i) == SumFunction([d \in DOMAIN peers |-> Flat(peers[d])[i]])
           width == UNION { DOMAIN Flat(peers[d]) : d \in DOMAIN peers }
           m == [i \in width |-> Column(i)]
<1>1. PICK n \in Nat : n = Len(Flat(peers[c])) /\ n >= 1
  BY PeerFlat, VectorLemma
<1>2. ASSUME NEW d \in DOMAIN peers
      PROVE  DOMAIN Flat(peers[d]) = 1..n /\ \A i \in 1..n : Flat(peers[d])[i] \in Int
  <2>1. Flat(peers[d]) \in Vectors /\ Len(Flat(peers[d])) = n
    BY <1>1, PeerFlat
  <2>2. QED
    BY <2>1, VectorLemma
<1>3. width = 1..n
  BY <1>2
<1>4. ASSUME NEW i \in 1..n PROVE Column(i) \in Int
  <2> DEFINE column == [d \in DOMAIN peers |-> Flat(peers[d])[i]]
  <2>1. column \in [DOMAIN peers -> Int]
    BY <1>2
  <2> HIDE DEF column
  <2>2. IsFiniteSet(DOMAIN peers)
    BY DEF OneShape
  <2>3. SumFunction(column) \in Int
    BY <2>1, <2>2, SumFunctionInt
  <2>4. QED
    BY <2>3 DEF column
<1>5. Centroid(peers) = m
  BY Zenon DEF Centroid
<1> HIDE DEF Column, width
<1>6. m \in [1..n -> Int]
  BY <1>3, <1>4
<1> HIDE DEF m
<1>7. m \in Seq(Int) /\ Len(m) = n
  BY <1>6, FunctionIsSeq
<1>8. QED
  BY <1>1, <1>5, <1>7, VectorLemma

\* Two directions are at most twice a unit length apart.
LEMMA CentroidDistanceRange ==
    ASSUME NEW peers, OneShape(peers), NEW c \in DOMAIN peers
    PROVE  CentroidDistance(peers, c) \in Nat /\ CentroidDistance(peers, c) <= 2000
<1>1. PICK v \in Vectors : v = Flat(peers[c])
  BY PeerFlat
<1>2. PICK m \in Vectors : m = Centroid(peers) /\ Len(v) = Len(m)
  BY <1>1, CentroidLemma
<1>3. PICK cosine \in Int : cosine = Cosine(v, m) /\ -1000 <= cosine /\ cosine <= 1000
  BY <1>2, CosineLemma
<1>4. PICK square \in Nat : square = 2000000 - 2000 * cosine /\ square <= 4000000
  BY <1>3
<1>5. PICK r \in Nat : r = ISqrt(square) /\ r * r <= square
  BY ISqrtLemma
<1>6. r <= 2000
  <2>1. ASSUME r >= 2001 PROVE FALSE
    <3>1. r * r >= r * 2001
      BY <2>1
    <3>2. QED
      BY <1>4, <1>5, <2>1, <3>1
  <2>2. QED
    BY <2>1
<1>7. CentroidDistance(peers, c) \in {0, 1000, r}
  BY <1>1, <1>2, <1>3, <1>4, <1>5 DEF CentroidDistance
<1>8. QED
  BY <1>6, <1>7

\* The average cosine similarity to the other updates stays within minus one and one.
LEMMA AverageSimilarityRange ==
    ASSUME NEW peers, OneShape(peers), NEW c \in DOMAIN peers, DOMAIN peers # {c}
    PROVE  /\ AverageSimilarity(peers, c) \in Int
           /\ -1000 <= AverageSimilarity(peers, c) /\ AverageSimilarity(peers, c) <= 1000
<1> DEFINE others == DOMAIN peers \ {c}
           cosines == [d \in others |-> Cosine(Flat(peers[c]), Flat(peers[d]))]
<1>1. others \in SUBSET DOMAIN peers /\ others # {}
  OBVIOUS
<1>2. IsFiniteSet(others)
  <2>1. IsFiniteSet(DOMAIN peers)
    BY DEF OneShape
  <2>2. QED
    BY <1>1, <2>1, FS_Subset
<1>3. AverageSimilarity(peers, c) = SumFunction(cosines) \div Cardinality(others)
  BY Zenon DEF AverageSimilarity
<1>4. ASSUME NEW d \in others
      PROVE  /\ Cosine(Flat(peers[c]), Flat(peers[d])) \in Int
             /\ -1000 <= Cosine(Flat(peers[c]), Flat(peers[d]))
             /\ Cosine(Flat(peers[c]), Flat(peers[d])) <= 1000
  <2>1. PICK u \in Vectors, w \in Vectors :
            u = Flat(peers[c]) /\ w = Flat(peers[d]) /\ Len(u) = Len(w)
    BY PeerFlat
  <2>2. QED
    BY <2>1, CosineLemma
<1>5. PICK b \in Nat : b = 1000
  OBVIOUS
<1>6. cosines \in [others -> Int] /\ \A d \in others : -b <= cosines[d] /\ cosines[d] <= b
  BY <1>4, <1>5
<1> HIDE DEF cosines, others
<1>7. PICK n \in Nat : n = Cardinality(others) /\ n >= 1
  <2>1. Cardinality(others) \in Nat
    BY <1>2, FS_CardinalityType
  <2>2. Cardinality(others) # 0
    BY <1>1, <1>2, FS_EmptySet, Zenon
  <2>3. QED
    BY <2>1, <2>2
<1>8. /\ SumFunction(cosines) \in Int
      /\ -(b * n) <= SumFunction(cosines) /\ SumFunction(cosines) <= b * n
  BY <1>2, <1>6, <1>7, SumFunctionBounds
<1>9. PICK t \in Int : t = SumFunction(cosines) /\ -(1000 * n) <= t /\ t <= 1000 * n
  BY <1>5, <1>8
<1>10. PICK q \in Int : q = t \div n
  BY <1>7
<1>11. n * q <= t /\ t < n * q + n
  BY <1>7, <1>9, <1>10
<1>12. -1000 <= q
  <2>1. ASSUME q <= -1001 PROVE FALSE
    <3>1. n * q <= n * (-1001)
      BY <1>7, <1>10, <2>1
    <3>2. QED
      BY <1>7, <1>9, <1>11, <3>1
  <2>2. QED
    BY <1>10, <2>1
<1>13. q <= 1000
  <2>1. ASSUME q >= 1001 PROVE FALSE
    <3>1. n * q >= n * 1001
      BY <1>7, <1>10, <2>1
    <3>2. QED
      BY <1>7, <1>9, <1>11, <3>1
  <2>2. QED
    BY <1>10, <2>1
<1>14. QED
  BY <1>3, <1>7, <1>9, <1>10, <1>12, <1>13

\* The similarity signal never reaches .889.
LEMMA SimilaritySignalRange ==
    ASSUME NEW peers, OneShape(peers), NEW c \in DOMAIN peers
    PROVE  /\ SimilaritySignal(peers, c) \in Int
           /\ 0 <= SimilaritySignal(peers, c) /\ SimilaritySignal(peers, c) <= 888
<1>1. PICK s : s = PeerSimilarity(peers, c)
  OBVIOUS
<1>2. /\ s.average_similarity \in Int
      /\ -1000 <= s.average_similarity /\ s.average_similarity <= 1000
      /\ s.consensus_score \in Int /\ 0 <= s.consensus_score /\ s.consensus_score <= 1000
      /\ s.normalized_cluster_distance \in Nat /\ s.normalized_cluster_distance <= 2000
  <2>1. CASE DOMAIN peers = {c}
    <3>1. s = [average_similarity |-> 0, consensus_score |-> 1000,
               normalized_cluster_distance |-> 0]
      BY <1>1, <2>1, SMT DEF PeerSimilarity, LoneClient
    <3>2. QED
      BY <3>1
  <2>2. CASE DOMAIN peers # {c}
    <3>1. PICK average \in Int :
              average = AverageSimilarity(peers, c) /\ -1000 <= average /\ average <= 1000
      BY <2>2, AverageSimilarityRange
    <3>2. PICK distance \in Nat : distance = CentroidDistance(peers, c) /\ distance <= 2000
      BY CentroidDistanceRange
    <3>3. s = [average_similarity |-> average, consensus_score |-> (average + 1000) \div 2,
               normalized_cluster_distance |-> distance]
      BY <1>1, <2>2, <3>1, <3>2, SMT DEF PeerSimilarity
    <3>4. PICK consensus \in Int :
              consensus = (average + 1000) \div 2 /\ 0 <= consensus /\ consensus <= 1000
      BY <3>1
    <3>5. QED
      BY <3>1, <3>2, <3>3, <3>4
  <2>3. QED
    BY <2>1, <2>2
<1>3. PICK average \in Int, consensus \in Int, distance \in Nat :
          /\ average = s.average_similarity /\ -1000 <= average /\ average <= 1000
          /\ consensus = s.consensus_score /\ 0 <= consensus /\ consensus <= 1000
          /\ distance = s.normalized_cluster_distance /\ distance <= 2000
  BY <1>2
<1>4. PICK far \in Int : far = Saturating(distance, 1000) /\ 0 <= far /\ far <= 666
  <2>1. PICK k \in Nat : k = 1000
    OBVIOUS
  <2>2. Saturating(distance, k) \in Int /\ 0 <= Saturating(distance, k)
    BY SaturatingLemma
  <2>3. Saturating(distance, 1000) <= 666
    BY <1>3, SaturatingDistance
  <2>4. QED
    BY <2>1, <2>2, <2>3
<1>5. SimilaritySignal(peers, c) = (1000 - consensus + (1000 - average) \div 2 + far) \div 3
  BY <1>1, <1>3, <1>4 DEF SimilaritySignal
<1>6. QED
  BY <1>3, <1>4, <1>5

-----------------------------------------------------------------------------
(* The scores of SentinelEngine.                                           *)

LEMMA ClippedRange ==
    ASSUME NEW x \in Int, NEW low \in Int, NEW high \in Int, low <= high
    PROVE  /\ Clipped(x, low, high) \in Int
           /\ low <= Clipped(x, low, high) /\ Clipped(x, low, high) <= high
BY DEF Clipped

\* The provers spell a literal range out: the large ones are named.
Scores == 0..Certain
Reputations == 0..Whole
Evidences == 0..600 * Certain

\* The units of confidence and reputation are natural numbers.
LEMMA UnitsAreIntegers == Certain \in Int /\ Whole \in Int /\ 0 <= Certain /\ 0 <= Whole
<1>1. PICK thousand \in 1000..1000 : TRUE
  OBVIOUS
<1>2. Certain = thousand /\ Whole = 1000 * thousand
  BY DEF Certain, Whole
<1>3. QED
  BY <1>2

\* The bounds the ranges of the type invariant stand for.
LEMMA RangeBounds ==
    /\ \A x \in Scores : x \in Int /\ 0 <= x /\ x <= 1000
    /\ \A x \in Reputations : x \in Int /\ 0 <= x /\ x <= 1000000
    /\ \A x \in Int : 0 <= x /\ x <= 1000 => x \in Scores
    /\ \A x \in Int : 0 <= x /\ x <= 1000000 => x \in Reputations
    /\ \A x \in Int : 0 <= x /\ x <= 600000 => x \in Evidences
<1>1. /\ \A x \in Scores : x \in Int /\ 0 <= x /\ x <= Certain
      /\ \A x \in Reputations : x \in Int /\ 0 <= x /\ x <= Whole
      /\ \A x \in Int : 0 <= x /\ x <= Certain => x \in Scores
      /\ \A x \in Int : 0 <= x /\ x <= Whole => x \in Reputations
      /\ \A x \in Int : 0 <= x /\ x <= 600 * Certain => x \in Evidences
  BY UnitsAreIntegers DEF Scores, Reputations, Evidences
<1>2. Certain = 1000 /\ Whole = 1000000
  BY DEF Certain, Whole
<1>3. QED
  BY <1>1, <1>2

Entries == [round : 1..MaxRounds, anomaly : Scores, reputation : Reputations]

\* The fields of a recorded round.
LEMMA EntryFields ==
    ASSUME NEW e \in Entries
    PROVE  e.round \in Int /\ e.anomaly \in Scores /\ e.reputation \in Reputations
BY SentinelAssumption DEF Entries

\* A client's state once an update of its was scored.
ScoredState(state) ==
    /\ state.reputation_score \in Reputations
    /\ state.reputation_history \in Seq(Entries)
    /\ state.reputation_history # <<>>

\* The bounds of the signals of a profile.
LEMMA SignalBounds ==
    ASSUME NEW p \in AllProfiles
    PROVE  /\ p.magnitude \in Int /\ 0 <= p.magnitude /\ p.magnitude <= 1000
           /\ p.distribution \in Int /\ 0 <= p.distribution /\ p.distribution <= 749
           /\ p.similarity \in Int /\ 0 <= p.similarity /\ p.similarity <= 889
           /\ p.displacement \in Int /\ 0 <= p.displacement /\ p.displacement <= 1000
           /\ p.sparsity = 0 /\ p.drift = 0
<1>1. /\ p.magnitude \in 0..LargestSignal.magnitude
      /\ p.distribution \in 0..LargestSignal.distribution
      /\ p.similarity \in 0..LargestSignal.similarity
      /\ p.displacement \in 0..LargestSignal.displacement
      /\ p.sparsity = 0 /\ p.drift = 0
  BY DEF AllProfiles
<1>2. /\ p.magnitude \in Int /\ 0 <= p.magnitude /\ p.magnitude <= LargestSignal.magnitude
      /\ p.distribution \in Int /\ 0 <= p.distribution
      /\ p.distribution <= LargestSignal.distribution
      /\ p.similarity \in Int /\ 0 <= p.similarity /\ p.similarity <= LargestSignal.similarity
      /\ p.displacement \in Int /\ 0 <= p.displacement
      /\ p.displacement <= LargestSignal.displacement
  BY <1>1
<1>3. /\ LargestSignal.magnitude = 1000 /\ LargestSignal.distribution = 749
      /\ LargestSignal.similarity = 889 /\ LargestSignal.displacement = 1000
  BY DEF LargestSignal, Certain
<1>4. QED
  BY <1>1, <1>2, <1>3

\* The weights and the ranges of the signals leave the anomaly score below 0.754.
LEMMA AnomalyRange ==
    ASSUME NEW p \in AllProfiles
    PROVE  /\ AnomalyScore(p) \in Int /\ 0 <= AnomalyScore(p) /\ AnomalyScore(p) <= 753
           /\ AnomalyScore(p) \in Scores
<1>1. AnomalyScore(p) \in Int /\ 0 <= AnomalyScore(p) /\ AnomalyScore(p) <= 753
  BY SignalBounds DEF AnomalyScore
<1>2. QED
  BY <1>1, RangeBounds

\* The consistency of a client with a history is an integer.
LEMMA ConsistencyIsInteger ==
    ASSUME NEW state, ScoredState(state)
    PROVE  Consistency(state) \in Int
<1> DEFINE h == state.reputation_history
           first == Clipped(Len(h) - HistoryWindow + 1, 1, Len(h))
           recent == SubSeq(h, first, Len(h))
           scores == [i \in DOMAIN recent |-> recent[i].anomaly]
<1>1. h \in Seq(Entries) /\ Len(h) \in Int /\ 1 <= Len(h)
  BY DEF ScoredState
<1>2. first \in Int /\ 1 <= first /\ first <= Len(h)
  <2>1. Len(h) - HistoryWindow + 1 \in Int
    BY <1>1 DEF HistoryWindow
  <2> HIDE DEF h
  <2>2. QED
    BY <1>1, <2>1, ClippedRange
<1> HIDE DEF first
<1>3. recent \in Seq(Entries) /\ Len(recent) = Len(h) - first + 1
  BY <1>1, <1>2
<1> HIDE DEF recent
<1>4. Len(recent) \in Int /\ 1 <= Len(recent) /\ DOMAIN recent = 1..Len(recent)
  BY <1>1, <1>2, <1>3
<1>5. Len(scores) = Len(recent)
  BY <1>4
<1>6. scores \in Seq(Int)
  <2>1. ASSUME NEW i \in 1..Len(recent) PROVE recent[i].anomaly \in Int
    BY <1>3, <1>4, EntryFields, RangeBounds
  <2>2. scores \in [1..Len(recent) -> Int]
    BY <1>4, <2>1
  <2> HIDE DEF scores
  <2>3. Len(recent) \in Nat
    BY <1>4
  <2>4. QED
    BY <2>2, <2>3, FunctionIsSeq
<1>7. Deviation(scores) = ISqrt(ScatterOf(scores)) \div Len(scores)
  BY DEF Deviation
<1> HIDE DEF scores
<1>8. ISqrt(ScatterOf(scores)) \in Nat
  BY <1>6, ScatterNonnegative, ISqrtLemma
<1>9. Deviation(scores) \in Int
  BY <1>4, <1>5, <1>7, <1>8
<1>10. Consistency(state) = 100 - Deviation(scores) \div 10
  BY DEF Consistency, scores, recent, first
<1>11. QED
  BY <1>9, <1>10

\* Its confidence stays within one hundred.
LEMMA ConfidenceRange ==
    ASSUME NEW state, ScoredState(state)
    PROVE  Confidence(state) \in Int /\ 0 <= Confidence(state) /\ Confidence(state) <= 100
<1>1. Consistency(state) \in Int
  BY ConsistencyIsInteger
<1>2. Len(state.reputation_history) \in Int
  BY DEF ScoredState
<1>3. Clipped(Len(state.reputation_history), 0, 10) \in Int
  BY <1>2 DEF Clipped
<1>4. 5 * Clipped(Len(state.reputation_history), 0, 10) + Consistency(state) \div 2 \in Int
  BY <1>1, <1>3
<1>5. QED
  BY <1>4 DEF Confidence, Clipped

\* The evidence floor: the threat is at least what the update itself shows.
LEMMA ThreatFloor ==
    ASSUME NEW state, ScoredState(state), NEW anomaly \in Int, 0 <= anomaly,
           NEW similarity \in Int, 0 <= similarity
    PROVE  /\ ThreatScore(state, anomaly, similarity) \in Int
           /\ ThreatScore(state, anomaly, similarity) >= 10 * (400 * anomaly + 200 * similarity)
<1>1. state.reputation_score \in Int
  BY RangeBounds DEF ScoredState
<1>2. (Whole - state.reputation_score) \div 10 \in Int
  BY <1>1, UnitsAreIntegers
<1>3. PICK doubt \in Int : doubt = (Whole - state.reputation_score) \div 10
  BY <1>2
<1>4. PICK weighted \in Int : weighted = 6 * (400 * anomaly + 3 * doubt + 200 * similarity)
  OBVIOUS
<1>5. PICK evidence \in Int : evidence = 10 * (400 * anomaly + 200 * similarity)
  OBVIOUS
<1>6. ThreatScore(state, anomaly, similarity) = IF evidence > weighted THEN evidence ELSE weighted
  BY <1>3, <1>4, <1>5 DEF ThreatScore, HistoricalDamageRisk
<1>7. QED
  BY <1>5, <1>6

\* Without drift and history no impact exceeds 0.55.
LEMMA ImpactRange ==
    ASSUME NEW p \in AllProfiles, NEW state, NEW threat \in Int,
           NEW confidence \in Int, 0 <= confidence, confidence <= 100
    PROVE  /\ ImpactScore(p, state, threat, confidence) \in Int
           /\ ImpactScore(p, state, threat, confidence) <= 330000000
<1>1. threat * (200 - confidence) \in Int
  OBVIOUS
<1>2. PICK ceiling \in Int : ceiling = 600 * Whole /\ 0 <= ceiling
  BY UnitsAreIntegers
<1>3. PICK amplified \in Int :
          /\ amplified = Clipped(threat * (200 - confidence), 0, ceiling)
          /\ amplified <= ceiling
  BY <1>1, <1>2, ClippedRange
<1>4. ImpactScore(p, state, threat, confidence)
          = 150000 * p.displacement + amplified \div 5 + 600000 * confidence
  <2>1. amplified \div 5 \in Int /\ 150000 * p.displacement \in Int /\ 600000 * confidence \in Int
    BY <1>3, SignalBounds
  <2>2. ImpactScore(p, state, threat, confidence)
            = 210000 * p.drift + 150000 * p.displacement + amplified \div 5
                + ImpactTenth * 0 + 600000 * confidence
    BY <1>2, <1>3 DEF ImpactScore, HistoricalDamageRisk
  <2>3. ImpactTenth * 0 = 0 /\ 210000 * p.drift = 0
    BY SignalBounds, UnitsAreIntegers DEF ImpactTenth
  <2>4. QED
    BY <2>1, <2>2, <2>3
<1>5. ceiling = 600000000
  BY <1>2 DEF Whole
<1>6. amplified \div 5 <= 120000000
  BY <1>3, <1>5
<1>7. QED
  BY <1>3, <1>4, <1>6, SignalBounds

-----------------------------------------------------------------------------
(* The results.                                                            *)

Results ==
    [status : {"SUCCESS", "FAILED"}, anomaly : Scores, evidence : Evidences,
     decision : Decisions \cup {"NONE"}, plan : Plans \cup {"NONE"},
     action : {"ACCEPT", "DOWN_WEIGHT", "QUARANTINE"}, threat_level : Levels,
     impact_level : {"LOW", "MEDIUM", "HIGH", "CRITICAL"}]

\* What every result is, whatever was measured and whatever the reputation.
Sound(res) ==
    /\ res \in Results
    /\ res.anomaly <= 753
    /\ res.decision # "ROLLBACK_RECOMMENDED" /\ res.plan # "ROLLBACK"
    /\ res.impact_level \notin {"HIGH", "CRITICAL"}
    /\ res.action = "ACCEPT" =>
           res.anomaly < 450 /\ res.threat_level = "SAFE" /\ res.impact_level = "LOW"
    /\ 10 * res.evidence >= 7 * 600000 => res.action = "QUARANTINE" /\ res.plan = "QUARANTINE"

\* The result of a failed extraction is sound.
LEMMA FailedIsSound == Sound(FailedResult)
<1>1. 0 \in Scores /\ 0 \in Evidences
  BY RangeBounds
<1>2. FailedResult \in Results
  BY <1>1 DEF FailedResult, Results, Levels
<1>3. /\ FailedResult.anomaly = 0 /\ FailedResult.evidence = 0
      /\ FailedResult.action = "QUARANTINE" /\ FailedResult.decision = "NONE"
      /\ FailedResult.plan = "NONE" /\ FailedResult.impact_level = "LOW"
  BY DEF FailedResult
<1>4. QED
  BY <1>2, <1>3 DEF Sound

\* The result of a scored update is sound, and carries the score that was recorded.
LEMMA ScoredIsSound ==
    ASSUME NEW p \in AllProfiles, NEW state, ScoredState(state)
    PROVE  /\ Sound(ScoredResult(p, state))
           /\ ScoredResult(p, state).anomaly = AnomalyScore(p)
           /\ ScoredResult(p, state).status = "SUCCESS"
<1> DEFINE anomaly == AnomalyScore(p)
           threat == ThreatScore(state, anomaly, p.similarity)
           impact == ImpactScore(p, state, threat, Confidence(state))
           decision == Policy(threat, impact, 0)
           plan == RecoveryPlan(decision, threat, impact, DecisionConfidence(state, threat, 0), 0)
           action == MappedAction(decision)
           evidence == 400 * anomaly + 200 * p.similarity
           res == ScoredResult(p, state)
<1>1. /\ res.status = "SUCCESS" /\ res.anomaly = anomaly /\ res.evidence = evidence
      /\ res.decision = decision /\ res.plan = plan /\ res.action = action
      /\ res.threat_level = RecordedLevel(action, ThreatLevel(threat))
      /\ res.impact_level = ImpactLevel(impact)
      /\ res = [status |-> res.status, anomaly |-> res.anomaly, evidence |-> res.evidence,
                decision |-> res.decision, plan |-> res.plan, action |-> res.action,
                threat_level |-> res.threat_level, impact_level |-> res.impact_level]
  BY DEF ScoredResult, HistoricalDamageRisk
<1>2. /\ anomaly \in Int /\ 0 <= anomaly /\ anomaly <= 753
      /\ p.similarity \in Int /\ 0 <= p.similarity /\ p.similarity <= 889
  BY AnomalyRange, SignalBounds
<1>3. threat \in Int /\ threat >= 10 * evidence
  <2> HIDE DEF anomaly
  <2>1. QED
    BY <1>2, ThreatFloor
<1>4. /\ Confidence(state) \in Int
      /\ 0 <= Confidence(state) /\ Confidence(state) <= 100
  BY ConfidenceRange
<1>5. impact \in Int /\ impact <= 330000000
  <2> HIDE DEF threat
  <2>1. QED
    BY <1>3, <1>4, ImpactRange
<1>6. evidence \in Int /\ 0 <= evidence /\ evidence <= 600000
  <2> HIDE DEF anomaly
  <2>1. QED
    BY <1>2
<1> HIDE DEF anomaly, threat, impact, evidence, res
<1>7. /\ decision \in {"QUARANTINE", "FLAG", "MONITOR", "ACCEPT"}
      /\ threat >= 4200000 => decision = "QUARANTINE"
      /\ decision = "ACCEPT" => threat < 1800000 /\ impact < 180000000
  BY <1>3, <1>5 DEF Policy, ThreatTenth, ImpactTenth, Whole
<1>8. /\ plan \in {"QUARANTINE", "ISOLATE_CLIENT", "MONITOR", "ACCEPT"}
      /\ decision = "QUARANTINE" => plan = "QUARANTINE"
  BY <1>3, <1>5, <1>7 DEF RecoveryPlan, ThreatTenth, ImpactTenth, Whole
<1>9. /\ action \in {"ACCEPT", "DOWN_WEIGHT", "QUARANTINE"}
      /\ action = "ACCEPT" <=> decision = "ACCEPT"
      /\ decision = "QUARANTINE" => action = "QUARANTINE"
  BY <1>7 DEF MappedAction
<1> HIDE DEF decision, plan, action
<1>10. /\ RecordedLevel(action, ThreatLevel(threat)) \in Levels
       /\ action = "ACCEPT" => RecordedLevel(action, ThreatLevel(threat)) = "SAFE"
  BY <1>3, <1>7, <1>9 DEF RecordedLevel, ThreatLevel, Levels, ThreatTenth, Whole
<1>11. /\ ImpactLevel(impact) \in {"LOW", "MEDIUM"}
       /\ action = "ACCEPT" => ImpactLevel(impact) = "LOW"
  BY <1>5, <1>7, <1>9 DEF ImpactLevel, ImpactTenth, Whole
<1>12. action = "ACCEPT" => anomaly < 450
  BY <1>2, <1>3, <1>7, <1>9 DEF evidence
<1>13. 10 * evidence >= 7 * 600000 => action = "QUARANTINE" /\ plan = "QUARANTINE"
  BY <1>3, <1>6, <1>7, <1>8, <1>9
<1>14. res \in Results
  <2>1. res.decision \in Decisions /\ res.plan \in Plans
    BY <1>1, <1>7, <1>8 DEF Decisions, Plans
  <2>2. res.anomaly \in Scores /\ res.evidence \in Evidences
    BY <1>1, <1>2, <1>6, RangeBounds
  <2>3. /\ res.status = "SUCCESS" /\ res.action \in {"ACCEPT", "DOWN_WEIGHT", "QUARANTINE"}
        /\ res.threat_level \in Levels /\ res.impact_level \in {"LOW", "MEDIUM", "HIGH", "CRITICAL"}
    BY <1>1, <1>9, <1>10, <1>11
  <2>4. QED
    BY <1>1, <2>1, <2>2, <2>3 DEF Results
<1>15. Sound(res)
  BY <1>1, <1>2, <1>7, <1>8, <1>10, <1>11, <1>12, <1>13, <1>14 DEF Sound
<1>16. QED
  BY <1>1, <1>15 DEF res, anomaly

-----------------------------------------------------------------------------
(* What the reputation engine remembers of a client.                       *)

\* The reputation a client had before the i-th entry of its history.
Before(h, i) == IF i = 1 THEN Whole ELSE h[i - 1].reputation

\* A client's history after round n: one clipped step a round, and never ahead.
HistoryInv(h, n) ==
    /\ h \in Seq(Entries)
    /\ \A i \in 1..Len(h) : h[i].round <= n
    /\ \A i \in 1..Len(h) - 1 : h[i].round < h[i + 1].round
    /\ \A i \in 1..Len(h) :
           h[i].reputation = Clipped(Before(h, i) + ReputationDelta(h[i].anomaly), 0, Whole)

\* A client's state after round n, also when none of its updates was scored.
StateInv(state, n) ==
    LET h == state.reputation_history
    IN  HistoryInv(h, n) /\ state.reputation_score = Before(h, Len(h) + 1)

\* The reputation before any recorded round is in range.
LEMMA BeforeRange ==
    ASSUME NEW h \in Seq(Entries), NEW i \in 1..(Len(h) + 1)
    PROVE  Before(h, i) \in Reputations
<1>1. CASE i = 1
  <2>1. Whole \in Reputations
    BY UnitsAreIntegers DEF Reputations
  <2>2. QED
    BY <1>1, <2>1 DEF Before
<1>2. CASE i # 1
  <2>1. i - 1 \in 1..Len(h)
    BY <1>2
  <2>2. h[i - 1] \in Entries
    BY <2>1
  <2>3. QED
    BY <1>2, <2>2, EntryFields DEF Before
<1>3. QED
  BY <1>1, <1>2

\* One update of a reputation keeps it in range.
LEMMA StepRange ==
    ASSUME NEW before \in Reputations, NEW anomaly \in Scores
    PROVE  Clipped(before + ReputationDelta(anomaly), 0, Whole) \in Reputations
<1>1. anomaly \in Int /\ before \in Int
  BY RangeBounds
<1>2. before + ReputationDelta(anomaly) \in Int
  BY <1>1 DEF ReputationDelta
<1>3. PICK score : score = Clipped(before + ReputationDelta(anomaly), 0, Whole)
  OBVIOUS
<1>4. score \in Int /\ 0 <= score /\ score <= Whole
  BY <1>2, <1>3, UnitsAreIntegers, ClippedRange
<1>5. QED
  BY <1>3, <1>4, UnitsAreIntegers DEF Reputations

\* A history that grows by the step of the next round stays one.
LEMMA HistoryGrows ==
    ASSUME NEW n \in 0..(MaxRounds - 1), NEW h, HistoryInv(h, n), NEW entry \in Entries,
           entry.round = n + 1,
           entry.reputation
               = Clipped(Before(h, Len(h) + 1) + ReputationDelta(entry.anomaly), 0, Whole)
    PROVE  HistoryInv(Append(h, entry), n + 1)
<1>1. PICK g : g = Append(h, entry)
  OBVIOUS
<1>2. /\ h \in Seq(Entries) /\ Len(h) \in Nat
      /\ \A i \in 1..Len(h) : h[i].round <= n
      /\ \A i \in 1..Len(h) - 1 : h[i].round < h[i + 1].round
      /\ \A i \in 1..Len(h) :
             h[i].reputation = Clipped(Before(h, i) + ReputationDelta(h[i].anomaly), 0, Whole)
  BY DEF HistoryInv
<1>3. /\ g \in Seq(Entries) /\ Len(g) = Len(h) + 1 /\ g[Len(h) + 1] = entry
      /\ \A i \in 1..Len(h) : g[i] = h[i]
  BY <1>1, <1>2
<1>4. n \in Int
  BY SentinelAssumption
<1>5. ASSUME NEW i \in 1..Len(g) PROVE g[i].round \in Int /\ g[i].round <= n + 1
  <2>1. g[i].round \in Int
    BY <1>3, EntryFields
  <2>2. i \in 1..Len(h) \/ i = Len(h) + 1
    BY <1>2, <1>3
  <2>3. CASE i \in 1..Len(h)
    <3>1. g[i].round <= n
      BY <1>2, <1>3, <2>3
    <3>2. QED
      BY <1>4, <2>1, <3>1
  <2>4. CASE i = Len(h) + 1
    BY <1>3, <1>4, <2>1, <2>4
  <2>5. QED
    BY <2>2, <2>3, <2>4
<1>6. ASSUME NEW i \in 1..Len(g) - 1 PROVE g[i].round < g[i + 1].round
  <2>1. i \in 1..Len(h) /\ g[i] = h[i]
    BY <1>2, <1>3
  <2>2. CASE i = Len(h)
    <3>1. h[i].round \in Int /\ h[i].round <= n
      BY <1>2, <2>1, EntryFields
    <3>2. g[i + 1].round = n + 1
      BY <1>3, <2>2
    <3>3. QED
      BY <1>4, <2>1, <3>1, <3>2
  <2>3. CASE i # Len(h)
    <3>1. i \in 1..Len(h) - 1 /\ i + 1 \in 1..Len(h)
      BY <1>2, <2>1, <2>3
    <3>2. QED
      BY <1>2, <1>3, <2>1, <3>1
  <2>4. QED
    BY <2>2, <2>3
<1>7. ASSUME NEW i \in 1..Len(g)
      PROVE  g[i].reputation = Clipped(Before(g, i) + ReputationDelta(g[i].anomaly), 0, Whole)
  <2>1. i \in 1..Len(h) \/ i = Len(h) + 1
    BY <1>2, <1>3
  <2>2. Before(g, i) = Before(h, i)
    <3>1. i # 1 => i - 1 \in 1..Len(h)
      BY <1>2, <2>1
    <3>2. QED
      BY <1>3, <3>1 DEF Before
  <2>3. CASE i \in 1..Len(h)
    <3>1. g[i] = h[i]
      BY <1>3, <2>3
    <3>2. QED
      BY <1>2, <2>2, <2>3, <3>1
  <2>4. CASE i = Len(h) + 1
    <3>1. g[i] = entry
      BY <1>3, <2>4
    <3>2. QED
      BY <2>2, <2>4, <3>1
  <2>5. QED
    BY <2>1, <2>3, <2>4
<1>8. HistoryInv(g, n + 1)
  BY <1>3, <1>5, <1>6, <1>7 DEF HistoryInv
<1>9. QED
  BY <1>1, <1>8

\* A client seen for the first time has an empty history.
LEMMA NewStateInv ==
    ASSUME NEW n
    PROVE  StateInv(NewState, n) /\ NewState.reputation_history = <<>>
<1>1. NewState.reputation_history = <<>> /\ NewState.reputation_score = Whole
  BY DEF NewState
<1>2. HistoryInv(<<>>, n)
  BY DEF HistoryInv
<1>3. Before(<<>>, Len(<<>>) + 1) = Whole
  BY DEF Before
<1>4. QED
  BY <1>1, <1>2, <1>3 DEF StateInv

\* The next round is never refused as out of order.
LEMMA NextRoundInOrder ==
    ASSUME NEW n \in 0..(MaxRounds - 1), NEW state, StateInv(state, n)
    PROVE  InOrder(state, n + 1)
<1>1. PICK h : h = state.reputation_history
  OBVIOUS
<1>2. h \in Seq(Entries) /\ \A i \in 1..Len(h) : h[i].round <= n
  BY <1>1 DEF StateInv, HistoryInv
<1>3. ASSUME h # <<>> PROVE n + 1 > Last(h).round
  <2>1. Len(h) \in 1..Len(h)
    BY <1>2, <1>3
  <2>2. h[Len(h)].round \in Int /\ h[Len(h)].round <= n
    BY <1>2, <2>1, EntryFields
  <2>3. n + 1 > h[Len(h)].round
    BY <2>2, SentinelAssumption
  <2>4. QED
    BY <2>3 DEF Last
<1>4. QED
  BY <1>1, <1>3 DEF InOrder

\* And leaves a state of that kind, whose history is the old one and one entry more.
LEMMA LearnedState ==
    ASSUME NEW r \in 1..MaxRounds, NEW state, StateInv(state, r - 1), NEW anomaly \in Scores
    PROVE  /\ StateInv(UpdateReputation(state, r, anomaly), r)
           /\ ScoredState(UpdateReputation(state, r, anomaly))
           /\ \E entry \in Entries :
                  /\ entry.round = r /\ entry.anomaly = anomaly
                  /\ UpdateReputation(state, r, anomaly).reputation_history
                         = Append(state.reputation_history, entry)
<1>1. PICK h : h = state.reputation_history
  OBVIOUS
<1> DEFINE n == r - 1
<1>0. n \in 0..(MaxRounds - 1) /\ n + 1 = r
  BY SentinelAssumption
<1> HIDE DEF n
<1>2. HistoryInv(h, n) /\ h \in Seq(Entries) /\ state.reputation_score = Before(h, Len(h) + 1)
  BY <1>1 DEF StateInv, HistoryInv, n
<1>3. Len(h) \in Nat /\ Len(h) + 1 \in 1..(Len(h) + 1)
  BY <1>2
<1>4. Before(h, Len(h) + 1) \in Reputations
  BY <1>2, <1>3, BeforeRange
<1>5. PICK score \in Reputations :
          score = Clipped(Before(h, Len(h) + 1) + ReputationDelta(anomaly), 0, Whole)
  BY <1>4, StepRange
<1>6. PICK entry : entry = [round |-> r, anomaly |-> anomaly, reputation |-> score]
  OBVIOUS
<1>7. /\ entry \in Entries /\ entry.round = r /\ entry.anomaly = anomaly
      /\ entry.reputation = score
  BY <1>5, <1>6 DEF Entries
<1>8. PICK after : after = UpdateReputation(state, r, anomaly)
  OBVIOUS
<1>9. after.reputation_score = score /\ after.reputation_history = Append(h, entry)
  BY <1>1, <1>2, <1>5, <1>6, <1>8 DEF UpdateReputation
<1>10. HistoryInv(Append(h, entry), r)
  BY <1>0, <1>2, <1>5, <1>7, HistoryGrows
<1>11. /\ Append(h, entry) \in Seq(Entries) /\ Len(Append(h, entry)) = Len(h) + 1
       /\ Append(h, entry)[Len(h) + 1] = entry /\ Append(h, entry) # <<>>
  BY <1>2, <1>7
<1>12. Before(Append(h, entry), Len(Append(h, entry)) + 1) = score
  BY <1>3, <1>7, <1>11 DEF Before
<1>13. StateInv(after, r)
  BY <1>9, <1>10, <1>12 DEF StateInv
<1>14. ScoredState(after)
  BY <1>5, <1>9, <1>11 DEF ScoredState
<1>15. QED
  BY <1>1, <1>7, <1>8, <1>9, <1>13, <1>14

-----------------------------------------------------------------------------
(* The invariant: the results are sound, and the reputation engine's       *)
(* histories hold the rounds whose pipeline succeeded.                     *)

StatesInv ==
    /\ DOMAIN client_states \subseteq Clients
    /\ \A c \in DOMAIN client_states :
           StateInv(client_states[c], round) /\ ScoredState(client_states[c])

CacheInv ==
    /\ DOMAIN round_cache \subseteq 1..round
    /\ \A r \in DOMAIN round_cache :
           /\ DOMAIN round_cache[r] \subseteq Clients
           /\ \A c \in DOMAIN round_cache[r] : Sound(round_cache[r][c])

\* Entry i of client c's history is what the cache recorded of it in round r.
Recorded(c, i, r) ==
    /\ client_states[c].reputation_history[i].round = r
    /\ client_states[c].reputation_history[i].anomaly = round_cache[r][c].anomaly

CacheRemembered ==
    \A r \in DOMAIN round_cache : \A c \in DOMAIN round_cache[r] :
        round_cache[r][c].status = "SUCCESS" =>
            /\ c \in DOMAIN client_states
            /\ \E i \in 1..Len(client_states[c].reputation_history) : Recorded(c, i, r)

MemoryRecorded ==
    \A c \in DOMAIN client_states :
        \A i \in 1..Len(client_states[c].reputation_history) :
            LET r == client_states[c].reputation_history[i].round
            IN  r \in DOMAIN round_cache /\ round_cache[r][c].status = "SUCCESS"

SentinelInv ==
    /\ round \in 0..MaxRounds
    /\ StatesInv
    /\ CacheInv
    /\ CacheRemembered
    /\ MemoryRecorded

\* Before the first round and after a reset there is nothing to remember.
LEMMA EmptyInv ==
    ASSUME round = 0, client_states = <<>>, round_cache = <<>>
    PROVE  SentinelInv
<1>1. DOMAIN client_states = {} /\ DOMAIN round_cache = {}
  OBVIOUS
<1>2. round \in 0..MaxRounds
  BY SentinelAssumption
<1>3. QED
  BY <1>1, <1>2 DEF SentinelInv, StatesInv, CacheInv, CacheRemembered, MemoryRecorded

\* A history does not lose its bounds when the round passes without the client.
LEMMA HistoryLater ==
    ASSUME NEW n \in 0..(MaxRounds - 1), NEW state, StateInv(state, n)
    PROVE  StateInv(state, n + 1)
<1>1. PICK h : h = state.reputation_history
  OBVIOUS
<1>2. h \in Seq(Entries) /\ \A i \in 1..Len(h) : h[i].round <= n
  BY <1>1 DEF StateInv, HistoryInv
<1>3. n \in Int
  BY SentinelAssumption
<1>4. ASSUME NEW i \in 1..Len(h) PROVE h[i].round <= n + 1
  <2>1. h[i].round \in Int /\ h[i].round <= n
    BY <1>2, EntryFields
  <2>2. QED
    BY <1>3, <2>1
<1>5. HistoryInv(h, n + 1)
  BY <1>1, <1>4 DEF StateInv, HistoryInv
<1>6. QED
  BY <1>1, <1>5 DEF StateInv

\* A round in which the firewall rejects everyone keeps the invariant.
LEMMA AllRejectedKeepsInv == ASSUME SentinelInv, AllRejected PROVE SentinelInv'
<1>1. /\ round \in 0..(MaxRounds - 1) /\ round' = round + 1
      /\ client_states' = client_states /\ round_cache' = round_cache
  BY SentinelAssumption DEF SentinelInv, AllRejected
<1>2. round' \in 0..MaxRounds
  BY <1>1, SentinelAssumption
<1>3. StatesInv'
  BY <1>1, HistoryLater DEF SentinelInv, StatesInv
<1>4. CacheInv'
  <2>1. 1..round \subseteq 1..(round + 1)
    BY <1>1, SentinelAssumption
  <2>2. QED
    BY <1>1, <2>1 DEF SentinelInv, CacheInv
<1>5. CacheRemembered' /\ MemoryRecorded'
  BY <1>1 DEF SentinelInv, CacheRemembered, MemoryRecorded, Recorded
<1>6. QED
  BY <1>2, <1>3, <1>4, <1>5 DEF SentinelInv

\* What an outcome may be: only a scored update has a profile.
LEMMA OutcomeKinds ==
    ASSUME NEW o \in Engine!Outcomes
    PROVE  /\ o.kind \in {"rejected", "broken", "scored"}
           /\ o.kind = "scored" => o.profile \in AllProfiles
BY DEF Engine!Outcomes

\* What a screened round measures is an outcome of the engines' own specification.
LEMMA OutcomesWiden == Outcomes \subseteq Engine!Outcomes
BY SentinelAssumption DEF Outcomes, Engine!Outcomes

\* The state a client enters a round with satisfies the invariant, recorded or new.
LEMMA StateOfInv ==
    ASSUME SentinelInv, NEW c
    PROVE  /\ StateInv(StateOf(client_states, c), round)
           /\ c \in DOMAIN client_states => StateOf(client_states, c) = client_states[c]
           /\ c \notin DOMAIN client_states =>
                  StateOf(client_states, c).reputation_history = <<>>
BY NewStateInv DEF SentinelInv, StatesInv, StateOf

\* A round of detection keeps the invariant.
LEMMA DetectKeepsInv ==
    ASSUME SentinelInv, round < MaxRounds, NEW outcomes \in [Clients -> Engine!Outcomes],
           DetectRound(outcomes)
    PROVE  SentinelInv'
<1> DEFINE scored == { c \in Clients : outcomes[c].kind = "scored" }
           judged == { c \in Clients : outcomes[c].kind # "rejected" }
<1>1. /\ round \in 0..(MaxRounds - 1) /\ round' = round + 1 /\ round' \in 0..MaxRounds
      /\ round \in Int
  BY SentinelAssumption DEF SentinelInv, DetectRound
<1>2. ASSUME NEW c PROVE InOrder(StateOf(client_states, c), round + 1)
  BY <1>1, StateOfInv, NextRoundInOrder
<1>3. scored \subseteq judged /\ judged \subseteq Clients
  OBVIOUS
<1>4. client_states' = [c \in DOMAIN client_states \cup scored |->
                           IF c \in scored THEN StateAfter(round + 1, c, outcomes[c])
                           ELSE client_states[c]]
  <2>1. scored = { c \in Clients : /\ outcomes[c].kind = "scored"
                                   /\ InOrder(StateOf(client_states, c), round + 1) }
    BY <1>2
  <2>2. QED
    BY <2>1, Zenon DEF DetectRound, Learn
<1>5. round_cache' = [r \in DOMAIN round_cache \cup {round + 1} |->
                         IF r # round + 1 THEN round_cache[r]
                         ELSE [c \in judged |-> ResultOf(round + 1, c, outcomes[c])]]
  BY Zenon DEF DetectRound
<1>6. \A r \in DOMAIN round_cache : r # round + 1 /\ round_cache'[r] = round_cache[r]
  <2>1. ASSUME NEW r \in DOMAIN round_cache PROVE r # round + 1
    <3>1. r \in 1..round
      BY DEF SentinelInv, CacheInv
    <3>2. QED
      BY <1>1, <3>1
  <2>2. QED
    BY <1>5, <2>1
<1>7. /\ DOMAIN round_cache' = DOMAIN round_cache \cup {round + 1}
      /\ DOMAIN round_cache'[round + 1] = judged
      /\ \A c \in judged : round_cache'[round + 1][c] = ResultOf(round + 1, c, outcomes[c])
  BY <1>5
<1>8. /\ DOMAIN client_states' = DOMAIN client_states \cup scored
      /\ \A c \in scored : client_states'[c] = StateAfter(round + 1, c, outcomes[c])
      /\ \A c \in DOMAIN client_states : c \notin scored => client_states'[c] = client_states[c]
  BY <1>4
<1> HIDE DEF scored, judged
\* What a scored client remembers.
<1>9. ASSUME NEW c \in scored
      PROVE  /\ outcomes[c].profile \in AllProfiles
             /\ StateInv(client_states'[c], round + 1) /\ ScoredState(client_states'[c])
             /\ \E entry \in Entries :
                    /\ entry.round = round + 1
                    /\ entry.anomaly = AnomalyScore(outcomes[c].profile)
                    /\ client_states'[c].reputation_history
                           = Append(StateOf(client_states, c).reputation_history, entry)
  <2>1. outcomes[c].profile \in AllProfiles
    <3>1. outcomes[c] \in Engine!Outcomes /\ outcomes[c].kind = "scored"
      BY DEF scored
    <3>2. QED
      BY <3>1, OutcomeKinds
  <2>2. AnomalyScore(outcomes[c].profile) \in Scores
    BY <2>1, AnomalyRange
  <2>3. client_states'[c] = UpdateReputation(StateOf(client_states, c), round + 1,
                                             AnomalyScore(outcomes[c].profile))
    BY <1>8 DEF StateAfter
  <2>4. StateInv(StateOf(client_states, c), round)
    BY StateOfInv
  <2>5. PICK r \in 1..MaxRounds : r = round + 1 /\ r - 1 = round
    BY <1>1, SentinelAssumption
  <2>6. PICK anomaly \in Scores : anomaly = AnomalyScore(outcomes[c].profile)
    BY <2>2
  <2>7. PICK state : state = StateOf(client_states, c)
    OBVIOUS
  <2>8. StateInv(state, r - 1)
    BY <2>4, <2>5, <2>7
  <2>9. /\ StateInv(UpdateReputation(state, r, anomaly), r)
        /\ ScoredState(UpdateReputation(state, r, anomaly))
        /\ \E entry \in Entries :
               /\ entry.round = r /\ entry.anomaly = anomaly
               /\ UpdateReputation(state, r, anomaly).reputation_history
                      = Append(state.reputation_history, entry)
    BY <2>8, LearnedState
  <2>10. client_states'[c] = UpdateReputation(state, r, anomaly)
    BY <2>3, <2>5, <2>6, <2>7
  <2>11. QED
    BY <2>1, <2>5, <2>6, <2>7, <2>9, <2>10
\* What is recorded of an update that reached the Sentinel.
<1>10. ASSUME NEW c \in judged
       PROVE  /\ Sound(round_cache'[round + 1][c])
              /\ round_cache'[round + 1][c].status = "SUCCESS" <=> c \in scored
              /\ c \in scored => round_cache'[round + 1][c].anomaly
                                     = AnomalyScore(outcomes[c].profile)
  <2>1. CASE c \in scored
    <3>1. outcomes[c].kind # "broken"
      BY <2>1 DEF scored
    <3>2. ResultOf(round + 1, c, outcomes[c])
              = ScoredResult(outcomes[c].profile, client_states'[c])
      BY <1>2, <1>8, <2>1, <3>1 DEF ResultOf
    <3>3. QED
      BY <1>7, <1>9, <2>1, <3>2, ScoredIsSound
  <2>2. CASE c \notin scored
    <3>1. c \in Clients /\ outcomes[c].kind # "rejected" /\ outcomes[c].kind # "scored"
      BY <2>2 DEF judged, scored
    <3>2. outcomes[c].kind = "broken"
      BY <3>1, OutcomeKinds
    <3>3. ResultOf(round + 1, c, outcomes[c]) = FailedResult
      BY <3>2 DEF ResultOf
    <3>4. FailedResult.status = "FAILED"
      BY DEF FailedResult
    <3>5. QED
      BY <1>7, <2>2, <3>3, <3>4, FailedIsSound
  <2>3. QED
    BY <2>1, <2>2
\* An old history is a prefix of the new one.
<1>11. ASSUME NEW c \in DOMAIN client_states,
              NEW i \in 1..Len(client_states[c].reputation_history)
       PROVE  /\ i \in 1..Len(client_states'[c].reputation_history)
              /\ client_states'[c].reputation_history[i] = client_states[c].reputation_history[i]
  <2>1. CASE c \in scored
    <3>1. PICK h \in Seq(Entries) : h = client_states[c].reputation_history
      BY DEF SentinelInv, StatesInv, ScoredState
    <3>2. StateOf(client_states, c).reputation_history = h
      BY <3>1, StateOfInv
    <3>3. PICK entry \in Entries : client_states'[c].reputation_history = Append(h, entry)
      BY <1>9, <2>1, <3>2
    <3>4. i \in 1..Len(h)
      BY <3>1
    <3>5. i \in 1..Len(Append(h, entry)) /\ Append(h, entry)[i] = h[i]
      BY <3>4
    <3>6. QED
      BY <3>1, <3>3, <3>5
  <2>2. CASE c \notin scored
    BY <1>8, <2>2
  <2>3. QED
    BY <2>1, <2>2
\* Every other entry is the new one of a scored client.
<1>12. ASSUME NEW c \in scored
       PROVE  \E i \in 1..Len(client_states'[c].reputation_history) :
                  LET e == client_states'[c].reputation_history[i]
                  IN  /\ e.round = round + 1 /\ e.anomaly = AnomalyScore(outcomes[c].profile)
                      /\ \A j \in 1..Len(client_states'[c].reputation_history) :
                             j # i => /\ c \in DOMAIN client_states
                                      /\ j \in 1..Len(client_states[c].reputation_history)
  <2>1. PICK h : h = StateOf(client_states, c).reputation_history
    OBVIOUS
  <2>2. h \in Seq(Entries) /\ Len(h) \in Nat
    BY <2>1, StateOfInv DEF StateInv, HistoryInv
  <2>3. PICK entry \in Entries :
            /\ entry.round = round + 1 /\ entry.anomaly = AnomalyScore(outcomes[c].profile)
            /\ client_states'[c].reputation_history = Append(h, entry)
    BY <1>9, <2>1
  <2>4. PICK g : g = Append(h, entry)
    OBVIOUS
  <2>5. Len(g) = Len(h) + 1 /\ g[Len(h) + 1] = entry /\ Len(h) + 1 \in 1..Len(g)
    BY <2>2, <2>4
  <2>6. ASSUME NEW j \in 1..Len(g), j # Len(h) + 1
        PROVE  c \in DOMAIN client_states /\ j \in 1..Len(client_states[c].reputation_history)
    <3>1. j \in 1..Len(h)
      BY <2>2, <2>5, <2>6
    <3>2. h # <<>>
      BY <2>2, <3>1
    <3>3. QED
      BY <2>1, <3>1, <3>2, StateOfInv
  <2>7. QED
    BY <2>3, <2>4, <2>5, <2>6
<1>13. StatesInv'
  <2>1. ASSUME NEW c \in DOMAIN client_states'
        PROVE  StateInv(client_states'[c], round + 1) /\ ScoredState(client_states'[c])
    <3>1. CASE c \in scored
      BY <1>9, <3>1
    <3>2. CASE c \notin scored
      <4>1. c \in DOMAIN client_states /\ client_states'[c] = client_states[c]
        BY <1>8, <3>2
      <4>2. QED
        BY <1>1, <4>1, HistoryLater DEF SentinelInv, StatesInv
    <3>3. QED
      BY <3>1, <3>2
  <2>2. DOMAIN client_states' \subseteq Clients
    BY <1>3, <1>8 DEF SentinelInv, StatesInv
  <2>3. QED
    BY <1>1, <2>1, <2>2 DEF StatesInv
<1>14. CacheInv'
  <2>1. DOMAIN round_cache' \subseteq 1..(round + 1)
    <3>1. DOMAIN round_cache \subseteq 1..round
      BY DEF SentinelInv, CacheInv
    <3>2. QED
      BY <1>1, <1>7, <3>1
  <2>2. ASSUME NEW r \in DOMAIN round_cache'
        PROVE  /\ DOMAIN round_cache'[r] \subseteq Clients
               /\ \A c \in DOMAIN round_cache'[r] : Sound(round_cache'[r][c])
    <3>1. CASE r \in DOMAIN round_cache
      BY <1>6, <3>1 DEF SentinelInv, CacheInv
    <3>2. CASE r = round + 1
      BY <1>3, <1>7, <1>10, <3>2
    <3>3. QED
      BY <1>7, <3>1, <3>2
  <2>3. QED
    BY <1>1, <2>1, <2>2 DEF CacheInv
<1>15. CacheRemembered'
  <2>1. ASSUME NEW r \in DOMAIN round_cache', NEW c \in DOMAIN round_cache'[r],
               round_cache'[r][c].status = "SUCCESS"
        PROVE  /\ c \in DOMAIN client_states'
               /\ \E i \in 1..Len(client_states'[c].reputation_history) :
                      /\ client_states'[c].reputation_history[i].round = r
                      /\ client_states'[c].reputation_history[i].anomaly
                             = round_cache'[r][c].anomaly
    <3>1. CASE r \in DOMAIN round_cache
      <4>1. round_cache'[r] = round_cache[r]
        BY <1>6, <3>1
      <4>2. /\ c \in DOMAIN client_states
            /\ \E i \in 1..Len(client_states[c].reputation_history) : Recorded(c, i, r)
        BY <2>1, <3>1, <4>1 DEF SentinelInv, CacheRemembered
      <4>3. PICK i \in 1..Len(client_states[c].reputation_history) : Recorded(c, i, r)
        BY <4>2
      <4>4. QED
        BY <1>8, <1>11, <4>1, <4>2, <4>3 DEF Recorded
    <3>2. CASE r = round + 1
      <4>1. c \in scored /\ round_cache'[r][c].anomaly = AnomalyScore(outcomes[c].profile)
        BY <1>7, <1>10, <2>1, <3>2
      <4>2. QED
        BY <1>8, <1>12, <3>2, <4>1
    <3>3. QED
      BY <1>7, <3>1, <3>2
  <2>2. QED
    BY <2>1 DEF CacheRemembered, Recorded
<1>16. MemoryRecorded'
  <2>1. ASSUME NEW c \in DOMAIN client_states',
               NEW i \in 1..Len(client_states'[c].reputation_history)
        PROVE  LET r == client_states'[c].reputation_history[i].round
               IN  r \in DOMAIN round_cache' /\ round_cache'[r][c].status = "SUCCESS"
    <3>1. CASE c \in DOMAIN client_states /\ i \in 1..Len(client_states[c].reputation_history)
      <4>1. PICK r : r = client_states[c].reputation_history[i].round
        OBVIOUS
      <4>2. r \in DOMAIN round_cache /\ round_cache[r][c].status = "SUCCESS"
        BY <3>1, <4>1 DEF SentinelInv, MemoryRecorded
      <4>3. client_states'[c].reputation_history[i].round = r
        BY <1>11, <3>1, <4>1
      <4>4. QED
        BY <1>6, <1>7, <4>2, <4>3
    <3>2. CASE ~(c \in DOMAIN client_states /\ i \in 1..Len(client_states[c].reputation_history))
      <4>1. c \in scored
        BY <1>8, <2>1, <3>2
      <4>2. client_states'[c].reputation_history[i].round = round + 1
        BY <1>12, <3>2, <4>1
      <4>3. c \in judged
        BY <1>3, <4>1
      <4>4. QED
        BY <1>7, <1>10, <4>1, <4>2, <4>3
    <3>3. QED
      BY <3>1, <3>2
  <2>2. QED
    BY <2>1 DEF MemoryRecorded
<1>17. QED
  BY <1>1, <1>13, <1>14, <1>15, <1>16 DEF SentinelInv

\* The results of every round are sound, and the reputation engine remembers exactly
\* the rounds whose pipeline succeeded (run_round, update_reputation, detect).
THEOREM SentinelInvariant == SentinelSpec => []SentinelInv
<1>1. SentinelInit => SentinelInv
  BY EmptyInv DEF SentinelInit
<1>2. ASSUME SentinelInv, [SentinelNext]_sentinelVars PROVE SentinelInv'
  <2>1. CASE Detect
    <3>1. PICK outcomes \in [Clients -> Outcomes] : round < MaxRounds /\ DetectRound(outcomes)
      BY <2>1 DEF Detect
    <3>2. outcomes \in [Clients -> Engine!Outcomes]
      BY OutcomesWiden
    <3>3. QED
      BY <1>2, <3>1, <3>2, DetectKeepsInv
  <2>2. CASE AllRejected
    BY <1>2, <2>2, AllRejectedKeepsInv
  <2>3. CASE Reset
    <3>1. round' = 0 /\ client_states' = <<>> /\ round_cache' = <<>>
      BY <2>3 DEF Reset
    <3>2. round' \in 0..MaxRounds /\ DOMAIN client_states' = {} /\ DOMAIN round_cache' = {}
      BY <3>1, SentinelAssumption
    <3>3. QED
      BY <3>2 DEF SentinelInv, StatesInv, CacheInv, CacheRemembered, MemoryRecorded
  <2>4. CASE UNCHANGED sentinelVars
    BY <1>2, <2>4 DEF sentinelVars, SentinelInv, StatesInv, CacheInv, CacheRemembered,
                      MemoryRecorded, Recorded
  <2>5. QED
    BY <1>2, <2>1, <2>2, <2>3, <2>4 DEF SentinelNext
<1>3. QED
  BY <1>1, <1>2, PTL DEF SentinelSpec

-----------------------------------------------------------------------------
(* The round, from training to the verdicts.                               *)

\* What is measured of an update is a profile the engines' scores are proved for: the
\* fixed zeros, the saturation of every signal and the bounds of the cosines hold for
\* updates of any size, any number of layers and any number of peers.
THEOREM MeasuredIsAProfile ==
    ASSUME NEW peers, OneShape(peers), NEW c \in DOMAIN peers
    PROVE  Measured(peers, c) \in AllProfiles
<1> DEFINE Magnitudes == 0..LargestSignal.magnitude
           Distributions == 0..LargestSignal.distribution
           Similarities == 0..LargestSignal.similarity
           Displacements == 0..LargestSignal.displacement
<1>1. AllProfiles = [magnitude : Magnitudes, distribution : Distributions,
                     similarity : Similarities, displacement : Displacements,
                     sparsity : {0}, drift : {0}]
  BY Zenon DEF AllProfiles
<1>2. /\ LargestSignal.magnitude = 1000 /\ LargestSignal.distribution = 749
      /\ LargestSignal.similarity = 889 /\ LargestSignal.displacement = 1000
  BY DEF LargestSignal, Certain
<1>3. /\ \A x \in Int : 0 <= x /\ x <= LargestSignal.magnitude => x \in Magnitudes
      /\ \A x \in Int : 0 <= x /\ x <= LargestSignal.distribution => x \in Distributions
      /\ \A x \in Int : 0 <= x /\ x <= LargestSignal.similarity => x \in Similarities
      /\ \A x \in Int : 0 <= x /\ x <= LargestSignal.displacement => x \in Displacements
  <2>1. /\ LargestSignal.magnitude \in Int /\ LargestSignal.distribution \in Int
        /\ LargestSignal.similarity \in Int /\ LargestSignal.displacement \in Int
    BY <1>2
  <2>2. QED
    BY <2>1
<1> HIDE DEF Magnitudes, Distributions, Similarities, Displacements
<1>4. peers[c] \in Layered
  BY DEF OneShape
<1>5. PICK magnitude \in Magnitudes : magnitude = MagnitudeSignal(peers, c)
  BY <1>2, <1>3, MagnitudeSignalRange
<1>6. PICK distribution \in Distributions : distribution = DistributionSignal(peers[c])
  BY <1>2, <1>3, <1>4, DistributionSignalRange
<1>7. PICK similarity \in Similarities : similarity = SimilaritySignal(peers, c)
  <2>1. /\ SimilaritySignal(peers, c) \in Int /\ 0 <= SimilaritySignal(peers, c)
        /\ SimilaritySignal(peers, c) <= 888
    BY SimilaritySignalRange
  <2>2. QED
    BY <1>2, <1>3, <2>1
<1>8. PICK displacement \in Displacements : displacement = Displacement(peers[c])
  BY <1>2, <1>3, <1>4, DisplacementRange
<1>9. SparsitySignal(peers[c]) = 0 /\ Drift(peers[c]) = 0
  BY NothingSparse, NothingDrifts
<1>10. Measured(peers, c)
           = [magnitude |-> magnitude, distribution |-> distribution, similarity |-> similarity,
              sparsity |-> 0, displacement |-> displacement, drift |-> 0]
  BY <1>5, <1>6, <1>7, <1>8, <1>9, Zenon DEF Measured
<1>11. QED
  BY <1>1, <1>10

\* The updates that are one: layered, never diverged, and all of one shape.
LEMMA ShapeLemma ==
    /\ Shape \in Seq(Seq(Int)) /\ Len(Shape) \in Nat /\ Len(Shape) >= 1
    /\ \A l \in 1..Len(Shape) : Shape[l] \in Vectors
    /\ Shape \in Updates
<1>1. Shape \in Trained
  BY ScreeningAssumption, Zenon DEF Shape
<1>2. Shape \in Updates
  BY <1>1, ScreeningAssumption
<1>3. Shape \in Seq(Seq(Int)) /\ Shape # <<>> /\ \A l \in DOMAIN Shape : Shape[l] # <<>>
  BY <1>2, ScreeningAssumption, Zenon DEF Updates
<1>4. QED
  BY <1>2, <1>3 DEF Vectors

\* The layers of an update of the run's shape.
LEMMA UpdateFields ==
    ASSUME NEW u \in Updates
    PROVE  /\ u \in Seq(Seq(Int)) /\ Len(u) = Len(Shape) /\ DOMAIN u = 1..Len(Shape)
           /\ \A l \in 1..Len(Shape) : /\ u[l] \in Vectors /\ Len(u[l]) = Len(Shape[l])
                                       /\ DOMAIN u[l] = 1..Len(Shape[l])
<1>1. /\ u \in Seq(Seq(Int)) /\ Len(u) = Len(Shape)
      /\ \A l \in DOMAIN u : Len(u[l]) = Len(Shape[l])
  BY DEF Updates
<1>2. DOMAIN u = 1..Len(Shape)
  BY <1>1
<1>3. ASSUME NEW l \in 1..Len(Shape)
      PROVE  u[l] \in Vectors /\ Len(u[l]) = Len(Shape[l]) /\ DOMAIN u[l] = 1..Len(Shape[l])
  <2>1. u[l] \in Seq(Int) /\ Len(u[l]) = Len(Shape[l])
    <3>1. l \in 1..Len(u) /\ l \in DOMAIN u
      BY <1>1, <1>2
    <3>2. u[l] \in Seq(Int)
      BY <1>1, <3>1
    <3>3. QED
      BY <1>1, <3>1, <3>2
  <2>2. Len(u[l]) >= 1
    BY <2>1, ShapeLemma, VectorLemma
  <2>3. u[l] \in Vectors
    BY <2>1, <2>2, VectorLemma
  <2>4. DOMAIN u[l] = 1..Len(u[l])
    BY <2>1
  <2>5. QED
    BY <2>1, <2>3, <2>4
<1>4. QED
  BY <1>1, <1>2, <1>3

\* The updates of a run are measurable, never the diverged one, and all of one shape.
LEMMA UpdatesLemma ==
    /\ \A u \in Updates : u \in Layered /\ u # Diverged
    /\ \A u \in Updates, w \in Updates : SameShape(u, w)
<1>1. ASSUME NEW u \in Updates PROVE u \in Layered /\ u # Diverged
  <2>1. PICK n \in Nat : n = Len(Shape) /\ n >= 1
    BY ShapeLemma
  <2>2. u \in Seq(Seq(Int)) /\ Len(u) = n /\ \A l \in 1..n : u[l] \in Vectors
    BY <2>1, UpdateFields
  <2>3. u \in [1..n -> Vectors]
    BY <2>2
  <2>4. u \in Seq(Vectors)
    BY <2>3, FunctionIsSeq
  <2>5. u # <<>>
    BY <2>1, <2>2
  <2>6. QED
    BY <2>4, <2>5 DEF Layered, Diverged
<1>2. ASSUME NEW u \in Updates, NEW w \in Updates PROVE SameShape(u, w)
  BY UpdateFields DEF SameShape
<1>3. QED
  BY <1>1, <1>2

\* A sequence of layers of the same lengths is an update again.
LEMMA Reshaped ==
    ASSUME NEW u \in Updates, NEW w, w = [l \in DOMAIN u |-> w[l]],
           \A l \in DOMAIN u : w[l] \in [DOMAIN u[l] -> Int]
    PROVE  w \in Updates
<1>1. PICK n \in Nat : n = Len(Shape) /\ DOMAIN u = 1..n
  BY ShapeLemma, UpdateFields
<1>2. ASSUME NEW l \in 1..n PROVE w[l] \in Seq(Int) /\ Len(w[l]) = Len(Shape[l])
  <2>1. PICK m \in Nat : m = Len(Shape[l]) /\ DOMAIN u[l] = 1..m
    BY <1>1, ShapeLemma, UpdateFields, VectorLemma
  <2>2. w[l] \in [1..m -> Int]
    BY <1>1, <2>1
  <2>3. QED
    BY <2>1, <2>2, FunctionIsSeq
<1>3. w \in [1..n -> Seq(Int)]
  BY <1>1, <1>2
<1>4. w \in Seq(Seq(Int)) /\ Len(w) = n
  BY <1>3, FunctionIsSeq
<1>5. QED
  BY <1>1, <1>2, <1>4 DEF Updates

\* What the clients send: an update, or the parameters of a training that diverged.
Sent == Updates \cup {Diverged}

\* An attack that rewrites the layers one by one leaves a diverged update diverged.
LEMMA DivergedHasNoLayers ==
    ASSUME NEW w, w = [l \in DOMAIN Diverged |-> w[l]]
    PROVE  w = Diverged
BY DEF Diverged

\* No attack changes the shape of an update, and none turns an update into what is
\* not a number (apply_update_attack of every class).
LEMMA PoisonedIsSent ==
    ASSUME NEW u \in Sent, NEW attack \in Attacks
    PROVE  Poisoned(u, attack) \in Sent
<1>1. attack.kind \in AttackKinds /\ attack.factor \in Nat
  BY ScreeningAssumption
<1>2. PICK factor \in Nat : factor = attack.factor
  BY <1>1
<1>3. ASSUME NEW tenths \in Int PROVE Scaled(u, tenths) \in Sent
  <2>1. PICK w : w = Scaled(u, tenths)
    OBVIOUS
  <2>2. w = [l \in DOMAIN u |-> [i \in DOMAIN u[l] |-> (tenths * u[l][i]) \div 10]]
    BY <2>1, Zenon DEF Scaled, Each
  <2>3. CASE u = Diverged
    BY <2>1, <2>2, <2>3, DivergedHasNoLayers DEF Sent
  <2>4. CASE u \in Updates
    <3>1. ASSUME NEW l \in DOMAIN u, NEW i \in DOMAIN u[l] PROVE (tenths * u[l][i]) \div 10 \in Int
      <4>1. u[l][i] \in Int
        BY <2>4, UpdateFields, VectorLemma
      <4>2. QED
        BY <4>1
    <3>2. w = [l \in DOMAIN u |-> w[l]] /\ \A l \in DOMAIN u : w[l] \in [DOMAIN u[l] -> Int]
      BY <2>2, <3>1
    <3>3. QED
      BY <2>1, <2>4, <3>2, Reshaped DEF Sent
  <2>5. QED
    BY <2>3, <2>4 DEF Sent
<1>4. ASSUME NEW value \in Int PROVE Filled(value) \in Updates
  <2>1. PICK w : w = Filled(value)
    OBVIOUS
  <2>2. w = [l \in DOMAIN Shape |-> [i \in DOMAIN Shape[l] |-> value]]
    BY <2>1, Zenon DEF Filled, Each
  <2>3. w = [l \in DOMAIN Shape |-> w[l]] /\ \A l \in DOMAIN Shape : w[l] \in [DOMAIN Shape[l] -> Int]
    BY <2>2
  <2>4. QED
    BY <2>1, <2>3, ShapeLemma, Reshaped
<1>5. Sybil(u, factor) \in Sent
  <2>1. CASE u = Diverged
    <3>1. Sybil(u, factor) = Filled(0)
      BY <2>1, Zenon DEF Sybil
    <3>2. Filled(0) \in Updates
      BY <1>4
    <3>3. QED
      BY <3>1, <3>2 DEF Sent
  <2>2. CASE u \in Updates
    <3>1. PICK w : w = Sybil(u, factor)
      OBVIOUS
    <3>2. u # Diverged
      BY <2>2, UpdatesLemma
    <3> DEFINE length(l) == IF Norm(u[l]) > Unit THEN Norm(u[l]) ELSE Unit
    <3>3. w = [l \in DOMAIN u |->
                  [i \in DOMAIN u[l] |-> (length(l) * factor * SharedDirection[l][i]) \div Unit]]
      BY <3>1, <3>2, Zenon DEF Sybil
    <3>4. ASSUME NEW l \in DOMAIN u PROVE length(l) \in Int
      <4>1. u[l] \in Vectors
        BY <2>2, UpdateFields
      <4>2. Norm(u[l]) \in Nat
        BY <4>1, NormLemma
      <4>3. QED
        BY <4>2, UnitAssumption
    <3> HIDE DEF length
    <3>5. SharedDirection \in Updates
      BY ScreeningAssumption
    <3>6. ASSUME NEW l \in DOMAIN u, NEW i \in DOMAIN u[l]
          PROVE  (length(l) * factor * SharedDirection[l][i]) \div Unit \in Int
      <4>1. l \in 1..Len(Shape) /\ i \in DOMAIN SharedDirection[l]
        BY <2>2, <3>5, UpdateFields
      <4>2. PICK x \in Int : x = SharedDirection[l][i]
        BY <3>5, <4>1, UpdateFields, VectorLemma
      <4>3. length(l) * factor * x \in Int
        BY <3>4
      <4>4. QED
        BY <4>2, <4>3, UnitAssumption
    <3>7. w = [l \in DOMAIN u |-> w[l]] /\ \A l \in DOMAIN u : w[l] \in [DOMAIN u[l] -> Int]
      BY <3>3, <3>6
    <3>8. QED
      BY <2>2, <3>1, <3>7, Reshaped DEF Sent
  <2>3. QED
    BY <2>1, <2>2 DEF Sent
<1>6. Noisy(u, factor) \in Sent
  <2>1. PICK w : w = Noisy(u, factor)
    OBVIOUS
  <2> DEFINE noise(l, i) == factor * (IF (l + i) % 2 = 0 THEN Unit ELSE -Unit)
  <2>2. w = [l \in DOMAIN u |-> [i \in DOMAIN u[l] |-> u[l][i] + noise(l, i)]]
    BY <2>1, Zenon DEF Noisy
  <2>3. \A l, i : noise(l, i) \in Int
    BY UnitAssumption
  <2> HIDE DEF noise
  <2>4. CASE u = Diverged
    BY <2>1, <2>2, <2>4, DivergedHasNoLayers DEF Sent
  <2>5. CASE u \in Updates
    <3>1. ASSUME NEW l \in DOMAIN u, NEW i \in DOMAIN u[l] PROVE u[l][i] + noise(l, i) \in Int
      <4>1. u[l][i] \in Int
        BY <2>5, UpdateFields, VectorLemma
      <4>2. QED
        BY <2>3, <4>1
    <3>2. w = [l \in DOMAIN u |-> w[l]] /\ \A l \in DOMAIN u : w[l] \in [DOMAIN u[l] -> Int]
      BY <2>2, <3>1
    <3>3. QED
      BY <2>1, <2>5, <3>2, Reshaped DEF Sent
  <2>6. QED
    BY <2>4, <2>5 DEF Sent
<1>7. Poisoned(u, attack) \in {Scaled(u, -10 * factor), Scaled(u, 10 * factor),
                               Scaled(u, -StealthTenths(factor)), Noisy(u, factor),
                               Filled(0), Filled(factor * Unit), Sybil(u, factor)}
  BY <1>1, <1>2, SMT DEF Poisoned, AttackKinds
<1>8. /\ -10 * factor \in Int /\ 10 * factor \in Int /\ -StealthTenths(factor) \in Int
      /\ 0 \in Int /\ factor * Unit \in Int
  BY UnitAssumption DEF StealthTenths
<1>9. Filled(0) \in Sent /\ Filled(factor * Unit) \in Sent
  BY <1>4, <1>8 DEF Sent
<1>10. QED
  BY <1>3, <1>5, <1>6, <1>7, <1>8, <1>9

-----------------------------------------------------------------------------
(* The invariant of a screened round.                                      *)

ScreenInv ==
    /\ SentinelInv
    /\ stage \in {"idle", "trained", "poisoned"}
    /\ stage # "idle" => round < MaxRounds /\ updates \in [Clients -> Sent]

\* What the firewall lets through has one shape.
LEMMA PeersShareShape ==
    ASSUME updates \in [Clients -> Sent]
    PROVE  OneShape(Peers)
<1>1. PICK peers : peers = Peers
  OBVIOUS
<1>2. /\ DOMAIN peers = { d \in Clients : Passes(d) }
      /\ \A c \in DOMAIN peers : peers[c] = updates[c]
  BY <1>1 DEF Peers
<1>3. \A c \in DOMAIN peers : peers[c] \in Updates
  BY <1>2 DEF Passes, Sent
<1>4. IsFiniteSet(DOMAIN peers)
  <2>1. DOMAIN peers \subseteq Clients
    BY <1>2
  <2>2. QED
    BY <2>1, ScreeningAssumption, FS_Subset
<1>5. QED
  BY <1>1, <1>3, <1>4, UpdatesLemma DEF OneShape

\* So every outcome of a screened round is one the engines are proved for.
LEMMA ScreenedOutcomes ==
    ASSUME updates \in [Clients -> Sent]
    PROVE  [c \in Clients |-> ScreenedOutcome(c)] \in [Clients -> Engine!Outcomes]
<1>1. PICK peers : peers = Peers /\ OneShape(peers)
  BY PeersShareShape
<1>2. ASSUME NEW c \in Clients PROVE ScreenedOutcome(c) \in Engine!Outcomes
  <2>1. CASE Passes(c)
    <3>1. c \in DOMAIN peers
      BY <1>1, <2>1 DEF Peers
    <3>2. Measured(peers, c) \in AllProfiles
      BY <1>1, <3>1, MeasuredIsAProfile
    <3>3. ScreenedOutcome(c) = [kind |-> "scored", profile |-> Measured(peers, c)]
      BY <1>1, <2>1, Zenon DEF ScreenedOutcome
    <3>4. QED
      BY <3>2, <3>3, Zenon DEF Engine!Outcomes
  <2>2. CASE ~Passes(c)
    BY <2>2, Zenon DEF ScreenedOutcome, Engine!Outcomes
  <2>3. QED
    BY <2>1, <2>2
<1>3. QED
  BY <1>2

\* Training keeps the invariant: what is trained has the run's shape or diverged.
LEMMA TrainKeepsInv == ASSUME ScreenInv, Train PROVE ScreenInv'
<1>1. /\ round' = round /\ client_states' = client_states /\ round_cache' = round_cache
      /\ round < MaxRounds /\ stage' = "trained"
      /\ updates' \in [Clients -> Trained \cup {Diverged}]
  BY DEF Train, sentinelVars
<1>2. Trained \cup {Diverged} \subseteq Sent
  BY ScreeningAssumption DEF Sent
<1>3. updates' \in [Clients -> Sent]
  BY <1>1, <1>2
<1>4. SentinelInv'
  BY <1>1 DEF ScreenInv, SentinelInv, StatesInv, CacheInv, CacheRemembered, MemoryRecorded, Recorded
<1>5. QED
  BY <1>1, <1>3, <1>4 DEF ScreenInv

\* So does the attack: poisoning keeps the shape of what it poisons.
LEMMA ApplyAttacksKeepsInv == ASSUME ScreenInv, ApplyAttacks PROVE ScreenInv'
<1>1. /\ round' = round /\ client_states' = client_states /\ round_cache' = round_cache
      /\ stage = "trained" /\ stage' = "poisoned"
  BY DEF ApplyAttacks, sentinelVars
<1>2. round < MaxRounds /\ updates \in [Clients -> Sent]
  BY <1>1 DEF ScreenInv
<1>3. PICK attackers \in SUBSET Clients, attack \in Attacks :
          updates' = [c \in Clients |-> IF c \in attackers THEN Poisoned(updates[c], attack)
                                        ELSE updates[c]]
  BY DEF ApplyAttacks
<1>4. \A c \in Clients : updates[c] \in Sent /\ Poisoned(updates[c], attack) \in Sent
  BY <1>2, PoisonedIsSent
<1>5. updates' \in [Clients -> Sent]
  BY <1>3, <1>4
<1>6. SentinelInv'
  BY <1>1 DEF ScreenInv, SentinelInv, StatesInv, CacheInv, CacheRemembered, MemoryRecorded, Recorded
<1>7. QED
  BY <1>1, <1>2, <1>5, <1>6 DEF ScreenInv

\* A screened round is a round of the engines, with outcomes of theirs.
LEMMA ScreenIsARound ==
    ASSUME ScreenInv, Screen
    PROVE  /\ round < MaxRounds /\ stage' = "idle"
           /\ \/ \E outcomes \in [Clients -> Engine!Outcomes] : DetectRound(outcomes)
              \/ AllRejected
<1>1. stage = "poisoned" /\ stage' = "idle"
  BY DEF Screen
<1>2. round < MaxRounds /\ updates \in [Clients -> Sent]
  BY <1>1 DEF ScreenInv
<1>3. DetectRound([c \in Clients |-> ScreenedOutcome(c)]) \/ AllRejected
  BY DEF Screen
<1>4. [c \in Clients |-> ScreenedOutcome(c)] \in [Clients -> Engine!Outcomes]
  BY <1>2, ScreenedOutcomes
<1>5. QED
  BY <1>1, <1>2, <1>3, <1>4

\* So does screening: what passes the firewall is measured within the profiles.
LEMMA ScreenKeepsInv == ASSUME ScreenInv, Screen PROVE ScreenInv'
<1>1. SentinelInv /\ round < MaxRounds /\ stage' = "idle"
  BY ScreenIsARound DEF ScreenInv
<1>2. SentinelInv'
  <2>1. CASE AllRejected
    BY <1>1, <2>1, AllRejectedKeepsInv
  <2>2. CASE ~AllRejected
    <3>1. PICK outcomes \in [Clients -> Engine!Outcomes] : DetectRound(outcomes)
      BY <2>2, ScreenIsARound
    <3>2. QED
      BY <1>1, <3>1, DetectKeepsInv
  <2>3. QED
    BY <2>1, <2>2
<1>3. QED
  BY <1>1, <1>2 DEF ScreenInv

\* So does every step of the composition.
LEMMA ScreenStepKeepsInv ==
    ASSUME ScreenInv, [ScreenNext]_screenVars
    PROVE  ScreenInv'
<1>1. CASE Train
  BY <1>1, TrainKeepsInv
<1>2. CASE ApplyAttacks
  BY <1>2, ApplyAttacksKeepsInv
<1>3. CASE Screen
  BY <1>3, ScreenKeepsInv
<1>4. CASE UNCHANGED screenVars
  BY <1>4 DEF screenVars, ScreenInv, SentinelInv, StatesInv, CacheInv, CacheRemembered,
              MemoryRecorded, Recorded
<1>5. QED
  BY <1>1, <1>2, <1>3, <1>4 DEF ScreenNext

\* The composition starts in the invariant.
LEMMA ScreenInitInv == ScreenInit => ScreenInv
BY EmptyInv DEF ScreenInit, SentinelInit, ScreenInv

\* In every run of the composition, with any updates of the clients' shape and any
\* attack of the registry, each update sent has the run's shape or diverged, and the
\* Sentinel's records satisfy the invariant of its engines.
THEOREM ScreenInvariant == ScreenSpec => []ScreenInv
<1>1. QED
  BY ScreenInitInv, ScreenStepKeepsInv, PTL DEF ScreenSpec

-----------------------------------------------------------------------------
(* The engine of the refinement computes what this one computes.           *)

LEMMA SameArithmetic ==
    /\ \A x, low, high : Engine!Clipped(x, low, high) = Clipped(x, low, high)
    /\ \A s : Engine!Total(s) = Total(s)
    /\ \A n : Engine!ISqrt(n) = ISqrt(n)
    /\ \A s : Engine!Last(s) = Last(s)
    /\ Engine!Whole = Whole
    /\ Engine!ThreatTenth = ThreatTenth /\ Engine!ImpactTenth = ImpactTenth
<1>1. ASSUME NEW x, NEW low, NEW high PROVE Engine!Clipped(x, low, high) = Clipped(x, low, high)
  BY DEF Clipped, Engine!Clipped
<1>2. ASSUME NEW s PROVE Engine!Total(s) = Total(s)
  BY Zenon DEF Total, Engine!Total, FoldLeft, Engine!FoldLeft, MapThenFoldSet,
               Engine!MapThenFoldSet, Max, Engine!Max
<1>3. ASSUME NEW n PROVE Engine!ISqrt(n) = ISqrt(n)
  BY Zenon DEF ISqrt, Engine!ISqrt
<1>4. ASSUME NEW s PROVE Engine!Last(s) = Last(s)
  BY Zenon DEF Last, Engine!Last
<1>5. /\ Engine!Whole = Whole
      /\ Engine!ThreatTenth = ThreatTenth /\ Engine!ImpactTenth = ImpactTenth
  BY SMT DEF Whole, Engine!Whole, ThreatTenth, Engine!ThreatTenth, ImpactTenth, Engine!ImpactTenth
<1>6. QED
  BY <1>1, <1>2, <1>3, <1>4, <1>5, Zenon

\* The deviation of the engines under any profile is the screening's.
LEMMA SameDeviation == ASSUME NEW s PROVE Engine!Deviation(s) = Deviation(s)
<1>1. Engine!ScatterOf(s) = ScatterOf(s)
  BY SameArithmetic, Zenon DEF ScatterOf, Engine!ScatterOf, TotalOf, Engine!TotalOf
<1>2. QED
  BY <1>1, SameArithmetic, Zenon DEF Deviation, Engine!Deviation

\* So are the anomaly score, the client's state and the update of its reputation.
LEMMA SameReputation ==
    /\ \A p : Engine!AnomalyScore(p) = AnomalyScore(p)
    /\ \A states, c : Engine!StateOf(states, c) = StateOf(states, c)
    /\ \A state, r : Engine!InOrder(state, r) <=> InOrder(state, r)
    /\ \A state, r, a : Engine!UpdateReputation(state, r, a) = UpdateReputation(state, r, a)
<1>1. \A p : Engine!AnomalyScore(p) = AnomalyScore(p)
  BY Zenon DEF AnomalyScore, Engine!AnomalyScore
<1>2. \A states, c : Engine!StateOf(states, c) = StateOf(states, c)
  BY SameArithmetic, Zenon DEF StateOf, Engine!StateOf, NewState, Engine!NewState
<1>3. \A state, r : Engine!InOrder(state, r) <=> InOrder(state, r)
  BY SameArithmetic, Zenon DEF InOrder, Engine!InOrder
<1>4. ASSUME NEW a PROVE Engine!ReputationDelta(a) = ReputationDelta(a)
  BY SMT DEF ReputationDelta, Engine!ReputationDelta
<1>5. ASSUME NEW state, NEW r, NEW a
      PROVE  Engine!UpdateReputation(state, r, a) = UpdateReputation(state, r, a)
  BY <1>4, SameArithmetic, Zenon DEF UpdateReputation, Engine!UpdateReputation
<1>6. QED
  BY <1>1, <1>2, <1>3, <1>5, Zenon

\* So are the consistency and the confidence.
LEMMA SameConfidence ==
    ASSUME NEW state
    PROVE  /\ Engine!Consistency(state) = Consistency(state)
           /\ Engine!Confidence(state) = Confidence(state)
<1>1. Engine!HistoryWindow = HistoryWindow
  BY DEF HistoryWindow, Engine!HistoryWindow
<1>2. Engine!Consistency(state) = Consistency(state)
  BY <1>1, SameArithmetic, SameDeviation, Zenon DEF Consistency, Engine!Consistency
<1>3. QED
  BY <1>2, SameArithmetic, Zenon DEF Confidence, Engine!Confidence

\* So are the threat and impact scores and the risk of the history.
LEMMA SameScores ==
    /\ \A state, a, s : Engine!ThreatScore(state, a, s) = ThreatScore(state, a, s)
    /\ \A p, state, t, k : Engine!ImpactScore(p, state, t, k) = ImpactScore(p, state, t, k)
    /\ \A state : Engine!HistoricalDamageRisk(state) = HistoricalDamageRisk(state)
<1>1. ASSUME NEW state PROVE Engine!HistoricalDamageRisk(state) = HistoricalDamageRisk(state)
  BY DEF HistoricalDamageRisk, Engine!HistoricalDamageRisk
<1>2. ASSUME NEW state, NEW a, NEW s
      PROVE  Engine!ThreatScore(state, a, s) = ThreatScore(state, a, s)
  BY <1>1, SameArithmetic, SMT DEF ThreatScore, Engine!ThreatScore
<1>3. ASSUME NEW p, NEW state, NEW t, NEW k
      PROVE  Engine!ImpactScore(p, state, t, k) = ImpactScore(p, state, t, k)
  BY <1>1, SameArithmetic, SMT DEF ImpactScore, Engine!ImpactScore
<1>4. QED
  BY <1>1, <1>2, <1>3, Zenon

\* So are the policy, its confidence, the recovery plan and the recorded action and level.
LEMMA SameVerdicts ==
    /\ \A t, i, k : Engine!Policy(t, i, k) = Policy(t, i, k)
    /\ \A state, t, k : Engine!DecisionConfidence(state, t, k) = DecisionConfidence(state, t, k)
    /\ \A d, t, i, k, risk : Engine!RecoveryPlan(d, t, i, k, risk) = RecoveryPlan(d, t, i, k, risk)
    /\ \A d : Engine!MappedAction(d) = MappedAction(d)
    /\ \A t : Engine!ThreatLevel(t) = ThreatLevel(t)
    /\ \A action, level : Engine!RecordedLevel(action, level) = RecordedLevel(action, level)
    /\ \A i : Engine!ImpactLevel(i) = ImpactLevel(i)
<1>1. ASSUME NEW t, NEW i, NEW k PROVE Engine!Policy(t, i, k) = Policy(t, i, k)
  BY SameArithmetic, SMT DEF Policy, Engine!Policy
<1>2. ASSUME NEW state, NEW t, NEW k
      PROVE  Engine!DecisionConfidence(state, t, k) = DecisionConfidence(state, t, k)
  BY SameConfidence, SMT DEF DecisionConfidence, Engine!DecisionConfidence
<1>3. ASSUME NEW d, NEW t, NEW i, NEW k, NEW risk
      PROVE  Engine!RecoveryPlan(d, t, i, k, risk) = RecoveryPlan(d, t, i, k, risk)
  BY SameArithmetic, SMT DEF RecoveryPlan, Engine!RecoveryPlan
<1>4. ASSUME NEW d PROVE Engine!MappedAction(d) = MappedAction(d)
  BY Zenon DEF MappedAction, Engine!MappedAction
<1>5. ASSUME NEW t PROVE Engine!ThreatLevel(t) = ThreatLevel(t)
  BY SameArithmetic, SMT DEF ThreatLevel, Engine!ThreatLevel
<1>6. ASSUME NEW action, NEW level
      PROVE  Engine!RecordedLevel(action, level) = RecordedLevel(action, level)
  BY Zenon DEF RecordedLevel, Engine!RecordedLevel
<1>7. ASSUME NEW i PROVE Engine!ImpactLevel(i) = ImpactLevel(i)
  BY SameArithmetic, SMT DEF ImpactLevel, Engine!ImpactLevel
<1>8. QED
  BY <1>1, <1>2, <1>3, <1>4, <1>5, <1>6, <1>7, Zenon

\* So are the result and the state a round leaves behind.
LEMMA SameResults ==
    /\ \A p, state : Engine!ScoredResult(p, state) = ScoredResult(p, state)
    /\ \A r, c, o : Engine!StateAfter(r, c, o) = StateAfter(r, c, o)
    /\ \A r, c, o : Engine!ResultOf(r, c, o) = ResultOf(r, c, o)
<1>1. ASSUME NEW p, NEW state PROVE Engine!ScoredResult(p, state) = ScoredResult(p, state)
  <2>1. PICK anomaly : anomaly = AnomalyScore(p) /\ Engine!AnomalyScore(p) = anomaly
    BY SameReputation
  <2>2. PICK risk : risk = HistoricalDamageRisk(state) /\ Engine!HistoricalDamageRisk(state) = risk
    BY SameScores
  <2>3. PICK threat : /\ threat = ThreatScore(state, anomaly, p.similarity)
                      /\ Engine!ThreatScore(state, anomaly, p.similarity) = threat
    BY SameScores
  <2>4. PICK impact : /\ impact = ImpactScore(p, state, threat, Confidence(state))
                      /\ Engine!ImpactScore(p, state, threat, Engine!Confidence(state)) = impact
    BY SameScores, SameConfidence
  <2>5. PICK decision : /\ decision = Policy(threat, impact, risk)
                        /\ Engine!Policy(threat, impact, risk) = decision
    BY SameVerdicts
  <2>6. PICK action : action = MappedAction(decision) /\ Engine!MappedAction(decision) = action
    BY SameVerdicts
  <2>7. Engine!DecisionConfidence(state, threat, risk) = DecisionConfidence(state, threat, risk)
    BY SameVerdicts
  <2>8. PICK plan :
            /\ plan = RecoveryPlan(decision, threat, impact,
                                   DecisionConfidence(state, threat, risk), risk)
            /\ Engine!RecoveryPlan(decision, threat, impact,
                                   Engine!DecisionConfidence(state, threat, risk), risk) = plan
    BY <2>7, SameVerdicts
  <2>9. Engine!RecordedLevel(action, Engine!ThreatLevel(threat))
            = RecordedLevel(action, ThreatLevel(threat))
    BY SameVerdicts
  <2>10. Engine!ImpactLevel(impact) = ImpactLevel(impact)
    BY SameVerdicts
  <2>11. ScoredResult(p, state)
             = [status |-> "SUCCESS", anomaly |-> anomaly,
                evidence |-> 400 * anomaly + 200 * p.similarity, decision |-> decision,
                plan |-> plan, action |-> action,
                threat_level |-> RecordedLevel(action, ThreatLevel(threat)),
                impact_level |-> ImpactLevel(impact)]
    BY <2>1, <2>2, <2>3, <2>4, <2>5, <2>6, <2>8, SMT DEF ScoredResult
  <2>12. Engine!ScoredResult(p, state)
             = [status |-> "SUCCESS", anomaly |-> anomaly,
                evidence |-> 400 * anomaly + 200 * p.similarity, decision |-> decision,
                plan |-> plan, action |-> action,
                threat_level |-> RecordedLevel(action, ThreatLevel(threat)),
                impact_level |-> ImpactLevel(impact)]
    BY <2>1, <2>2, <2>3, <2>4, <2>5, <2>6, <2>8, <2>9, <2>10, SMT DEF Engine!ScoredResult
  <2>13. QED
    BY <2>11, <2>12
<1>2. ASSUME NEW r, NEW c, NEW o PROVE Engine!StateAfter(r, c, o) = StateAfter(r, c, o)
  BY SameReputation, Zenon DEF StateAfter, Engine!StateAfter
<1>3. ASSUME NEW r, NEW c, NEW o PROVE Engine!ResultOf(r, c, o) = ResultOf(r, c, o)
  BY <1>1, <1>2, SameReputation, Zenon
     DEF ResultOf, Engine!ResultOf, FailedResult, Engine!FailedResult
<1>4. QED
  BY <1>1, <1>2, <1>3, Zenon

\* A round of detection is the same step in both specifications.
LEMMA SameRound == ASSUME NEW outcomes PROVE Engine!DetectRound(outcomes) <=> DetectRound(outcomes)
<1>1. \A r : Engine!Learn(r, outcomes) <=> Learn(r, outcomes)
  BY SameReputation, SameResults, Zenon DEF Learn, Engine!Learn
<1>2. QED
  BY <1>1, SameResults, Zenon DEF DetectRound, Engine!DetectRound

\* A screened round behaves like the engines given any profile at all: training and
\* attacks are invisible to them, and a round that is screened is one of theirs, with
\* the results, the reputations and the cache that the measured profiles give
\* (validate_updates, then P3SentinelAdapter.detect).
THEOREM ScreeningImplementsSentinel == ScreenSpec => Engine!SentinelSpec
<1>1. ScreenInit => Engine!SentinelInit
  BY DEF ScreenInit, SentinelInit, Engine!SentinelInit
<1>2. ASSUME ScreenInv, [ScreenNext]_screenVars
      PROVE  [Engine!SentinelNext]_(Engine!sentinelVars)
  <2>1. CASE Train \/ ApplyAttacks \/ UNCHANGED screenVars
    <3>1. /\ round' = round /\ client_states' = client_states /\ round_cache' = round_cache
      BY <2>1 DEF Train, ApplyAttacks, screenVars, sentinelVars
    <3>2. QED
      BY <3>1 DEF Engine!sentinelVars
  <2>2. CASE Screen
    <3>1. CASE AllRejected
      <4>1. Engine!AllRejected
        BY <3>1 DEF AllRejected, Engine!AllRejected
      <4>2. QED
        BY <4>1 DEF Engine!SentinelNext
    <3>2. CASE ~AllRejected
      <4>1. PICK outcomes \in [Clients -> Engine!Outcomes] : DetectRound(outcomes)
        BY <1>2, <2>2, <3>2, ScreenIsARound
      <4>2. Engine!DetectRound(outcomes)
        BY <4>1, SameRound
      <4>3. round < MaxRounds
        BY <1>2, <2>2, ScreenIsARound
      <4>4. Engine!Detect
        BY <4>2, <4>3 DEF Engine!Detect
      <4>5. QED
        BY <4>4 DEF Engine!SentinelNext
    <3>3. QED
      BY <3>1, <3>2
  <2>3. QED
    BY <1>2, <2>1, <2>2 DEF ScreenNext
<1>3. QED
  BY <1>1, <1>2, ScreenInvariant, PTL DEF ScreenSpec, Engine!SentinelSpec

-----------------------------------------------------------------------------
(* What the measurement of an update means for its verdict.                *)

\* What is cached for an update the firewall lets through: the result of its measured
\* profile, whatever the client did before.
LEMMA ScreenedRound ==
    ASSUME ScreenInv, Screen, NEW c \in Clients, Passes(c)
    PROVE  /\ DOMAIN round_cache' = DOMAIN round_cache \cup {round + 1}
           /\ \A q \in DOMAIN round_cache : q # round + 1 => round_cache'[q] = round_cache[q]
           /\ DOMAIN round_cache'[round + 1] = { d \in Clients : Passes(d) }
           /\ OneShape(Peers) /\ c \in DOMAIN Peers /\ Measured(Peers, c) \in AllProfiles
           /\ \E state : /\ ScoredState(state)
                         /\ round_cache'[round + 1][c] = ScoredResult(Measured(Peers, c), state)
<1> DEFINE outcomes == [d \in Clients |-> ScreenedOutcome(d)]
           judged == { d \in Clients : outcomes[d].kind # "rejected" }
<1>1. DetectRound(outcomes)
  BY DEF Screen
<1>2. PICK r \in 1..MaxRounds : r = round + 1 /\ r - 1 = round
  <2>1. round < MaxRounds /\ round \in 0..MaxRounds
    BY ScreenIsARound DEF ScreenInv, SentinelInv
  <2>2. QED
    BY <2>1, SentinelAssumption
<1>3. round_cache' = [q \in DOMAIN round_cache \cup {r} |->
                         IF q # r THEN round_cache[q]
                         ELSE [d \in judged |-> ResultOf(r, d, outcomes[d])]]
  BY <1>1, <1>2, Zenon DEF DetectRound
<1>4. judged = { d \in Clients : Passes(d) }
  <2>1. ASSUME NEW d \in Clients PROVE outcomes[d].kind # "rejected" <=> Passes(d)
    BY SMT DEF ScreenedOutcome
  <2>2. QED
    BY <2>1
<1> HIDE DEF judged
<1>5. PICK peers : peers = Peers
  OBVIOUS
<1>6. OneShape(peers) /\ c \in DOMAIN peers
  <2>1. OneShape(Peers)
    BY PeersShareShape, ScreenIsARound DEF ScreenInv, Screen
  <2>2. QED
    BY <1>5, <2>1 DEF Peers
<1>7. PICK p \in AllProfiles : p = Measured(peers, c)
  BY <1>6, MeasuredIsAProfile
<1>8. outcomes[c] = [kind |-> "scored", profile |-> p]
  BY <1>5, <1>7, Zenon DEF ScreenedOutcome
<1>9. outcomes[c].kind = "scored" /\ outcomes[c].profile = p
  BY <1>8
<1> HIDE DEF outcomes
<1>10. StateInv(StateOf(client_states, c), r - 1)
  BY <1>2, StateOfInv DEF ScreenInv
<1>11. InOrder(StateOf(client_states, c), r)
  <2>1. round \in 0..(MaxRounds - 1)
    BY <1>2, SentinelAssumption
  <2>2. QED
    BY <1>2, <1>10, <2>1, NextRoundInOrder
<1>12. ResultOf(r, c, outcomes[c]) = ScoredResult(p, StateAfter(r, c, outcomes[c]))
  BY <1>9, <1>11, SMT DEF ResultOf
<1>13. ScoredState(StateAfter(r, c, outcomes[c]))
  <2>1. PICK anomaly \in Scores : anomaly = AnomalyScore(p)
    BY AnomalyRange
  <2>2. StateAfter(r, c, outcomes[c]) = UpdateReputation(StateOf(client_states, c), r, anomaly)
    BY <1>9, <2>1, Zenon DEF StateAfter
  <2>3. PICK state : state = StateOf(client_states, c)
    OBVIOUS
  <2>4. QED
    BY <1>10, <2>2, <2>3, LearnedState
<1>14. /\ DOMAIN round_cache' = DOMAIN round_cache \cup {r}
       /\ \A q \in DOMAIN round_cache : q # r => round_cache'[q] = round_cache[q]
       /\ DOMAIN round_cache'[r] = judged
       /\ round_cache'[r][c] = ResultOf(r, c, outcomes[c])
  BY <1>3, <1>4
<1>15. QED
  BY <1>2, <1>4, <1>5, <1>6, <1>7, <1>12, <1>13, <1>14

-----------------------------------------------------------------------------
(* The round of a lone survivor.                                           *)

\* The only update the firewall leaves in a round is measured against itself: whatever
\* the client sent, and however bad its reputation is, it is not quarantined and its
\* reputation does not decay (_build_single_client_output, the median of one norm).
LoneIsNotQuarantined ==
    \A r \in DOMAIN round_cache : \A c \in DOMAIN round_cache[r] :
        DOMAIN round_cache[r] = {c} =>
            round_cache[r][c].anomaly < 500 /\ round_cache[r][c].action # "QUARANTINE"

\* Of itself, a norm is no distance away, and the similarity is a fixed answer.
LEMMA LoneMeasured ==
    ASSUME NEW peers, OneShape(peers), NEW c, DOMAIN peers = {c}
    PROVE  Measured(peers, c).magnitude = 0 /\ Measured(peers, c).similarity = 166
<1>1. MagnitudeSignal(peers, c) = 0
  <2> DEFINE norms == [d \in DOMAIN peers |-> Norm(Flat(peers[d]))]
  <2>1. PICK norm \in Nat : norm = Norm(Flat(peers[c]))
    BY PeerFlat, NormLemma
  <2>2. norms \in [{c} -> Int] /\ norms[c] = norm
    BY <2>1
  <2>3. MagnitudeSignal(peers, c)
            = Saturating(Abs(Norm(Flat(peers[c])) - Median(norms)), Median(norms))
    BY Zenon DEF MagnitudeSignal
  <2> HIDE DEF norms
  <2>4. IsFiniteSet({c}) /\ {c} # {}
    BY FS_Singleton
  <2>5. \E x, y \in {c} : Median(norms) = (norms[x] + norms[y]) \div 2
    BY <2>2, <2>4, MedianLemma
  <2>6. Median(norms) = norm
    BY <2>1, <2>2, <2>5
  <2>7. Abs(norm - norm) = 0
    BY DEF Abs
  <2>8. QED
    BY <2>1, <2>3, <2>6, <2>7 DEF Saturating
<1>2. SimilaritySignal(peers, c) = 166
  <2>1. PICK s : s = PeerSimilarity(peers, c)
    OBVIOUS
  <2>2. s = LoneClient
    BY <2>1, Zenon DEF PeerSimilarity
  <2>3. /\ s.average_similarity = 0 /\ s.consensus_score = 1000
        /\ s.normalized_cluster_distance = 0
    BY <2>2, SMT DEF LoneClient
  <2>4. Saturating(0, 1000) = 0
    BY DEF Saturating
  <2>5. QED
    BY <2>1, <2>3, <2>4, SMT DEF SimilaritySignal
<1>3. QED
  BY <1>1, <1>2, SMT DEF Measured

\* Without a peer and with the neutral similarity no score reaches half.
LEMMA LoneVerdict ==
    ASSUME NEW p \in AllProfiles, p.magnitude = 0, p.similarity = 166,
           NEW state, ScoredState(state)
    PROVE  ScoredResult(p, state).anomaly < 500 /\ ScoredResult(p, state).action # "QUARANTINE"
<1>1. PICK anomaly \in Int : anomaly = AnomalyScore(p) /\ 0 <= anomaly /\ anomaly <= 237
  <2>1. AnomalyScore(p) \in Int /\ 0 <= AnomalyScore(p)
    BY AnomalyRange
  <2>2. AnomalyScore(p) <= 237
    BY SignalBounds DEF AnomalyScore
  <2>3. QED
    BY <2>1, <2>2
<1>2. PICK threat \in Int : /\ threat = ThreatScore(state, anomaly, p.similarity)
                            /\ threat <= 2568000
  <2>1. PICK reputation \in Int : /\ reputation = state.reputation_score
                                  /\ 0 <= reputation /\ reputation <= 1000000
    BY RangeBounds DEF ScoredState
  <2>2. PICK doubt \in Int : doubt = (Whole - reputation) \div 10 /\ doubt <= 100000
    BY <2>1 DEF Whole
  <2>3. PICK weighted \in Int : /\ weighted = 6 * (400 * anomaly + 3 * doubt + 200 * 166)
                                /\ weighted <= 2568000
    BY <1>1, <2>2
  <2>4. PICK evidence \in Int : /\ evidence = 10 * (400 * anomaly + 200 * 166)
                                /\ evidence <= 2568000
    BY <1>1
  <2>5. ThreatScore(state, anomaly, p.similarity)
            = IF evidence > weighted THEN evidence ELSE weighted
    BY <2>1, <2>2, <2>3, <2>4 DEF ThreatScore, HistoricalDamageRisk
  <2>6. QED
    BY <2>3, <2>4, <2>5
<1>3. PICK impact \in Int : /\ impact = ImpactScore(p, state, threat, Confidence(state))
                            /\ impact <= 330000000
  BY ConfidenceRange, ImpactRange
<1>4. Policy(threat, impact, 0) \in {"FLAG", "MONITOR", "ACCEPT"}
  BY <1>2, <1>3 DEF Policy, ThreatTenth, ImpactTenth, Whole
<1>5. MappedAction(Policy(threat, impact, 0)) # "QUARANTINE"
  BY <1>4 DEF MappedAction
<1>6. /\ ScoredResult(p, state).anomaly = anomaly
      /\ ScoredResult(p, state).action = MappedAction(Policy(threat, impact, 0))
  BY <1>1, <1>2, <1>3, SMT DEF ScoredResult, HistoricalDamageRisk
<1>7. QED
  BY <1>1, <1>5, <1>6

\* A round that is screened keeps it: earlier rounds are not touched.
LEMMA ScreenKeepsLone ==
    ASSUME ScreenInv, Screen, LoneIsNotQuarantined
    PROVE  LoneIsNotQuarantined'
<1>1. CASE \A c \in Clients : ~Passes(c)
  <2>1. round_cache' = round_cache
    BY <1>1 DEF Screen, AllRejected
  <2>2. QED
    BY <2>1 DEF LoneIsNotQuarantined
<1>2. ASSUME NEW someone \in Clients, Passes(someone) PROVE LoneIsNotQuarantined'
  <2>1. ASSUME NEW q \in DOMAIN round_cache', NEW c \in DOMAIN round_cache'[q],
               DOMAIN round_cache'[q] = {c}
        PROVE  round_cache'[q][c].anomaly < 500 /\ round_cache'[q][c].action # "QUARANTINE"
    <3>1. CASE q = round + 1
      <4>1. c \in Clients /\ Passes(c) /\ { d \in Clients : Passes(d) } = {c}
        BY <1>2, <2>1, <3>1, ScreenedRound
      <4>2. PICK peers : peers = Peers /\ DOMAIN peers = {c}
        <5>1. DOMAIN Peers = { d \in Clients : Passes(d) }
          BY DEF Peers
        <5>2. QED
          BY <4>1, <5>1
      <4>3. OneShape(peers) /\ Measured(peers, c) \in AllProfiles
        BY <4>1, <4>2, ScreenedRound
      <4>4. PICK state : /\ ScoredState(state)
                         /\ round_cache'[q][c] = ScoredResult(Measured(peers, c), state)
        BY <3>1, <4>1, <4>2, ScreenedRound
      <4>5. QED
        BY <4>2, <4>3, <4>4, LoneMeasured, LoneVerdict
    <3>2. CASE q # round + 1
      <4>1. q \in DOMAIN round_cache /\ round_cache'[q] = round_cache[q]
        BY <1>2, <2>1, <3>2, ScreenedRound
      <4>2. QED
        BY <2>1, <4>1 DEF LoneIsNotQuarantined
    <3>3. QED
      BY <3>1, <3>2
  <2>2. QED
    BY <2>1 DEF LoneIsNotQuarantined
<1>3. QED
  BY <1>1, <1>2

\* When the firewall leaves one client with the Sentinel, an attacker perhaps, nothing
\* that it sends ever gets it quarantined or counted as an offence of its reputation
\* (compute_similarity's answer without a peer, compute_anomaly, update_reputation).
THEOREM LoneSurvivorPasses == ScreenSpec => []LoneIsNotQuarantined
<1>1. ScreenInit => LoneIsNotQuarantined
  <2> SUFFICES ASSUME ScreenInit PROVE LoneIsNotQuarantined
    OBVIOUS
  <2>1. DOMAIN round_cache = {}
    BY DEF ScreenInit, SentinelInit
  <2>2. QED
    BY <2>1 DEF LoneIsNotQuarantined
<1>2. ASSUME ScreenInv, LoneIsNotQuarantined, [ScreenNext]_screenVars
      PROVE  LoneIsNotQuarantined'
  <2>1. CASE Train \/ ApplyAttacks \/ UNCHANGED screenVars
    <3>1. round_cache' = round_cache
      BY <2>1 DEF Train, ApplyAttacks, screenVars, sentinelVars
    <3>2. QED
      BY <1>2, <3>1 DEF LoneIsNotQuarantined
  <2>2. CASE Screen
    BY <1>2, <2>2, ScreenKeepsLone
  <2>3. QED
    BY <1>2, <2>1, <2>2 DEF ScreenNext
<1>3. QED
  BY <1>1, <1>2, ScreenInvariant, PTL DEF ScreenSpec

-----------------------------------------------------------------------------
(* Updates that are not trusted.                                           *)

\* Evidence of 0.3, in the units of the anomaly and the similarity.
Flagging(anomaly, similarity) == 400 * anomaly + 200 * similarity >= 180000

\* An anomaly and a dissimilarity that flag an update put its threat above three tenths.
LEMMA FlaggingThreat ==
    ASSUME NEW state, ScoredState(state), NEW anomaly \in Int, 0 <= anomaly,
           NEW similarity \in Int, 0 <= similarity, Flagging(anomaly, similarity)
    PROVE  /\ ThreatScore(state, anomaly, similarity) \in Int
           /\ ThreatScore(state, anomaly, similarity) >= 3 * ThreatTenth
<1>1. /\ ThreatScore(state, anomaly, similarity) \in Int
      /\ ThreatScore(state, anomaly, similarity) >= 10 * (400 * anomaly + 200 * similarity)
  BY ThreatFloor
<1>2. 400 * anomaly + 200 * similarity >= 180000
  BY DEF Flagging
<1>3. QED
  BY <1>1, <1>2, SMT DEF ThreatTenth, Whole

\* Evidence of 0.3 in the update itself keeps it from full weight.
LEMMA EvidenceFlags ==
    ASSUME NEW p \in AllProfiles, NEW state, ScoredState(state),
           Flagging(AnomalyScore(p), p.similarity)
    PROVE  ScoredResult(p, state).action # "ACCEPT"
<1>1. PICK anomaly : anomaly = AnomalyScore(p)
  OBVIOUS
<1>2. PICK threat \in Int : /\ threat = ThreatScore(state, anomaly, p.similarity)
                            /\ threat >= 3 * ThreatTenth
  <2>1. anomaly \in Int /\ 0 <= anomaly
    BY <1>1, AnomalyRange
  <2>2. p.similarity \in Int /\ 0 <= p.similarity
    BY SignalBounds
  <2>3. Flagging(anomaly, p.similarity)
    BY <1>1
  <2>4. /\ ThreatScore(state, anomaly, p.similarity) \in Int
        /\ ThreatScore(state, anomaly, p.similarity) >= 3 * ThreatTenth
    BY <2>1, <2>2, <2>3, FlaggingThreat, Zenon
  <2>5. QED
    BY <2>4
<1>3. PICK impact \in Int : /\ impact = ImpactScore(p, state, threat, Confidence(state))
                            /\ impact <= 330000000
  BY ConfidenceRange, ImpactRange
<1>4. Policy(threat, impact, 0) \in {"QUARANTINE", "FLAG", "MONITOR"}
  BY <1>2, <1>3 DEF Policy, ThreatTenth, ImpactTenth, Whole
<1>5. MappedAction(Policy(threat, impact, 0)) # "ACCEPT"
  BY <1>4 DEF MappedAction
<1>6. ScoredResult(p, state).action = MappedAction(Policy(threat, impact, 0))
  BY <1>1, <1>2, <1>3, SMT DEF ScoredResult, HistoricalDamageRisk
<1>7. QED
  BY <1>5, <1>6

\* An update whose cosine to its peers is -0.7 or less on average is not taken at full
\* weight, alone or with accomplices, however good its client's reputation is
\* (_compute_similarity_anomaly, compute_threat's evidence floor).
OppositeIsNotTrusted ==
    \A c \in Clients :
        Passes(c) /\ DOMAIN Peers # {c} /\ AverageSimilarity(Peers, c) <= -700
            => round_cache'[round + 1][c].action # "ACCEPT"

\* Nor is an update of zeros, while half of the round has a norm and the updates do not
\* cancel out (_compute_magnitude_anomaly, the cosine of a zero vector).
ZeroIsNotTrusted ==
    \A c \in Clients :
        /\ Passes(c) /\ IsZero(Flat(updates[c]))
        /\ ~IsZero(Centroid(Peers))
        /\ Median([d \in DOMAIN Peers |-> Norm(Flat(Peers[d]))]) # 0
        => round_cache'[round + 1][c].action # "ACCEPT"

\* An update opposed to the others has a similarity signal of .566 at least.
LEMMA OppositeSimilarity ==
    ASSUME NEW peers, OneShape(peers), NEW c \in DOMAIN peers, DOMAIN peers # {c},
           AverageSimilarity(peers, c) <= -700
    PROVE  SimilaritySignal(peers, c) \in Int /\ SimilaritySignal(peers, c) >= 566
<1>1. PICK average \in Int : average = AverageSimilarity(peers, c) /\ average <= -700
  BY AverageSimilarityRange
<1>2. PICK distance \in Nat : distance = CentroidDistance(peers, c)
  BY CentroidDistanceRange
<1>3. PICK s : s = PeerSimilarity(peers, c)
  OBVIOUS
<1>4. s = [average_similarity |-> average, consensus_score |-> (average + 1000) \div 2,
           normalized_cluster_distance |-> distance]
  BY <1>1, <1>2, <1>3, SMT DEF PeerSimilarity
<1>5. PICK consensus \in Int : consensus = (average + 1000) \div 2 /\ consensus <= 150
  BY <1>1
<1>6. PICK inverse \in Int : inverse = (1000 - average) \div 2 /\ inverse >= 850
  BY <1>1
<1>7. PICK far \in Int : far = Saturating(distance, 1000) /\ 0 <= far
  <2>1. PICK k \in Nat : k = 1000
    OBVIOUS
  <2>2. Saturating(distance, k) \in Int /\ 0 <= Saturating(distance, k)
    BY SaturatingLemma
  <2>3. QED
    BY <2>1, <2>2
<1>8. /\ s.average_similarity = average /\ s.consensus_score = consensus
      /\ s.normalized_cluster_distance = distance
  BY <1>4, <1>5
<1>9. SimilaritySignal(peers, c) = (1000 - consensus + inverse + far) \div 3
  BY <1>3, <1>6, <1>7, <1>8 DEF SimilaritySignal
<1>10. QED
  BY <1>5, <1>6, <1>7, <1>9

\* An opposed update, or an odd one of odd magnitude, is flagged.
LEMMA FlaggedByMeasure ==
    ASSUME NEW p \in AllProfiles,
           p.similarity >= 566 \/ (p.similarity >= 500 /\ p.magnitude >= 500)
    PROVE  Flagging(AnomalyScore(p), p.similarity)
<1>1. PICK m \in Int, d \in Int, s \in Int :
          /\ m = p.magnitude /\ 0 <= m /\ d = p.distribution /\ 0 <= d /\ s = p.similarity /\ 0 <= s
          /\ s >= 566 \/ (s >= 500 /\ m >= 500)
          /\ p.sparsity = 0
  BY SignalBounds
<1>2. PICK anomaly \in Int : anomaly = (30 * m + 25 * d + 30 * s + 15 * 0) \div 100
  OBVIOUS
<1>3. 400 * anomaly + 200 * s >= 180000
  <2>1. s >= 566 => anomaly >= 169
    BY <1>1, <1>2
  <2>2. s >= 500 /\ m >= 500 => anomaly >= 300
    BY <1>1, <1>2
  <2>3. QED
    BY <1>1, <1>2, <2>1, <2>2
<1>4. AnomalyScore(p) = anomaly
  BY <1>1, <1>2 DEF AnomalyScore
<1>5. QED
  BY <1>1, <1>3, <1>4 DEF Flagging

\* A zero vector has no length and is orthogonal to everything.
LEMMA ZeroVector ==
    ASSUME NEW v \in Vectors, IsZero(v)
    PROVE  /\ Norm(v) = 0
           /\ \A w \in Vectors : Len(w) = Len(v) => Cosine(v, w) = 0
<1>1. /\ Len(v) \in Nat /\ Len(v) >= 1 /\ DOMAIN v = 1..Len(v)
      /\ \A i \in 1..Len(v) : v[i] \in Int
  BY VectorLemma
<1>2. \A i \in 1..Len(v) : v[i] = 0
  <2> DEFINE f == [i \in 1..Len(v) |-> Abs(v[i])]
             V == { f[i] : i \in 1..Len(v) }
  <2>1. DOMAIN f = 1..Len(v) /\ \A i \in 1..Len(v) : f[i] \in Nat /\ f[i] = Abs(v[i])
    BY <1>1, AbsLemma
  <2>2. V = { Abs(v[i]) : i \in DOMAIN v }
    BY <1>1
  <2>3. IsFiniteSet(1..Len(v))
    BY <1>1, FS_Interval
  <2> HIDE DEF f
  <2>4. IsFiniteSet(V)
    BY <2>1, <2>3, FiniteValues
  <2>5. V \subseteq Int /\ \A i \in 1..Len(v) : f[i] \in V
    BY <2>1
  <2> HIDE DEF V
  <2>6. Max(V) = 0
    BY <2>2 DEF IsZero, Largest
  <2>7. ASSUME NEW i \in 1..Len(v) PROVE v[i] = 0
    <3>1. f[i] \in V /\ V # {}
      BY <2>5
    <3>2. f[i] <= Max(V)
      BY <2>4, <2>5, <3>1, MaxLemma
    <3>3. Abs(v[i]) <= 0
      BY <2>1, <2>6, <3>2
    <3>4. v[i] \in Int
      BY <1>1
    <3>5. QED
      BY <3>3, <3>4 DEF Abs
  <2>8. QED
    BY <2>7
<1>3. Dot(v, v) = 0
  <2>1. PICK s : s = [i \in DOMAIN v |-> v[i] * v[i]]
    OBVIOUS
  <2>2. PICK n \in Nat : n = Len(v)
    BY <1>1
  <2>3. ASSUME NEW i \in 1..n PROVE s[i] = 0
    BY <1>1, <1>2, <2>1, <2>2
  <2>4. s \in [1..n -> Int]
    BY <1>1, <2>1, <2>2, <2>3
  <2>5. s \in Seq(Int) /\ Len(s) = n
    BY <2>4, FunctionIsSeq
  <2>6. Total(s) \in Int /\ 0 * Len(s) <= Total(s) /\ Total(s) <= 0 * Len(s)
    <3>1. PICK z \in Int : z = 0
      OBVIOUS
    <3>2. \A i \in 1..Len(s) : z <= s[i] /\ s[i] <= z
      BY <2>3, <2>5, <3>1
    <3>3. Total(s) \in Int /\ z * Len(s) <= Total(s) /\ Total(s) <= z * Len(s)
      BY <2>5, <3>2, TotalBounds
    <3>4. QED
      BY <3>1, <3>3
  <2>7. Dot(v, v) = Total(s)
    BY <2>1, Zenon DEF Dot
  <2>8. QED
    BY <2>5, <2>6, <2>7
<1>4. ISqrt(0) = 0
  <2>1. PICK z \in Nat : z = 0
    OBVIOUS
  <2>2. ISqrt(z) \in Nat /\ ISqrt(z) * ISqrt(z) <= z
    BY ISqrtLemma
  <2>3. PICK r \in Nat : r = ISqrt(z) /\ r * r <= 0
    BY <2>1, <2>2
  <2>4. r >= 1 => r * r >= 1
    OBVIOUS
  <2>5. QED
    BY <2>1, <2>3, <2>4
<1>5. Norm(v) = 0
  BY <1>3, <1>4, Zenon DEF Norm
<1>6. ASSUME NEW w \in Vectors, Len(w) = Len(v) PROVE Cosine(v, w) = 0
  <2>1. PICK k \in Nat : k = 100
    OBVIOUS
  <2>2. Direction(v, k) = v
    BY Zenon DEF Direction, IsZero
  <2>3. PICK b \in Vectors : b = Direction(w, k)
    BY DirectionLemma
  <2>4. PICK q \in Nat : q = Dot(b, b)
    BY DotSquare
  <2>5. Dot(v, v) * Dot(b, b) = 0
    BY <1>3, <2>4
  <2>6. ISqrt(Dot(v, v) * Dot(b, b)) = 0
    BY <1>4, <2>5
  <2>7. QED
    BY <2>1, <2>2, <2>3, <2>6, SMT DEF Cosine
<1>7. QED
  BY <1>5, <1>6

\* Among peers that have a norm and do not cancel out, an update of zeros is half the
\* median away from the median, and orthogonal to everyone.
LEMMA ZeroMeasured ==
    ASSUME NEW peers, OneShape(peers), NEW c \in DOMAIN peers, IsZero(Flat(peers[c])),
           ~IsZero(Centroid(peers)),
           Median([d \in DOMAIN peers |-> Norm(Flat(peers[d]))]) # 0
    PROVE  MagnitudeSignal(peers, c) = 500 /\ SimilaritySignal(peers, c) = 500
<1> DEFINE norms == [d \in DOMAIN peers |-> Norm(Flat(peers[d]))]
<1>1. /\ norms \in [DOMAIN peers -> Int] /\ \A d \in DOMAIN peers : 0 <= norms[d]
      /\ norms[c] = Norm(Flat(peers[c])) /\ Median(norms) # 0
  BY PeerFlat, NormLemma
<1>2. IsFiniteSet(DOMAIN peers) /\ DOMAIN peers # {}
  BY DEF OneShape
<1>3. Flat(peers[c]) \in Vectors
  BY PeerFlat
<1>4. Norm(Flat(peers[c])) = 0
  BY <1>3, ZeroVector
<1>5. MagnitudeSignal(peers, c)
          = Saturating(Abs(Norm(Flat(peers[c])) - Median(norms)), Median(norms))
  BY Zenon DEF MagnitudeSignal
<1> HIDE DEF norms
<1>6. PICK median \in Nat : median = Median(norms) /\ median >= 1
  BY <1>1, <1>2, MedianRange
<1>7. MagnitudeSignal(peers, c) = 500
  <2>1. Abs(0 - median) = median
    BY <1>6 DEF Abs
  <2>2. MagnitudeSignal(peers, c) = (1000 * median) \div (median + median)
    BY <1>4, <1>5, <1>6, <2>1, SMT DEF Saturating
  <2>3. PICK z \in Nat : z = median + median /\ 1000 * median = 500 * z /\ z >= 1
    BY <1>6
  <2>4. PICK q \in Int : q = (500 * z) \div z
    BY <2>3
  <2>5. z * q <= 500 * z /\ 500 * z < z * q + z
    BY <2>3, <2>4
  <2>6. q <= 500
    <3>1. ASSUME q >= 501 PROVE FALSE
      <4>1. z * q >= z * 501
        BY <2>3, <3>1
      <4>2. QED
        BY <2>3, <2>5, <4>1
    <3>2. QED
      BY <3>1
  <2>7. q >= 500
    <3>1. ASSUME q <= 499 PROVE FALSE
      <4>1. z * q <= z * 499
        BY <2>3, <3>1
      <4>2. QED
        BY <2>3, <2>5, <4>1
    <3>2. QED
      BY <3>1
  <2>8. QED
    BY <2>2, <2>3, <2>4, <2>6, <2>7
<1>8. DOMAIN peers # {c}
  <2>1. ASSUME DOMAIN peers = {c} PROVE FALSE
    <3>1. \E x, y \in DOMAIN peers : Median(norms) = (norms[x] + norms[y]) \div 2
      BY <1>1, <1>2, MedianLemma
    <3>2. Median(norms) = (0 + 0) \div 2
      BY <1>1, <1>4, <2>1, <3>1
    <3>3. QED
      BY <1>1, <3>2
  <2>2. QED
    BY <2>1
<1>9. AverageSimilarity(peers, c) = 0
  <2> DEFINE others == DOMAIN peers \ {c}
             cosines == [d \in others |-> Cosine(Flat(peers[c]), Flat(peers[d]))]
  <2>1. IsFiniteSet(others) /\ others # {}
    BY <1>2, <1>8, FS_Subset
  <2>2. PICK n \in Nat : n = Cardinality(others) /\ n # 0
    BY <2>1, FS_CardinalityType, FS_EmptySet
  <2>3. \A d \in others : Cosine(Flat(peers[c]), Flat(peers[d])) = 0
    BY <1>3, PeerFlat, ZeroVector
  <2>4. cosines \in [others -> Int] /\ \A d \in others : cosines[d] = 0
    BY <2>3
  <2>5. AverageSimilarity(peers, c) = SumFunction(cosines) \div n
    BY <2>2, Zenon DEF AverageSimilarity
  <2> HIDE DEF others, cosines
  <2>6. SumFunction(cosines) = 0
    <3>1. PICK b \in Nat : b = 0 /\ b * n = 0
      OBVIOUS
    <3>2. \A d \in others : -b <= cosines[d] /\ cosines[d] <= b
      BY <2>4, <3>1
    <3>3. /\ SumFunction(cosines) \in Int
          /\ -(b * Cardinality(others)) <= SumFunction(cosines)
          /\ SumFunction(cosines) <= b * Cardinality(others)
      BY <2>1, <2>4, <3>2, SumFunctionBounds
    <3>4. QED
      BY <2>2, <3>1, <3>3
  <2>7. QED
    BY <2>2, <2>5, <2>6
<1>10. CentroidDistance(peers, c) = 1000
  BY SMT DEF CentroidDistance
<1>11. SimilaritySignal(peers, c) = 500
  <2>1. PICK s : s = PeerSimilarity(peers, c)
    OBVIOUS
  <2>2. s = [average_similarity |-> 0, consensus_score |-> 500,
             normalized_cluster_distance |-> 1000]
    BY <1>8, <1>9, <1>10, <2>1, SMT DEF PeerSimilarity
  <2>3. /\ s.average_similarity = 0 /\ s.consensus_score = 500
        /\ s.normalized_cluster_distance = 1000
    BY <2>2
  <2>4. Saturating(1000, 1000) = 500
    BY SMT DEF Saturating
  <2>5. QED
    BY <2>1, <2>3, <2>4, SMT DEF SimilaritySignal
<1>12. QED
  BY <1>7, <1>11

\* Neither the opposed update nor the zero one is accepted in the round that screens it.
LEMMA ScreenDistrusts ==
    ASSUME ScreenInv, Screen
    PROVE  OppositeIsNotTrusted /\ ZeroIsNotTrusted
<1>1. ASSUME NEW c \in Clients, Passes(c),
             SimilaritySignal(Peers, c) >= 566
                 \/ (SimilaritySignal(Peers, c) >= 500 /\ MagnitudeSignal(Peers, c) >= 500)
      PROVE  round_cache'[round + 1][c].action # "ACCEPT"
  <2>1. PICK p \in AllProfiles : p = Measured(Peers, c)
    BY <1>1, ScreenedRound
  <2>2. PICK state : ScoredState(state) /\ round_cache'[round + 1][c] = ScoredResult(p, state)
    BY <1>1, <2>1, ScreenedRound
  <2>3. p.similarity = SimilaritySignal(Peers, c) /\ p.magnitude = MagnitudeSignal(Peers, c)
    BY <2>1, SMT DEF Measured
  <2>4. p.similarity >= 566 \/ (p.similarity >= 500 /\ p.magnitude >= 500)
    BY <1>1, <2>3
  <2>5. Flagging(AnomalyScore(p), p.similarity)
    BY <2>4, FlaggedByMeasure
  <2>6. QED
    BY <2>2, <2>5, EvidenceFlags
<1>2. ASSUME NEW c \in Clients, Passes(c), DOMAIN Peers # {c},
             AverageSimilarity(Peers, c) <= -700
      PROVE  round_cache'[round + 1][c].action # "ACCEPT"
  <2>1. OneShape(Peers) /\ c \in DOMAIN Peers
    BY <1>2, ScreenedRound
  <2>2. PICK peers : peers = Peers
    OBVIOUS
  <2>3. SimilaritySignal(peers, c) >= 566
    BY <1>2, <2>1, <2>2, OppositeSimilarity
  <2>4. QED
    BY <1>1, <1>2, <2>2, <2>3
<1>3. ASSUME NEW c \in Clients, Passes(c), IsZero(Flat(updates[c])), ~IsZero(Centroid(Peers)),
             Median([d \in DOMAIN Peers |-> Norm(Flat(Peers[d]))]) # 0
      PROVE  round_cache'[round + 1][c].action # "ACCEPT"
  <2>1. OneShape(Peers) /\ c \in DOMAIN Peers /\ Peers[c] = updates[c]
    <3>1. Peers[c] = updates[c]
      BY <1>3 DEF Peers
    <3>2. QED
      BY <1>3, <3>1, ScreenedRound
  <2>2. PICK peers : peers = Peers
    OBVIOUS
  <2>3. MagnitudeSignal(peers, c) = 500 /\ SimilaritySignal(peers, c) = 500
    BY <1>3, <2>1, <2>2, ZeroMeasured
  <2>4. QED
    BY <1>1, <1>3, <2>2, <2>3
<1>4. OppositeIsNotTrusted
  BY <1>2 DEF OppositeIsNotTrusted
<1>5. ZeroIsNotTrusted
  BY <1>3, Zenon DEF ZeroIsNotTrusted
<1>6. QED
  BY <1>4, <1>5

\* An update opposed to those judged with it, or one of zeros, is at least
\* down-weighted, however good its client's reputation: what MinorityIsNotTrusted
\* shows of one model's updates, for any updates, clients and rounds
\* (compute_similarity, compute_anomaly, _evaluate_policy).
THEOREM ContraryUpdatesAreNotTrusted ==
    ScreenSpec => [][Screen => OppositeIsNotTrusted /\ ZeroIsNotTrusted]_screenVars
<1>1. ScreenInv /\ [ScreenNext]_screenVars
          => [Screen => OppositeIsNotTrusted /\ ZeroIsNotTrusted]_screenVars
  BY ScreenDistrusts
<1>2. QED
  BY <1>1, ScreenInvariant, PTL DEF ScreenSpec

-----------------------------------------------------------------------------
(* The properties of SentinelEngine and, for the profiles that are         *)
(* measured, of UpdateScreening.                                           *)

LEMMA CachedIsSound ==
    ASSUME SentinelInv, NEW r \in DOMAIN round_cache, NEW c \in DOMAIN round_cache[r]
    PROVE  Sound(round_cache[r][c]) /\ round_cache[r][c] \in Results
<1>1. Sound(round_cache[r][c])
  BY DEF SentinelInv, CacheInv
<1>2. QED
  BY <1>1, SMT DEF Sound

\* The invariant implies the types.
LEMMA InvTypes == SentinelInv => SentinelTypeOK
<1> SUFFICES ASSUME SentinelInv PROVE SentinelTypeOK
  OBVIOUS
<1>1. ASSUME NEW c \in DOMAIN client_states
      PROVE  /\ client_states[c].reputation_score \in 0..Whole
             /\ client_states[c].reputation_history
                    \in Seq([round : 1..MaxRounds, anomaly : 0..Certain, reputation : 0..Whole])
  BY DEF SentinelInv, StatesInv, ScoredState, Entries, Scores, Reputations
<1>2. ASSUME NEW r \in DOMAIN round_cache, NEW c \in DOMAIN round_cache[r]
      PROVE  round_cache[r][c] \in
                 [status : {"SUCCESS", "FAILED"}, anomaly : 0..Certain,
                  evidence : 0..600 * Certain,
                  decision : Decisions \cup {"NONE"}, plan : Plans \cup {"NONE"},
                  action : {"ACCEPT", "DOWN_WEIGHT", "QUARANTINE"}, threat_level : Levels,
                  impact_level : {"LOW", "MEDIUM", "HIGH", "CRITICAL"}]
  BY CachedIsSound, Zenon DEF Results, Scores, Evidences
<1>3. /\ round \in 0..MaxRounds /\ DOMAIN client_states \subseteq Clients
      /\ DOMAIN round_cache \subseteq 1..round
      /\ \A r \in DOMAIN round_cache : DOMAIN round_cache[r] \subseteq Clients
  BY DEF SentinelInv, StatesInv, CacheInv
<1>4. QED
  BY <1>1, <1>2, <1>3, Zenon DEF SentinelTypeOK

\* The reputation stays a reputation, the scores stay scores and nothing outside the
\* enumerations is ever recorded, whatever is measured (update_reputation's clip,
\* _evaluate_policy, action_map).
THEOREM SentinelTypeCorrect == SentinelSpec => []SentinelTypeOK
BY InvTypes, SentinelInvariant, PTL

\* The invariant implies that what is accepted is not to be recovered from.
LEMMA InvAcceptsHarmless ==
    ASSUME RecoveryThreshold >= 450
    PROVE  SentinelInv => AcceptedIsHarmless
<1> SUFFICES ASSUME SentinelInv, NEW r \in DOMAIN round_cache, NEW c \in DOMAIN round_cache[r],
                    round_cache[r][c].action = "ACCEPT"
             PROVE  /\ round_cache[r][c].anomaly < RecoveryThreshold
                    /\ round_cache[r][c].threat_level = "SAFE"
                    /\ round_cache[r][c].impact_level = "LOW"
  BY DEF AcceptedIsHarmless
<1>1. PICK res : res = round_cache[r][c]
  OBVIOUS
<1>2. Sound(res) /\ res.action = "ACCEPT"
  BY <1>1, CachedIsSound
<1>3. res.anomaly \in Int /\ res.anomaly < 450
  BY <1>2, RangeBounds, SMT DEF Sound, Results
<1>4. RecoveryThreshold \in Int
  BY SentinelAssumption, UnitsAreIntegers
<1>5. QED
  BY <1>1, <1>2, <1>3, <1>4, SMT DEF Sound

\* The policy accepts nothing that the recovery engine would roll back, for every
\* recovery threshold from 0.45 on: the evidence floor keeps the anomaly of an update
\* whose threat is below 0.3 under that, whatever the client's reputation
\* (_evaluate_policy, compute_threat, RecoveryTriggerEngine's anomaly_threshold).
THEOREM AcceptanceIsHarmless ==
    ASSUME RecoveryThreshold >= 450
    PROVE  SentinelSpec => []AcceptedIsHarmless
BY InvAcceptsHarmless, SentinelInvariant, PTL

\* The invariant implies that no score recovers.
LEMMA InvNeverRecovers ==
    ASSUME RecoveryThreshold >= 754
    PROVE  SentinelInv => ScoreAloneNeverRecovers
<1> SUFFICES ASSUME SentinelInv, NEW r \in DOMAIN round_cache, NEW c \in DOMAIN round_cache[r]
             PROVE  round_cache[r][c].anomaly < RecoveryThreshold
  BY DEF ScoreAloneNeverRecovers
<1>1. round_cache[r][c].anomaly \in Int /\ round_cache[r][c].anomaly <= 753
  BY CachedIsSound, RangeBounds, SMT DEF Sound, Results
<1>2. RecoveryThreshold \in Int
  BY SentinelAssumption, UnitsAreIntegers
<1>3. QED
  BY <1>1, <1>2

\* No measured update ever triggers a recovery by its score while the threshold is
\* above 0.753: one signal is never found, and the others do not reach their ends
\* (compute_anomaly, RecoveryTriggerEngine).
THEOREM NoScoreRecovers ==
    ASSUME RecoveryThreshold >= 754
    PROVE  SentinelSpec => []ScoreAloneNeverRecovers
BY InvNeverRecovers, SentinelInvariant, PTL

\* The invariant implies that evidence quarantines.
LEMMA InvQuarantines == SentinelInv => EvidenceAloneQuarantines
BY CachedIsSound, SMT DEF EvidenceAloneQuarantines, Sound

\* Whatever reputation a client built up before, evidence of 0.7 in the update itself
\* quarantines it, in the decision and in the recovery plan (compute_threat's
\* evidence floor, _generate_recovery_plan).
THEOREM EvidenceQuarantines == SentinelSpec => []EvidenceAloneQuarantines
BY InvQuarantines, SentinelInvariant, PTL

\* An offence and a clean round after it lower a reputation that was not at its floor.
LEMMA AmendsFallShort ==
    ASSUME NEW before \in Int, NEW a \in Int, NEW b \in Int,
           before > 50000, a >= 500, 0 <= b, b < 500
    PROVE  Clipped(Clipped(before + ReputationDelta(a), 0, Whole) + ReputationDelta(b), 0, Whole)
               < before
<1>1. PICK loss \in Int : ReputationDelta(a) = -loss /\ loss >= 100000
  BY SMT DEF ReputationDelta
<1>2. PICK gain \in Int : ReputationDelta(b) = gain /\ gain <= 50000
  BY SMT DEF ReputationDelta
<1>3. PICK damaged \in Int : damaged = Clipped(before - loss, 0, Whole)
  BY <1>1, UnitsAreIntegers, SMT DEF Clipped
<1>4. damaged <= before - loss \/ damaged <= 0
  BY <1>1, <1>3, UnitsAreIntegers, SMT DEF Clipped
<1>5. PICK amended \in Int : amended = Clipped(damaged + gain, 0, Whole)
  <2>1. damaged + gain \in Int
    BY <1>2
  <2>2. QED
    BY <2>1, UnitsAreIntegers, ClippedRange
<1>6. amended <= damaged + gain \/ amended <= 0
  BY <1>2, <1>3, <1>5, UnitsAreIntegers, SMT DEF Clipped
<1>7. amended < before
  BY <1>1, <1>2, <1>3, <1>4, <1>5, <1>6, SMT
<1>8. before + ReputationDelta(a) = before - loss
  BY <1>1, SMT
<1>9. QED
  BY <1>2, <1>3, <1>5, <1>7, <1>8

\* The invariant implies that an offence outlasts its amends.
LEMMA InvOutlasts == SentinelInv => OffenceOutlastsAmends
<1> SUFFICES ASSUME SentinelInv, NEW c \in DOMAIN client_states,
                    NEW i \in 1..Len(client_states[c].reputation_history) - 1,
                    LET h == client_states[c].reputation_history
                    IN  /\ h[i].anomaly >= 500 /\ h[i + 1].anomaly < 500
                        /\ Before(h, i) > 50000
             PROVE  LET h == client_states[c].reputation_history
                    IN  h[i + 1].reputation < Before(h, i)
  BY SMT DEF OffenceOutlastsAmends, Before
<1>1. PICK h : h = client_states[c].reputation_history
  OBVIOUS
<1>2. /\ h \in Seq(Entries) /\ i \in 1..Len(h) - 1
      /\ h[i].anomaly >= 500 /\ h[i + 1].anomaly < 500 /\ Before(h, i) > 50000
      /\ \A j \in 1..Len(h) :
             h[j].reputation = Clipped(Before(h, j) + ReputationDelta(h[j].anomaly), 0, Whole)
  BY <1>1, SMT DEF SentinelInv, StatesInv, StateInv, HistoryInv
<1>3. i \in 1..Len(h) /\ i + 1 \in 1..Len(h) /\ i \in 1..(Len(h) + 1)
  BY <1>2
<1>4. /\ h[i].anomaly \in Int /\ h[i + 1].anomaly \in Int /\ 0 <= h[i + 1].anomaly
      /\ Before(h, i) \in Int
  <2>1. h[i] \in Entries /\ h[i + 1] \in Entries /\ Before(h, i) \in Reputations
    BY <1>2, <1>3, BeforeRange
  <2>2. QED
    BY <2>1, EntryFields, RangeBounds
<1>5. Before(h, i + 1) = h[i].reputation
  BY <1>3 DEF Before
<1>6. PICK a \in Int, b \in Int, before \in Int :
          /\ a = h[i].anomaly /\ b = h[i + 1].anomaly /\ before = Before(h, i)
          /\ a >= 500 /\ b < 500 /\ 0 <= b /\ before > 50000
  BY <1>2, <1>4, SMT
<1>7. /\ h[i].reputation = Clipped(before + ReputationDelta(a), 0, Whole)
      /\ h[i + 1].reputation = Clipped(h[i].reputation + ReputationDelta(b), 0, Whole)
  BY <1>2, <1>3, <1>5, <1>6
<1>8. h[i + 1].reputation < before
  BY <1>6, <1>7, AmendsFallShort
<1>9. QED
  BY <1>1, <1>6, <1>8

\* The clipped steps of a history make decay outweigh the recovery that follows, for
\* every sequence of scores and any number of rounds (update_reputation).
THEOREM OffencesOutlast == SentinelSpec => []OffenceOutlastsAmends
BY InvOutlasts, SentinelInvariant, PTL

\* The invariant implies that histories and cache match.
LEMMA InvMatches == SentinelInv => ReputationMatchesRecord
<1> SUFFICES ASSUME SentinelInv PROVE ReputationMatchesRecord
  OBVIOUS
<1>1. ASSUME NEW c \in DOMAIN client_states
      PROVE  LET h == client_states[c].reputation_history
             IN  /\ DOMAIN h = 1..Len(h)
                 /\ \A i \in 1..Len(h) - 1 : h[i].round < h[i + 1].round
                 /\ client_states[c].reputation_score = Last(h).reputation
  <2>1. PICK h : h = client_states[c].reputation_history
    OBVIOUS
  <2>2. /\ h \in Seq(Entries) /\ h # <<>>
        /\ \A i \in 1..Len(h) - 1 : h[i].round < h[i + 1].round
        /\ client_states[c].reputation_score = Before(h, Len(h) + 1)
    BY <2>1 DEF SentinelInv, StatesInv, StateInv, HistoryInv, ScoredState
  <2>3. Before(h, Len(h) + 1) = h[Len(h)].reputation
    BY <2>2 DEF Before
  <2>4. DOMAIN h = 1..Len(h) /\ Last(h) = h[Len(h)]
    BY <2>2 DEF Last
  <2>5. QED
    BY <2>1, <2>2, <2>3, <2>4
<1>2. ASSUME NEW r \in DOMAIN round_cache, NEW c \in DOMAIN round_cache[r],
             round_cache[r][c].status = "SUCCESS"
      PROVE  /\ c \in DOMAIN client_states
             /\ \E i \in DOMAIN client_states[c].reputation_history :
                    LET e == client_states[c].reputation_history[i]
                    IN  e.round = r /\ e.anomaly = round_cache[r][c].anomaly
  <2>1. /\ c \in DOMAIN client_states
        /\ \E i \in 1..Len(client_states[c].reputation_history) : Recorded(c, i, r)
    BY <1>2 DEF SentinelInv, CacheRemembered
  <2>2. QED
    BY <1>1, <2>1 DEF Recorded
<1>3. ASSUME NEW c \in DOMAIN client_states,
             NEW i \in DOMAIN client_states[c].reputation_history
      PROVE  LET h == client_states[c].reputation_history
             IN  /\ h[i].round \in DOMAIN round_cache
                 /\ round_cache[h[i].round][c].status = "SUCCESS"
  BY <1>1 DEF SentinelInv, MemoryRecorded
<1>4. QED
  BY <1>1, <1>2, <1>3 DEF ReputationMatchesRecord

\* The histories and the cache never diverge, over any number of rounds, clients,
\* failed extractions and firewall rejections (update_reputation, detect).
THEOREM MemoryMatchesRecord == SentinelSpec => []ReputationMatchesRecord
BY InvMatches, SentinelInvariant, PTL

\* The engines' invariant holds in every screened run.
LEMMA ScreenAlways == ScreenSpec => []SentinelInv
BY ScreenInvariant, PTL DEF ScreenInv

\* The engines' properties hold of rounds whose profiles are measured and not chosen,
\* for every model, training result, attack and number of clients: types, the evidence
\* floor, decay against recovery, and the history against the cache.
THEOREM ScreenedRoundsAreSound ==
    ScreenSpec => []/\ SentinelTypeOK
                    /\ EvidenceAloneQuarantines
                    /\ OffenceOutlastsAmends
                    /\ ReputationMatchesRecord
BY InvTypes, InvQuarantines, InvOutlasts, InvMatches, ScreenAlways, PTL

\* No measured update triggers a recovery by its score, whatever it holds: for a loss
\* spike or the firewall's own score the recovery stays (RecoveryTriggerEngine).
THEOREM NoScreenedScoreRecovers ==
    ASSUME RecoveryThreshold >= 754
    PROVE  ScreenSpec => []ScoreAloneNeverRecovers
BY InvNeverRecovers, ScreenAlways, PTL

\* And what is accepted of measured updates is safe, of low impact and below the
\* threshold of a recovery (_evaluate_policy, RecoveryTriggerEngine).
THEOREM ScreenedAcceptanceIsHarmless ==
    ASSUME RecoveryThreshold >= 450
    PROVE  ScreenSpec => []AcceptedIsHarmless
BY InvAcceptsHarmless, ScreenAlways, PTL

\* The upper ends of the scales are out of reach: no update is recorded with an impact
\* above medium, none is recommended for a rollback and no recovery plan is one
\* (compute_impact without drift and history, _evaluate_policy, _generate_recovery_plan).
NothingIsCritical ==
    \A r \in DOMAIN round_cache : \A c \in DOMAIN round_cache[r] :
        /\ round_cache[r][c].impact_level \notin {"HIGH", "CRITICAL"}
        /\ round_cache[r][c].decision # "ROLLBACK_RECOMMENDED"
        /\ round_cache[r][c].plan # "ROLLBACK"

\* The invariant implies that no impact is critical.
LEMMA InvNothingCritical == SentinelInv => NothingIsCritical
BY CachedIsSound, SMT DEF NothingIsCritical, Sound

\* No decision recommends a rollback and no plan is one, whatever is measured and
\* however many rounds a client keeps offending (_evaluate_policy,
\* _generate_recovery_plan): those branches wait for an impact that is never computed.
THEOREM RollbackIsNeverRecommended ==
    /\ SentinelSpec => []NothingIsCritical
    /\ ScreenSpec => []NothingIsCritical
<1>1. SentinelSpec => []NothingIsCritical
  BY InvNothingCritical, SentinelInvariant, PTL
<1>2. ScreenSpec => []NothingIsCritical
  BY InvNothingCritical, ScreenAlways, PTL
<1>3. QED
  BY <1>1, <1>2
=============================================================================
