-------------------------- MODULE ScaledArithmetic --------------------------
(***************************************************************************)
(* The numerical functions the Sentinel takes from its array library, over *)
(* integers: a real is held as an integer number of some unit, and a       *)
(* result is rounded down to a whole unit.                                 *)
(***************************************************************************)
EXTENDS Integers, Sequences, FiniteSets, SequencesExt

Clipped(x, low, high) == IF x < low THEN low ELSE IF x > high THEN high ELSE x

Abs(x) == IF x < 0 THEN -x ELSE x

Total(s) == FoldLeft(+, 0, s)

\* The sum of f over the elements of s.
TotalOf(f(_), s) == Total([i \in DOMAIN s |-> f(s[i])])

\* The greatest r with r * r <= n, from the root of n \div 4.
ISqrt(n) ==
    LET root[m \in 0..n] ==
            IF m = 0 THEN 0
            ELSE LET r == 2 * root[m \div 4] + 1
                 IN  IF r <= m \div r THEN r ELSE r - 1
    IN  root[n]

\* The middle of the values of a function, or the mean of the two in the middle.
Median(f) ==
    LET n      == Cardinality(DOMAIN f)
        points == { <<f[i], i>> : i \in DOMAIN f }
        Smallest(k) ==
            CHOOSE x \in { p[1] : p \in points } :
                /\ Cardinality({ p \in points : p[1] < x }) < k
                /\ Cardinality({ p \in points : p[1] <= x }) >= k
    IN  (Smallest((n + 1) \div 2) + Smallest((n + 2) \div 2)) \div 2

\* n * n times the variance of n values.
ScatterOf(s) ==
    LET n == Len(s)
        Squared(x) == x * x
    IN  n * TotalOf(Squared, s) - Total(s) * Total(s)

\* The standard deviation.
Deviation(s) == ISqrt(ScatterOf(s)) \div Len(s)
=============================================================================
