------------------------- MODULE UpdateMeasurement -------------------------
(***************************************************************************)
(* What the Sentinel measures of the updates of one round: the feature     *)
(* extractor flattens an update, the statistics and similarity engines     *)
(* describe it alone and among its peers, and the anomaly detector and the *)
(* impact estimator turn each description into a signal.                   *)
(*                                                                         *)
(* An update is a sequence of layers, a layer a sequence of parameters in  *)
(* units of 1/Unit.  Signals, cosines and distances are in thousandths.    *)
(* A measure that does not depend on the length of a vector is taken of    *)
(* its Direction, scaled to small integers.                                *)
(***************************************************************************)
EXTENDS ScaledArithmetic

CONSTANT Unit

ASSUME UnitAssumption == Unit \in Nat \ {0}

\* extract: the parameters of all layers, one after the other.
Flat(update) == FlattenSeq(update)

Largest(v) == Max({ Abs(v[i]) : i \in DOMAIN v })

\* v scaled so that its largest component is k or -k.
Direction(v, k) ==
    LET m == Largest(v)
        Component(x) == (IF x < 0 THEN -1 ELSE 1) * ((k * Abs(x) + m \div 2) \div m)
    IN  IF m = 0 THEN v ELSE [i \in DOMAIN v |-> Component(v[i])]

Dot(u, v) == Total([i \in DOMAIN u |-> u[i] * v[i]])

\* The L2 norm, in units.
Norm(v) == ISqrt(Dot(v, v))

\* The cosine of two vectors; a zero vector is orthogonal to everything.
Cosine(u, v) ==
    LET a == Direction(u, 100)
        b == Direction(v, 100)
        lengths == ISqrt(Dot(a, a) * Dot(b, b))
    IN  IF lengths = 0 THEN 0 ELSE Clipped((1000 * Dot(a, b)) \div lengths, -1000, 1000)

\* x / (x + scale), the shape of every signal.
Saturating(x, scale) == IF x = 0 THEN 0 ELSE (1000 * x) \div (x + scale)
-----------------------------------------------------------------------------
(* The update alone.                                                       *)

\* compute: the groups of statistics and what each holds.
GlobalStatistics == {"variance", "median", "mad", "minimum", "maximum", "value_range",
                     "skewness", "kurtosis"}
DistributionStatistics == {"percentile_25", "percentile_50", "percentile_75", "interquartile_range"}
MagnitudeStatistics == {"mean_absolute_value", "max_absolute_value", "root_mean_square", "energy"}
SparsityStatistics == {"parameter_sparsity", "non_zero_ratio", "zero_count", "non_zero_count"}

Statistics == [global_statistics       |-> GlobalStatistics,
               distribution_statistics |-> DistributionStatistics,
               magnitude_statistics    |-> MagnitudeStatistics,
               sparsity_statistics     |-> SparsityStatistics]

\* statistics.get(group).get(key, 0.0): a key the group does not hold reads as zero.
Found(group, key, value) == IF key \in Statistics[group] THEN value ELSE 0

\* Skewness and excess kurtosis in hundredths, zero when nothing varies.
Skewness(v) ==
    LET d == Direction(v, 12)
        n == Len(d)
        Centred(x) == n * x - Total(d)
        Cubed(x) == Centred(x) * Centred(x) * Centred(x)
        std == ISqrt(ScatterOf(d))        \* n times the standard deviation
    IN  IF ScatterOf(d) = 0 THEN 0
        ELSE (10 * ((10 * TotalOf(Cubed, d)) \div (n * ScatterOf(d)))) \div std

Kurtosis(v) ==
    LET d == Direction(v, 12)
        n == Len(d)
        Centred(x) == n * x - Total(d)
        Fourth(x) == Centred(x) * Centred(x) * Centred(x) * Centred(x)
        s == ScatterOf(d)
    IN  IF s = 0 THEN 0 ELSE ((TotalOf(Fourth, d) \div s) * 100) \div (n * s) - 300

\* The median absolute deviation, in units.
MedianDeviation(v) == Median([i \in DOMAIN v |-> Abs(v[i] - Median(v))])

\* The distance between the quartiles, interpolated between neighbours.
InterquartileRange(v) ==
    LET s == SortSeq(v, <)
        Quartile(q) == LET k == q * (Len(s) - 1)
                           low == s[k \div 4 + 1]
                       IN  IF k % 4 = 0 THEN low
                           ELSE low + ((k % 4) * (s[k \div 4 + 2] - low)) \div 4
    IN  Quartile(3) - Quartile(1)

\* _compute_distribution_anomaly wants all four from the global group, which does
\* not hold the interquartile range: a fourth of the signal is always zero.
DistributionSignal(update) ==
    LET v == Flat(update)
        Global(key, value) == Found("global_statistics", key, value)
    IN  (Saturating(Abs(Global("skewness", Skewness(v))), 500)
            + Saturating(Abs(Global("kurtosis", Kurtosis(v))), 1000)
            + Saturating(Global("mad", MedianDeviation(v)), Unit)
            + Saturating(Global("interquartile_range", InterquartileRange(v)), Unit)) \div 4

\* _compute_sparsity_anomaly asks the global group for the share of zeros.
SparsitySignal(update) ==
    LET v == Flat(update)
        Zeros == { i \in DOMAIN v : v[i] = 0 }
    IN  Found("global_statistics", "parameter_sparsity", (1000 * Cardinality(Zeros)) \div Len(v))

\* compute_impact's drift asks it for norms.
Drift(update) ==
    LET v == Flat(update)
        Global(key, value) == Found("global_statistics", key, value)
    IN  Saturating(Global("l2_norm", Norm(v)) + Global("rms", ISqrt(Dot(v, v) \div Len(v)))
                     + Global("energy", Dot(v, v) \div (100 * Unit)), Unit)

\* _compute_layer_statistics, as far as it is read.
LayerStatistics(layer) ==
    LET n == Len(layer)
    IN  [rms      |-> ISqrt(Dot(layer, layer) \div n),
         variance |-> ScatterOf(layer) \div (n * n * Unit),
         max_abs  |-> Largest(layer)]

\* compute_impact's displacement: the layers' own statistics, which it does find,
\* averaged over the layers.
LayerImpact(layer) ==
    LET ls == LayerStatistics(layer) IN Saturating(ls.rms + ls.variance + ls.max_abs, Unit)

Displacement(update) == TotalOf(LayerImpact, update) \div Len(update)
-----------------------------------------------------------------------------
(* The update among its peers. A round is a function from clients to       *)
(* updates.                                                                *)

\* Mutant: the mean norm, which an attacker moves, instead of the median.
MagnitudeSignalMean(peers, c) ==
    LET mean == SumFunction([d \in DOMAIN peers |-> Norm(Flat(peers[d]))])
                    \div Cardinality(DOMAIN peers)
    IN  Saturating(Abs(Norm(Flat(peers[c])) - mean), mean)

\* _compute_magnitude_anomaly: how far the norm is from the round's median norm.
MagnitudeSignal(peers, c) ==
    LET median == Median([d \in DOMAIN peers |-> Norm(Flat(peers[d]))])
    IN  Saturating(Abs(Norm(Flat(peers[c])) - median), median)

\* The sum of the updates of the round: the direction of their centroid.
Centroid(peers) ==
    LET width == UNION { DOMAIN Flat(peers[c]) : c \in DOMAIN peers }
        Column(i) == SumFunction([c \in DOMAIN peers |-> Flat(peers[c])[i]])
    IN  [i \in width |-> Column(i)]

IsZero(v) == Largest(v) = 0

\* The distance of the normalised update from the normalised centroid.
CentroidDistance(peers, c) ==
    LET v == Flat(peers[c])
        m == Centroid(peers)
    IN  IF IsZero(v) \/ IsZero(m) THEN (IF IsZero(v) /\ IsZero(m) THEN 0 ELSE 1000)
        ELSE ISqrt(2000000 - 2000 * Cosine(v, m))

\* Mutants: the most similar, or the least similar, peer counts for all.
MaximumSimilarity(peers, c) ==
    Max({ Cosine(Flat(peers[c]), Flat(peers[d])) : d \in DOMAIN peers \ {c} })

MinimumSimilarity(peers, c) ==
    Min({ Cosine(Flat(peers[c]), Flat(peers[d])) : d \in DOMAIN peers \ {c} })

AverageSimilarity(peers, c) ==
    LET others == DOMAIN peers \ {c}
    IN  SumFunction([d \in others |-> Cosine(Flat(peers[c]), Flat(peers[d]))])
            \div Cardinality(others)

\* _build_single_client_output: the fixed answers for a lone client.
LoneClient == [average_similarity |-> 0, consensus_score |-> 1000, normalized_cluster_distance |-> 0]

\* compute_similarities, as far as it is read.
PeerSimilarity(peers, c) ==
    IF DOMAIN peers = {c} THEN LoneClient
    ELSE LET average == AverageSimilarity(peers, c)
         IN  [average_similarity          |-> average,
              consensus_score             |-> (average + 1000) \div 2,
              normalized_cluster_distance |-> CentroidDistance(peers, c)]

\* _compute_similarity_anomaly: the similarity counts twice, as its inverse and as
\* the inverse of the consensus, which is made of it.
SimilaritySignal(peers, c) ==
    LET s == PeerSimilarity(peers, c)
    IN  (1000 - s.consensus_score + (1000 - s.average_similarity) \div 2
            + Saturating(s.normalized_cluster_distance, 1000)) \div 3

\* The profile of client c's update in a round.
Measured(peers, c) ==
    [magnitude |-> MagnitudeSignal(peers, c), distribution |-> DistributionSignal(peers[c]),
     similarity |-> SimilaritySignal(peers, c), sparsity |-> SparsitySignal(peers[c]),
     displacement |-> Displacement(peers[c]), drift |-> Drift(peers[c])]
=============================================================================
