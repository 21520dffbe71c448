--------------------------- MODULE LatencyAnalyzer ---------------------------
(***************************************************************************)
(* LatencyAnalyzer of src/analysis/latency_analyzer.cc, with the running   *)
(* statistics and the histogram it is made of.  Its samples come one at a  *)
(* time, in any order; what it computes from them is compared with the     *)
(* definition over all of them.                                            *)
(***************************************************************************)
EXTENDS RunningStats, Histogram, SequencesExt

CONSTANTS
  Latencies,    \* the values of latency_ns
  MaxSamples    \* bound on the samples kept

ASSUME LatencyAssumption ==
  /\ Latencies \subseteq Nat
  /\ \A l \in Latencies : Lowest < l /\ l < Highest
  /\ Highest \in Nat /\ MaxSamples \in Nat

VARIABLES
  samples,
  stats

analyzerVars == <<samples, stats>>

AnalyzerInit == samples = <<>> /\ stats = Fresh

(* AddSample, and AddResult of a result with that latency.                 *)
AddSample(latency) ==
  /\ Len(samples) < MaxSamples
  /\ samples' = Append(samples, latency)
  /\ stats' = Added(stats, latency)

ResetSamples == samples' = <<>> /\ UNCHANGED stats

AnalyzerReset == samples' = <<>> /\ stats' = Fresh

AnalyzerNext == (\E l \in Latencies : AddSample(l)) \/ AnalyzerReset

AnalyzerSpec == AnalyzerInit /\ [][AnalyzerNext]_analyzerVars

-----------------------------------------------------------------------------
(* What ComputeStats and RenderHistogram return.                           *)
Inserted(seq, x) ==
  LET k == CHOOSE k \in 0 .. Len(seq) : /\ \A i \in 1 .. k : seq[i] <= x
                                       /\ \A i \in k + 1 .. Len(seq) : x < seq[i]
  IN SubSeq(seq, 1, k) \o <<x>> \o SubSeq(seq, k + 1, Len(seq))
Sorted == FoldLeft(Inserted, <<>>, samples)
PercentileRounded(perMille) ==
  Sorted[((perMille * (Len(samples) - 1) + 500) \div 1000) + 1]
(* p is in tenths of a percent.  None of the percentiles asked for is off  *)
(* by the rounding of p / 100 * (n - 1) to a double.                       *)
Percentile(perMille) ==
  Sorted[((perMille * (Len(samples) - 1)) \div 1000) + 1]
Percentiles == {500, 900, 950, 990, 999}

HistogramUpTo(n, max) ==
  FoldLeft(LAMBDA h, s : AddedTo(h, s, 1), Linear(n, MinOf(stats), max), samples)
RenderedHistogramTight(n) == HistogramUpTo(n, MaxOf(stats))
RenderedHistogram(n) ==
  LET max == IF MinOf(stats) = MaxOf(stats) THEN MinOf(stats) + 1
             ELSE MaxOf(stats)
  IN HistogramUpTo(n, max + 1)

-----------------------------------------------------------------------------
AnalyzerTypeOK ==
  /\ samples \in Seq(Nat)
  /\ stats.count \in Nat
  /\ stats.mean.den > 0 /\ stats.m2.den > 0

SumOf(seq) == FoldLeft(+, 0, seq)
SquaresOf(seq) == FoldLeft(LAMBDA sum, x : sum + x * x, 0, seq)

(* The accumulator s says of the samples seq what the textbook says: the   *)
(* mean is sum / n and m2, the squared distances from it, add up to        *)
(* (n * squares - sum^2) / n.                                              *)
Describes(s, seq) ==
  /\ s.count = Len(seq)
  /\ seq # <<>> =>
       LET n == Len(seq)
           spread == n * SquaresOf(seq) - SumOf(seq) * SumOf(seq)
       IN /\ MeanOf(s) = Rational(SumOf(seq), n)
          /\ s.m2 = Rational(spread, n)
          /\ VarianceOf(s) = Rational(spread, n * n)
          /\ n > 1 => SampleVarianceOf(s) = Rational(spread, n * (n - 1))
          /\ MinOf(s) = Min(Range(seq)) /\ MaxOf(s) = Max(Range(seq))

(* Welford's updates give the statistics of all samples since the last     *)
(* AnalyzerReset.                                                          *)
StatsAsDefined == Describes(stats, samples)

(* Merging the accumulators of any two parts of the samples, in either     *)
(* order, one of them possibly empty, or an accumulator with itself, gives *)
(* that of all samples.                                                    *)
StatsOf(seq) == FoldLeft(Added, Fresh, seq)
MergeAsDefined ==
  samples # <<>> =>
  /\ \A k \in 0 .. Len(samples) :
       LET early == SubSeq(samples, 1, k)
           late == SubSeq(samples, k + 1, Len(samples))
       IN /\ Describes(Merged(StatsOf(early), StatsOf(late)), samples)
          /\ Describes(Merged(StatsOf(late), StatsOf(early)), samples)
  /\ Describes(Merged(stats, stats), samples \o samples)

(* For linear and logarithmic buckets that need not cover the samples:     *)
(* every sample is in one bucket, the one between whose boundaries it      *)
(* lies, or the first or last if it lies beyond; and two histograms merge  *)
(* to that of all samples, and cleared count none.                         *)
Configurations == {Linear(1, 1, 3), Linear(3, 1, 3), Logarithmic(0, 2),
                   Logarithmic(1, 1)}
FilledWith(h, seq) == FoldLeft(LAMBDA g, s : AddedTo(g, s, 1), h, seq)
Belongs(h, i, v) ==
  /\ i = 0 \/ BucketLower(h, i) <= v * h.scale
  /\ i = NumBuckets(h) - 1 \/ v * h.scale < BucketUpper(h, i)
BucketsAsDefined ==
  samples # <<>> => \A h \in Configurations : \A k \in 0 .. Len(samples) :
    LET merged == MergedWith(FilledWith(h, SubSeq(samples, 1, k)),
                             FilledWith(h, SubSeq(samples, k + 1, Len(samples))))
    IN /\ merged.total = Len(samples)
       /\ Cleared(merged) = h
       /\ \A i \in DOMAIN h.counts :
            merged.counts[i] =
              Cardinality({j \in 1 .. Len(samples) : Belongs(h, i, samples[j])})

(* Each percentile is a sample with at least that share of the other       *)
(* samples not above it and the rest not below it.                         *)
PercentilesAsDefined ==
  samples # <<>> =>
    \A p \in Percentiles :
      LET n == Len(samples)
          rank == (p * (n - 1)) \div 1000
      IN /\ Percentile(p) \in Range(samples)
         /\ Cardinality({j \in 1 .. n : samples[j] <= Percentile(p)}) > rank
         /\ Cardinality({j \in 1 .. n : samples[j] >= Percentile(p)}) >= n - rank

(* The report's lines agree although two computations give them: from the  *)
(* running minimum over the percentiles of the sorted samples to the       *)
(* running maximum they never fall.                                        *)
SummaryRises ==
  samples # <<>> =>
    /\ \A p \in Percentiles : /\ MinOf(stats) <= Percentile(p)
                            /\ Percentile(p) <= MaxOf(stats)
    /\ \A p, q \in Percentiles : p < q => Percentile(p) <= Percentile(q)

(* The drawn histogram counts every sample, none of them as an outlier.    *)
EverySampleDrawn ==
  samples # <<>> =>
    \A n \in 1 .. 3 :
      LET h == RenderedHistogram(n)
      IN /\ h.total = Len(samples)
         /\ SumOf([i \in 1 .. n |-> h.counts[i - 1]]) = Len(samples)
         /\ \A j \in 1 .. Len(samples) :
              LET i == FindBucket(h, samples[j])
              IN /\ BucketLower(h, i) <= samples[j] * h.scale
                 /\ samples[j] * h.scale < BucketUpper(h, i)
=============================================================================
