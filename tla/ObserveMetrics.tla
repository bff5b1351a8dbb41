---------------------------- MODULE ObserveMetrics ----------------------------
(***************************************************************************)
(* The metric records of an observation arena, as scripts/legofs_observe.py*)
(* decodes, merges and summarises them.  A metric counts the calls of one  *)
(* stage of one process and, for the calls that were timed, keeps the sum, *)
(* the extremes and a histogram of the durations.  A duration is a number  *)
(* of ticks: 0 falls under the histogram, 1..Bins into the bin of that     *)
(* index and anything larger over it.  A bin is a saturating counter.      *)
(***************************************************************************)
EXTENDS Naturals, FiniteSetsExt

CONSTANTS
    Bins,          \* number of histogram bins (576 in the code)
    BinCap,        \* largest count a bin can hold (65535 in the code)
    MinSamples     \* samples needed before a percentile is published (100)

\* What histogram_bins is when the key is absent, and when it is None.
Absent == <<>>
NoBins == [i \in {0} |-> 0]

\* The empty dictionary a merge starts from.
EmptyMetric ==
    [calls |-> 0, samples |-> 0, sum |-> 0, min |-> 0, max |-> 0,
     successes |-> 0, errors |-> 0, under |-> 0, over |-> 0, sat |-> 0,
     bins |-> Absent]

\* A metric slot of an arena before its first call.
BlankSlot == [EmptyMetric EXCEPT !.bins = [i \in 1..Bins |-> 0]]

\* The writer in the observed process: one call, timed or not, with its outcome.
Observe(m, d, timed, failed) ==
    LET fits == d \in 1..Bins
        full == fits /\ m.bins[d] = BinCap
        n    == IF timed THEN 1 ELSE 0
    IN  [m EXCEPT
           !.calls = @ + 1,
           !.samples = @ + n,
           !.sum = @ + n * d,
           !.min = IF timed /\ (m.samples = 0 \/ d < @) THEN d ELSE @,
           !.max = IF timed /\ d > @ THEN d ELSE @,
           !.errors = IF failed THEN @ + 1 ELSE @,
           !.successes = IF failed THEN @ ELSE @ + 1,
           !.under = IF timed /\ d = 0 THEN @ + 1 ELSE @,
           !.over = IF timed /\ d > Bins THEN @ + 1 ELSE @,
           !.sat = IF timed /\ full THEN @ + 1 ELSE @,
           !.bins = IF timed /\ fits /\ ~full THEN [@ EXCEPT ![d] = @ + 1] ELSE @]

\* decode_compact_metric: a startup metric has no histogram and times every call.
Compact(m) ==
    [m EXCEPT !.samples = m.calls,
              !.successes = IF m.calls >= m.errors THEN m.calls - m.errors ELSE 0,
              !.under = 0, !.over = 0, !.sat = 0, !.bins = NoBins]

MergedBins(t, s) ==
    IF t.calls = 0 THEN s.bins
    ELSE IF t.bins = NoBins \/ s.bins = NoBins THEN NoBins
    ELSE [i \in 1..Bins |-> t.bins[i] + s.bins[i]]

\* add_metric: the counters add up, the extremes count only the timed metrics.
AddMetric(t, s) ==
    [calls |-> t.calls + s.calls, samples |-> t.samples + s.samples,
     sum |-> t.sum + s.sum,
     min |-> IF s.samples = 0 THEN t.min
             ELSE IF t.samples = 0 \/ s.min < t.min THEN s.min ELSE t.min,
     max |-> IF s.samples # 0 /\ s.max > t.max THEN s.max ELSE t.max,
     successes |-> t.successes + s.successes, errors |-> t.errors + s.errors,
     under |-> t.under + s.under, over |-> t.over + s.over, sat |-> t.sat + s.sat,
     bins |-> MergedBins(t, s)]

\* Rank of a percentile among n samples: max(1, ceil(n * percent / 100)).
RankOf(n, percent) ==
    LET r == (n * percent + 99) \div 100 IN IF r = 0 THEN 1 ELSE r

\* Samples at or below bin i.
UpTo(m, i) == m.under + MapThenSumSet(LAMBDA j : m.bins[j], 1..i)

\* metric_percentiles, its status for a metric.
PercentileStatus(m) ==
    LET held == m.under + m.over + m.sat + MapThenSumSet(LAMBDA j : m.bins[j], 1..Bins)
    IN  IF m.bins = Absent
        THEN IF m.samples = 0 THEN "no_samples" ELSE "histogram_unavailable"
        ELSE IF m.bins = NoBins THEN "not_available_compact_metric"
        ELSE IF held # m.samples THEN "histogram_count_mismatch"
        ELSE IF m.sat # 0 THEN "histogram_saturated"
        ELSE IF m.samples < MinSamples THEN "insufficient_samples"
        ELSE "ok"

\* metric_percentiles, one percentile: 0 is the histogram's lower bound, i the
\* representative of bin i, Bins + 1 the overflow, for which None is published.
Percentile(m, percent) ==
    LET rank == RankOf(m.samples, percent)
        hit  == {i \in 1..Bins : rank <= UpTo(m, i)}
    IN  IF rank <= m.under THEN 0
        ELSE IF hit = {} THEN Bins + 1
        ELSE Min(hit)
=============================================================================
