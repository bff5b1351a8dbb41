------------------------------ MODULE PairedStats ------------------------------
(***************************************************************************)
(* The robust statistics of the paired performance gates of                *)
(* scripts/legofs_observe.py, on whole numbers.  A throughput ratio is a   *)
(* percentage.  Med2 is twice the median and Mad4 four times the median    *)
(* absolute deviation, so that both stay whole for an even number of       *)
(* values.  The consistency constant 1.4826 is kept to two decimals, 37/25.*)
(***************************************************************************)
EXTENDS Naturals, Sequences, SequencesExt

Sorted(s) == SortSeq(s, LAMBDA x, y : x < y)

\* The two middle values, equal when the number of values is odd.
LowMiddle(s) == Sorted(s)[(Len(s) + 1) \div 2]
HighMiddle(s) == Sorted(s)[(Len(s) + 2) \div 2]

\* statistics.median, doubled.
Med2(s) == LowMiddle(s) + HighMiddle(s)

Distance(x, y) == IF x < y THEN y - x ELSE x - y

Mad4(s) == LET m == Med2(s)
           IN  Med2([i \in DOMAIN s |-> Distance(2 * s[i], m)])

\* paired_metric_stats: rMAD = 1.4826 * mad / median exceeds the limit, a percentage.
NoisierThan(s, limit) == 37 * Mad4(s) * 2 > limit * Med2(s)

\* A median below 100 percent minus the limit is a regression.
Regressed(s, limit) == Med2(s) < 2 * (100 - limit)

\* The improvement exp(median(log ratio)) - 1, the geometric mean of the two
\* middle ratios, exceeds both the floor (a percentage) and 2 * rMAD of each arm.
Improved(ratios, floor, arms) ==
    LET product == LowMiddle(ratios) * HighMiddle(ratios)
    IN  /\ product > (100 + floor) * (100 + floor)
        /\ \A i \in DOMAIN arms :
              LET m == Med2(arms[i])
                  d == Mad4(arms[i])
              IN  product * m * m > 16 * (25 * m + 37 * d) * (25 * m + 37 * d)

\* sign_flip: some pair is faster and some pair is slower.
SignFlip(ratios) == /\ \E i \in DOMAIN ratios : ratios[i] > 100
                    /\ \E i \in DOMAIN ratios : ratios[i] < 100
=============================================================================
