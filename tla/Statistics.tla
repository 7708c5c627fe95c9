----------------------------- MODULE Statistics -----------------------------
(***************************************************************************)
(* The statistics of the connection benchmark, of the device               *)
(* (mqtt_client/main.c) and of the host (tools/analyze_hs_csv.py).         *)
(* Latencies are whole numbers and probabilities percents, so that a       *)
(* quantile comes out a hundred times as large.                            *)
(***************************************************************************)
EXTENDS Integers, Sorting, SequencesExt, Combinatorics

\* The point at a fraction of the way from one order statistic to another; both count from 0.
Between(v, lo, hi, percent) == 100 * v[lo + 1] + percent * (v[hi + 1] - v[lo + 1])

\* Mutant: the nearest rank, without interpolation.
quantile_sorted_n(v, p) ==
    LET lo == (p * Len(v)) \div 100
    IN  100 * v[IF lo < Len(v) THEN lo + 1 ELSE lo]

\* The device.
quantile_sorted(v, p) ==
    LET pos == p * (Len(v) - 1)
        lo  == pos \div 100
        hi  == IF lo + 1 < Len(v) THEN lo + 1 ELSE lo
    IN  IF Len(v) = 1 THEN 100 * v[1] ELSE Between(v, lo, hi, pos % 100)

Total(values) == FoldLeft(+, 0, values)

print_stat_row(values) ==
    LET v == Sorted(values)
    IN  [n |-> Len(v), sum |-> Total(values), min |-> v[1], max |-> v[Len(v)],
         median |-> quantile_sorted(v, 50), p90 |-> quantile_sorted(v, 90),
         p99 |-> quantile_sorted(v, 99)]

\* The host.
quantile(v, p) ==
    LET position == p * (Len(v) - 1)
        floor    == position \div 100
        ceil     == (position + 99) \div 100
    IN  IF Len(v) = 1 THEN 100 * v[1] ELSE Between(v, floor, ceil, position - 100 * floor)

\* The k-th sample from either end bounds the median with a confidence of 95 percent: of the
\* 2^n ways the samples can fall on its two sides, those with fewer than k on one are rare.
Covers(n, k) == 40 * MapThenSumSet(LAMBDA i : choose(n, i), 0 .. k - 1) <= 2^n

\* The narrowest of these intervals; the whole range when even that is not enough.
best_k(n) ==
    LET ks == {k \in 1 .. n \div 2 : Covers(n, k)}
    IN  IF ks = {} THEN 1 ELSE CHOOSE k \in ks : \A j \in ks : j <= k

robust_stats(values) ==
    LET v == Sorted(values)
    IN  [n |-> Len(v), median |-> quantile(v, 50), q1 |-> quantile(v, 25), q3 |-> quantile(v, 75),
         p90 |-> quantile(v, 90), min |-> v[1], max |-> v[Len(v)],
         ci_low |-> v[best_k(Len(v))], ci_high |-> v[Len(v) + 1 - best_k(Len(v))]]
=============================================================================
