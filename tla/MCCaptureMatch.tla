-------------------------- MODULE MCCaptureMatch --------------------------
(* Ticks of 250 ms: the default cool-down and window; attempts that last a quarter of a
   second or two, a SYN that is lost once. *)
EXTENDS CaptureMatch

\* best_k is the last k for which it is rare that fewer than k of n samples are on one side.
ASSUME MedianIntervalIsNarrowest ==
    LET Few(n, k) == {S \in SUBSET (1 .. n) : Cardinality(S) < k}
    IN  \A n \in 1 .. 12 : \A k \in 1 .. n \div 2 :
            k <= best_k(n) <=> k = 1 \/ 40 * Cardinality(Few(n, k)) <= 2^n
=============================================================================
