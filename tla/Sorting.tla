------------------------------- MODULE Sorting -------------------------------
(***************************************************************************)
(* What sorting does to an array of numbers: qsort with the comparisons of *)
(* bench.c and mqtt_client/main.c, and sorted of the host's scripts.       *)
(***************************************************************************)
EXTENDS Integers, Sequences

\* The orders of its indices in which the values ascend.
Ascending(s) ==
    {p \in [DOMAIN s -> DOMAIN s] : /\ \A k \in DOMAIN s : \E j \in DOMAIN s : p[j] = k
                                    /\ \A j, k \in DOMAIN s : j < k => s[p[j]] <= s[p[k]]}

Sorted(s) == LET p == CHOOSE p \in Ascending(s) : TRUE
             IN  [k \in DOMAIN s |-> s[p[k]]]
=============================================================================
