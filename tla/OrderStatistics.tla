-------------------------- MODULE OrderStatistics --------------------------
(***************************************************************************)
(* What several parts of the system compute of finitely many numbers:      *)
(* sorted(values)[k], as the percentile ranks of regression/statistics.py  *)
(* and the medians of judges/consensus.py and analytics/drift.py use it.   *)
(***************************************************************************)
EXTENDS Integers, FiniteSets

(* The k-th smallest, counted from 1, of the values f has on D: fewer than *)
(* k of them are smaller, and k at least are no greater.                   *)
Ranked(f, D, k) ==
    CHOOSE v \in {f[i] : i \in D} :
        /\ Cardinality({i \in D : f[i] < v}) < k
        /\ k <= Cardinality({i \in D : f[i] <= v})
=============================================================================
