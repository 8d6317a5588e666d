---------------------------- MODULE GateVerdict ----------------------------
(***************************************************************************)
(* How paired scores become a gate outcome.                                *)
(*                                                                         *)
(*   regression/statistics.py     bootstrap interval and classification    *)
(*   regression/engine.py         thresholds, worst action, outcome        *)
(*   regression/comparability.py  what the two runs must hold fixed        *)
(*   api/gate_service.py          the gate without a baseline              *)
(*                                                                         *)
(* A gate weighs the criteria of its policy version one after another: it  *)
(* reads the pairs, resamples them, classifies the interval and applies    *)
(* the thresholds.  Scores are integers here and a mean is compared by the *)
(* sum it comes from, exactly as the code's decimals are.  The generator   *)
(* is seeded, so the draws of a criterion are some fixed sequence; the     *)
(* model admits every one.                                                 *)
(***************************************************************************)
EXTENDS Integers, Sequences, FiniteSets, Functions, OrderStatistics

CONSTANTS Scores,        \* scores an example can have
          MaxPairs,      \* bound: examples scored under both runs
          Resamples,     \* resample_count of the policy version
          Confidence,    \* confidence_level, in thousandths
          Criteria,      \* the criteria a policy may be made of
          MaxCriteria,   \* bound: criteria of one policy
          PinnedKinds,   \* the identity kinds that must agree
          Runs,          \* runs: captured identity, candidates recorded
          Absent,        \* no approved baseline was found
          Unset          \* a parameter the policy leaves open

Directions == {"higher_is_better", "lower_is_better"}
Sources == {"evaluator", "cost", "latency", "judge_agreement"}
Actions == {"hard_fail", "approval_required", "warning"}
Classifications == {"regression", "improvement", "no_change",
                    "insufficient_evidence", "not_comparable"}

ASSUME GateVerdictAssumption ==
    /\ Scores \subseteq Int
    /\ MaxPairs \in Nat /\ MaxCriteria \in Nat
    /\ Resamples \in Nat \ {0}
    /\ Confidence \in 1 .. 999
    /\ Absent \notin Runs
    /\ Criteria \subseteq
         [direction : Directions, source : Sources,
          precision : Nat \cup {Unset}, minimum : Nat \cup {Unset},
          floor : Int \cup {Unset},
          tolerance : Nat \cup {Unset},        \* in hundredths
          onRegression : Actions, onInsufficientEvidence : Actions,
          onNotComparable : Actions]

VARIABLES baseline, candidate,  \* the two runs
          pc,            \* what the gate is doing
          criterion,     \* the criterion in hand
          pairs, sums,   \* its pairs; the sums of its resamples
          weighed,       \* verdict and classification of each criterion so far
          count,         \* how many there are
          outcome        \* the decision

vars == <<baseline, candidate, pc, criterion, pairs, sums, weighed, count,
          outcome>>

-----------------------------------------------------------------------------
(* statistics.py.                                                          *)

PlusInt(a, b) == a + b
Total(s) == FoldFunction(PlusInt, 0, s)

Differences(ps) == [i \in DOMAIN ps |-> ps[i].candidate - ps[i].baseline]

(* The sums one resample can have: as many draws as there are pairs.       *)
ResampleSums(ps) ==
    LET d == Differences(ps) IN
    {Total([i \in DOMAIN d |-> d[draw[i]]])
       : draw \in [DOMAIN d -> DOMAIN d]}

(* The element at index rank, counted from 0, of the sorted values.        *)
AtRank(s, rank) == Ranked(s, DOMAIN s, rank + 1)

LowerRank == ((1000 - Confidence) * Resamples) \div 2000

UpperRank ==
    LET rank == ((1000 + Confidence) * Resamples) \div 2000
    IN IF rank < Resamples THEN rank ELSE Resamples - 1

Interval(s) == [lower |-> AtRank(s, LowerRank), upper |-> AtRank(s, UpperRank)]

(* What the classification is withheld for.                                *)
TooFew(c, n) == n = 0 \/ (c.minimum # Unset /\ n < c.minimum)

TooWide(c, n, interval) ==
    \/ c.precision = Unset
    \/ interval.upper - interval.lower > c.precision * n

MovedUp(c) ==
    IF c.direction = "higher_is_better" THEN "improvement" ELSE "regression"

DownIsWorse(c) == "regression"                    \* mutant of MovedDown

MovedDown(c) ==
    IF c.direction = "higher_is_better" THEN "regression" ELSE "improvement"

(* compare: widths and means carry the factor n of the sums they are       *)
(* taken from.                                                             *)
Classify(c, n, s) ==
    IF TooFew(c, n) THEN "insufficient_evidence"
    ELSE IF TooWide(c, n, Interval(s)) THEN "insufficient_evidence"
    ELSE IF Interval(s).upper < 0 THEN MovedDown(c)
    ELSE IF Interval(s).lower > 0 THEN MovedUp(c)
    ELSE "no_change"

-----------------------------------------------------------------------------
(* engine.py.                                                              *)

SumOf(ps, side) == Total([i \in DOMAIN ps |-> ps[i][side]])

FloorBreached(c, ps) ==
    /\ c.floor # Unset /\ ps # <<>>
    /\ IF c.direction = "higher_is_better"
       THEN SumOf(ps, "candidate") < c.floor * Len(ps)
       ELSE SumOf(ps, "candidate") > c.floor * Len(ps)

AbsInt(i) == IF i < 0 THEN -i ELSE i

(* The movement is within the tolerance; a zero baseline forgives nothing. *)
Tolerated(c, ps) ==
    /\ c.tolerance # Unset
    /\ SumOf(ps, "baseline") # 0
    /\ AbsInt(Total(Differences(ps))) * 100
         <= c.tolerance * AbsInt(SumOf(ps, "baseline"))

ForgiveFirst(c, ps, class) ==                     \* mutant of ApplyThresholds
    IF FloorBreached(c, ps) THEN "hard_fail"
    ELSE IF ps # <<>> /\ Tolerated(c, ps) THEN "pass"
    ELSE IF class = "insufficient_evidence" THEN c.onInsufficientEvidence
    ELSE IF class = "regression" THEN c.onRegression
    ELSE "pass"

AccuseByTolerance(c, ps, class) ==                \* mutant of ApplyThresholds
    IF FloorBreached(c, ps) THEN "hard_fail"
    ELSE IF class = "insufficient_evidence" THEN c.onInsufficientEvidence
    ELSE IF c.tolerance # Unset
         THEN IF Tolerated(c, ps) THEN "pass" ELSE c.onRegression
    ELSE IF class = "regression" THEN c.onRegression
    ELSE "pass"

FloorLast(c, ps, class) ==                        \* mutant of ApplyThresholds
    IF class = "insufficient_evidence" THEN c.onInsufficientEvidence
    ELSE IF class = "regression"
         THEN IF Tolerated(c, ps) THEN "pass" ELSE c.onRegression
    ELSE IF FloorBreached(c, ps) THEN "hard_fail"
    ELSE "pass"

(* The floor outranks the comparison; the tolerance can only forgive.      *)
ApplyThresholds(c, ps, class) ==
    IF FloorBreached(c, ps) THEN "hard_fail"
    ELSE IF class = "insufficient_evidence" THEN c.onInsufficientEvidence
    ELSE IF class = "regression" /\ ~Tolerated(c, ps) THEN c.onRegression
    ELSE "pass"

(* The worst action first, then the truest description.                    *)
DecisionOutcome(outcomes) ==
    LET Some(verdict) == \E o \in outcomes : o.verdict = verdict
        All(class) == \A o \in outcomes : o.class = class
    IN IF outcomes = {} THEN "insufficient_evidence"
       ELSE IF Some("hard_fail") THEN "hard_fail"
       ELSE IF Some("approval_required") THEN "approval_required"
       ELSE IF All("not_comparable") THEN "not_comparable"
       ELSE IF All("insufficient_evidence") THEN "insufficient_evidence"
       ELSE IF Some("warning") THEN "warning" ELSE "pass"

(* comparability.assess and _ambiguous_candidate.                          *)
Comparable(b, c) ==
    /\ b.candidates = 1 /\ c.candidates = 1
    /\ \A kind \in PinnedKinds : b.identity[kind] = c.identity[kind]

-----------------------------------------------------------------------------
NoCriterion == [none |-> TRUE]

Init ==
    /\ baseline \in Runs \cup {Absent} /\ candidate \in Runs
    /\ pc = "next" /\ criterion = NoCriterion
    /\ pairs = <<>> /\ sums = <<>>
    /\ weighed = {} /\ count = 0 /\ outcome = "none"

(* The next criterion of the policy, whichever it holds.                   *)
TakeCriterion ==
    /\ pc = "next" /\ count < MaxCriteria
    /\ criterion' \in Criteria
    /\ count' = count + 1
    /\ pc' = IF baseline # Absent /\ Comparable(baseline, candidate)
             THEN "read" ELSE "refuse"
    /\ UNCHANGED <<baseline, candidate, pairs, sums, weighed, outcome>>

Weigh(verdict, class) ==
    /\ weighed' = weighed \cup {[verdict |-> verdict, class |-> class]}
    /\ criterion' = NoCriterion /\ pairs' = <<>> /\ sums' = <<>>
    /\ pc' = "next"
    /\ UNCHANGED <<baseline, candidate, count, outcome>>

(* There is no baseline, the runs hold different things fixed, or the      *)
(* candidate's suite has no evaluator of the criterion's name.             *)
RefuseToCompare ==
    /\ \/ pc = "refuse"
       \/ pc = "read" /\ pairs = <<>> /\ criterion.source = "evaluator"
    /\ Weigh(criterion.onNotComparable, "not_comparable")

(* A row of the pairing query: an example scored in both runs.             *)
ReadPair ==
    /\ pc = "read" /\ Len(pairs) < MaxPairs
    /\ \E b, c \in Scores :
         pairs' = Append(pairs, [baseline |-> b, candidate |-> c])
    /\ UNCHANGED <<baseline, candidate, pc, criterion, sums, weighed, count,
                   outcome>>

Resample ==
    /\ pc = "read"
    /\ sums' \in IF pairs = <<>> THEN {<<>>}
                 ELSE [1 .. Resamples -> ResampleSums(pairs)]
    /\ pc' = "weigh"
    /\ UNCHANGED <<baseline, candidate, criterion, pairs, weighed, count,
                   outcome>>

EvaluateCriterion ==
    /\ pc = "weigh"
    /\ LET class == Classify(criterion, Len(pairs), sums)
       IN Weigh(ApplyThresholds(criterion, pairs, class), class)

(* A published policy has a criterion.  Without a baseline the outcome is  *)
(* written down, not derived.                                              *)
Decide ==
    /\ pc = "next" /\ count > 0
    /\ outcome' = IF baseline = Absent THEN "not_comparable"
                  ELSE DecisionOutcome(weighed)
    /\ pc' = "decided"
    /\ UNCHANGED <<baseline, candidate, criterion, pairs, sums, weighed, count>>

Decided == pc = "decided" /\ UNCHANGED vars

Next ==
    \/ TakeCriterion \/ RefuseToCompare
    \/ ReadPair \/ Resample \/ EvaluateCriterion
    \/ Decide \/ Decided

Spec == Init /\ [][Next]_vars

-----------------------------------------------------------------------------
Verdicts == Actions \cup {"pass"}

Unmeasured == {"insufficient_evidence", "not_comparable"}

(* A release is passed on measurements only: no policy, tolerance or       *)
(* combination of criteria turns "we could not tell" into a pass           *)
(* (ADR-016, REQ-F-08-4).                                                  *)
AbstentionNeverPasses ==
    outcome = "pass" => \A o \in weighed : o.class \notin Unmeasured

Severity == [pass |-> 0, warning |-> 1, approval_required |-> 2, hard_fail |-> 3]

Verdict(c, ps, s) == ApplyThresholds(c, ps, Classify(c, Len(ps), s))

(* A relative tolerance forgives and never accuses: whatever the data, the *)
(* criterion without one is answered no more mildly (engine.py,            *)
(* _apply_thresholds).                                                     *)
ToleranceOnlyForgives ==
    pc = "weigh" =>
      Severity[Verdict(criterion, pairs, sums)]
        <= Severity[Verdict([criterion EXCEPT !.tolerance = Unset], pairs, sums)]

(* A floor breached by one criterion decides the release, whatever the     *)
(* other criteria, and the baseline, say (ADR-016).                        *)
BreachedFloorBlocks ==
    [](pc = "weigh" /\ FloorBreached(criterion, pairs)
         => [](outcome \in {"none", "hard_fail"}))

Better(c) == IF c.direction = "higher_is_better" THEN 1 ELSE -1

Improved(c, ps) ==
    [i \in DOMAIN ps |-> [ps[i] EXCEPT !.candidate = ps[i].candidate + Better(c)]]

(* A candidate that is better on every example by the same amount, judged  *)
(* with the same draws, fares no worse: direction, floor, interval and     *)
(* tolerance all point the same way.  The resamples must bracket the mean, *)
(* as an interval that excludes its own estimate says nothing.             *)
BetterNeverFaresWorse ==
    (/\ pc = "weigh" /\ pairs # <<>>
     /\ Interval(sums).lower <= Total(Differences(pairs))
     /\ Total(Differences(pairs)) <= Interval(sums).upper) =>
      Severity[Verdict(criterion, Improved(criterion, pairs),
                       [i \in DOMAIN sums |-> sums[i] + Better(criterion) * Len(pairs)])]
        <= Severity[Verdict(criterion, pairs, sums)]
=============================================================================
