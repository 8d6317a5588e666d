---------------------------- MODULE QualityDrift ----------------------------
(***************************************************************************)
(* Has a run drifted from the baselines of its benchmark?                  *)
(*                                                                         *)
(*   analytics/drift.py        the history and the classification          *)
(*   regression/repository.py  baselines approved and superseded           *)
(*                                                                         *)
(* One run is analysed again and again while baselines come and go; its    *)
(* own measurement may become one.  A score is a number of units, Grain of *)
(* them to the RESOLUTION a median of two is rounded to: means the         *)
(* database computes have more decimals than that.                         *)
(***************************************************************************)
EXTENDS Integers, FiniteSets, OrderStatistics

CONSTANTS MeasuredRuns,  \* runs of one suite version
          Analysed,      \* the run that is analysed
          Means,         \* mean scores of a metric, or NoScore
          NoScore,
          Grain,         \* units to the resolution
          Tolerances,    \* drift tolerance, or Unconfigured
          Histories,     \* minimum history, or Unconfigured
          Unconfigured

ASSUME QualityDriftAssumption ==
    /\ IsFiniteSet(MeasuredRuns) /\ Analysed \in MeasuredRuns
    /\ Means \subseteq Int \cup {NoScore}
    /\ Grain \in Nat \ {0}
    /\ Tolerances \subseteq Int \cup {Unconfigured}
    /\ Histories \subseteq Int \cup {Unconfigured}

VARIABLES meanOf,            \* what each run measured
          driftTolerance, minimumHistory,      \* of the caller
          baselineState      \* the state of each run's baseline

driftVars == <<meanOf, driftTolerance, minimumHistory, baselineState>>

MinimumHistoryFloor == 2

ApprovedOnly ==                                   \* mutant of History
    {r \in MeasuredRuns \ {Analysed} :
        baselineState[r] = "approved" /\ meanOf[r] # NoScore}

(* baseline_history: superseded baselines are history, the run's own is    *)
(* not, and a baseline without a score says nothing.                       *)
History ==
    {r \in MeasuredRuns \ {Analysed} :
        /\ baselineState[r] \in {"approved", "superseded"}
        /\ meanOf[r] # NoScore}

Size == Cardinality(History)

(* Half of a sum to the nearest multiple of the resolution, halfway to the *)
(* even one.                                                               *)
Quantized(sum) ==
    LET whole == sum \div (2 * Grain)
        rest == sum % (2 * Grain)
    IN Grain * (IF rest < Grain \/ (rest = Grain /\ whole % 2 = 0)
                THEN whole ELSE whole + 1)

Median ==
    LET middle == Ranked(meanOf, History, Size \div 2 + 1)
    IN IF Size % 2 = 1 THEN middle
       ELSE Quantized(Ranked(meanOf, History, Size \div 2) + middle)

Distance(a, b) == IF a > b THEN a - b ELSE b - a

(* classify, without the wording; DriftError is a refusal.                 *)
DriftClass ==
    IF minimumHistory # Unconfigured /\ minimumHistory < MinimumHistoryFloor
    THEN "refused"
    ELSE IF meanOf[Analysed] = NoScore THEN "not_measured"
    ELSE IF \/ Size < MinimumHistoryFloor
            \/ minimumHistory # Unconfigured /\ Size < minimumHistory
    THEN "insufficient_history"
    ELSE IF driftTolerance = Unconfigured \/ minimumHistory = Unconfigured
    THEN "insufficient_configuration"
    ELSE IF Distance(meanOf[Analysed], Median) > driftTolerance THEN "drifted"
    ELSE "stable"

-----------------------------------------------------------------------------
DriftInit ==
    /\ meanOf \in [MeasuredRuns -> Means]
    /\ driftTolerance \in Tolerances /\ minimumHistory \in Histories
    /\ baselineState = [r \in MeasuredRuns |-> "pending_approval"]

(* approve_baseline, in the one scope considered (see ReleaseGate).        *)
Approve(r) ==
    /\ baselineState[r] = "pending_approval"
    /\ baselineState' = [o \in MeasuredRuns |->
                           IF o = r THEN "approved"
                           ELSE IF baselineState[o] = "approved" THEN "superseded"
                           ELSE baselineState[o]]
    /\ UNCHANGED <<meanOf, driftTolerance, minimumHistory>>

DriftNext == \E r \in MeasuredRuns : Approve(r)

DriftSpec == DriftInit /\ [][DriftNext]_driftVars

-----------------------------------------------------------------------------
Conclusive == DriftClass \in {"drifted", "stable"}

LeastHistory ==
    IF minimumHistory = Unconfigured \/ minimumHistory < MinimumHistoryFloor
    THEN MinimumHistoryFloor ELSE minimumHistory

(* Runs ever approved that a score can be compared with.                   *)
Others == {r \in MeasuredRuns \ {Analysed} :
             baselineState[r] # "pending_approval" /\ meanOf[r] # NoScore}

(* Baselines the run is above, or below, by more than so many half units.  *)
Beneath(gap) == {r \in Others : 2 * (meanOf[Analysed] - meanOf[r]) > gap}
Above(gap) == {r \in Others : 2 * (meanOf[r] - meanOf[Analysed]) > gap}

(* Drift is judged against the many (REQ-F-10-4): there is a verdict only  *)
(* on as many other baselines as were asked for, two at least, and no      *)
(* baseline is lost by being superseded; a run has drifted only if it is   *)
(* beyond the tolerance of at least half of them on one side, and is       *)
(* stable only if it is not so of more than half.  The rounding of the     *)
(* median may move either limit by half the resolution, and no further.    *)
DriftIsOfTheMany ==
    /\ Conclusive => Cardinality(Others) >= LeastHistory
    /\ DriftClass = "insufficient_history" => Cardinality(Others) < LeastHistory
    /\ DriftClass = "drifted" =>
         LET gap == 2 * driftTolerance - Grain
         IN \/ 2 * Cardinality(Beneath(gap)) >= Cardinality(Others)
            \/ 2 * Cardinality(Above(gap)) >= Cardinality(Others)
    /\ DriftClass = "stable" =>
         LET gap == 2 * driftTolerance + Grain
         IN /\ 2 * Cardinality(Beneath(gap)) <= Cardinality(Others)
            /\ 2 * Cardinality(Above(gap)) <= Cardinality(Others)
=============================================================================
