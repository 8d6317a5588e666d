----------------------------- MODULE MCMeasures -----------------------------
(***************************************************************************)
(* Seven small parts that share no state, in one run: gate verdicts, the   *)
(* judge panel, the rate limiter, cadences, plan reviews, the versions of  *)
(* a definition and quality drift.  The initial state chooses the part     *)
(* that moves; each of the others rests in one of its own initial states,  *)
(* so every property is checked as its module states it.                   *)
(***************************************************************************)
EXTENDS GateVerdict, JudgePanel, RateLimiter, Cadence, PlanReview,
        VersionRegistry, QualityDrift, TLC

CONSTANTS s1, s2            \* two versions of what a run holds fixed

MCKinds == {"suite_version"}
MCRuns == [identity : [MCKinds -> {s1, s2}], candidates : 1 .. 2]

Criterion(direction, source, precision, minCount, floor, tolerance,
          onInsufficientEvidence, onNotComparable) ==
    [direction |-> direction, source |-> source, precision |-> precision,
     minimum |-> minCount, floor |-> floor, tolerance |-> tolerance,
     onRegression |-> "approval_required",
     onInsufficientEvidence |-> onInsufficientEvidence,
     onNotComparable |-> onNotComparable]

(* A forgiving quality criterion, a strict one without a minimum, and a    *)
(* cost criterion, where less is better.                                   *)
MCCriteria ==
    {Criterion("higher_is_better", "evaluator", 1, 2, 1, 50, "warning", "warning"),
     Criterion("higher_is_better", "evaluator", 2, Unset, Unset, Unset,
               "hard_fail", "hard_fail"),
     Criterion("lower_is_better", "cost", 1, 1, 2, 100, "warning",
               "approval_required")}

(* The rate limiter: the second server's clock is ahead.                   *)
CONSTANTS v1, v2
MCSkew == v1 :> 0 @@ v2 :> 1
MCTimeToLive == 1 :> 4 @@ 2 :> 4

(* Cadences of one minute, with every kind of day, month and weekday.      *)
One(n) == {[body |-> <<n, n>>, step |-> {}]}
FromTo(a, b, s) == {[body |-> <<a, b>>, step |-> s]}
Every(s) == {[body |-> <<>>, step |-> s]}
MCExpressions ==
    [minute : {One(0)}, hour : {One(6), Every({8})},
     day : {Every({}), Every({10}), One(1), One(31), One(32),
            One(30) \cup FromTo(5, 9, {2})},
     month : {Every({}), One(2), FromTo(3, 9, {3})},
     weekday : {Every({}), Every({2}), Every({0}), One(0), FromTo(1, 5, {}),
                FromTo(5, 1, {})}]

(* Plan reviews, judge panels and drift.                                   *)
CONSTANTS a1, a2, x1, x2, t1, t2, r1, r2, u1, u2, u3, u4

(* Versions of one definition: two requests publish the first of them, and *)
(* one the second, which as a policy would have no criteria.               *)
CONSTANTS n1, n2, n3, p1, p2, p3
MCTargetOf == p1 :> n1 @@ p2 :> n1 @@ p3 :> n2
MCBare == {n2}

-----------------------------------------------------------------------------
VARIABLE part               \* the part that moves

allVars == <<vars, panelVars, limiterVars, cadenceVars, planVars, registryVars,
             driftVars, part>>

Parts == {"verdict", "panel", "limiter", "cadence", "plan", "registry", "drift"}

(* Where a part rests: what its initial states leave open is settled.      *)
Settled ==
    /\ part # "verdict" =>
         baseline = Absent /\ candidate = CHOOSE r \in Runs : TRUE
    /\ part # "panel" => threshold = NotSet /\ minimum = NotSet
    /\ part # "limiter" => limit = Max(Limits)
    /\ part # "plan" => plan.valid
    /\ part # "registry" => kind = "prompt"

MeasuresInit ==
    /\ part \in Parts
    /\ Init /\ PanelInit /\ LimiterInit /\ PlanInit /\ RegistryInit /\ Settled
    /\ IF part = "cadence" THEN CadenceInit
       ELSE /\ cadence = Refused /\ fired = FALSE
            /\ today = [month |-> 1, day |-> 1, weekday |-> 0]
    /\ IF part = "drift" THEN DriftInit
       ELSE /\ meanOf = [r \in MeasuredRuns |-> NoScore]
            /\ driftTolerance = Unconfigured /\ minimumHistory = Unconfigured
            /\ baselineState = [r \in MeasuredRuns |-> "pending_approval"]

VerdictStep ==
    /\ part = "verdict" /\ Next
    /\ UNCHANGED <<panelVars, limiterVars, cadenceVars, planVars, registryVars,
                   driftVars, part>>

PanelStep ==
    /\ part = "panel" /\ PanelNext
    /\ UNCHANGED <<vars, limiterVars, cadenceVars, planVars, registryVars,
                   driftVars, part>>

LimiterStep ==
    /\ part = "limiter" /\ LimiterNext
    /\ UNCHANGED <<vars, panelVars, cadenceVars, planVars, registryVars,
                   driftVars, part>>

CadenceStep ==
    /\ part = "cadence" /\ CadenceNext
    /\ UNCHANGED <<vars, panelVars, limiterVars, planVars, registryVars,
                   driftVars, part>>

PlanStep ==
    /\ part = "plan" /\ PlanNext
    /\ UNCHANGED <<vars, panelVars, limiterVars, cadenceVars, registryVars,
                   driftVars, part>>

RegistryStep ==
    /\ part = "registry" /\ RegistryNext
    /\ UNCHANGED <<vars, panelVars, limiterVars, cadenceVars, planVars,
                   driftVars, part>>

DriftStep ==
    /\ part = "drift" /\ DriftNext
    /\ UNCHANGED <<vars, panelVars, limiterVars, cadenceVars, planVars,
                   registryVars, part>>

MeasuresNext ==
    \/ VerdictStep \/ PanelStep \/ LimiterStep \/ CadenceStep
    \/ PlanStep \/ RegistryStep \/ DriftStep

(* The sweep runs every minute.                                            *)
MeasuresSpec ==
    MeasuresInit /\ [][MeasuresNext]_allVars /\ WF_allVars(CadenceStep)
=============================================================================
