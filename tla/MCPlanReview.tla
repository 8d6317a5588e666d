---------------------------- MODULE MCPlanReview ----------------------------
(* Two amendments and two acceptances of one plan.                         *)
EXTENDS PlanReview

CONSTANTS a1, a2, x1, x2
=============================================================================
