------------------------ MODULE MCScheduledExecution ------------------------
(* Instance of ScheduledExecution: two workers, a rule, a cancellation, *)
(* and outcomes that call for each kind of advice.                         *)
EXTENDS ScheduledExecution

CONSTANTS w1, w2, a1, q1

MCSchedules == {[gated |-> TRUE, observes |-> TRUE],
                [gated |-> FALSE, observes |-> TRUE],
                [gated |-> TRUE, observes |-> FALSE]}
MCOutcomes == {"pass", "hard_fail", "not_comparable"}
=============================================================================
