------------------------- MODULE ScheduledExecution -------------------------
(***************************************************************************)
(* What follows the execution of a scheduled run: the gate decision, the   *)
(* alerts and the advice about the release it observes.                    *)
(*                                                                         *)
(*   orchestration/scheduler.py   execute_scheduled_run, _observe          *)
(*   orchestration/worker.py      execute_run (see RunExecution)           *)
(*   orchestration/releases.py    BY_OUTCOME, record                       *)
(*   analytics/alerts.py          evaluate_run, record_event               *)
(*   api/gate_service.py          evaluate_gate (see ReleaseGate)          *)
(*                                                                         *)
(* One job, five transactions, no record of which of them have committed.  *)
(* The queue delivers the job again when a worker is lost or is slow, and  *)
(* every delivery begins at the first stage.  An exception ends the job.   *)
(*                                                                         *)
(* A decision is known by the delivery that recorded it.  Samples are only *)
(* ever added by the first execution that commits, so what the gate and    *)
(* the rules make of them is chosen there.                                 *)
(***************************************************************************)
EXTENDS FiniteSets, Naturals

CONSTANTS Workers,
          Rules,         \* alert rules of the project
          Schedules,     \* the schedules considered: those that are gated
                         \* name a policy and a baseline, some observe a release
          Outcomes,      \* outcomes the gate may reach, of BY_OUTCOME's
          Requests,      \* cancellation requests
          MaxTries,      \* deliveries before the queue drops the job
          MaxCrashes     \* bound: worker losses considered

AllOutcomes == {"pass", "warning", "exception_applied", "hard_fail",
                "approval_required", "insufficient_evidence", "not_comparable"}

RunVerdicts == {"complete", "partial", "exhausted", "cancelled"}

ASSUME ScheduledExecutionAssumption ==
    /\ MaxTries \in Nat /\ MaxCrashes \in Nat
    /\ Outcomes \subseteq AllOutcomes
    /\ Schedules \subseteq [gated : BOOLEAN, observes : BOOLEAN]

VARIABLES schedule,      \* the run's schedule
          verdict,       \* completeness of the run
          filled,        \* are all its samples recorded
          outcome,       \* what the gate makes of its samples
          breached,      \* the rules its figures breach
          present,       \* is the dataset's content present
          paused,        \* rules paused
          decisions,     \* deliveries that recorded a gate decision
          events,        \* alert events of each rule, by what recorded them
          advice,        \* the release observation
          pc, local,     \* per worker: its stage; its delivery, the decision
                         \* of that delivery, the rules it found breached
          tries, acked, raised,
          crashes,
          request

runVars == <<verdict, filled, outcome, breached>>
recordVars == <<decisions, events, advice>>
jobVars == <<tries, acked, raised>>
around == <<schedule, present, paused, request>>
vars == <<runVars, recordVars, pc, local, jobVars, crashes, around>>

NoAdvice == [kind |-> "none yet", decision |-> 0]

Fresh == [try |-> 0, own |-> 0, seen |-> {}]

Init ==
    /\ schedule \in Schedules
    /\ verdict = "none" /\ filled = FALSE
    /\ outcome = "none" /\ breached = {}
    /\ present = TRUE /\ paused = {}
    /\ decisions = {}
    /\ events = [a \in Rules |-> {}]
    /\ advice = NoAdvice
    /\ pc = [w \in Workers |-> "idle"]
    /\ local = [w \in Workers |-> Fresh]
    /\ tries = 0 /\ acked = FALSE /\ raised = FALSE
    /\ crashes = 0
    /\ request = [r \in Requests |-> "idle"]

Goto(w, stage) == pc' = [pc EXCEPT ![w] = stage]

(* A delivery is over, with what it had in memory.                         *)
Forget(w) ==
    /\ Goto(w, "idle")
    /\ local' = [local EXCEPT ![w] = Fresh]

-----------------------------------------------------------------------------
(* The job and its stages.                                                 *)
DeliverAlways(w) ==                              \* mutant of Deliver
    /\ ~acked /\ pc[w] = "idle"
    /\ tries' = tries + 1
    /\ local' = [local EXCEPT ![w].try = tries + 1]
    /\ Goto(w, "load")
    /\ UNCHANGED <<runVars, recordVars, acked, raised, crashes, around>>

Deliver(w) ==
    /\ ~acked /\ tries < MaxTries /\ pc[w] = "idle"
    /\ tries' = tries + 1
    /\ local' = [local EXCEPT ![w].try = tries + 1]
    /\ Goto(w, "load")
    /\ UNCHANGED <<runVars, recordVars, acked, raised, crashes, around>>

LoadExamples(w) ==
    /\ pc[w] = "load" /\ present
    /\ Goto(w, "execute")
    /\ UNCHANGED <<runVars, recordVars, local, jobVars, crashes, around>>

(* What an execution makes of a run it finds with a verdict: RunExecution. *)
Verdicts ==
    IF filled THEN {"complete"}
    ELSE IF verdict = "none" THEN {"complete", "partial", "exhausted"}
    ELSE {verdict}

Execute(w) ==
    /\ pc[w] = "execute"
    /\ verdict' \in Verdicts
    /\ filled' = (filled \/ verdict' \in {"complete", "partial"})
    /\ IF outcome = "none"
       THEN outcome' \in Outcomes /\ breached' \in SUBSET Rules
       ELSE UNCHANGED <<outcome, breached>>
    /\ Goto(w, IF schedule.gated THEN "gate" ELSE "alerts")
    /\ UNCHANGED <<recordVars, local, jobVars, crashes, around>>

(* Every delivery asks for a decision of its own.                          *)
EvaluateGate(w) ==
    /\ pc[w] = "gate"
    /\ decisions' = decisions \cup {local[w].try}
    /\ local' = [local EXCEPT ![w].own = local[w].try]
    /\ Goto(w, "alerts")
    /\ UNCHANGED <<runVars, events, advice, jobVars, crashes, around>>

(* The active rules whose figures breach.                                  *)
ReadRules(w) ==
    /\ pc[w] = "alerts"
    /\ local' = [local EXCEPT ![w].seen = breached \ paused]
    /\ Goto(w, "fire")
    /\ UNCHANGED <<runVars, recordVars, jobVars, crashes, around>>

FireAgain(a, by) == events[a] \cup {by}          \* mutant of RecordEvent

(* One event per rule and run: a conflicting insert does nothing.          *)
RecordEvent(a, by) == IF events[a] = {} THEN {by} ELSE events[a]

FireAlerts(w) ==
    /\ pc[w] = "fire"
    /\ events' = [a \in Rules |-> IF a \in local[w].seen
                                  THEN RecordEvent(a, local[w].try)
                                  ELSE events[a]]
    /\ Goto(w, IF schedule.observes THEN "observe" ELSE "ack")
    /\ UNCHANGED <<runVars, decisions, advice, local, jobVars, crashes,
                   around>>

(* POST /runs/{runId}/alert-evaluations, of a run that has ended: the same *)
(* evaluation by no delivery, in a transaction of its own.                 *)
EvaluateAlerts ==
    /\ verdict # "none"
    /\ events' = [a \in Rules |-> IF a \in breached \ paused
                                  THEN RecordEvent(a, 0)
                                  ELSE events[a]]
    /\ UNCHANGED <<runVars, decisions, advice, pc, local, jobVars, crashes,
                   around>>

DefaultNone(o) ==                                \* mutant of Recommendation
    IF o = "hard_fail" THEN "rollback" ELSE "none"

Recommendation(o) ==                             \* BY_OUTCOME
    CASE o = "hard_fail" -> "rollback"
      [] o = "approval_required" -> "hold_release"
      [] o \in {"insufficient_evidence", "not_comparable"} -> "investigate"
      [] o \in {"pass", "warning", "exception_applied"} -> "none"

(* The advice of a delivery that reached a decision, or could reach none.  *)
Advice(w) ==
    [kind |-> IF local[w].own = 0 THEN "investigate" ELSE Recommendation(outcome),
     decision |-> local[w].own]

Overwrite(w) ==                                  \* mutant of Observe
    /\ pc[w] = "observe"
    /\ advice' = Advice(w)
    /\ Goto(w, "ack")
    /\ UNCHANGED <<runVars, decisions, events, local, jobVars, crashes,
                   around>>

(* One observation per run, by a unique constraint.                        *)
Observe(w) ==
    /\ pc[w] = "observe" /\ advice = NoAdvice
    /\ advice' = Advice(w)
    /\ Goto(w, "ack")
    /\ UNCHANGED <<runVars, decisions, events, local, jobVars, crashes,
                   around>>

Ack(w) ==
    /\ pc[w] = "ack"
    /\ acked' = TRUE
    /\ Forget(w)
    /\ UNCHANGED <<runVars, recordVars, tries, raised, crashes,
                   around>>

-----------------------------------------------------------------------------
(* The worker is lost between two transactions, or in one.                 *)
AckOnLoss(w) ==                                  \* mutant of LoseWorker
    /\ pc[w] # "idle" /\ crashes < MaxCrashes
    /\ crashes' = crashes + 1
    /\ acked' = TRUE
    /\ Forget(w)
    /\ UNCHANGED <<runVars, recordVars, tries, raised, around>>

LoseWorker(w) ==
    /\ pc[w] # "idle" /\ crashes < MaxCrashes
    /\ crashes' = crashes + 1
    /\ Forget(w)
    /\ UNCHANGED <<runVars, recordVars, jobVars, around>>

(* An exception leaves the stage: content that is gone, a gate that cannot *)
(* decide, a figure that cannot be read, an observation there already is.  *)
(* The queue does not retry.                                               *)
Raise(w) ==
    /\ \/ pc[w] = "load" /\ ~present
       \/ pc[w] \in {"execute", "gate", "alerts", "fire"}
       \/ pc[w] = "observe" /\ advice # NoAdvice
    /\ acked' = TRUE /\ raised' = TRUE
    /\ Forget(w)
    /\ UNCHANGED <<runVars, recordVars, tries, crashes, around>>

-----------------------------------------------------------------------------
(* Meanwhile: content is erased, rules are paused, the run is cancelled    *)
(* (get_run, then an UPDATE of whatever has become of it).                 *)
EraseContent ==
    /\ present
    /\ present' = FALSE
    /\ UNCHANGED <<runVars, recordVars, pc, local, jobVars, crashes, schedule,
                   paused, request>>

PauseRule(a) ==
    /\ a \notin paused
    /\ paused' = paused \cup {a}
    /\ UNCHANGED <<runVars, recordVars, pc, local, jobVars, crashes, schedule,
                   present, request>>

CancelRead(r) ==
    /\ request[r] = "idle"
    /\ request' = [request EXCEPT ![r] = IF verdict = "none" THEN "write"
                                         ELSE "done"]
    /\ UNCHANGED <<runVars, recordVars, pc, local, jobVars, crashes, schedule,
                   present, paused>>

CancelWrite(r) ==
    /\ request[r] = "write"
    /\ verdict' = "cancelled"
    /\ request' = [request EXCEPT ![r] = "done"]
    /\ UNCHANGED <<filled, outcome, breached, recordVars, pc, local, jobVars,
                   crashes, schedule, present, paused>>

-----------------------------------------------------------------------------
Stage(w) ==
    \/ LoadExamples(w) \/ Execute(w) \/ EvaluateGate(w)
    \/ ReadRules(w) \/ FireAlerts(w) \/ Observe(w) \/ Ack(w) \/ Raise(w)

Next ==
    \/ \E w \in Workers : Deliver(w) \/ Stage(w) \/ LoseWorker(w)
    \/ \E a \in Rules : PauseRule(a)
    \/ \E r \in Requests : CancelRead(r) \/ CancelWrite(r)
    \/ EraseContent
    \/ EvaluateAlerts

Spec == Init /\ [][Next]_vars

(* Workers poll the queue, and what they took either goes on or raises.    *)
FairSpec ==
    /\ Spec
    /\ WF_vars(\E w \in Workers : Deliver(w))
    /\ \A w \in Workers : WF_vars(Stage(w))
-----------------------------------------------------------------------------
TypeOK ==
    /\ schedule \in Schedules
    /\ verdict \in RunVerdicts \cup {"none"}
    /\ filled \in BOOLEAN
    /\ outcome \in AllOutcomes \cup {"none"}
    /\ breached \subseteq Rules /\ paused \subseteq Rules
    /\ present \in BOOLEAN
    /\ decisions \subseteq 1 .. MaxTries
    /\ events \in [Rules -> SUBSET (0 .. MaxTries)]
    /\ advice \in [kind : {"none yet", "rollback", "hold_release", "investigate",
                           "none"}, decision : 0 .. MaxTries]
    /\ pc \in [Workers -> {"idle", "load", "execute", "gate", "alerts", "fire",
                           "observe", "ack"}]
    /\ local \in [Workers ->
         [try : 0 .. MaxTries, own : 0 .. MaxTries, seen : SUBSET Rules]]
    /\ tries \in 0 .. MaxTries
    /\ acked \in BOOLEAN /\ raised \in BOOLEAN
    /\ crashes \in 0 .. MaxCrashes
    /\ request \in [Requests -> {"idle", "write", "done"}]

(* However often the job is delivered, and whatever verdicts its run goes  *)
(* through, a rule fires once on it, for figures it did breach (record_    *)
(* event: "a redelivery, a re-read, a second sweep - cannot produce a      *)
(* second alert about the same evidence").                                 *)
AlertOncePerRun ==
    \A a \in Rules :
        /\ Cardinality(events[a]) <= 1
        /\ events[a] # {} => verdict # "none" /\ a \in breached

(* Advice rests on what it cites: the run has a verdict, the alerts came   *)
(* first, and it says what the outcome of its own delivery's decision      *)
(* calls for, or, when there is none, to investigate (_observe,            *)
(* recommendation_for).                                                    *)
AdviceRestsOnEvidence ==
    advice # NoAdvice =>
        /\ verdict # "none"
        /\ \A a \in breached \ paused : events[a] # {}
        /\ IF schedule.gated
           THEN /\ advice.decision \in decisions
                /\ outcome = "hard_fail" <=> advice.kind = "rollback"
                /\ advice.kind = "none" =>
                     outcome \notin {"approval_required", "insufficient_evidence",
                                     "not_comparable"}
           ELSE advice = [kind |-> "investigate", decision |-> 0]

(* Advice is never rewritten by a later delivery (10-release-and-          *)
(* schedules.sql: "that is not advice, it is hindsight").                  *)
AdviceNeverRewritten == [][advice # NoAdvice => UNCHANGED advice]_vars

(* A job ends with its advice recorded, or with an exception: losses of    *)
(* workers, fewer than the tries, never leave the release unobserved.      *)
ReleaseObserved == schedule.observes => <>(advice # NoAdvice \/ raised)
=============================================================================
