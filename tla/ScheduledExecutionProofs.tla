---------------------- MODULE ScheduledExecutionProofs ----------------------
(***************************************************************************)
(* Proofs about ScheduledExecution, for any workers, rules, schedules,     *)
(* outcomes and numbers of deliveries and losses.                          *)
(*                                                                         *)
(* Five transactions share no lock.  What lets a later stage rely on an    *)
(* earlier one is that records only ever gain: a run that has an outcome   *)
(* keeps it, a decision is not taken back, an event is not removed.  So    *)
(* what a delivery found when it passed a stage still holds whatever the   *)
(* other deliveries have done since (RecordsStand).                        *)
(***************************************************************************)
EXTENDS ScheduledExecution, FiniteSetTheorems, TLAPS

(* What a delivery that has passed its stages may rely on.                 *)
DeliveryInv(w) ==
    /\ pc[w] # "idle" => local[w].try \in 1 .. MaxTries
    /\ pc[w] \in {"idle", "load", "execute", "gate"} => local[w].own = 0
    /\ pc[w] \in {"gate", "alerts", "fire", "observe"} => outcome # "none"
    /\ pc[w] = "gate" => schedule.gated
    /\ pc[w] \in {"alerts", "fire", "observe"} =>
         IF schedule.gated THEN local[w].own \in decisions ELSE local[w].own = 0
    /\ pc[w] = "fire" =>
         /\ local[w].seen \subseteq breached
         /\ breached \ paused \subseteq local[w].seen
    /\ pc[w] = "observe" => \A a \in breached \ paused : events[a] # {}

EventsInv ==
    \A a \in Rules : events[a] # {} =>
        /\ a \in breached
        /\ outcome # "none"
        /\ \E by \in 0 .. MaxTries : events[a] = {by}

AdviceInv == advice # NoAdvice => outcome # "none" /\ AdviceRestsOnEvidence

Measured ==
    /\ outcome # "none" => verdict # "none"
    /\ outcome = "none" => breached = {}

IInv == /\ TypeOK /\ Measured /\ EventsInv /\ AdviceInv
        /\ \A w \in Workers : DeliveryInv(w)

(* What no step takes back.                                                *)
RecordsStand ==
    /\ outcome # "none" => outcome' = outcome /\ breached' = breached
    /\ decisions \subseteq decisions'
    /\ paused \subseteq paused'
    /\ \A a \in Rules : events[a] # {} => events'[a] # {}
    /\ schedule' = schedule
    /\ verdict # "none" => verdict' # "none"

-----------------------------------------------------------------------------
(* The table of recommendations.                                           *)
LEMMA RecommendationOf ==
    ASSUME NEW o \in AllOutcomes
    PROVE  /\ Recommendation(o) \in {"rollback", "hold_release", "investigate", "none"}
           /\ o = "hard_fail" <=> Recommendation(o) = "rollback"
           /\ Recommendation(o) = "none" =>
                o \notin {"approval_required", "insufficient_evidence", "not_comparable"}
BY DEF AllOutcomes, Recommendation

LEMMA ScheduleType ==
    ASSUME TypeOK
    PROVE  schedule.gated \in BOOLEAN /\ schedule.observes \in BOOLEAN
BY ScheduledExecutionAssumption DEF TypeOK

LEMMA OutcomeType == "none" \notin Outcomes /\ Outcomes \subseteq AllOutcomes
BY ScheduledExecutionAssumption DEF AllOutcomes

LEMMA VerdictsType == TypeOK => Verdicts \subseteq RunVerdicts
BY DEF TypeOK, Verdicts, RunVerdicts

-----------------------------------------------------------------------------
(* Types.                                                                  *)
LEMMA InitType == Init => TypeOK
<1> SUFFICES ASSUME Init PROVE TypeOK
  OBVIOUS
<1>1. MaxTries \in Nat /\ MaxCrashes \in Nat
  BY ScheduledExecutionAssumption
<1>2. 0 \in 0 .. MaxTries /\ 0 \in 0 .. MaxCrashes
  BY <1>1
<1>3. local \in [Workers ->
         [try : 0 .. MaxTries, own : 0 .. MaxTries, seen : SUBSET Rules]]
  BY <1>2 DEF Init, Fresh
<1>4. filled \in BOOLEAN /\ present \in BOOLEAN /\ acked \in BOOLEAN /\ raised \in BOOLEAN
  BY Zenon DEF Init
<1>5. advice \in [kind : {"none yet", "rollback", "hold_release", "investigate",
                           "none"}, decision : 0 .. MaxTries]
  BY <1>2 DEF Init, NoAdvice
<1>6. events \in [Rules -> SUBSET (0 .. MaxTries)]
  BY DEF Init
<1>7. /\ schedule \in Schedules
      /\ verdict \in RunVerdicts \cup {"none"}
      /\ outcome \in AllOutcomes \cup {"none"}
      /\ breached \subseteq Rules /\ paused \subseteq Rules
      /\ decisions \subseteq 1 .. MaxTries
      /\ pc \in [Workers -> {"idle", "load", "execute", "gate", "alerts", "fire",
                           "observe", "ack"}]
      /\ tries \in 0 .. MaxTries
      /\ crashes \in 0 .. MaxCrashes
      /\ request \in [Requests -> {"idle", "write", "done"}]
  BY <1>2 DEF Init
<1> QED
  BY <1>3, <1>4, <1>5, <1>6, <1>7 DEF TypeOK

Stages == {"idle", "load", "execute", "gate", "alerts", "fire", "observe", "ack"}

Locals == [try : 0 .. MaxTries, own : 0 .. MaxTries, seen : SUBSET Rules]

LEMMA ForgetType ==
    ASSUME TypeOK, NEW w \in Workers, Forget(w)
    PROVE  pc' \in [Workers -> Stages] /\ local' \in [Workers -> Locals]
<1>1. Fresh \in Locals
  BY ScheduledExecutionAssumption DEF Fresh, Locals
<1> QED
  BY <1>1 DEF Forget, Goto, TypeOK, Stages, Locals

LEMMA GotoType ==
    ASSUME TypeOK, NEW w \in Workers, NEW s \in Stages, Goto(w, s)
    PROVE  pc' \in [Workers -> Stages]
BY DEF Goto, TypeOK, Stages

(* What is around the job and what is recorded keeps its type.             *)
LEMMA FrameType ==
    ASSUME TypeOK, UNCHANGED <<schedule, paused, present, request, crashes>>,
           UNCHANGED runVars, UNCHANGED recordVars,
           pc' \in [Workers -> Stages], local' \in [Workers -> Locals],
           tries' \in 0 .. MaxTries, acked' \in BOOLEAN, raised' \in BOOLEAN
    PROVE  TypeOK'
BY DEF TypeOK, runVars, recordVars, Stages, Locals

LEMMA StageType ==
    ASSUME TypeOK, NEW w \in Workers, DeliveryInv(w), EventsInv, Stage(w)
    PROVE  TypeOK'
<1> USE DEF Stages, Locals
<1>0. MaxTries \in Nat
  BY ScheduledExecutionAssumption
<1>1. CASE LoadExamples(w)
  <2>1. pc' \in [Workers -> Stages]
    BY <1>1, GotoType DEF LoadExamples
  <2> QED
    BY <1>1, <2>1, FrameType DEF LoadExamples, TypeOK, jobVars, around
<1>2. CASE Execute(w)
  <2>1. pc' \in [Workers -> Stages]
    <3>1. CASE schedule.gated
      BY <1>2, <3>1, GotoType DEF Execute
    <3>2. CASE ~schedule.gated
      BY <1>2, <3>2, GotoType DEF Execute
    <3> QED
      BY <3>1, <3>2
  <2>2. verdict' \in RunVerdicts
    BY <1>2, VerdictsType DEF Execute
  <2>3. filled' \in BOOLEAN
    BY <1>2, Zenon DEF Execute
  <2>4. outcome' \in AllOutcomes \cup {"none"} /\ breached' \subseteq Rules
    BY <1>2, OutcomeType DEF Execute, TypeOK
  <2> QED
    BY <1>2, <2>1, <2>2, <2>3, <2>4
       DEF Execute, TypeOK, recordVars, jobVars, around
<1>3. CASE EvaluateGate(w)
  <2>1. local[w].try \in 1 .. MaxTries
    BY <1>3 DEF EvaluateGate, DeliveryInv
  <2>2. pc' \in [Workers -> Stages]
    BY <1>3, GotoType DEF EvaluateGate
  <2>3. local' \in [Workers -> Locals] /\ decisions' \subseteq 1 .. MaxTries
    BY <1>3, <2>1 DEF EvaluateGate, TypeOK
  <2> QED
    BY <1>3, <2>2, <2>3 DEF EvaluateGate, TypeOK, runVars, jobVars, around
<1>4. CASE ReadRules(w)
  <2>1. pc' \in [Workers -> Stages]
    BY <1>4, GotoType DEF ReadRules
  <2>2. local' \in [Workers -> Locals]
    BY <1>4 DEF ReadRules, TypeOK
  <2> QED
    BY <1>4, <2>1, <2>2, FrameType DEF ReadRules, TypeOK, jobVars, around
<1>5. CASE FireAlerts(w)
  <2>1. pc' \in [Workers -> Stages]
    <3>1. CASE schedule.observes
      BY <1>5, <3>1, GotoType DEF FireAlerts
    <3>2. CASE ~schedule.observes
      BY <1>5, <3>2, GotoType DEF FireAlerts
    <3> QED
      BY <3>1, <3>2
  <2>2. local[w].try \in 0 .. MaxTries
    BY DEF TypeOK
  <2>3. events' \in [Rules -> SUBSET (0 .. MaxTries)]
    BY <1>5, <2>2 DEF FireAlerts, RecordEvent, TypeOK
  <2> QED
    BY <1>5, <2>1, <2>3 DEF FireAlerts, TypeOK, runVars, jobVars, around
<1>6. CASE Observe(w)
  <2>1. pc' \in [Workers -> Stages]
    BY <1>6, GotoType DEF Observe
  <2>2. outcome \in AllOutcomes
    BY <1>6 DEF Observe, DeliveryInv, TypeOK
  <2>3. Advice(w) \in [kind : {"none yet", "rollback", "hold_release", "investigate",
                               "none"}, decision : 0 .. MaxTries]
    BY <2>2, RecommendationOf DEF Advice, TypeOK
  <2> QED
    BY <1>6, <2>1, <2>3 DEF Observe, TypeOK, runVars, jobVars, around
<1>7. CASE Ack(w)
  BY <1>7, ForgetType, FrameType DEF Ack, TypeOK, around
<1>8. CASE Raise(w)
  BY <1>8, ForgetType, FrameType DEF Raise, TypeOK, around
<1> QED
  BY <1>1, <1>2, <1>3, <1>4, <1>5, <1>6, <1>7, <1>8 DEF Stage

LEMMA StepType ==
    ASSUME IInv, [Next]_vars
    PROVE  TypeOK'
<1> USE DEF IInv
<1>0. MaxTries \in Nat /\ MaxCrashes \in Nat
  BY ScheduledExecutionAssumption
<1>1. ASSUME NEW w \in Workers, Deliver(w) PROVE TypeOK'
  <2>1. tries' \in 0 .. MaxTries
    <3>1. tries \in 0 .. MaxTries /\ tries < MaxTries /\ tries' = tries + 1
      BY <1>1 DEF Deliver, TypeOK
    <3> QED
      BY <1>0, <3>1
  <2>2. pc' \in [Workers -> Stages]
    BY <1>1, GotoType DEF Deliver, Stages
  <2>3. local' \in [Workers -> Locals]
    BY <1>1, <2>1 DEF Deliver, TypeOK, Locals
  <2> QED
    BY <1>1, <2>1, <2>2, <2>3, FrameType DEF Deliver, TypeOK, around
<1>2. ASSUME NEW w \in Workers, Stage(w) PROVE TypeOK'
  BY <1>2, StageType
<1>3. ASSUME NEW w \in Workers, LoseWorker(w) PROVE TypeOK'
  <2>1. crashes' \in 0 .. MaxCrashes
    <3>1. crashes \in 0 .. MaxCrashes /\ crashes < MaxCrashes /\ crashes' = crashes + 1
      BY <1>3 DEF LoseWorker, TypeOK
    <3> QED
      BY <1>0, <3>1
  <2>2. pc' \in [Workers -> Stages] /\ local' \in [Workers -> Locals]
    BY <1>3, ForgetType DEF LoseWorker
  <2> QED
    BY <1>3, <2>1, <2>2
       DEF LoseWorker, TypeOK, Stages, Locals, runVars, recordVars, jobVars, around
<1>4. ASSUME NEW a \in Rules, PauseRule(a) PROVE TypeOK'
  BY <1>4 DEF PauseRule, TypeOK, runVars, recordVars, jobVars
<1>5. ASSUME NEW r \in Requests, CancelRead(r) PROVE TypeOK'
  <2>1. request' \in [Requests -> {"idle", "write", "done"}]
    BY <1>5 DEF CancelRead, TypeOK
  <2> QED
    BY <1>5, <2>1 DEF CancelRead, TypeOK, runVars, recordVars, jobVars
<1>6. ASSUME NEW r \in Requests, CancelWrite(r) PROVE TypeOK'
  <2>1. request' \in [Requests -> {"idle", "write", "done"}]
    BY <1>6 DEF CancelWrite, TypeOK
  <2>2. verdict' \in RunVerdicts
    BY <1>6 DEF CancelWrite, RunVerdicts
  <2> QED
    BY <1>6, <2>1, <2>2 DEF CancelWrite, TypeOK, recordVars, jobVars
<1>7. CASE EraseContent
  BY <1>7 DEF EraseContent, TypeOK, runVars, recordVars, jobVars
<1>8. CASE EvaluateAlerts
  <2>1. 0 \in 0 .. MaxTries
    BY <1>0
  <2>2. events' \in [Rules -> SUBSET (0 .. MaxTries)]
    BY <1>8, <2>1 DEF EvaluateAlerts, RecordEvent, TypeOK
  <2> QED
    BY <1>8, <2>2 DEF EvaluateAlerts, TypeOK, runVars, jobVars, around
<1>9. CASE UNCHANGED vars
  BY <1>9 DEF TypeOK, vars, runVars, recordVars, jobVars, around
<1> QED
  BY <1>1, <1>2, <1>3, <1>4, <1>5, <1>6, <1>7, <1>8, <1>9 DEF Next

-----------------------------------------------------------------------------
(* Records only gain.                                                      *)
LEMMA Gains ==
    ASSUME IInv, [Next]_vars
    PROVE  RecordsStand
<1> USE DEF IInv
<1>1. ASSUME NEW w \in Workers, Execute(w) PROVE RecordsStand
  <2>1. verdict' \in RunVerdicts
    BY <1>1, VerdictsType DEF Execute
  <2>2. outcome # "none" => outcome' = outcome /\ breached' = breached
    BY <1>1 DEF Execute
  <2>3. /\ UNCHANGED <<decisions, events, paused, schedule>>
        /\ verdict' # "none"
    BY <1>1, <2>1 DEF Execute, recordVars, around, RunVerdicts
  <2> QED
    BY <2>2, <2>3 DEF RecordsStand
<1>2. ASSUME NEW w \in Workers, FireAlerts(w) PROVE RecordsStand
  <2>1. \A a \in Rules : events[a] # {} => events'[a] # {}
    BY <1>2 DEF FireAlerts, RecordEvent
  <2> QED
    BY <1>2, <2>1 DEF FireAlerts, RecordsStand, runVars, around
<1>3. ASSUME NEW w \in Workers, EvaluateGate(w) PROVE RecordsStand
  BY <1>3 DEF EvaluateGate, RecordsStand, runVars, around
<1>4. ASSUME NEW r \in Requests, CancelWrite(r) PROVE RecordsStand
  BY <1>4 DEF CancelWrite, RecordsStand, recordVars
<1>5. ASSUME NEW a \in Rules, PauseRule(a) PROVE RecordsStand
  BY <1>5 DEF PauseRule, RecordsStand, runVars, recordVars
<1>6. ASSUME UNCHANGED <<runVars, decisions, events, paused, schedule>>
      PROVE  RecordsStand
  BY <1>6 DEF RecordsStand, runVars
<1>7. ASSUME NEW w \in Workers, Stage(w) PROVE RecordsStand
  <2>1. CASE LoadExamples(w)
    BY <1>6, <2>1 DEF LoadExamples, recordVars, around
  <2>2. CASE ReadRules(w)
    BY <1>6, <2>2 DEF ReadRules, recordVars, around
  <2>3. CASE Observe(w)
    BY <1>6, <2>3 DEF Observe, around
  <2>4. CASE Ack(w) \/ Raise(w)
    BY <1>6, <2>4 DEF Ack, Raise, recordVars, around
  <2> QED
    BY <1>1, <1>2, <1>3, <1>7, <2>1, <2>2, <2>3, <2>4 DEF Stage
<1>8. ASSUME NEW w \in Workers, Deliver(w) \/ LoseWorker(w) PROVE RecordsStand
  BY <1>6, <1>8 DEF Deliver, LoseWorker, recordVars, around
<1>9. ASSUME NEW r \in Requests, CancelRead(r) PROVE RecordsStand
  BY <1>6, <1>9 DEF CancelRead, recordVars
<1>10. CASE EraseContent
  BY <1>6, <1>10 DEF EraseContent, recordVars
<1>11. CASE EvaluateAlerts
  <2>1. \A a \in Rules : events[a] # {} => events'[a] # {}
    BY <1>11 DEF EvaluateAlerts, RecordEvent
  <2> QED
    BY <1>11, <2>1 DEF EvaluateAlerts, RecordsStand, runVars, around
<1>12. CASE UNCHANGED vars
  BY <1>6, <1>12 DEF vars, recordVars, around
<1> QED
  BY <1>4, <1>5, <1>7, <1>8, <1>9, <1>10, <1>11, <1>12 DEF Next

(* A delivery that did not move keeps what it relies on.                   *)
LEMMA Waits ==
    ASSUME TypeOK, RecordsStand, NEW w \in Workers, DeliveryInv(w),
           pc'[w] = pc[w], local'[w] = local[w]
    PROVE  DeliveryInv(w)'
<1>1. /\ pc[w] \in {"gate", "alerts", "fire", "observe"} =>
           outcome' # "none" /\ breached' = breached
      /\ breached \subseteq Rules
  BY DEF DeliveryInv, RecordsStand, TypeOK
<1>2. pc[w] = "fire" =>
        /\ local[w].seen \subseteq breached'
        /\ breached' \ paused' \subseteq local[w].seen
  BY <1>1 DEF DeliveryInv, RecordsStand
<1>3. pc[w] = "observe" => \A a \in breached' \ paused' : events'[a] # {}
  BY <1>1 DEF DeliveryInv, RecordsStand
<1>4. pc[w] \in {"alerts", "fire", "observe"} =>
        IF schedule'.gated THEN local[w].own \in decisions' ELSE local[w].own = 0
  BY DEF DeliveryInv, RecordsStand
<1> QED
  BY <1>1, <1>2, <1>3, <1>4 DEF DeliveryInv, RecordsStand

(* A delivery that is over.                                                *)
LEMMA Over ==
    ASSUME TypeOK, NEW w \in Workers, Forget(w)
    PROVE  DeliveryInv(w)'
<1>1. pc'[w] = "idle" /\ local'[w] = Fresh
  BY DEF Forget, Goto, TypeOK
<1> QED
  BY <1>1 DEF DeliveryInv, Fresh

(* The delivery that takes a step.                                         *)
LEMMA Moves ==
    ASSUME IInv, RecordsStand, NEW w \in Workers, Stage(w)
    PROVE  DeliveryInv(w)'
<1> USE DEF IInv
<1>0. DeliveryInv(w) /\ schedule' = schedule
  BY DEF RecordsStand
<1>1. CASE LoadExamples(w)
  <2>1. pc[w] = "load" /\ pc'[w] = "execute" /\ local' = local
    BY <1>1 DEF LoadExamples, Goto, TypeOK
  <2> QED
    BY <1>0, <2>1 DEF DeliveryInv
<1>2. CASE Execute(w)
  <2>1. /\ pc[w] = "execute"
        /\ pc'[w] = IF schedule.gated THEN "gate" ELSE "alerts"
        /\ local' = local
    BY <1>2 DEF Execute, Goto, TypeOK
  <2>2. outcome' # "none"
    BY <1>2, OutcomeType DEF Execute
  <2>3. local[w].own = 0 /\ local[w].try \in 1 .. MaxTries
    BY <1>0, <2>1 DEF DeliveryInv
  <2>4. CASE schedule.gated
    BY <1>0, <2>1, <2>2, <2>3, <2>4 DEF DeliveryInv
  <2>5. CASE ~schedule.gated
    BY <1>0, <2>1, <2>2, <2>3, <2>5 DEF DeliveryInv
  <2> QED
    BY <2>4, <2>5
<1>3. CASE EvaluateGate(w)
  <2>1. /\ pc[w] = "gate" /\ pc'[w] = "alerts"
        /\ decisions' = decisions \cup {local[w].try}
        /\ outcome' = outcome
    BY <1>3 DEF EvaluateGate, Goto, TypeOK, runVars
  <2>2. local'[w].own = local[w].try /\ local'[w].try = local[w].try
    BY <1>3 DEF EvaluateGate, TypeOK
  <2>3. schedule.gated /\ outcome # "none" /\ local[w].try \in 1 .. MaxTries
    BY <1>0, <2>1 DEF DeliveryInv
  <2> QED
    BY <1>0, <2>1, <2>2, <2>3 DEF DeliveryInv
<1>4. CASE ReadRules(w)
  <2>1. /\ pc[w] = "alerts" /\ pc'[w] = "fire"
        /\ UNCHANGED <<outcome, breached, paused, decisions, schedule>>
    BY <1>4 DEF ReadRules, Goto, TypeOK, runVars, recordVars, around
  <2>2. /\ local'[w].seen = breached \ paused
        /\ local'[w].own = local[w].own
        /\ local'[w].try = local[w].try
    BY <1>4 DEF ReadRules, TypeOK
  <2> QED
    BY <1>0, <2>1, <2>2 DEF DeliveryInv
<1>5. CASE FireAlerts(w)
  <2>1. /\ pc[w] = "fire" /\ local' = local
        /\ pc'[w] = IF schedule.observes THEN "observe" ELSE "ack"
        /\ UNCHANGED <<outcome, breached, paused, decisions, schedule>>
    BY <1>5 DEF FireAlerts, Goto, TypeOK, runVars, around
  <2>2. breached \ paused \subseteq local[w].seen /\ breached \subseteq Rules
    BY <1>0, <2>1 DEF DeliveryInv, TypeOK
  <2>3. \A a \in Rules : a \in local[w].seen => events'[a] # {}
    BY <1>5 DEF FireAlerts, RecordEvent
  <2>4. pc'[w] \in {"observe", "ack"}
    BY <2>1
  <2> QED
    BY <1>0, <2>1, <2>2, <2>3, <2>4 DEF DeliveryInv
<1>6. CASE Observe(w)
  <2>1. pc[w] = "observe" /\ pc'[w] = "ack" /\ local' = local
    BY <1>6 DEF Observe, Goto, TypeOK
  <2> QED
    BY <1>0, <2>1 DEF DeliveryInv
<1>7. CASE Ack(w) \/ Raise(w)
  BY <1>7, Over DEF Ack, Raise
<1> QED
  BY <1>1, <1>2, <1>3, <1>4, <1>5, <1>6, <1>7 DEF Stage

-----------------------------------------------------------------------------
(* Events and advice, which two stages write.                              *)
LEMMA VerdictKept ==
    ASSUME IInv, RecordsStand, [Next]_vars
    PROVE  Measured'
<1> USE DEF IInv
<1>1. ASSUME NEW w \in Workers, Execute(w) PROVE Measured'
  <2>1. verdict' \in RunVerdicts
    BY <1>1, VerdictsType DEF Execute
  <2>2. outcome' # "none"
    BY <1>1, OutcomeType DEF Execute
  <2> QED
    BY <2>1, <2>2 DEF Measured, RunVerdicts
<1>2. ASSUME outcome' = outcome, breached' = breached PROVE Measured'
  BY <1>2 DEF Measured, RecordsStand
<1>3. ASSUME NEW w \in Workers, Stage(w), ~Execute(w) PROVE Measured'
  BY <1>2, <1>3 DEF Stage, LoadExamples, EvaluateGate, ReadRules, FireAlerts,
     Observe, Ack, Raise, runVars
<1>4. CASE \E w \in Workers : Deliver(w) \/ LoseWorker(w)
  BY <1>2, <1>4 DEF Deliver, LoseWorker, runVars
<1>5. CASE \/ \E a \in Rules : PauseRule(a)
           \/ \E r \in Requests : CancelRead(r) \/ CancelWrite(r)
           \/ EraseContent \/ EvaluateAlerts
           \/ UNCHANGED vars
  BY <1>2, <1>5 DEF PauseRule, CancelRead, CancelWrite, EraseContent, EvaluateAlerts,
     vars, runVars
<1> QED
  BY <1>1, <1>3, <1>4, <1>5 DEF Next

LEMMA OthersKeepEvents ==
    ASSUME EventsInv, RecordsStand, UNCHANGED events
    PROVE  EventsInv'
<1> SUFFICES ASSUME NEW a \in Rules, events[a] # {}
             PROVE  /\ a \in breached'
                    /\ outcome' # "none"
                    /\ \E by \in 0 .. MaxTries : events[a] = {by}
  BY DEF EventsInv
<1> QED
  BY DEF EventsInv, RecordsStand

LEMMA RecordingKeepsEvents ==
    ASSUME IInv, RecordsStand, NEW by \in 0 .. MaxTries, NEW found \in SUBSET breached,
           outcome # "none" \/ found = {},
           events' = [a \in Rules |-> IF a \in found THEN RecordEvent(a, by)
                                     ELSE events[a]]
    PROVE  EventsInv'
<1> SUFFICES ASSUME NEW a \in Rules, events'[a] # {}
             PROVE  /\ a \in breached'
                    /\ outcome' # "none"
                    /\ \E b \in 0 .. MaxTries : events'[a] = {b}
  BY DEF EventsInv
<1>1. CASE events[a] # {}
  <2>1. events'[a] = events[a]
    BY <1>1 DEF RecordEvent
  <2> QED
    BY <1>1, <2>1 DEF EventsInv, RecordsStand, IInv
<1>2. CASE events[a] = {}
  <2>1. a \in found /\ events'[a] = {by}
    BY <1>2 DEF RecordEvent
  <2> QED
    BY <2>1 DEF RecordsStand
<1> QED
  BY <1>1, <1>2

LEMMA FiringKeepsEvents ==
    ASSUME IInv, RecordsStand,
           EvaluateAlerts \/ \E w \in Workers : FireAlerts(w)
    PROVE  EventsInv'
<1>1. ASSUME NEW w \in Workers, FireAlerts(w) PROVE EventsInv'
  <2>1. /\ local[w].seen \in SUBSET breached /\ outcome # "none"
        /\ local[w].try \in 0 .. MaxTries
    BY <1>1 DEF FireAlerts, IInv, DeliveryInv, TypeOK
  <2> QED
    BY <1>1, <2>1, RecordingKeepsEvents DEF FireAlerts
<1>2. CASE EvaluateAlerts
  <2>1. /\ breached \ paused \in SUBSET breached /\ 0 \in 0 .. MaxTries
        /\ outcome # "none" \/ breached \ paused = {}
    BY ScheduledExecutionAssumption DEF IInv, Measured
  <2> QED
    BY <1>2, <2>1, RecordingKeepsEvents DEF EvaluateAlerts
<1> QED
  BY <1>1, <1>2

LEMMA OthersKeepAdvice ==
    ASSUME TypeOK, Measured', AdviceInv, RecordsStand, UNCHANGED advice
    PROVE  AdviceInv'
<1> SUFFICES ASSUME advice # NoAdvice
             PROVE  outcome' # "none" /\ AdviceRestsOnEvidence'
  BY DEF AdviceInv, NoAdvice
<1>1. /\ outcome # "none" /\ outcome' = outcome /\ breached' = breached
      /\ schedule' = schedule
      /\ breached \subseteq Rules
  BY DEF AdviceInv, RecordsStand, TypeOK
<1>2. verdict' # "none"
  BY <1>1 DEF Measured
<1>3. \A a \in breached' \ paused' : events'[a] # {}
  BY <1>1 DEF AdviceInv, AdviceRestsOnEvidence, RecordsStand
<1>4. schedule.gated => advice.decision \in decisions'
  BY DEF AdviceInv, AdviceRestsOnEvidence, RecordsStand
<1> QED
  BY <1>1, <1>2, <1>3, <1>4 DEF AdviceInv, AdviceRestsOnEvidence

LEMMA ObservingKeepsAdvice ==
    ASSUME IInv, NEW w \in Workers, Observe(w)
    PROVE  AdviceInv'
<1> USE DEF IInv
<1>1. /\ pc[w] = "observe" /\ advice' = Advice(w)
      /\ UNCHANGED <<verdict, outcome, breached, paused, decisions, events, schedule>>
  BY DEF Observe, runVars, around
<1>2. /\ outcome # "none" /\ outcome \in AllOutcomes
      /\ verdict # "none"
      /\ \A a \in breached \ paused : events[a] # {}
      /\ IF schedule.gated THEN local[w].own \in decisions ELSE local[w].own = 0
  BY <1>1 DEF DeliveryInv, Measured, TypeOK
<1>3. CASE schedule.gated
  <2>1. local[w].own \in decisions /\ local[w].own # 0
    <3>1. local[w].own \in decisions
      BY <1>2, <1>3
    <3>2. decisions \subseteq 1 .. MaxTries /\ MaxTries \in Nat
      BY ScheduledExecutionAssumption DEF TypeOK
    <3> QED
      BY <3>1, <3>2
  <2>2. advice'.kind = Recommendation(outcome) /\ advice'.decision = local[w].own
    BY <1>1, <2>1 DEF Advice
  <2> QED
    BY <1>1, <1>2, <1>3, <2>1, <2>2, RecommendationOf
       DEF AdviceInv, AdviceRestsOnEvidence
<1>4. CASE ~schedule.gated
  <2>1. advice' = [kind |-> "investigate", decision |-> 0]
    BY <1>1, <1>2, <1>4 DEF Advice
  <2> QED
    BY <1>1, <1>2, <1>4, <2>1 DEF AdviceInv, AdviceRestsOnEvidence
<1> QED
  BY <1>3, <1>4

-----------------------------------------------------------------------------
LEMMA InitHolds == Init => IInv
<1> SUFFICES ASSUME Init PROVE IInv
  OBVIOUS
<1>1. TypeOK
  BY InitType
<1>2. \A w \in Workers : DeliveryInv(w)
  BY DEF Init, Fresh, DeliveryInv
<1>3. Measured /\ EventsInv /\ AdviceInv
  BY DEF Init, Measured, EventsInv, AdviceInv
<1> QED
  BY <1>1, <1>2, <1>3 DEF IInv

LEMMA StepHolds == IInv /\ [Next]_vars => IInv'
<1> SUFFICES ASSUME IInv, [Next]_vars PROVE IInv'
  OBVIOUS
<1>1. TypeOK'
  BY StepType
<1>2. RecordsStand
  BY Gains
<1>3. Measured'
  BY <1>2, VerdictKept
<1>4. EventsInv'
  <2>1. CASE EvaluateAlerts \/ \E w \in Workers : FireAlerts(w)
    BY <1>2, <2>1, FiringKeepsEvents
  <2>2. CASE ~(EvaluateAlerts \/ \E w \in Workers : FireAlerts(w))
    <3>1. UNCHANGED events
      BY <2>2 DEF Next, Stage, Deliver, LoadExamples, Execute, EvaluateGate, ReadRules,
         Observe, Ack, Raise, LoseWorker, PauseRule, CancelRead, CancelWrite,
         EraseContent, vars, recordVars
    <3> QED
      BY <1>2, <3>1, OthersKeepEvents DEF IInv
  <2> QED
    BY <2>1, <2>2
<1>5. AdviceInv'
  <2>1. CASE \E w \in Workers : Observe(w)
    BY <2>1, ObservingKeepsAdvice
  <2>2. CASE ~ \E w \in Workers : Observe(w)
    <3>1. UNCHANGED advice
      BY <2>2 DEF Next, Stage, Deliver, LoadExamples, Execute, EvaluateGate, ReadRules,
         FireAlerts, Ack, Raise, LoseWorker, PauseRule, CancelRead, CancelWrite,
         EraseContent, EvaluateAlerts, vars, recordVars
    <3> QED
      BY <1>2, <1>3, <3>1, OthersKeepAdvice DEF IInv
  <2> QED
    BY <2>1, <2>2
<1>6. \A w \in Workers : DeliveryInv(w)'
  <2> SUFFICES ASSUME NEW w \in Workers PROVE DeliveryInv(w)'
    OBVIOUS
  <2>1. CASE pc'[w] = pc[w] /\ local'[w] = local[w]
    BY <1>2, <2>1, Waits DEF IInv
  <2>2. CASE Stage(w)
    BY <1>2, <2>2, Moves
  <2>3. CASE LoseWorker(w)
    BY <2>3, Over DEF LoseWorker, IInv
  <2>4. CASE Deliver(w)
    <3>1. /\ pc[w] = "idle" /\ pc'[w] = "load"
          /\ local'[w].try = tries + 1 /\ local'[w].own = local[w].own
          /\ tries \in 0 .. MaxTries /\ tries < MaxTries
      BY <2>4 DEF Deliver, Goto, IInv, TypeOK
    <3>2. tries + 1 \in 1 .. MaxTries
      BY <3>1, ScheduledExecutionAssumption
    <3>3. local[w].own = 0
      BY <3>1 DEF IInv, DeliveryInv
    <3> QED
      BY <3>1, <3>2, <3>3 DEF DeliveryInv
  <2>5. CASE \E v \in Workers \ {w} : Stage(v) \/ LoseWorker(v) \/ Deliver(v)
    <3>1. PICK v \in Workers \ {w} : Stage(v) \/ LoseWorker(v) \/ Deliver(v)
      BY <2>5
    <3>2. pc'[w] = pc[w] /\ local'[w] = local[w]
      BY <3>1 DEF IInv, TypeOK, Stage, Deliver, LoadExamples, Execute, EvaluateGate,
         ReadRules, FireAlerts, Observe, Ack, Raise, LoseWorker, Goto, Forget
    <3> QED
      BY <2>1, <3>2
  <2>6. CASE \/ \E a \in Rules : PauseRule(a)
             \/ \E r \in Requests : CancelRead(r) \/ CancelWrite(r)
             \/ EraseContent \/ EvaluateAlerts
             \/ UNCHANGED vars
    BY <2>1, <2>6 DEF PauseRule, CancelRead, CancelWrite, EraseContent,
       EvaluateAlerts, vars
  <2> QED
    BY <2>2, <2>3, <2>4, <2>5, <2>6 DEF Next
<1> QED
  BY <1>1, <1>3, <1>4, <1>5, <1>6 DEF IInv

(* The invariant of scheduled execution: what each delivery may rely on at *)
(* its stage, and what events and advice rest on.                          *)
THEOREM DeliveryInvariant == Spec => []IInv
BY InitHolds, StepHolds, PTL DEF Spec

(* Every variable keeps its type.                                          *)
THEOREM ScheduledTypeCorrect == Spec => []TypeOK
<1>1. IInv => TypeOK
  BY DEF IInv
<1> QED
  BY <1>1, DeliveryInvariant, PTL

(* However often the job is delivered, a rule fires at most once on a run, *)
(* and only if the run's figures breach it.                                *)
THEOREM AlertsOnce == Spec => []AlertOncePerRun
<1>1. IInv => AlertOncePerRun
  <2> SUFFICES ASSUME IInv, NEW a \in Rules
               PROVE  /\ Cardinality(events[a]) <= 1
                      /\ events[a] # {} => verdict # "none" /\ a \in breached
    BY DEF AlertOncePerRun
  <2>1. CASE events[a] = {}
    BY <2>1, FS_EmptySet
  <2>2. CASE events[a] # {}
    <3>1. PICK e : events[a] = {e}
      BY <2>2 DEF IInv, EventsInv
    <3>2. Cardinality(events[a]) = 1
      BY <3>1, FS_Singleton, Zenon
    <3> QED
      BY <2>2, <3>2 DEF IInv, EventsInv, Measured
  <2> QED
    BY <2>1, <2>2
<1> QED
  BY <1>1, DeliveryInvariant, PTL

(* Advice rests on the decision it cites, and on a run that has a verdict  *)
(* and has been searched for alerts.                                       *)
THEOREM AdviceEvidenced == Spec => []AdviceRestsOnEvidence
<1>1. IInv => AdviceRestsOnEvidence
  BY DEF IInv, AdviceInv, AdviceRestsOnEvidence
<1> QED
  BY <1>1, DeliveryInvariant, PTL

(* No later delivery rewrites the advice.                                  *)
THEOREM AdviceKept == Spec => AdviceNeverRewritten
<1>1. [Next]_vars => [advice # NoAdvice => UNCHANGED advice]_vars
  <2> SUFFICES ASSUME Next, advice # NoAdvice PROVE UNCHANGED advice
    BY DEF vars
  <2> QED
    BY DEF Next, Stage, Deliver, LoadExamples, Execute, EvaluateGate, ReadRules,
       FireAlerts, Observe, Ack, Raise, LoseWorker, PauseRule, CancelRead, CancelWrite,
       EraseContent, EvaluateAlerts, recordVars
<1> QED
  BY <1>1, PTL DEF Spec, AdviceNeverRewritten
=============================================================================
