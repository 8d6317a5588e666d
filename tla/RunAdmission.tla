---------------------------- MODULE RunAdmission ----------------------------
(***************************************************************************)
(* How runs come into existence.                                           *)
(*                                                                         *)
(*   api/service.py               RunService.create_run, one per POST      *)
(*   orchestration/scheduler.py   sweep_tenant, sweep_schedules            *)
(*   orchestration/repository.py  create_run, find_run_by_idempotency_key  *)
(*   security/repository.py       consume_run_quota                        *)
(*                                                                         *)
(* Requests and sweeps of one tenant run concurrently, each in one READ    *)
(* COMMITTED transaction: a read sees what the others have committed.  The *)
(* quota statement locks the period's counter row until its transaction    *)
(* ends, and an insert waits for an uncommitted run with the same key.     *)
(*                                                                         *)
(* A request carries one idempotency key; a sweep walks over the schedules *)
(* due in its minute, with one trigger key each, and after its commit      *)
(* hands the runs it fired to the queue.                                   *)
(***************************************************************************)
EXTENDS Integers, FiniteSets

CONSTANTS Posts,         \* requests to create a run
          Sweeps,        \* executions of the cron job
          NumSchedules,  \* active schedules of the tenant, in order of id
          KeyOf,         \* idempotency key of a request
          MomentOf,      \* the minute a sweep is about
          PeriodOf,      \* the quota period a request or sweep falls in
          BodyOf,        \* identity components a request's body names
          ScheduleBody,  \* those of a scheduled run
          RunsPerPeriod,  \* the tenant's quota
          MaxLost,       \* bound: lost processes considered
          NoOne          \* holder of a free lock

Submitters == Posts \cup Sweeps
Periods == {PeriodOf[a] : a \in Submitters}
TriggerKeys == (1 .. NumSchedules) \X {MomentOf[s] : s \in Sweeps}
RunKeys == {KeyOf[p] : p \in Posts} \cup TriggerKeys

ASSUME RunAdmissionAssumption ==
    /\ NumSchedules \in Nat \ {0}
    /\ RunsPerPeriod \in Nat \ {0}
    /\ MaxLost \in Nat
    /\ Posts \cap Sweeps = {}
    /\ NoOne \notin Submitters
    /\ \A p \in Posts : KeyOf[p] \notin TriggerKeys

VARIABLES runs,          \* the committed runs
          started,       \* runs_started of each period's counter
          locked,        \* transaction holding each period's counter row
          at, item,      \* per submitter: where it is, which schedule
          draft,         \* per submitter: runs inserted, not committed
          touched,       \* per submitter: keys of existing runs it reuses
          charge,        \* per submitter: increments not committed
          fired,         \* per sweep: triggers it will hand to the queue
          jobs,          \* keys of the runs the queue has accepted
          lost

txVars == <<item, draft, touched, charge, fired>>
admissionVars == <<runs, started, locked, at, txVars, jobs, lost>>

NewRun(a, key, body) ==
    [key |-> key, creator |-> a, period |-> PeriodOf[a],
     digest |-> body,                 \* identity_digest: of these components
     components |-> body]             \* run_identity_component rows

AdmissionInit ==
    /\ runs = {}
    /\ started = [p \in Periods |-> 0]
    /\ locked = [p \in Periods |-> NoOne]
    /\ at = [a \in Submitters |-> "idle"]
    /\ item = [a \in Submitters |-> 1]
    /\ draft = [a \in Submitters |-> {}]
    /\ touched = [a \in Submitters |-> {}]
    /\ charge = [a \in Submitters |-> 0]
    /\ fired = [a \in Submitters |-> {}]
    /\ jobs = {}
    /\ lost = 0

Key(a) == IF a \in Posts THEN KeyOf[a] ELSE <<item[a], MomentOf[a]>>
Body(a) == IF a \in Posts THEN BodyOf[a] ELSE ScheduleBody

(* find_run_by_idempotency_key: committed rows and the submitter's own.    *)
Found(a) == \E r \in runs \cup draft[a] : r.key = Key(a)

Proceed(a, label) == at' = [at EXCEPT ![a] = label]

PastTheLast(a) ==                                 \* mutant of NextItem
    IF a \in Sweeps /\ item[a] <= NumSchedules
    THEN /\ item' = [item EXCEPT ![a] = @ + 1]
         /\ Proceed(a, "find")
    ELSE /\ UNCHANGED item
         /\ Proceed(a, "commit")

(* A request is done with its run; a sweep turns to the next schedule.     *)
NextItem(a) ==
    IF a \in Sweeps /\ item[a] < NumSchedules
    THEN /\ item' = [item EXCEPT ![a] = @ + 1]
         /\ Proceed(a, "find")
    ELSE /\ UNCHANGED item
         /\ Proceed(a, "commit")

HoldCounter(a) ==                                 \* mutant of EndTransaction
    /\ draft' = [draft EXCEPT ![a] = {}]
    /\ touched' = [touched EXCEPT ![a] = {}]
    /\ charge' = [charge EXCEPT ![a] = 0]
    /\ UNCHANGED locked

(* The transaction ends: its locks and its private rows are gone.          *)
EndTransaction(a) ==
    /\ locked' = [p \in Periods |-> IF locked[p] = a THEN NoOne ELSE locked[p]]
    /\ draft' = [draft EXCEPT ![a] = {}]
    /\ touched' = [touched EXCEPT ![a] = {}]
    /\ charge' = [charge EXCEPT ![a] = 0]

RollBack(a, label) ==
    /\ EndTransaction(a)
    /\ fired' = [fired EXCEPT ![a] = {}]
    /\ Proceed(a, label)
    /\ UNCHANGED <<runs, started, item, jobs>>

-----------------------------------------------------------------------------
Open(a) ==
    /\ at[a] = "idle"
    /\ Proceed(a, "find")
    /\ UNCHANGED <<runs, started, locked, txVars, jobs, lost>>

(* The first look, before anything is charged.  A request whose key is     *)
(* known goes on to create_run, which returns the existing run; a sweep    *)
(* records ALREADY_FIRED and hands nothing to the queue.                   *)
FindRun(a) ==
    /\ at[a] = "find"
    /\ \/ ~Found(a) /\ Proceed(a, "charge") /\ UNCHANGED item
       \/ Found(a) /\ a \in Posts /\ Proceed(a, "create") /\ UNCHANGED item
       \/ Found(a) /\ a \in Sweeps /\ NextItem(a)
    /\ UNCHANGED <<runs, started, locked, draft, touched, charge, fired, jobs,
                   lost>>

(* _cannot_execute: no dataset, erased content, an estimate over budget.   *)
SkipSchedule(s) ==
    /\ at[s] = "charge"
    /\ NextItem(s)
    /\ UNCHANGED <<runs, started, locked, draft, touched, charge, fired, jobs,
                   lost>>

(* consume_run_quota: the check and the increment are one statement, under *)
(* the row lock.  Refused, a request fails and a sweep goes on, still      *)
(* holding the lock.                                                       *)
ReadThenWrite(a) == TRUE                          \* mutant of CounterFree

CounterFree(a) == locked[PeriodOf[a]] \in {a, NoOne}

WithinQuota(a) == started[PeriodOf[a]] + charge[a] < RunsPerPeriod

ConsumeQuota(a) ==
    /\ at[a] = "charge"
    /\ CounterFree(a) /\ WithinQuota(a)
    /\ locked' = [locked EXCEPT ![PeriodOf[a]] = a]
    /\ charge' = [charge EXCEPT ![a] = @ + 1]
    /\ Proceed(a, "create")
    /\ UNCHANGED <<runs, started, item, draft, touched, fired, jobs, lost>>

QuotaExhausted(a) ==
    /\ at[a] = "charge"
    /\ CounterFree(a) /\ ~WithinQuota(a)
    /\ IF a \in Posts
       THEN RollBack(a, "refused")
       ELSE /\ locked' = [locked EXCEPT ![PeriodOf[a]] = a]
            /\ NextItem(a)
            /\ UNCHANGED <<runs, started, draft, touched, charge, fired, jobs>>
    /\ UNCHANGED lost

FirstTriggerOnly(a) ==                            \* mutant of WithTrigger
    IF a \in Sweeps /\ fired[a] = {} THEN {Key(a)} ELSE fired[a]

(* The triggers a sweep reports as FIRED.                                  *)
WithTrigger(a) ==
    IF a \in Sweeps THEN fired[a] \cup {Key(a)} ELSE fired[a]

(* create_run looks again.  An existing run is returned and, whoever made  *)
(* it, given this submitter's candidates and identity components, and a    *)
(* sweep counts it as fired.                                               *)
CreateRun(a) ==
    /\ at[a] = "create"
    /\ IF Found(a)
       THEN /\ touched' = [touched EXCEPT ![a] = @ \cup {Key(a)}]
            /\ fired' = [fired EXCEPT ![a] = WithTrigger(a)]
            /\ NextItem(a)
       ELSE /\ Proceed(a, "insert")
            /\ UNCHANGED <<touched, fired, item>>
    /\ UNCHANGED <<runs, started, locked, draft, charge, jobs, lost>>

(* The unique key: an insert waits for a transaction that holds the key    *)
(* and is refused if that one committed it.                                *)
NoUniqueKey(a) == TRUE                            \* mutant of KeyUnclaimed

KeyUnclaimed(a) ==
    \A b \in Submitters \ {a} : \A r \in draft[b] : r.key # Key(a)

InsertRun(a) ==
    /\ at[a] = "insert"
    /\ KeyUnclaimed(a) /\ ~Found(a)
    /\ draft' = [draft EXCEPT ![a] = @ \cup {NewRun(a, Key(a), Body(a))}]
    /\ fired' = [fired EXCEPT ![a] = WithTrigger(a)]
    /\ NextItem(a)
    /\ UNCHANGED <<runs, started, locked, touched, charge, jobs, lost>>

UniqueViolation(a) ==
    /\ at[a] = "insert"
    /\ KeyUnclaimed(a) /\ Found(a)
    /\ RollBack(a, "failed")
    /\ UNCHANGED lost

Commit(a) ==
    /\ at[a] = "commit"
    /\ runs' = {IF r.key \in touched[a]
                THEN [r EXCEPT !.components = @ \cup Body(a)] ELSE r
                  : r \in runs} \cup draft[a]
    /\ started' = [started EXCEPT ![PeriodOf[a]] = @ + charge[a]]
    /\ EndTransaction(a)
    /\ Proceed(a, IF a \in Sweeps THEN "enqueue" ELSE "done")
    /\ UNCHANGED <<item, fired, jobs, lost>>

(* After the commit the sweep hands its runs to the queue, one call each;  *)
(* the broker drops a job whose id it has seen.                            *)
Enqueue(s) ==
    /\ at[s] = "enqueue"
    /\ IF fired[s] = {}
       THEN /\ Proceed(s, "done")
            /\ UNCHANGED <<jobs, fired>>
       ELSE \E k \in fired[s] :
              /\ jobs' = jobs \cup {k}
              /\ fired' = [fired EXCEPT ![s] = @ \ {k}]
              /\ UNCHANGED at
    /\ UNCHANGED <<runs, started, locked, item, draft, touched, charge, lost>>

(* A process is lost.  The caller of a request sees an error; the cron job *)
(* has max_tries 1 and is not delivered again.                             *)
Crash(a) ==
    /\ at[a] \notin {"idle", "done", "refused", "failed"}
    /\ lost < MaxLost
    /\ lost' = lost + 1
    /\ RollBack(a, "failed")

-----------------------------------------------------------------------------
Step(a) ==
    \/ FindRun(a)
    \/ ConsumeQuota(a) \/ QuotaExhausted(a)
    \/ CreateRun(a)
    \/ InsertRun(a) \/ UniqueViolation(a)
    \/ Commit(a)

Answered(a) == at[a] \in {"done", "refused", "failed"}

AllAnswered == (\A a \in Submitters : Answered(a)) /\ UNCHANGED admissionVars

AdmissionNext ==
    \/ \E a \in Submitters : Open(a) \/ Step(a) \/ Crash(a)
    \/ \E s \in Sweeps : SkipSchedule(s) \/ Enqueue(s)
    \/ AllAnswered

AdmissionSpec == AdmissionInit /\ [][AdmissionNext]_admissionVars

(* A transaction in progress goes on: nothing in it waits for a client.    *)
AdmissionFairness ==
    /\ \A a \in Submitters : WF_admissionVars(Step(a))
    /\ \A s \in Sweeps : WF_admissionVars(Enqueue(s))

FairAdmission == AdmissionSpec /\ AdmissionFairness

-----------------------------------------------------------------------------
RunRows == [key : RunKeys, creator : Submitters, period : Periods,
            digest :
              SUBSET (ScheduleBody \cup UNION {BodyOf[p] : p \in Posts}),
            components :
              SUBSET (ScheduleBody \cup UNION {BodyOf[p] : p \in Posts})]

AdmissionTypeOK ==
    /\ runs \subseteq RunRows
    /\ started \in [Periods -> Nat]
    /\ locked \in [Periods -> Submitters \cup {NoOne}]
    /\ at \in [Submitters ->
                 {"idle", "find", "charge", "create", "insert", "commit",
                  "enqueue", "done", "refused", "failed"}]
    /\ item \in [Submitters -> 1 .. NumSchedules]
    /\ draft \in [Submitters -> SUBSET RunRows]
    /\ touched \in [Submitters -> SUBSET RunKeys]
    /\ charge \in [Submitters -> 0 .. NumSchedules]
    /\ fired \in [Submitters -> SUBSET TriggerKeys]
    /\ jobs \subseteq TriggerKeys
    /\ lost \in 0 .. MaxLost

RunsOf(p) == {r \in runs : r.period = p}

(* Whatever is submitted at once, a period's runs are all charged to its   *)
(* counter, and the counter stays within the quota (consume_run_quota:     *)
(* "two concurrent submissions that each read-then-wrote would both see    *)
(* room that only one of them had").                                       *)
QuotaBoundsRuns ==
    \A p \in Periods : /\ Cardinality(RunsOf(p)) <= started[p]
                       /\ started[p] <= RunsPerPeriod

(* One idempotency key, one run, also when a retry falls into the next     *)
(* quota period and shares no counter lock with the first attempt.         *)
OneRunPerKey == \A q, r \in runs : q.key = r.key => q = r

InTransaction(a) == at[a] \in {"find", "charge", "create", "insert", "commit"}

Waits(a) ==
    \/ at[a] = "charge" /\ ~CounterFree(a)
    \/ at[a] = "insert" /\ ~KeyUnclaimed(a)

(* Of the submissions under way one can always go on: those that wait for  *)
(* a counter wait for one that holds no other, and those that wait for a   *)
(* key wait for one that is further down the schedules (due_schedules, in  *)
(* order of id; consume_run_quota before create_run).                      *)
NoCircularWait ==
    (\E a \in Submitters : InTransaction(a)) =>
       \E a \in Submitters : InTransaction(a) /\ ~Waits(a)

(* No wait between submissions is circular and no lock outlives its        *)
(* transaction: time and again every request and sweep that began has its  *)
(* answer.                                                                 *)
SubmissionsAnswered ==
    []<>(\A a \in Submitters : at[a] # "idle" => Answered(a))

(* With no process lost, a scheduled run that was committed reaches the    *)
(* queue, whichever of two overlapping sweeps created it.                  *)
ScheduledRunsQueued ==
    []<>(lost > 0 \/ \A r \in runs : r.key \in TriggerKeys => r.key \in jobs)
=============================================================================
