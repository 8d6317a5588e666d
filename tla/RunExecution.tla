---------------------------- MODULE RunExecution ----------------------------
(***************************************************************************)
(* Execution of one evaluation run by the task-queue worker.               *)
(*                                                                         *)
(*   orchestration/worker.py      one job per run, one transaction per job *)
(*   orchestration/runner.py      the evaluation loop                      *)
(*   orchestration/repository.py  the run, sample, cost, checkpoint rows   *)
(*   api/service.py               cancellation                             *)
(*   db/session.py                tenant_session: commit or roll back      *)
(*                                                                         *)
(* The worker opens one READ COMMITTED transaction around the whole loop.  *)
(* Its first statement updates the run row (adopt_correlation), so it      *)
(* holds that row's lock until it commits: two executors of one run, or    *)
(* an executor and a cancellation, never write it at once.  Every other    *)
(* row of the run is written only under that lock, so what an executor     *)
(* sees is the committed record as of its first statement plus its own     *)
(* writes: its view.  Commit publishes the view, a crash forgets it.       *)
(*                                                                         *)
(* The queue delivers at least once: a job that was not acknowledged is    *)
(* delivered again, after a crash or because its in-progress mark expired  *)
(* while the first worker is still running.                                *)
(***************************************************************************)
EXTENDS Integers, FiniteSets

CONSTANTS Workers,       \* worker processes
          Requests,      \* cancellation requests reaching the API
          Candidates,    \* candidates of the run, by label
          NumExamples,   \* examples of its dataset version
          Price,         \* cost of a priced call per candidate; 0: unpriced
          MaxPrice,      \* the dearest call
          BudgetLimit,   \* its budget; beyond what it can cost: none
          MaxTries,      \* deliveries before the queue drops the job
          MaxCrashes,    \* bound: worker losses considered
          MayRaise,      \* whether an exception may escape the executor
          NoOne          \* holder of a free lock

ASSUME RunExecutionAssumption ==
    /\ NumExamples \in Nat
    /\ IsFiniteSet(Candidates)
    /\ MaxPrice \in Nat
    /\ Price \in [Candidates -> 0 .. MaxPrice]
    /\ BudgetLimit \in Nat
    /\ MaxTries \in Nat
    /\ MaxCrashes \in Nat
    /\ MayRaise \in BOOLEAN
    /\ NoOne \notin Workers

VARIABLES db,            \* the committed rows of the run
          lock,          \* holder of the run row's lock
          pc, view,      \* per worker: where it is, what it sees
          spent,         \* per worker: the loop's running cost
          failed,        \* per worker: outcome.samples_failed > 0
          pending,       \* per worker: candidates of the example to record
          tries, acked,  \* the queued job
          crashes,
          calls,         \* how often each example went to the providers
          request        \* the cancellation requests

jobVars    == <<tries, acked, crashes>>
workerVars == <<pc, view, spent, failed, pending>>
vars == <<db, lock, workerVars, jobVars, calls, request>>

Examples == 0 .. NumExamples - 1
Units == Examples \X Candidates
States == {"queued", "running", "terminal"}
Verdicts == {"complete", "partial", "exhausted", "cancelled"}
Outcomes == {"scored", "abstained", "failed"}

Record == [state        : States,
           completeness : Verdicts \cup {"none"},
           checkpoint   : -1 .. NumExamples - 1,
           sample       : [Units -> Outcomes \cup {"none"}],
           entries      : [Units -> Nat],
           cost         : Nat]                 \* sum of the cost entries

(* create_run: a queued run, its checkpoint row at -1.                     *)
NewRun == [state        |-> "queued",
           completeness |-> "none",
           checkpoint   |-> -1,
           sample       |-> [u \in Units |-> "none"],
           entries      |-> [u \in Units |-> 0],
           cost         |-> 0]

Init ==
    /\ db = NewRun
    /\ lock = NoOne
    /\ pc = [w \in Workers |-> "idle"]
    /\ view = [w \in Workers |-> NewRun]
    /\ spent = [w \in Workers |-> 0]
    /\ failed = [w \in Workers |-> FALSE]
    /\ pending = [w \in Workers |-> {}]
    /\ tries = 0 /\ acked = FALSE /\ crashes = 0
    /\ calls = [i \in Examples |-> 0]
    /\ request = [r \in Requests |-> "idle"]

-----------------------------------------------------------------------------
(* The job as the queue delivers it.                                       *)

Deliver(w) ==
    /\ ~acked /\ tries < MaxTries
    /\ pc[w] = "idle"
    /\ tries' = tries + 1
    /\ pc' = [pc EXCEPT ![w] = "adopt"]
    /\ UNCHANGED <<db, lock, view, spent, failed, pending, acked, crashes,
                   calls, request>>

Ack(w) ==
    /\ pc[w] = "ack"
    /\ acked' = TRUE
    /\ pc' = [pc EXCEPT ![w] = "idle"]
    /\ UNCHANGED <<db, lock, view, spent, failed, pending, tries, crashes,
                   calls, request>>

-----------------------------------------------------------------------------
(* The executor.                                                           *)

RewindRun(v) == [v EXCEPT !.checkpoint = -1]      \* mutant of MarkRunning

MarkRunning(v) ==
    IF v.state = "queued" THEN [v EXCEPT !.state = "running"] ELSE v

(* What the run has spent so far, over all its deliveries.                 *)
SpentThisDelivery(v) == 0                         \* mutant of CostTotal

CostTotal(v) == v.cost

(* adopt_correlation takes the row lock; the loop's starting point is read *)
(* under it.                                                               *)
Begin(w) ==
    /\ pc[w] = "adopt" /\ lock = NoOne
    /\ lock' = w
    /\ view' = [view EXCEPT ![w] = MarkRunning(db)]
    /\ spent' = [spent EXCEPT ![w] = CostTotal(db)]
    /\ failed' = [failed EXCEPT ![w] = FALSE]
    /\ pc' = [pc EXCEPT ![w] = "loop"]
    /\ UNCHANGED <<db, pending, jobVars, calls, request>>

(* The loop resumes after the checkpoint and advances it with each index.  *)
SkippingIndex(v) == v.checkpoint + 2              \* mutant of Index

Index(v) == v.checkpoint + 1

VerdictOnly(v, verdict) ==                        \* mutant of FinishRun
    [v EXCEPT !.completeness = verdict]

FinishRun(v, verdict) ==
    [v EXCEPT !.state = "terminal", !.completeness = verdict]

Conclude(w, verdict) ==
    /\ view' = [view EXCEPT ![w] = FinishRun(view[w], verdict)]
    /\ pc' = [pc EXCEPT ![w] = "commit"]
    /\ UNCHANGED <<db, lock, spent, failed, pending, jobVars, calls, request>>

IsCancelled(v) == v.completeness = "cancelled"
OverBudget(w) == spent[w] >= BudgetLimit

StopCancelled(w) ==
    /\ pc[w] = "loop" /\ Index(view[w]) < NumExamples
    /\ IsCancelled(view[w])
    /\ Conclude(w, "cancelled")

StopExhausted(w) ==
    /\ pc[w] = "loop" /\ Index(view[w]) < NumExamples
    /\ ~IsCancelled(view[w]) /\ OverBudget(w)
    /\ Conclude(w, "exhausted")

FinishLoop(w) ==
    /\ pc[w] = "loop" /\ Index(view[w]) >= NumExamples
    /\ Conclude(w, IF failed[w] THEN "partial" ELSE "complete")

(* gateway.invoke_all: every candidate of the example, one outcome each.   *)
InvokeAll(w) ==
    /\ pc[w] = "loop" /\ Index(view[w]) < NumExamples
    /\ ~IsCancelled(view[w]) /\ ~OverBudget(w)
    /\ calls' = [calls EXCEPT ![Index(view[w])] = @ + 1]
    /\ pending' = [pending EXCEPT ![w] = Candidates]
    /\ pc' = [pc EXCEPT ![w] = "record"]
    /\ UNCHANGED <<db, lock, view, spent, failed, jobVars, request>>

(* What a sample costs: a failed call and an unpriced model cost nothing.  *)
CostOf(c, outcome) == IF outcome = "failed" THEN 0 ELSE Price[c]

(* record_sample and record_cost: a duplicate key inserts nothing.         *)
RecordUnit(v, u, outcome) ==
    LET amount == CostOf(u[2], outcome) IN
    [v EXCEPT !.sample[u]  = outcome,
              !.entries[u] = IF amount > 0 THEN @ + 1 ELSE @,
              !.cost       = @ + amount]

RecordCandidate(w, c, outcome) ==
    LET u == <<Index(view[w]), c>> IN
    /\ pc[w] = "record" /\ c \in pending[w]
    /\ pending' = [pending EXCEPT ![w] = @ \ {c}]
    /\ IF view[w].sample[u] = "none"
       THEN /\ view' = [view EXCEPT ![w] = RecordUnit(@, u, outcome)]
            /\ failed' = [failed EXCEPT ![w] = @ \/ outcome # "scored"]
            /\ spent' = [spent EXCEPT ![w] = @ + CostOf(c, outcome)]
       ELSE UNCHANGED <<view, failed, spent>>
    /\ UNCHANGED <<db, lock, pc, jobVars, calls, request>>

AdvanceCheckpoint(w) ==
    /\ pc[w] = "record" /\ pending[w] = {}
    /\ view' = [view EXCEPT ![w].checkpoint = @ + 1]
    /\ pc' = [pc EXCEPT ![w] = "loop"]
    /\ UNCHANGED <<db, lock, spent, failed, pending, jobVars, calls, request>>

(* The end of an attempt: its transaction and its locals are gone.         *)
HoldLock(w) ==                                    \* mutant of Forget
    /\ view' = [view EXCEPT ![w] = NewRun]
    /\ spent' = [spent EXCEPT ![w] = 0]
    /\ failed' = [failed EXCEPT ![w] = FALSE]
    /\ pending' = [pending EXCEPT ![w] = {}]
    /\ UNCHANGED lock

Forget(w) ==
    /\ lock' = IF lock = w THEN NoOne ELSE lock
    /\ view' = [view EXCEPT ![w] = NewRun]
    /\ spent' = [spent EXCEPT ![w] = 0]
    /\ failed' = [failed EXCEPT ![w] = FALSE]
    /\ pending' = [pending EXCEPT ![w] = {}]

(* tenant_session leaves its block: the transaction commits, the row lock  *)
(* is released.                                                            *)
Commit(w) ==
    /\ pc[w] = "commit"
    /\ db' = view[w]
    /\ Forget(w)
    /\ pc' = [pc EXCEPT ![w] = "ack"]
    /\ UNCHANGED <<jobVars, calls, request>>

-----------------------------------------------------------------------------
(* Failures of a worker.                                                   *)

InTransaction == {"loop", "record", "commit"}

KeepRows(w) ==                                    \* mutant of Rollback
    /\ db' = IF pc[w] \in InTransaction THEN view[w] ELSE db
    /\ Forget(w)
    /\ UNCHANGED <<tries, calls, request>>

Rollback(w) ==
    /\ Forget(w)
    /\ UNCHANGED <<db, tries, calls, request>>

(* The process is lost.  A transaction in flight rolls back; the job stays *)
(* unacknowledged, also when the transaction had already committed.        *)
Crash(w) ==
    /\ pc[w] # "idle" /\ crashes < MaxCrashes
    /\ crashes' = crashes + 1
    /\ Rollback(w)
    /\ pc' = [pc EXCEPT ![w] = "idle"]
    /\ UNCHANGED acked

(* An exception leaves the executor (an endpoint with no adapter, a        *)
(* refused write): the session rolls back and the queue, which retries     *)
(* lost workers and not raised errors, ends the job.                       *)
Raise(w) ==
    /\ MayRaise /\ pc[w] \in InTransaction
    /\ acked' = TRUE
    /\ Rollback(w)
    /\ pc' = [pc EXCEPT ![w] = "raised"]
    /\ UNCHANGED crashes

-----------------------------------------------------------------------------
(* Cancellation: the API reads the run, then updates it in the same READ   *)
(* COMMITTED transaction.  The update waits for the row lock and has no    *)
(* predicate on the state, so it applies to whatever was committed since.  *)

CancelRead(r) ==
    /\ request[r] = "idle"
    /\ request' = [request EXCEPT
                     ![r] = IF db.state = "terminal" THEN "done" ELSE "write"]
    /\ UNCHANGED <<db, lock, workerVars, jobVars, calls>>

CancelWrite(r) ==
    /\ request[r] = "write" /\ lock = NoOne
    /\ db' = FinishRun(db, "cancelled")
    /\ request' = [request EXCEPT ![r] = "done"]
    /\ UNCHANGED <<lock, workerVars, jobVars, calls>>

-----------------------------------------------------------------------------
ExecutorStep(w) ==
    \/ Begin(w)
    \/ StopCancelled(w) \/ StopExhausted(w) \/ FinishLoop(w)
    \/ InvokeAll(w)
    \/ \E c \in Candidates, outcome \in Outcomes :
         RecordCandidate(w, c, outcome)
    \/ AdvanceCheckpoint(w)
    \/ Commit(w)

Cancellation(r) == CancelRead(r) \/ CancelWrite(r)

(* The job is gone and every request answered: nothing is left to do.      *)
Quiescent ==
    /\ acked \/ tries = MaxTries
    /\ \A w \in Workers : pc[w] \in {"idle", "raised"}
    /\ \A r \in Requests : request[r] = "done"
    /\ UNCHANGED vars

Next ==
    \/ \E w \in Workers :
         Deliver(w) \/ ExecutorStep(w) \/ Ack(w) \/ Crash(w) \/ Raise(w)
    \/ \E r \in Requests : Cancellation(r)
    \/ Quiescent

Spec == Init /\ [][Next]_vars

(* A live worker polls the queue and runs what it took: poll_delay, and a  *)
(* loop whose every wait is bounded.  Clients, crashes and errors owe      *)
(* nothing.                                                                *)
Fairness ==
    /\ WF_vars(\E w \in Workers : Deliver(w))
    /\ \A w \in Workers : WF_vars(ExecutorStep(w)) /\ WF_vars(Ack(w))

FairSpec == Spec /\ Fairness

-----------------------------------------------------------------------------
TypeOK ==
    /\ db \in Record
    /\ lock \in Workers \cup {NoOne}
    /\ pc \in [Workers -> {"idle", "adopt", "ack", "raised"}
                         \cup InTransaction]
    /\ view \in [Workers -> Record]
    /\ spent \in [Workers -> Nat]
    /\ failed \in [Workers -> BOOLEAN]
    /\ pending \in [Workers -> SUBSET Candidates]
    /\ tries \in 0 .. MaxTries
    /\ acked \in BOOLEAN
    /\ crashes \in 0 .. MaxCrashes
    /\ calls \in [Examples -> Nat]
    /\ request \in [Requests -> {"idle", "write", "done"}]
    /\ (db.state = "terminal") = (db.completeness # "none")

(* "The spend is bounded by the budget and one example": the loop looks at *)
(* the budget only between examples, so the ledger may pass the limit by   *)
(* at most what one example costs less one unit, whatever was delivered    *)
(* again and whatever was lost; a zero budget buys nothing                 *)
(* (runner.py:170-191).                                                    *)
BudgetOvershootBounded ==
    db.cost > 0 =>
      db.cost <= BudgetLimit - 1 + Cardinality(Candidates) * MaxPrice

(* A committed verdict tells the truth about the ledger beside it: a       *)
(* complete or partial run resolved every work unit, an exhausted run      *)
(* really spent its budget, and a partial run has an unscored sample.      *)
VerdictMatchesLedger ==
    /\ db.completeness \in {"complete", "partial"} =>
         \A u \in Units : db.sample[u] # "none"
    /\ db.completeness = "exhausted" => db.cost >= BudgetLimit
    /\ db.completeness = "partial" =>
         \E u \in Units : db.sample[u] \in {"abstained", "failed"}

(* Work that is in the committed record is never sent to a provider again, *)
(* by any delivery of the job.  The one transaction of worker.py:101 makes *)
(* the committed record of a lost attempt none at all: a case              *)
(* ResolvedWorkNeverRepeated is about.                                     *)
CommittedWorkNeverRepeated ==
    [][\A i \in Examples : calls'[i] # calls[i] =>
         \A c \in Candidates : db.sample[<<i, c>>] = "none"]_vars

(* The committed record only ever grows as RunLedger allows.               *)
Ledger == INSTANCE RunLedger WITH checkpoint <- db.checkpoint,
                                  sample <- db.sample,
                                  entries <- db.entries

ImplementsLedger == Ledger!LedgerSpec

(* A run whose job is queued ends: with fewer worker losses than tries,    *)
(* some delivery reaches a verdict and commits it.  Nothing but an         *)
(* exception that left the executor can end the job before that.           *)
RunEnds == <>(db.state = "terminal" \/ \E w \in Workers : pc[w] = "raised")

-----------------------------------------------------------------------------
(* What the repository says of a run and the code does not keep.           *)

(* runner.py:197, "a partial run is never reported as complete".           *)
PartialNeverReportedComplete ==
    db.completeness = "complete" => \A u \in Units : db.sample[u] = "scored"

(* component-architectures.md:88, "Checkpoint after each resolved sample;  *)
(* resume recomputes nothing already resolved": an example is not called   *)
(* for again once the loop has gone past it (runner.py:189-191).           *)
ResolvedWorkNeverRepeated ==
    [][\A i, j \in Examples :
         i < j /\ calls[j] > 0 => calls'[i] = calls[i]]_vars
=============================================================================
