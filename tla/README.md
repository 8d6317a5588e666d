# Formal models of the continuous LLM evaluation platform

TLA+ modules, TLC configurations and TLAPS proofs about the code under
`src/clep` and the schema under `docs/data/schema`.  The platform evaluates
candidate LLM configurations on a dataset, keeps what it measured, compares runs
with an approved baseline and decides whether a release may go ahead.  Its
correctness is about records other people rely on: which runs exist, what they
say they measured, what they cost, what a gate concluded and from what.

- `tlc -workers 2 -config X.cfg MCModule.tla` checks a run of section 3.
- `tlapm M.tla` checks the proofs of `RunExecutionProofs`, `RunAdmissionProofs`,
  `EvidenceProofs`, `ReleaseGateProofs`, `AccessProofs`,
  `ContentErasureProofs`, `ScheduledExecutionProofs` and `SettlementProofs`.
- `PROJECT.json` lists the components, the runs, the source lines of every
  definition, the seeded bugs ("mutants") each property detects, the findings,
  the hazards with the line of each, and the theorems.

## 1. The system

Processes: stateless API servers (FastAPI), task-queue workers (arq on Redis)
that execute runs, a cron job per minute in the same workers that sweeps the
schedules, a command line client used by CI.  All lasting state is in PostgreSQL;
every operation is one `tenant_session`, a READ COMMITTED transaction that commits
when its block ends and rolls back when an exception leaves it.  Redis holds the
queue and the rate limiter's buckets.

| Component | State | Operations | Talks to |
|---|---|---|---|
| Run execution (`orchestration/worker, runner, repository`) | run, run_sample, sample_cost, run_checkpoint rows; the job in the queue | deliver, adopt, evaluate an example, record samples and costs, advance the checkpoint, finish, cancel | providers, evaluators, judges, API |
| Run admission (`api/service`, `orchestration/scheduler`, quota in `security/repository`) | run rows with unique idempotency keys, quota counters, captured identities | create_run, sweep_schedules, enqueue | queue, registry |
| Gate verdict (`regression/statistics, engine, comparability`) | none: computed from recorded scores | compare, classify, apply thresholds, decide | run records, policies |
| Release gate (`api/gate_service`, `regression/repository`) | baselines, policies and versions, immutable decisions, exceptions | create and approve a baseline, publish a policy, evaluate a gate, grant an exception | gate verdict, runs |
| Scheduled execution (`scheduler`, `releases`, `analytics/alerts`) | decisions, alert events, release observations | load, execute, decide, alert, observe | run execution, gate |
| Schedules (`orchestration/schedules`) | schedules, trigger keys | create, pause, due in a minute | admission |
| Erasure (`security/erasure`) | content, erasure requests, reproducibility of runs | request: find, refuse or accept, demote, destroy, verify | baselines, runs |
| Access (`security/repository, rbac`, `api/app` guard) | keys, role bindings, grants, quotas | authenticate, authorize, issue, rotate, revoke, bind, unbind | every request |
| Rate limiter (`security/limits`) | a token bucket per tenant in Redis | check | every request |
| Judges (`judges/*`, `agents/sdk`) | judgements, consensus results, escalations | judge, regenerate, reach consensus, review | providers |
| Plans (`agents/*`) | evaluation plans, steps and amendments | draft, amend, accept | registry |
| Registry (`registry/*`, and the version tables of judges and policies) | definitions, numbered versions, suites, datasets | add, publish, freeze | everything |
| Provider gateway (`providers/*`) | adapters | invoke, invoke_all | external models |
| Identity, cache, reproduction (`experiments/*`) | captured components and digest, cached results | capture, compare | admission, gate |
| Analytics (`analytics/*`) | alert rules and events; the rest is computed | drift against the history of baselines, scorecards, service levels, cost | baselines, runs |
| Evaluators, rag, memory, redaction, telemetry, CLI, HTTP | none of their own | pure functions, read-only queries, presentation | |

### What is hard here

*Concurrency.* READ COMMITTED lets two statements of one transaction see
different databases.  Several operations read a row, decide, then write without
a predicate (`cancel_run`, `rotate_api_key`, `approve_baseline`, `_publish`,
`review_escalation`);
others rely on one statement under a row lock (`consume_run_quota`), on a unique
index (idempotency keys, trigger keys, the approved baseline of a scope, version
numbers, active bindings) or on a trigger (last administrator, frozen versions,
settled plans, reviewed escalations).

*Delivery.* The queue delivers a job at least once.  A job may run again after
its transaction committed, and beside a slow first delivery; a scheduled job is
five transactions with no record of which have committed.

*Crash.* The evaluation loop is one transaction: provider calls are outside it
and cannot be rolled back, the rows that prove they happened can.  A sweep
commits its runs before it hands them to the queue.

*Boundaries.* The budget is compared between examples; the quota at its last
unit; percentile ranks of small resamples; metric directions with either sign;
a bucket refilled by clocks that differ; cron fields that exclude each other; a
median rounded more coarsely than what it is compared with.

### What makes each component correct

Run execution: the committed record tells the truth, work is not paid for twice,
spending is bounded, a run ends. Admission: a quota bounds runs, a key names one
run, a submission is answered, a scheduled run is queued. Gate verdict: no pass
without measurement, thresholds in their fixed order, direction respected. Release
gate: a scope passes from one approved baseline to the next without a gap, and a
gate finds the one in force. Scheduled execution: one alert per rule and run,
advice that rests on a recorded decision. Erasure: evidence demoted before its
content goes, nothing lost without a record, a pin overridden only in the open.
Access: an administrator remains, a rotated key has one heir, a dead key stays dead.
Judges: consensus only from first answers, a disagreement reviewed once. Drift: a
verdict rests on most of the history. Plans: what is accepted is what was reviewed.
Registry: what evidence cites does not change.

## 2. Modules

| Module | Role |
|---|---|
| `RunLedger` | abstract: what the durable record of a run promises its readers |
| `RunExecution` | the worker, the loop, the transaction, failures, cancellation |
| `RunAdmission` | API submissions and sweeps of one tenant |
| `GateVerdict` | a gate from pairs of scores to an outcome |
| `ScopeBaseline` | abstract: the baseline a scope is judged by, replaced atomically |
| `ReleaseGate` | baselines, approvals, policy versions, gate requests |
| `ScheduledExecution` | the five transactions of a scheduled job |
| `ContentErasure` | erasure beside executors and approvals |
| `Access` | keys, bindings and the guard |
| `JudgePanel` | the judges of one sample: votes, regeneration, consensus, review |
| `RateLimiter` | the token bucket, its servers and their clocks |
| `Cadence` | a cron expression, day by day |
| `PlanReview` | amendment and acceptance of a plan |
| `VersionRegistry` | numbered versions, published once, frozen when cited |
| `QualityDrift` | a run against the history of its baselines |
| `OrderStatistics` | the k-th smallest of finitely many values, which the verdicts, the panel and drift share |
| `*Proofs` | theorems about the module they are named after; `EvidenceProofs` is about `GateVerdict` and `QualityDrift`, `SettlementProofs` about `VersionRegistry`, `PlanReview`, `JudgePanel` and `RateLimiter` |
| `MC*` | small instances for TLC; `MCRequests` joins `RunAdmission`, `ReleaseGate`, `Access` and `ContentErasure`, `MCMeasures` the seven small parts |

How they fit: `RunAdmission` ends where a run is queued, `RunExecution` takes it
from there.  `ScheduledExecution` uses what `RunExecution` proves of an execution
(a first execution reaches a verdict, a later one changes none but an unfinished
one's) as its stage `Execute`, and any outcome `GateVerdict` can reach as its
stage `EvaluateGate`.  `ReleaseGate` implements `ScopeBaseline`, `RunExecution`
implements `RunLedger`.  `ContentErasure` has its own, coarser executor: what
matters there is when samples are committed.

### RunExecution

`db` is the committed record of one run: state, completeness, checkpoint, the
resolution of each work unit (an example under a candidate), its cost entries and
their sum.  A worker's first statement (`adopt_correlation`) updates the run row,
so it holds that row's lock until its transaction ends; every other row of the
run is written only under the lock.  What it sees is thus the committed record
plus its own writes, `view[w]`: `Commit` publishes it, a crash or an exception
forgets it.  `spent`, `failed` and `pending` are the loop's local variables.

| Action | Code |
|---|---|
| `Deliver`, `Ack` | arq takes and acknowledges a job (external) |
| `Begin` | worker: adopt_correlation; `RunExecutor.execute`: mark_running, checkpoint, cost_total |
| `StopCancelled`, `StopExhausted`, `FinishLoop` | the loop's two early ends and its normal one, with `finish_run` |
| `InvokeAll` | `gateway.invoke_all`, one outcome per candidate |
| `RecordCandidate` | `record_sample`, evaluators' resolution, `record_cost`; a known key inserts nothing |
| `AdvanceCheckpoint` | `advance_checkpoint` |
| `Commit`, `Crash`, `Raise` | the end of `tenant_session`: commit, lost process, escaping exception |
| `CancelRead`, `CancelWrite` | the two statements of `cancel_run` |

Abstracted: scores (a unit is scored, abstained or failed), evaluator and judge
rows (written with the sample in the same transaction), telemetry.  A run without a
budget is one with a limit beyond what it can cost.  Two workers
may hold the job at once: the second waits in `Begin` for the lock.

`RunLedger` is what a reader of the committed rows may rely on: the record grows
by whole examples, a resolved unit is never resolved again, at most one cost entry
per unit and none for a failed call, and the checkpoint is the end of the prefix.
`RunExecution` implements it under the mapping `checkpoint <- db.checkpoint`,
`sample <- db.sample`, `entries <- db.entries` (`ImplementsLedger`).

### RunAdmission

Submitters are requests (one idempotency key) and sweeps (all schedules due in
their minute, one trigger key each).  `runs` and `started` are committed rows;
`draft`, `touched` and `charge` are what a transaction has inserted, updated and
counted without committing; `locked` is the counter row of a quota period.
`FindRun` is the look-up before the charge, `ConsumeQuota` and `QuotaExhausted`
the single statement that tests and increments, `CreateRun` the second look-up,
`InsertRun` and `UniqueViolation` the two ends of an insert that had to wait for
another transaction with its key.  `Commit` publishes, `Enqueue` hands a sweep's
runs to the queue, one call each, `Crash` may fall anywhere in between.  A
request's own enqueue is a separate API call and is not part of the module.

### GateVerdict

One gate run: it takes criterion after criterion (`TakeCriterion`), refuses to
compare or reads pairs (`RefuseToCompare`, `ReadPair`), draws its resamples
(`Resample`), classifies and applies the thresholds (`EvaluateCriterion`), and
decides (`Decide`).  Scores are integers and means are compared as sums times the
number of pairs, which is exact as the code's `Decimal`s are up to their
28 digits.  The quantisation of the two reported means to nine digits is left
out.  The seeded generator is replaced by every sequence of draws.  The pairing
queries are an arbitrary list of pairs of bounded length.

Without a baseline the code writes the outcome `not_comparable` whatever the
criteria's own mappings say, which the schema demands
(`ck_gate_decision__baseline_required_unless_not_comparable`) and ADR-016's
precedence table does not provide for.  The model follows the code.

### ReleaseGate

A baseline is known by its run.  An approval is `OpenApproval`, then the UPDATE
that supersedes what it finds approved in its scope (`FindApproved`, `Supersede`,
row by row), then the UPDATE of its own row (`LockTarget`), whose entry in the
partial unique index waits for any transaction that has changed which row of the
scope is approved (`IndexAdmits`, `Approve`) or fails (`RefuseApproval`: the
index, or the CHECK on a row that was superseded meanwhile).  Rows are held until
`CommitApproval` or `LoseApproval`; two approvals that wait for each other are a
deadlock one of them does not survive (`BreakDeadlock`).  A gate request opens
(`OpenGate`), resolves its baseline (`Resolve`: the one named, or the scope's),
reads it again (`ReadBaseline`) and records an immutable decision (`Decide`).
The outcome is one that lets through, one that blocks, or the one recorded without
a baseline, of those `GateVerdict` may reach: nothing here tells more of them
apart.  The gate's project is taken to be the run's.  Left out: exceptions to
decisions, and the refusal to publish a policy without criteria, which
`VersionRegistry` has.  The histories `inForce` and
`without` remember what was approved while a gate ran.

### ScheduledExecution

One job with the stages `LoadExamples`, `Execute`, `EvaluateGate`, `ReadRules` and
`FireAlerts`, `Observe`, each a transaction (the last but one two statements),
then `Ack`.  A lost worker (`LoseWorker`) or a slow one lets the queue deliver the
job again, from the first stage, beside the first delivery.  An exception
(`Raise`) ends the job: content that is gone, a gate that cannot decide, an
observation already there, or anything at the alerts.  Meanwhile content is erased,
rules are paused, the run is cancelled (`CancelRead`, `CancelWrite`, as in
`RunExecution`), and the API evaluates the alert rules of a run that has ended, by
no delivery (`EvaluateAlerts`).  Left out: rules created between two deliveries, and
whether the evidence an event stores was complete.

### ContentErasure

An erasure reads its live targets (`ReadTargets`), refuses if an approved
baseline pins them and it does not override (`RefusePinned`, `AcceptErasure`),
finds the runs that used them (`FindRuns`) and the content rows (`FindContent`),
updates each row once it is free (`UpdateRow`), verifies (`Verify`) and commits
(`CommitErasure`).  Executors load content (`Prepare`), hold the run's row
(`Begin`) and commit samples (`CommitRun`).  Nothing in the source writes
artifacts, so an erasure's targets are contents.  The histories `late` and
`newer` remember runs and baselines that came after an erasure had looked: what
holds but for them (`ErasedEvidenceDemoted`, `PinsHonoured`) is stated without them
by the properties of two counterexamples.

### Access

A request authenticates by key (`Authenticate`), passes the guard (`Authorize`,
`Refuse`), both in a transaction of their own, and is handled in another: issue,
rotate or revoke a key, create or revoke a binding, statement by statement. The
administrator trigger counts other administrative bindings in what is committed
(`Remaining`); the unique index over active bindings makes a second grant wait and
fail (`RefuseTwin`). Key expiry, the states of memberships and service accounts,
permissions other than those of roles and credentials, grants limited to a project
(the routes about keys and bindings name no project, so such a grant lets nobody
through), and the hashing of secrets are left out. The histories `contested`,
`heirs` and `raced` tell what overlapped.

### The parts of MCMeasures

`JudgePanel`: each judge is asked (`Ask`), asked again while its reply cannot be
read and the bounds allow (`AskAgain`, `GiveUp`), an iteration that raises among
them (`AttemptRaises`), and recorded (`Record`);
`Conclude` is `reach_consensus` and, when it escalates, the row a person acts on.
A review reads that row without a lock (`ReadEscalation`), updates it under the
trigger (`WriteReview`) and commits, or is lost.  The votes' rows are written in
the sample's transaction, which `RunExecution` commits or rolls back as a whole, so
a redelivery finds all of them or none.  The verdict is the median itself; the code
rounds it to the resolution (`consensus.py:206-212`), which moves no whole score and
no half between two.
`RateLimiter`: `ReadLimit` reads the tenant's limit and the server's clock,
`RunScript` is the Lua script, later; `SetLimit`, `Tick`, `StoreUnreachable`
are the surroundings.  `Cadence`: `ParseCadence` and `MatchesDay` translate the
parser and the matcher; `SweepDay` goes through the days of a year.
`PlanReview`: a request reads a plan, rebuilds it from its rows (`ReadPlan`),
reads it again (`RereadPlan`), writes steps and the row under the schema's triggers.
Drafting and reasoning are left out, and so are amendments that change steps, which
the service takes and no route passes: every amendment yields the stored digest
again, so that an accepted plan is the reviewed one is checked of settling it, not
of a digest that changed.  `VersionRegistry`: an addition reads the
highest number (`ReadMaximum`) and inserts the next (`InsertVersion`,
`RefuseDuplicate`), a publication reads the state (`ReadState`) and updates the
row, on which the freezing trigger decides (`PublishVersion`, `RefuseFrozen`);
`Cite` completes evidence.  Prompts, judges and policies share the module because
they share the statements; `kind` is what tells them apart (a judge published
twice is refused, a policy without criteria is not published).  `QualityDrift`:
baselines are approved and superseded one by one (`Approve`), and in every state
`DriftClass` judges the run against `History` as `drift.py` does.  Scores are whole
units, `Grain` of them to the resolution a median of two is rounded to (nine
digits, while PostgreSQL's averages have more), so the rounding is visible.

How long Redis keeps an idle bucket is a constant of `RateLimiter`
(`TimeToLive`).  The script computes `max(60, int(capacity / per_second) * 2)`,
which is two minutes for every limit, or two seconds less where the division
rounds down.  A bucket forgotten early is a full one given away, so the bound on
admissions needs that no two readings of the time differ by more than the life of
a bucket exceeds a minute (`ClocksAgree`): with clocks further apart it is false.

## 3. Runs

| Run | Instance | Shows |
|---|---|---|
| `execution` | 2 workers, 3 deliveries, 2 losses, exceptions, 1 cancellation, 3 examples x 2 candidates priced 2 and 1, budget 5 | overshoot below one example; verdict agrees with the ledger; committed work not repeated; refinement of `RunLedger`; the run ends |
| `requests` | below | submissions, gates and approvals, credentials and bindings, erasures |
| `scheduled` | 2 workers, 3 deliveries, 2 losses, 1 rule, 1 cancellation, evaluations by the API, schedules gated or not, observing or not, 3 outcomes | one alert per rule; advice rests on evidence and is never rewritten; a release is observed |
| `measures` | below | gate verdicts, judge panels, rate limits, cadences, plans, versions, drift |
| `execution_partial` | as `execution` | counterexample: "partial" replaced by "complete" |
| `execution_resume` | 2 examples, 2 deliveries, 1 loss, no exceptions | counterexample: a worker is lost in the second example, the next one begins with the first |
| `access_administrator` | as the access part of `requests` | counterexample: nobody is left to administer |
| `access_rotation` | the same, 2 requests at a time | counterexample: a key that is dead by then gets an heir |
| `erasure_reproducible` | as the erasure part of `requests` | counterexample: an erased run stays reproducible |
| `erasure_pinned` | the same | counterexample: a baseline's content goes without an override |
| `plan_acceptance` | one acceptance is enough | counterexample: an untouched plan is refused |
| `cadence_days` | expressions with one restricted day field | counterexample: "the first of the month" fires on the second |

`requests` is the disjoint sum of four modules that share no variable
(`ContentErasure` has approvals of its own, since what they change for it is only
whether content is pinned), so that interleaving their steps would reach nothing that
each does not reach alone: the initial state picks the part that moves, the others rest in their initial states, and
every part has the fairness of its own module while it moves.

- *Admission:* 2 requests with one key in different periods, 2 sweeps of one minute
  over 2 schedules, quota 2, 1 loss.  The quota bounds runs; a key names one run;
  every submission is answered; committed triggers reach the queue unless a sweep is
  lost.
- *Gate:* 2 runs of one scope, 3 approvals (two of one baseline), 2 gates (one names
  its baseline), 1 policy version, 1 loss.  Refinement of `ScopeBaseline`; a gate
  finds the baseline in force; approvals are answered.
- *Access:* 9 requests about 2 provisioned keys and 2 bindings, 3 at a time, 1 loss.
  An administrator is lost only to a race or to a binding on a project; a rotated key
  names its heir, the only one unless its requests overlapped; no twin bindings;
  requests are answered.
- *Erasure:* 2 contents shared by 2 runs (one scheduled), 2 erasures (one
  overriding), 1 loss.  Evidence is demoted unless recorded late; contents are gone
  exactly as requests say; pins are honoured but for baselines approved after an
  erasure looked; erasures are answered.

`measures` is the disjoint sum of seven modules that share no state: the initial
state picks the part that moves, and the others rest in one of their own initial
states, so that every property is checked as its module states it. Gate: scores 0
to 2, up to 2 pairs, 4 resamples at level 0.2, up to 2 of 3 criteria, every pair of
runs over one pinned kind. Panel: 3 judges, 3 scores, 2 unreadable texts, 3
iterations within a budget of 2, threshold and minimum set or not, 2 reviews.
Limiter: 2 servers one tick apart, limits 1 and 2, a minute of 2 ticks, 4 ticks in
all, buckets kept for 4, scripts up to a tick late. Cadence: every combination of
12 minute-hour, 6 day, 3 month and 6 weekday fields of a list that has stars, steps,
ranges, wrapped ranges and numbers out of range, over a whole year. Plan: 2
amendments and 2 acceptances of a valid or invalid draft. Versions: 3 additions and
3 publications (two of one version), prompts, judges and policies. Drift: one run
among 3 others with 3 means or none, 3 units to the resolution, tolerance and
minimum history unset, at a boundary, or beyond what there is.

### Bounds

*Execution, scheduled.* Two workers give every overlap: a third would only wait
for the same lock or stand at a stage one of the two stands at.  Three deliveries
with two losses allow a redelivery after a loss and one after a commit in one
behaviour.  Three examples with two prices let the budget (5) fall inside an
example, at its end, or never.  `MaxTries` is arq's `max_tries`; `MaxCrashes`
bounds the environment only.

*Admission.* Two requests and two sweeps with two periods give two locks in both
orders, two submissions of one key under different locks, and a quota reached by
any mixture.  With the counter locked first and the key second, a cycle needs two
transactions, which two sweeps over two schedules provide.

*Gate, erasure.* Approvals of two baselines in one scope reach every wait, the
deadlock, both refusals and a baseline approved again after it was superseded;
a third approval overlaps the commit of the first two.  Two erasures over two
shared rows reach both orders of locking.

*Access.* Three requests at a time out of nine: a race is between two, and the
third is what makes the race matter.

*Measures.* Four resamples at level 0.2 have ranks 1 and 2: an interval that is
neither a point nor the range.  Three judges have a median that is a vote, two a
median between votes; so are three and two baselines, and 2 + 5 units halve to a
value that is rounded.  Three additions let two race for a number and a third find
what they left.

The proofs cover every other value of the constants of the twelve modules they
are about.

### Fairness

`RunExecution` and `ScheduledExecution`: some live worker takes a waiting job
(workers poll the queue every `poll_delay`), and a worker that is running goes on,
since every provider call has a timeout and every loop is finite.  Nothing is
assumed of crashes, exceptions or cancelling clients; waiting for the row lock
needs no strong fairness because a holder always proceeds to its end and only
finitely many deliveries compete.  `RunEnds` and `ReleaseObserved` excuse a job
ended by an exception, after which nothing retries it.  `RunAdmission`,
`ReleaseGate`, `Access`, `ContentErasure`: a transaction in progress proceeds when
it can, for no statement in it waits for a client, and the database's deadlock
detector ends a circle of waits; no request has to be sent, and the gate's other
steps (creating baselines, publishing) have no fairness.  `ScheduledRunsQueued`
holds of sweeps that are not lost.  `Cadence`: the sweep runs every minute.  The
failures of the database itself are left out.

What is always answered is stated as `[]<>(...)`: from every state on, a state is
reached again in which nothing asked for is left unanswered.

Deadlock is checked in `requests` where submissions move, which all end in a state of
their own (`AllAnswered`); the other three parts may stop when nothing is left to ask
(`Rest`).  `CHECK_DEADLOCK FALSE` stands in the runs whose system may stop: requests
are finitely many and all answered.

## 4. Proofs

Eight modules hold 44 listed theorems, for all values of the constants under each
module's named assumption.

`RunExecutionProofs`.  `TypeCorrect`; `Invariance`, the invariant
`IInv == TypeOK /\ CommittedInv /\ \A w : TransactionInv(w)`; from it
`OvershootBounded`, `VerdictTruthful`, `NoCommittedRework`, and `LedgerImplemented`,
the refinement.  The properties are about committed rows, and a committed row is
published by a step that copies a worker's view.  So the invariant must speak of
the views: a worker in its transaction holds the lock (no other writes the run
meanwhile), its view extends the committed record, its running cost is the sum of
its entries, and between examples the units up to the checkpoint, and no others,
are resolved.  Inside an example the cost is bounded by the budget plus the price
of the candidates recorded so far (`Ceiling`).  The lock is what makes `IInv`
inductive: without it a cancellation or a second worker would invalidate a view.

`RunAdmissionProofs`.  `AdmissionTypeCorrect`, `QuotaHolds`, `KeysUnique`,
`AdmissionNeverDeadlocks`.  The
invariant speaks of a transaction's private rows: it has no more of them than it
charged (`Charged`), a charge is pending only under the lock of its period's
counter and fits the quota on top of what is committed, and no key belongs to two
rows, committed or not (`KeysOwned`).  The lock lets one transaction at a time hold
a charge on a counter, which is why two commits never add up to more than the
quota; the wait on the unique index is why an inserted key is nobody else's.
That the waits never close a circle (`NoCircularWait`, the safety half of
`SubmissionsAnswered`) needs the order in which they are entered (`WaitInv`): who
waits for a counter waits for its holder, which holds no other counter and can
wait only for a key; who waits for a key waits for a sweep further down the
schedules, since every sweep goes through them in order of id, so the sweep
furthest down waits for nobody.

`EvidenceProofs`, about what is concluded from measurements.  Verdicts and drift
are computed by folds and order statistics over any number of values, so lemmas on
these come first.  What would be an induction over the data is a least
counterexample: a family of finite sets that is not empty has a member of which it
holds no part (`SmallestOf`), so a fold that failed somewhere would fail at a
smallest place (`SumsExist`), and a rank nobody holds is taken by the least value
that enough values do not exceed (`RankedExists`).  From these: totals and ranks
shift with their values (`TotalShift`, `RankedShift`), ranks are monotone.  Then

- `RanksInRange` (for every level and resample count the percentile ranks index the
  list, lower before upper) and `PassMeansMeasured`, from the invariant that every
  weighed criterion without a measurement carries an action, which rests on the
  schema's checks that no mapping is `pass`.
- `ToleranceForgives` and `BetterFaresNoWorse` compare two evaluations of one
  criterion.  `EvidenceInv` says what the evidence in hand is: pairs of scores, and
  integer sums of the resamples.  Better scores then move mean and interval by the
  same amount, so a classification is withheld as before, a regression that is left
  was one before, a breached floor was breached, and what was tolerated is.
- `FloorBlocks`, an action property: `Blocked` (a floor is breached in hand, or a
  `hard_fail` is among what was weighed) is kept by every step, and
  `DecisionOutcome` puts it first.
- `DriftNeedsTheMany`: the median has half of the history on either side, and
  rounding moves it by half the resolution at most.  `DriftInv` says that means are
  numbers and that a baseline once approved is never forgotten.

`ReleaseGateProofs`.  `ApprovalInvariant`: who holds which row, that what an
approval has superseded is still approved in what is committed and held by it, and
that no two approvals of one scope are both past the index.  The last is what the
index gives and the UPDATEs alone do not; with it every commit replaces the
scope's baseline by the approval's target, which is `ScopesImplemented`.
`GateInvariant` ties what a gate has resolved to the histories of what was in
force, and gives `BaselineFound`.

`AccessProofs`.  `AccessInvariant`: a request about to commit holds its row, and
what it read of that row under the lock still holds; what it read before the lock
holds only of rows no other request was about (`Uncontested`), or for removals
that did not overlap (`OthersRemain`).  From it `AdministratorKept`,
`RotationSingle`, `BindingsUnique`, `DeadKeysStayDead`.  `RotationSingle` holds of
contested keys too, as far as the code goes: every heir of a key was recorded in the
transaction that marked it rotated, and a revocation that waited for a rotation finds
nothing to revoke, so a rotated key always names an heir and no other key has one.
The exceptions that are left are the races of findings 3 and 4.

`ContentErasureProofs`.  `ErasureInvariant`: rows held by whom, targets still
present when their erasure commits, and every run with samples from doomed content
already demoted, still wanted by its erasure's UPDATE, or late.  From it
`EvidenceDemoted`, `ErasuresAccounted`, `PinsAreHonoured`.  The first and the last
name the evidence and the baselines that came after the look-up they depend on;
findings 5 and 6 are about those.

`ScheduledExecutionProofs`.  The five transactions share no lock.  What lets a
later stage rely on an earlier one is that records only gain (`RecordsStand`: an
outcome stays, a decision is not taken back, an event is not removed, by a request to
evaluate the rules no more than by a delivery: `RecordingKeepsEvents`), so
`DeliveryInvariant` states per stage what a delivery has found, and the others
cannot disturb it.  From it `AlertsOnce`, `AdviceEvidenced`; `AdviceKept` from the
guard of `Observe` against every other action.

`SettlementProofs`, about records that are settled once.  `RegistryInvariant`: an
open addition asked for a number that is taken or next, only one may be about to
commit and then it has the next; a row under publication is held by one request,
is not published, and is cited by no draft's evidence.  From it `RegistryKept`.
`PlanInvariant`: a plan is read in the form its rows give back, whoever is about to
commit holds a row that is still a draft, an acceptance goes on only while the
stored digest is the one it rebuilt (amendments that commit in between store the
same one, since a request can change no step), and the steps of every digest the
record names are there.  From it `AcceptedPlanKept`.

`PanelHonest` joins two invariants.  `VoteInv`: the bounds of the loop, in which an
iteration that raised counts like any other, that a
reply to be asked again about cannot be read, and that each vote on record is the
first answer its judge gave (or the reply it began with), which is what `PanelIsHonest`
means by an honest vote; the median of the votes lies between the two in the middle,
and what the attempts cost is a fold, again by a least counterexample.  `ReviewInv`
rests on the trigger: of the reviews that read the row as open, one at most finds it
so once it is locked.

`NeverOverAdmits` is about the rate limiter.  `AdmissionsBounded` speaks of two
admissions and is not inductive: it must be known what the bucket still holds.
`LimiterInv` adds, for every past admission, that what is in the bucket and what was
taken from it since is no more than it held then plus what the time it has seen
allowed (`BucketInv`), and that no reading under way is older than `MaxDelay` or
further ahead than its server's clock (`ReadingsInv`).  A late script, with a clock
behind the bucket's, refills nothing and leaves the bucket's time alone.  A bucket is
forgotten only when every clock shows a minute more than it has seen
(`ClocksAgree`), and then a full one is no more than it would have held.

*Assumptions.*  Each module names its own.  They say how the parts of an instance
relate (a request adds a version or publishes one, a reviewer is somebody), that
numbers are numbers and finite sets finite, and repeat the schema's CHECKs on the
columns (`GateVerdictAssumption`).  `ClocksAgree` is the one with content.

*Only model-checked.*  Liveness, which is out of the prover's reach: `RunEnds`,
`SubmissionsAnswered`, `ScheduledRunsQueued`, `ApprovalsAnswered`,
`RequestsAnswered`, `ErasuresAnswered`, `ReleaseObserved` and `EveryCadenceFires`,
the last with what `Cadence` computes of an expression.  Every other property a
run checks is a theorem.  The inductive invariants were model-checked on the same
instances.  `DeadKeysStayDead` and `AdmissionNeverDeadlocks` are proved, and checked
by no run.

## 5. Findings

Each is a run whose counterexample is a short behaviour of the code:

1. A redelivered job whose run committed as partial rewrites it as complete
   (`runner.py:193`).
2. A worker that is lost takes with it the checkpoints of every example it had
   resolved, since one transaction holds the whole loop, and the next delivery calls
   the providers for them again (`worker.py:101`).  `REQ-N-REL-1` and
   `component-architectures.md:88` promise that a resumed run recomputes nothing that
   was resolved; what has been committed is indeed never repeated
   (`CommittedWorkNeverRepeated`).
3. Two removals that overlap leave an organization without an administrator, and a
   binding limited to a project counts as one (`12-identity-and-access.sql:361`).
4. Two rotations that both read a key as live both issue a successor, the second for a
   key that is dead by then, and so does a rotation that overlaps a revocation
   (`security/repository.py:232`).
5. A run that records samples after an erasure looked for the runs to demote
   stays reproducible although its content is gone (`erasure.py:128`).
6. A baseline approved after an erasure looked for baselines that pin the content
   loses it although nobody overrode the pin (`erasure.py:95`); `REQ-F-05-9` grants no
   such exception.
7. A plan with a cost of fewer than nine decimals is refused as not the plan that
   is stored, although nobody touched it (`agents/repository.py:221`).
8. A schedule that restricts one day field fires on every day (`schedules.py:104`).

One disagreement needs no run to be seen: `_advance` (`erasure.py:179-185`) writes the
stages of an erasure "so that a failure mid-erasure leaves a record of how far it got",
and writes them in the transaction that the failure rolls back, which is what
`LoseErasure` does.

Behaviour that no document forbids, or whose words admit it, is modelled and listed
under the hazards: a cancellation overwrites a committed verdict
(`service.py:110`); a retry
beside its first attempt is charged to the quota and extends the first run's
identity (`service.py:72`); a sweep lost before its hand-over leaves runs nobody
queues (`scheduler.py:235`); a publication retried beside its first attempt is
refused (`registry/repository.py:302`); an exception while one tenant is swept
skips the tenants after it (`scheduler.py:231`); what judges cost counts against no
budget, since the total it is compared with sums `sample_cost` only
(`orchestration/repository.py:349`, `judges/panel.py:111`).

## 6. Plan

Done: all modules of section 2.  What remains, in order of weight:

1. Exceptions to gate decisions (`create_exception` beside expiry and decisions).
2. Key expiry and service account states in `Access`.
3. Creating, pausing and retiring schedules beside a sweep.
4. Theorems about `Cadence`: which days an expression that stands fires on.

## 7. Not modelled

Text and number processing without state (evaluators, retrieval metrics, redaction,
scorecard arithmetic), presentation (HTTP routing, reports, CLI), observation
(telemetry), aggregation that only reads (the rest of analytics, memory), and
scripts that run once and alone (migrations, provisioning). The database is
PostgreSQL's documented READ COMMITTED behaviour of the statements used; its
failures and replication are outside.

The map covers a small share of the repository's lines and cannot cover much more.
About half of them are the evidence scripts under `docs/evidence`, which test a
finished phase from outside; most of the rest is request and response wiring
(`api/app.py`), row presentation, formatting and read-only queries.  The code that
changes shared state, which is what these models are about, is a few thousand
lines, and nearly all of it is mapped.
