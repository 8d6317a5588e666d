------------------------- MODULE RunAdmissionProofs -------------------------
(***************************************************************************)
(* Proofs about RunAdmission, for any number of requests, sweeps,          *)
(* schedules and periods.                                                  *)
(***************************************************************************)
EXTENDS RunAdmission, FiniteSetTheorems, WellFoundedInduction, TLAPS

(* A sweep charges at most one run per schedule it has turned to.          *)
ChargeShape ==
    \A a \in Submitters :
        /\ charge[a] <= item[a]
        /\ at[a] \in {"idle", "find", "charge"} => charge[a] < item[a]

Typed == AdmissionTypeOK /\ ChargeShape

(* The rows of an open transaction: each was charged, the charge is under  *)
(* the counter's lock and within the quota.                                *)
Charged(a) ==
    /\ IsFiniteSet(draft[a])
    /\ Cardinality(draft[a]) <= charge[a]
    /\ at[a] = "create" => Found(a) \/ Cardinality(draft[a]) < charge[a]
    /\ at[a] = "insert" => Cardinality(draft[a]) < charge[a]
    /\ charge[a] > 0 => locked[PeriodOf[a]] = a
    /\ started[PeriodOf[a]] + charge[a] <= RunsPerPeriod
    /\ \A r \in draft[a] : r.period = PeriodOf[a]

Counted ==
    /\ IsFiniteSet(runs)
    /\ \A p \in Periods : /\ Cardinality(RunsOf(p)) <= started[p]
                          /\ started[p] <= RunsPerPeriod

(* A key belongs to one row, committed or not.                             *)
KeysOwned ==
    /\ OneRunPerKey
    /\ \A a \in Submitters : \A r \in draft[a] :
         /\ \A q \in runs : q.key # r.key
         /\ \A b \in Submitters : \A q \in draft[b] :
              q.key = r.key => a = b /\ q = r

IInv == Typed /\ Counted /\ KeysOwned /\ \A a \in Submitters : Charged(a)

-----------------------------------------------------------------------------
(* Type correctness.                                                       *)

LEMMA SubmitterFacts ==
    ASSUME NEW a \in Submitters
    PROVE  /\ PeriodOf[a] \in Periods
           /\ a # NoOne
  BY RunAdmissionAssumption DEF Submitters, Periods

LEMMA KeyType ==
    ASSUME AdmissionTypeOK, NEW a \in Submitters
    PROVE  Key(a) \in RunKeys /\ (a \in Sweeps => Key(a) \in TriggerKeys)
  BY RunAdmissionAssumption DEF AdmissionTypeOK, Key, RunKeys, TriggerKeys,
     Submitters

LEMMA BodyType ==
    ASSUME NEW a \in Submitters
    PROVE  Body(a) \in SUBSET (ScheduleBody \cup UNION {BodyOf[p] : p \in Posts})
  BY DEF Body, Submitters

LEMMA NewRunType ==
    ASSUME AdmissionTypeOK, NEW a \in Submitters
    PROVE  /\ NewRun(a, Key(a), Body(a)) \in RunRows
           /\ NewRun(a, Key(a), Body(a)).key = Key(a)
           /\ NewRun(a, Key(a), Body(a)).period = PeriodOf[a]
  BY KeyType, BodyType, SubmitterFacts DEF NewRun, RunRows

(* Where NextItem leaves a submitter.                                      *)
LEMMA NextItemType ==
    ASSUME Typed, NEW a \in Submitters, NextItem(a),
           charge' = charge
    PROVE  /\ item' \in [Submitters -> 1 .. NumSchedules]
           /\ at' = [at EXCEPT ![a] = at'[a]]
           /\ at'[a] \in {"find", "commit"}
           /\ ChargeShape'
  <1>. USE RunAdmissionAssumption DEF Typed, AdmissionTypeOK
  <1>1. CASE a \in Sweeps /\ item[a] < NumSchedules
    <2>1. item' = [item EXCEPT ![a] = item[a] + 1] /\ at' = [at EXCEPT ![a] = "find"]
      BY <1>1 DEF NextItem, Proceed
    <2>2. ChargeShape'
      BY <2>1 DEF ChargeShape
    <2>. QED  BY <1>1, <2>1, <2>2
  <1>2. CASE ~(a \in Sweeps /\ item[a] < NumSchedules)
    <2>1. item' = item /\ at' = [at EXCEPT ![a] = "commit"]
      BY <1>2 DEF NextItem, Proceed
    <2>2. ChargeShape'
      BY <2>1 DEF ChargeShape
    <2>. QED  BY <2>1, <2>2
  <1>. QED  BY <1>1, <1>2

LEMMA ReleaseType ==
    ASSUME Typed, NEW a \in Submitters, EndTransaction(a)
    PROVE  /\ locked' \in [Periods -> Submitters \cup {NoOne}]
           /\ draft' \in [Submitters -> SUBSET RunRows]
           /\ touched' \in [Submitters -> SUBSET RunKeys]
           /\ charge' \in [Submitters -> 0 .. NumSchedules]
           /\ draft'[a] = {} /\ charge'[a] = 0
           /\ \A b \in Submitters : b # a => draft'[b] = draft[b] /\ charge'[b] = charge[b]
           /\ \A b \in Submitters : b # a => touched'[b] = touched[b]
  <1>1. 0 \in 0 .. NumSchedules
    BY RunAdmissionAssumption
  <1>. QED  BY <1>1 DEF Typed, AdmissionTypeOK, EndTransaction

LEMMA TypeInit == AdmissionInit => Typed
  <1>1. 1 \in 1 .. NumSchedules /\ 0 \in 0 .. NumSchedules
    BY RunAdmissionAssumption
  <1>. QED  BY <1>1, RunAdmissionAssumption DEF AdmissionInit, Typed,
               AdmissionTypeOK, ChargeShape

LEMMA TypeAbort ==
    ASSUME Typed, NEW a \in Submitters, NEW label \in {"refused", "failed"},
           RollBack(a, label), lost' \in 0 .. MaxLost
    PROVE  Typed'
  <1>1. /\ runs' = runs /\ started' = started /\ item' = item /\ jobs' = jobs
        /\ fired' = [fired EXCEPT ![a] = {}] /\ at' = [at EXCEPT ![a] = label]
        /\ EndTransaction(a)
    BY DEF RollBack, Proceed
  <1>2. AdmissionTypeOK'
    BY <1>1, ReleaseType DEF Typed, AdmissionTypeOK
  <1>3. ChargeShape'
    BY <1>1, ReleaseType DEF Typed, AdmissionTypeOK, ChargeShape
  <1>. QED  BY <1>2, <1>3 DEF Typed

LEMMA TypeFind ==
    ASSUME Typed, NEW a \in Submitters, FindRun(a)
    PROVE  Typed'
  <1>1. CASE at' = [at EXCEPT ![a] = "charge"] /\ item' = item
    BY <1>1 DEF FindRun, Typed, AdmissionTypeOK, ChargeShape
  <1>2. CASE at' = [at EXCEPT ![a] = "create"] /\ item' = item
    BY <1>2 DEF FindRun, Typed, AdmissionTypeOK, ChargeShape
  <1>3. CASE NextItem(a)
    BY <1>3, NextItemType DEF FindRun, Typed, AdmissionTypeOK
  <1>. QED  BY <1>1, <1>2, <1>3 DEF FindRun, Proceed

LEMMA TypeConsume ==
    ASSUME Typed, NEW a \in Submitters, ConsumeQuota(a)
    PROVE  Typed'
  <1>1. /\ at[a] = "charge" /\ at' = [at EXCEPT ![a] = "create"]
        /\ charge' = [charge EXCEPT ![a] = charge[a] + 1]
        /\ locked' = [locked EXCEPT ![PeriodOf[a]] = a]
        /\ UNCHANGED <<runs, started, item, draft, touched, fired, jobs, lost>>
    BY DEF ConsumeQuota, Proceed
  <1>2. charge[a] < item[a] /\ item[a] \in 1 .. NumSchedules /\ charge[a] \in Nat
    BY <1>1 DEF Typed, AdmissionTypeOK, ChargeShape
  <1>3. charge[a] + 1 \in 0 .. NumSchedules /\ charge[a] + 1 <= item[a]
    BY <1>2, RunAdmissionAssumption
  <1>4. AdmissionTypeOK'
    BY <1>1, <1>3 DEF Typed, AdmissionTypeOK
  <1>5. ChargeShape'
    BY <1>1, <1>3 DEF Typed, AdmissionTypeOK, ChargeShape
  <1>. QED  BY <1>4, <1>5 DEF Typed

LEMMA TypeExhausted ==
    ASSUME Typed, NEW a \in Submitters, QuotaExhausted(a)
    PROVE  Typed'
  <1>1. CASE a \in Posts
    BY <1>1, TypeAbort DEF QuotaExhausted, Typed, AdmissionTypeOK
  <1>2. CASE a \notin Posts
    <2>1. /\ NextItem(a) /\ locked' = [locked EXCEPT ![PeriodOf[a]] = a]
          /\ UNCHANGED <<runs, started, draft, touched, charge, fired, jobs,
                         lost>>
      BY <1>2 DEF QuotaExhausted
    <2>. QED  BY <2>1, NextItemType DEF Typed, AdmissionTypeOK
  <1>. QED  BY <1>1, <1>2

(* What a submitter records as fired is a trigger.                         *)
LEMMA FiredType ==
    ASSUME Typed, NEW a \in Submitters
    PROVE  WithTrigger(a) \in SUBSET TriggerKeys
  BY KeyType DEF WithTrigger, Typed, AdmissionTypeOK

LEMMA TypeCreate ==
    ASSUME Typed, NEW a \in Submitters, CreateRun(a)
    PROVE  Typed'
  <1>1. CASE Found(a)
    <2>1. /\ NextItem(a)
          /\ touched' = [touched EXCEPT ![a] = touched[a] \cup {Key(a)}]
          /\ fired' = [fired EXCEPT ![a] = WithTrigger(a)]
          /\ UNCHANGED <<runs, started, locked, draft, charge, jobs, lost>>
      BY <1>1 DEF CreateRun
    <2>2. Key(a) \in RunKeys /\ WithTrigger(a) \in SUBSET TriggerKeys
      BY KeyType, FiredType DEF Typed
    <2>. QED  BY <2>1, <2>2, NextItemType DEF Typed, AdmissionTypeOK
  <1>2. CASE ~Found(a)
    BY <1>2 DEF CreateRun, Proceed, Typed, AdmissionTypeOK, ChargeShape
  <1>. QED  BY <1>1, <1>2

LEMMA TypeInsert ==
    ASSUME Typed, NEW a \in Submitters, InsertRun(a)
    PROVE  Typed'
  <1> DEFINE row == NewRun(a, Key(a), Body(a))
  <1>1. /\ NextItem(a)
        /\ draft' = [draft EXCEPT ![a] = draft[a] \cup {row}]
        /\ fired' = [fired EXCEPT ![a] = WithTrigger(a)]
        /\ UNCHANGED <<runs, started, locked, touched, charge, jobs, lost>>
    BY DEF InsertRun
  <1>2. row \in RunRows /\ WithTrigger(a) \in SUBSET TriggerKeys
    BY NewRunType, FiredType DEF Typed
  <1> HIDE DEF row
  <1>. QED  BY <1>1, <1>2, NextItemType DEF Typed, AdmissionTypeOK

(* A run a request or sweep reuses.                                        *)
Reused(a, r) ==
    IF r.key \in touched[a]
    THEN [r EXCEPT !.components = r.components \cup Body(a)] ELSE r

LEMMA CommitRuns ==
    ASSUME NEW a \in Submitters, Commit(a)
    PROVE  runs' = {Reused(a, r) : r \in runs} \cup draft[a]
  BY DEF Commit, Reused

LEMMA ReusedType ==
    ASSUME NEW a \in Submitters, NEW r \in RunRows
    PROVE  /\ Reused(a, r) \in RunRows
           /\ Reused(a, r).key = r.key
           /\ Reused(a, r).period = r.period
  BY BodyType DEF Reused, RunRows

LEMMA TypeCommit ==
    ASSUME Typed, NEW a \in Submitters, Commit(a)
    PROVE  Typed'
  <1>1. /\ EndTransaction(a) /\ item' = item /\ fired' = fired /\ jobs' = jobs
        /\ lost' = lost
        /\ started' = [started EXCEPT ![PeriodOf[a]] = started[PeriodOf[a]] + charge[a]]
        /\ at' = [at EXCEPT ![a] = IF a \in Sweeps THEN "enqueue" ELSE "done"]
    BY DEF Commit, Proceed
  <1>2. runs' \subseteq RunRows
    BY CommitRuns, ReusedType DEF Typed, AdmissionTypeOK
  <1>3. started' \in [Periods -> Nat]
    BY <1>1, SubmitterFacts DEF Typed, AdmissionTypeOK
  <1>4. AdmissionTypeOK'
    BY <1>1, <1>2, <1>3, ReleaseType DEF Typed, AdmissionTypeOK
  <1>5. ChargeShape'
    BY <1>1, ReleaseType DEF Typed, AdmissionTypeOK, ChargeShape
  <1>. QED  BY <1>4, <1>5 DEF Typed

LEMMA TypeEnqueue ==
    ASSUME Typed, NEW s \in Sweeps, Enqueue(s)
    PROVE  Typed'
  <1>1. s \in Submitters
    BY DEF Submitters
  <1>2. CASE fired[s] = {}
    BY <1>1, <1>2 DEF Enqueue, Proceed, Typed, AdmissionTypeOK, ChargeShape
  <1>3. CASE fired[s] # {}
    <2>1. PICK k \in fired[s] :
            /\ jobs' = jobs \cup {k}
            /\ fired' = [fired EXCEPT ![s] = fired[s] \ {k}]
            /\ UNCHANGED <<at, runs, started, locked, item, draft, touched,
                           charge, lost>>
      BY <1>3 DEF Enqueue
    <2>2. k \in TriggerKeys
      BY <1>1 DEF Typed, AdmissionTypeOK
    <2>. QED  BY <1>1, <2>1, <2>2 DEF Typed, AdmissionTypeOK, ChargeShape
  <1>. QED  BY <1>2, <1>3

LEMMA TypeStep == Typed /\ [AdmissionNext]_admissionVars => Typed'
<1> SUFFICES ASSUME Typed, [AdmissionNext]_admissionVars PROVE Typed'
  OBVIOUS
<1>1. ASSUME NEW a \in Submitters, Open(a) PROVE Typed'
  BY <1>1 DEF Open, Proceed, txVars, Typed, AdmissionTypeOK, ChargeShape
<1>2. ASSUME NEW a \in Submitters, Step(a) PROVE Typed'
  <2>1. CASE FindRun(a)
    BY <2>1, TypeFind
  <2>2. CASE ConsumeQuota(a)
    BY <2>2, TypeConsume
  <2>3. CASE QuotaExhausted(a)
    BY <2>3, TypeExhausted
  <2>4. CASE CreateRun(a)
    BY <2>4, TypeCreate
  <2>5. CASE InsertRun(a)
    BY <2>5, TypeInsert
  <2>6. CASE UniqueViolation(a)
    BY <2>6, TypeAbort DEF UniqueViolation, Typed, AdmissionTypeOK
  <2>7. CASE Commit(a)
    BY <2>7, TypeCommit
  <2>. QED  BY <1>2, <2>1, <2>2, <2>3, <2>4, <2>5, <2>6, <2>7 DEF Step
<1>3. ASSUME NEW a \in Submitters, Crash(a) PROVE Typed'
  <2>1. lost' \in 0 .. MaxLost
    BY <1>3, RunAdmissionAssumption DEF Crash, Typed, AdmissionTypeOK
  <2>. QED  BY <1>3, <2>1, TypeAbort DEF Crash
<1>4. ASSUME NEW s \in Sweeps, SkipSchedule(s) PROVE Typed'
  <2>1. s \in Submitters
    BY DEF Submitters
  <2>. QED  BY <1>4, <2>1, NextItemType DEF SkipSchedule, Typed, AdmissionTypeOK
<1>5. ASSUME NEW s \in Sweeps, Enqueue(s) PROVE Typed'
  BY <1>5, TypeEnqueue
<1>6. CASE UNCHANGED admissionVars
  BY <1>6 DEF admissionVars, txVars, Typed, AdmissionTypeOK, ChargeShape
<1>. QED  BY <1>1, <1>2, <1>3, <1>4, <1>5, <1>6 DEF AdmissionNext, AllAnswered

(* The variables keep their types, and no submitter ever charges more runs *)
(* than it has schedules to fire.                                          *)
THEOREM AdmissionTypeCorrect == AdmissionSpec => []AdmissionTypeOK
<1>1. Typed => AdmissionTypeOK
  BY DEF Typed
<1>. QED  BY TypeInit, TypeStep, <1>1, PTL DEF AdmissionSpec
-----------------------------------------------------------------------------
(* The quota and the keys.  A submitter's step leaves the others' rows as  *)
(* they are; the lock tells whose charge is pending on a counter.          *)

LEMMA Frame ==
    ASSUME AdmissionTypeOK, NEW b \in Submitters, Charged(b),
           at'[b] = at[b], item'[b] = item[b], draft'[b] = draft[b],
           charge'[b] = charge[b],
           \A r \in runs : \E q \in runs' : q.key = r.key,
           started'[PeriodOf[b]] + charge[b] <= RunsPerPeriod,
           charge[b] > 0 => locked'[PeriodOf[b]] = b
    PROVE  Charged(b)'
  <1>1. Key(b)' = Key(b)
    BY DEF Key
  <1>2. Found(b) => Found(b)'
    BY <1>1 DEF Found
  <1>. QED  BY <1>1, <1>2 DEF Charged

LEMMA RowsKept ==
    ASSUME Counted, KeysOwned, UNCHANGED <<runs, started, draft>>
    PROVE  Counted' /\ KeysOwned'
  BY DEF Counted, KeysOwned, RunsOf, OneRunPerKey

(* Taking the counter's lock disturbs nobody's pending charge.             *)
LEMMA LockTaken ==
    ASSUME AdmissionTypeOK, NEW a \in Submitters, NEW b \in Submitters, b # a,
           CounterFree(a), Charged(b),
           locked' = [locked EXCEPT ![PeriodOf[a]] = a]
    PROVE  charge[b] > 0 => locked'[PeriodOf[b]] = b
  BY SubmitterFacts DEF AdmissionTypeOK, CounterFree, Charged

(* A submitter that goes to its next schedule.                             *)
LEMMA MovedOn ==
    ASSUME Typed, NEW a \in Submitters, NextItem(a), charge' = charge
    PROVE  /\ at'[a] \in {"find", "commit"}
           /\ \A b \in Submitters : b # a => at'[b] = at[b] /\ item'[b] = item[b]
  BY NextItemType DEF NextItem, Proceed, Typed, AdmissionTypeOK

LEMMA FreshInit ==
    AdmissionInit => Counted /\ KeysOwned /\ \A a \in Submitters : Charged(a)
<1> SUFFICES ASSUME AdmissionInit
             PROVE  Counted /\ KeysOwned /\ \A a \in Submitters : Charged(a)
  OBVIOUS
<1>1. IsFiniteSet({}) /\ Cardinality({}) = 0
  BY FS_EmptySet
<1>2. \A p \in Periods : RunsOf(p) = {}
  BY DEF AdmissionInit, RunsOf
<1>3. Counted
  BY <1>1, <1>2, RunAdmissionAssumption DEF AdmissionInit, Counted
<1>4. KeysOwned
  BY DEF AdmissionInit, KeysOwned, OneRunPerKey
<1>5. ASSUME NEW a \in Submitters PROVE Charged(a)
  BY <1>1, SubmitterFacts, RunAdmissionAssumption DEF AdmissionInit, Charged
<1>. QED  BY <1>3, <1>4, <1>5

(* Steps within a transaction that write no row and take no lock.          *)
LEMMA QuietStep ==
    ASSUME Typed, IInv, NEW a \in Submitters,
           UNCHANGED <<runs, started, locked, draft, charge>>,
           \A b \in Submitters : b # a => at'[b] = at[b] /\ item'[b] = item[b],
           \/ at'[a] \notin {"create", "insert"}
           \/ at'[a] = "create" /\ Found(a)'
           \/ at'[a] = "insert" /\ Cardinality(draft[a]) < charge[a]
    PROVE  Counted' /\ KeysOwned' /\ \A b \in Submitters : Charged(b)'
  <1>1. Counted' /\ KeysOwned'
    BY RowsKept DEF IInv
  <1>2. Charged(a)'
    BY DEF IInv, Charged
  <1>3. ASSUME NEW b \in Submitters, b # a PROVE Charged(b)'
    <2>1. started'[PeriodOf[b]] + charge[b] <= RunsPerPeriod
      BY DEF IInv, Charged
    <2>2. charge[b] > 0 => locked'[PeriodOf[b]] = b
      BY DEF IInv, Charged
    <2>. QED  BY <1>3, <2>1, <2>2, Frame DEF IInv, Typed
  <1>. QED  BY <1>1, <1>2, <1>3

LEMMA AbortStep ==
    ASSUME IInv, NEW a \in Submitters, NEW label \in {"refused", "failed"},
           RollBack(a, label)
    PROVE  Counted' /\ KeysOwned' /\ \A b \in Submitters : Charged(b)'
  <1>1. /\ runs' = runs /\ started' = started /\ item' = item
        /\ at' = [at EXCEPT ![a] = label] /\ EndTransaction(a) /\ Typed /\ AdmissionTypeOK
    BY DEF RollBack, Proceed, IInv, Typed
  <1>2. /\ draft'[a] = {} /\ charge'[a] = 0 /\ at'[a] = label
        /\ \A b \in Submitters : b # a => /\ draft'[b] = draft[b]
                                         /\ charge'[b] = charge[b]
                                         /\ at'[b] = at[b]
    BY <1>1, ReleaseType DEF AdmissionTypeOK
  <1>3. Counted'
    BY <1>1 DEF IInv, Counted, RunsOf
  <1>4. KeysOwned'
    BY <1>1, <1>2 DEF IInv, KeysOwned, OneRunPerKey
  <1>5. Charged(a)'
    <2>1. IsFiniteSet(draft'[a]) /\ Cardinality(draft'[a]) = 0
      BY <1>2, FS_EmptySet
    <2>2. started'[PeriodOf[a]] <= RunsPerPeriod /\ started'[PeriodOf[a]] \in Nat
      BY <1>1, SubmitterFacts DEF IInv, Counted, AdmissionTypeOK
    <2>. QED  BY <1>2, <2>1, <2>2 DEF Charged
  <1>6. ASSUME NEW b \in Submitters, b # a PROVE Charged(b)'
    <2>1. Charged(b)
      BY DEF IInv
    <2>2. charge[b] > 0 => locked'[PeriodOf[b]] = b
      BY <1>1, <1>6, <2>1, SubmitterFacts DEF Charged, EndTransaction
    <2>3. started'[PeriodOf[b]] + charge[b] <= RunsPerPeriod
      BY <1>1, <2>1 DEF Charged
    <2>. QED  BY <1>1, <1>2, <1>6, <2>1, <2>2, <2>3, Frame
  <1>. QED  BY <1>3, <1>4, <1>5, <1>6

Kept == Counted' /\ KeysOwned' /\ \A b \in Submitters : Charged(b)'

LEMMA FindStep ==
    ASSUME IInv, NEW a \in Submitters, FindRun(a)
    PROVE  Kept
  <1>1. UNCHANGED <<runs, started, locked, draft, charge>> /\ Typed
    BY DEF FindRun, IInv
  <1>2. CASE ~Found(a)
    <2>1. at' = [at EXCEPT ![a] = "charge"] /\ item' = item
      BY <1>2 DEF FindRun, Proceed
    <2>. QED  BY <1>1, <2>1, QuietStep DEF Kept, Typed, AdmissionTypeOK
  <1>3. CASE Found(a) /\ a \in Posts
    <2>1. at' = [at EXCEPT ![a] = "create"] /\ item' = item
      BY <1>3, RunAdmissionAssumption DEF FindRun, Proceed
    <2>2. Found(a)'
      BY <1>1, <1>3, <2>1 DEF Found, Key
    <2>. QED  BY <1>1, <2>1, <2>2, QuietStep DEF Kept, Typed, AdmissionTypeOK
  <1>4. CASE Found(a) /\ a \in Sweeps
    <2>1. NextItem(a)
      BY <1>4, RunAdmissionAssumption DEF FindRun
    <2>. QED  BY <1>1, <2>1, MovedOn, QuietStep DEF Kept
  <1>. QED  BY <1>2, <1>3, <1>4 DEF Submitters

LEMMA CreateStep ==
    ASSUME IInv, NEW a \in Submitters, CreateRun(a)
    PROVE  Kept
  <1>1. UNCHANGED <<runs, started, locked, draft, charge>> /\ Typed /\ at[a] = "create"
    BY DEF CreateRun, IInv
  <1>2. CASE Found(a)
    <2>1. NextItem(a)
      BY <1>2 DEF CreateRun
    <2>. QED  BY <1>1, <2>1, MovedOn, QuietStep DEF Kept
  <1>3. CASE ~Found(a)
    <2>1. at' = [at EXCEPT ![a] = "insert"] /\ item' = item
      BY <1>3 DEF CreateRun, Proceed
    <2>2. Cardinality(draft[a]) < charge[a]
      BY <1>1, <1>3 DEF IInv, Charged
    <2>. QED  BY <1>1, <2>1, <2>2, QuietStep DEF Kept, Typed, AdmissionTypeOK
  <1>. QED  BY <1>2, <1>3

LEMMA ConsumeStep ==
    ASSUME IInv, NEW a \in Submitters, ConsumeQuota(a)
    PROVE  Kept
  <1>1. /\ CounterFree(a) /\ WithinQuota(a) /\ Typed /\ AdmissionTypeOK /\ Charged(a)
        /\ at' = [at EXCEPT ![a] = "create"]
        /\ charge' = [charge EXCEPT ![a] = charge[a] + 1]
        /\ locked' = [locked EXCEPT ![PeriodOf[a]] = a]
        /\ UNCHANGED <<runs, started, item, draft>>
    BY DEF ConsumeQuota, Proceed, IInv, Typed
  <1>2. Counted' /\ KeysOwned'
    BY <1>1, RowsKept DEF IInv
  <1>3. Charged(a)'
    <2>1. charge'[a] = charge[a] + 1 /\ locked'[PeriodOf[a]] = a /\ at'[a] = "create"
      BY <1>1, SubmitterFacts DEF AdmissionTypeOK
    <2>2. /\ charge[a] \in Nat /\ Cardinality(draft[a]) \in Nat
          /\ started[PeriodOf[a]] \in Nat
      BY <1>1, SubmitterFacts, FS_CardinalityType DEF AdmissionTypeOK, Charged
    <2>3. started[PeriodOf[a]] + (charge[a] + 1) <= RunsPerPeriod
      BY <1>1, <2>2, RunAdmissionAssumption DEF WithinQuota
    <2>. QED  BY <1>1, <2>1, <2>2, <2>3 DEF Charged
  <1>4. ASSUME NEW b \in Submitters, b # a PROVE Charged(b)'
    <2>1. Charged(b) /\ at'[b] = at[b] /\ item'[b] = item[b] /\ charge'[b] = charge[b]
      BY <1>1, <1>4 DEF IInv, AdmissionTypeOK
    <2>2. charge[b] > 0 => locked'[PeriodOf[b]] = b
      BY <1>1, <1>4, <2>1, LockTaken
    <2>3. started'[PeriodOf[b]] + charge[b] <= RunsPerPeriod
      BY <1>1, <2>1 DEF Charged
    <2>. QED  BY <1>1, <2>1, <2>2, <2>3, Frame
  <1>. QED  BY <1>2, <1>3, <1>4 DEF Kept

LEMMA ExhaustedStep ==
    ASSUME IInv, NEW a \in Submitters, QuotaExhausted(a)
    PROVE  Kept
  <1>1. CASE a \in Posts
    BY <1>1, AbortStep DEF QuotaExhausted, Kept
  <1>2. CASE a \notin Posts
    <2>1. /\ NextItem(a) /\ CounterFree(a) /\ Typed /\ AdmissionTypeOK
          /\ locked' = [locked EXCEPT ![PeriodOf[a]] = a]
          /\ UNCHANGED <<runs, started, draft, charge>>
      BY <1>2 DEF QuotaExhausted, IInv, Typed
    <2>2. Counted' /\ KeysOwned'
      BY <2>1, RowsKept DEF IInv
    <2>3. /\ at'[a] \in {"find", "commit"}
          /\ \A b \in Submitters : b # a => at'[b] = at[b] /\ item'[b] = item[b]
      BY <2>1, MovedOn
    <2>4. Charged(a)'
      BY <2>1, <2>3, SubmitterFacts DEF IInv, Charged, AdmissionTypeOK
    <2>5. ASSUME NEW b \in Submitters, b # a PROVE Charged(b)'
      <3>1. Charged(b) /\ at'[b] = at[b] /\ item'[b] = item[b]
        BY <2>3, <2>5 DEF IInv
      <3>2. charge[b] > 0 => locked'[PeriodOf[b]] = b
        BY <2>1, <2>5, <3>1, LockTaken
      <3>3. started'[PeriodOf[b]] + charge[b] <= RunsPerPeriod
        BY <2>1, <3>1 DEF Charged
      <3>. QED  BY <2>1, <3>1, <3>2, <3>3, Frame
    <2>. QED  BY <2>2, <2>4, <2>5 DEF Kept
  <1>. QED  BY <1>1, <1>2

(* The inserted row takes up a charge and a key nobody else has.           *)
LEMMA InsertStep ==
    ASSUME IInv, NEW a \in Submitters, InsertRun(a)
    PROVE  Kept
  <1> DEFINE row == NewRun(a, Key(a), Body(a))
  <1>1. /\ at[a] = "insert" /\ KeyUnclaimed(a) /\ ~Found(a) /\ NextItem(a)
        /\ Typed /\ AdmissionTypeOK /\ Charged(a) /\ KeysOwned
        /\ draft' = [draft EXCEPT ![a] = draft[a] \cup {row}]
        /\ UNCHANGED <<runs, started, locked, charge>>
    BY DEF InsertRun, IInv, Typed
  <1>2. row.key = Key(a) /\ row.period = PeriodOf[a]
    BY <1>1, NewRunType
  <1> HIDE DEF row
  <1>3. /\ at'[a] \in {"find", "commit"}
        /\ \A b \in Submitters : b # a => at'[b] = at[b] /\ item'[b] = item[b]
    BY <1>1, MovedOn
  <1>4. /\ draft'[a] = draft[a] \cup {row}
        /\ \A b \in Submitters : b # a => draft'[b] = draft[b]
    BY <1>1 DEF AdmissionTypeOK
  <1>5. Counted'
    BY <1>1 DEF IInv, Counted, RunsOf
  <1>6. KeysOwned'
    <2>1. \A q \in runs \cup draft[a] : q.key # row.key
      BY <1>1, <1>2 DEF Found
    <2>2. \A b \in Submitters : b # a => \A q \in draft[b] : q.key # row.key
      BY <1>1, <1>2 DEF KeyUnclaimed
    <2>. QED  BY <1>1, <1>4, <2>1, <2>2 DEF KeysOwned, OneRunPerKey
  <1>7. Charged(a)'
    <2>1. Cardinality(draft[a]) < charge[a] /\ IsFiniteSet(draft[a])
      BY <1>1 DEF Charged
    <2>2. IsFiniteSet(draft'[a]) /\ Cardinality(draft'[a]) <= Cardinality(draft[a]) + 1
      <3>1. Cardinality(draft[a]) \in Nat
        BY <2>1, FS_CardinalityType
      <3>2. /\ IsFiniteSet(draft[a] \cup {row})
            /\ Cardinality(draft[a] \cup {row})
                 = IF row \in draft[a] THEN Cardinality(draft[a])
                                       ELSE Cardinality(draft[a]) + 1
        BY <2>1, FS_AddElement
      <3>. QED  BY <1>4, <3>1, <3>2
    <2>3. /\ charge[a] \in Nat /\ Cardinality(draft[a]) \in Nat
          /\ Cardinality(draft'[a]) \in Nat
      BY <1>1, <2>1, <2>2, FS_CardinalityType DEF AdmissionTypeOK
    <2>4. Cardinality(draft'[a]) <= charge[a]
      BY <2>1, <2>2, <2>3
    <2>5. \A r \in draft'[a] : r.period = PeriodOf[a]
      BY <1>1, <1>2, <1>4 DEF Charged
    <2>. QED  BY <1>1, <1>3, <2>2, <2>4, <2>5 DEF Charged
  <1>8. ASSUME NEW b \in Submitters, b # a PROVE Charged(b)'
    <2>1. Charged(b)
      BY DEF IInv
    <2>. QED  BY <1>1, <1>3, <1>4, <1>8, <2>1, Frame DEF Charged
  <1>. QED  BY <1>5, <1>6, <1>7, <1>8 DEF Kept

(* What a commit adds to a period is at most what it adds to its counter.  *)
LEMMA CommitCounts ==
    ASSUME Typed, NEW a \in Submitters, NEW p \in Periods,
           IsFiniteSet(runs), Charged(a), Commit(a)
    PROVE  /\ IsFiniteSet(runs')
           /\ p # PeriodOf[a] => Cardinality(RunsOf(p)') <= Cardinality(RunsOf(p))
           /\ Cardinality(RunsOf(p)') <= Cardinality(RunsOf(p)) + Cardinality(draft[a])
  <1>1. /\ runs' = {Reused(a, r) : r \in runs} \cup draft[a]
        /\ runs \subseteq RunRows /\ IsFiniteSet(draft[a])
        /\ \A r \in draft[a] : r.period = PeriodOf[a]
    BY CommitRuns DEF Typed, AdmissionTypeOK, Charged
  <1>2. ASSUME NEW S, S \subseteq runs
        PROVE  /\ IsFiniteSet({Reused(a, r) : r \in S})
               /\ Cardinality({Reused(a, r) : r \in S}) <= Cardinality(S)
    <2> DEFINE f == [r \in S |-> Reused(a, r)]
               T == {Reused(a, r) : r \in S}
    <2>1. IsFiniteSet(S)
      BY <1>2, FS_Subset
    <2>2. f \in Surjection(S, T)
      BY DEF Surjection
    <2> HIDE DEF f, T
    <2>3. IsFiniteSet(T) /\ Cardinality(T) <= Cardinality(S)
      BY <2>1, <2>2, FS_Surjection
    <2>. QED  BY <2>3 DEF T
  <1> DEFINE Kin == {Reused(a, r) : r \in RunsOf(p)}
  <1>3. IsFiniteSet(runs')
    BY <1>1, <1>2, FS_Union
  <1>4. RunsOf(p) \subseteq runs /\ IsFiniteSet(RunsOf(p))
    BY FS_Subset DEF RunsOf
  <1>5. IsFiniteSet(Kin) /\ Cardinality(Kin) <= Cardinality(RunsOf(p))
    BY <1>2, <1>4
  <1>6. /\ RunsOf(p)' \subseteq Kin \cup draft[a]
        /\ p # PeriodOf[a] => RunsOf(p)' \subseteq Kin
    BY <1>1, ReusedType DEF RunsOf
  <1> HIDE DEF Kin
  <1>7. /\ IsFiniteSet(Kin \cup draft[a])
        /\ Cardinality(Kin \cup draft[a]) <= Cardinality(Kin) + Cardinality(draft[a])
    <2>1. IsFiniteSet(Kin \cap draft[a])
      BY <1>1, FS_Subset
    <2>2. Cardinality(Kin \cup draft[a])
            = Cardinality(Kin) + Cardinality(draft[a]) - Cardinality(Kin \cap draft[a])
      BY <1>1, <1>5, FS_Union
    <2>. QED  BY <1>1, <1>5, <2>1, <2>2, FS_Union, FS_CardinalityType
  <1>8. Cardinality(RunsOf(p)') <= Cardinality(Kin \cup draft[a])
    BY <1>6, <1>7, FS_Subset
  <1>9. p # PeriodOf[a] => Cardinality(RunsOf(p)') <= Cardinality(Kin)
    BY <1>5, <1>6, FS_Subset
  <1>10. IsFiniteSet(RunsOf(p)')
    BY <1>6, <1>7, FS_Subset
  <1>. QED
    BY <1>1, <1>3, <1>4, <1>5, <1>7, <1>8, <1>9, <1>10, FS_CardinalityType

LEMMA CommitStep ==
    ASSUME IInv, NEW a \in Submitters, Commit(a)
    PROVE  Kept
  <1>1. /\ at[a] = "commit" /\ EndTransaction(a) /\ item' = item
        /\ Typed /\ AdmissionTypeOK /\ Charged(a) /\ Counted /\ KeysOwned
        /\ started' = [started EXCEPT ![PeriodOf[a]] = started[PeriodOf[a]] + charge[a]]
        /\ runs' = {Reused(a, r) : r \in runs} \cup draft[a]
    BY CommitRuns DEF Commit, IInv, Typed
  <1>2. /\ at'[a] \in {"enqueue", "done"}
        /\ \A b \in Submitters : b # a => at'[b] = at[b]
    BY <1>1 DEF Commit, Proceed, AdmissionTypeOK
  <1>3. /\ draft'[a] = {} /\ charge'[a] = 0
        /\ \A b \in Submitters : b # a => /\ draft'[b] = draft[b]
                                         /\ charge'[b] = charge[b]
    BY <1>1, ReleaseType
  <1>4. /\ \A r \in runs : Reused(a, r).key = r.key
        /\ \A r \in runs' : \/ r \in draft[a]
                           \/ \E q \in runs : r = Reused(a, q) /\ r.key = q.key
    BY <1>1, ReusedType DEF AdmissionTypeOK
  <1>5. Counted'
    <2>1. IsFiniteSet(runs')
      <3>1. PeriodOf[a] \in Periods
        BY SubmitterFacts
      <3>. QED  BY <1>1, <3>1, CommitCounts DEF Counted
    <2>2. ASSUME NEW p \in Periods
          PROVE  Cardinality(RunsOf(p)') <= started'[p] /\ started'[p] <= RunsPerPeriod
      <3>1. /\ p # PeriodOf[a] => Cardinality(RunsOf(p)') <= Cardinality(RunsOf(p))
            /\ Cardinality(RunsOf(p)') <= Cardinality(RunsOf(p)) + Cardinality(draft[a])
        BY <1>1, CommitCounts DEF Counted
      <3>2. /\ Cardinality(RunsOf(p)) \in Nat /\ Cardinality(RunsOf(p)') \in Nat
            /\ Cardinality(draft[a]) \in Nat
            /\ started[p] \in Nat /\ charge[a] \in Nat
        <4>1. IsFiniteSet(RunsOf(p)) /\ IsFiniteSet(RunsOf(p)')
          BY <1>1, <2>1, FS_Subset DEF RunsOf, Counted
        <4>. QED  BY <1>1, <4>1, FS_CardinalityType DEF AdmissionTypeOK, Charged
      <3>3. /\ Cardinality(RunsOf(p)) <= started[p] /\ started[p] <= RunsPerPeriod
            /\ Cardinality(draft[a]) <= charge[a]
            /\ started[PeriodOf[a]] + charge[a] <= RunsPerPeriod
        BY <1>1 DEF Counted, Charged
      <3>4. started'[p] = IF p = PeriodOf[a] THEN started[p] + charge[a] ELSE started[p]
        BY <1>1 DEF AdmissionTypeOK
      <3>. QED  BY <3>1, <3>2, <3>3, <3>4
    <2>. QED  BY <2>1, <2>2 DEF Counted
  <1>6. KeysOwned'
    <2>1. OneRunPerKey'
      BY <1>1, <1>4 DEF KeysOwned, OneRunPerKey
    <2>2. ASSUME NEW b \in Submitters, NEW r \in draft'[b]
          PROVE  /\ \A q \in runs' : q.key # r.key
                 /\ \A c \in Submitters : \A q \in draft'[c] :
                      q.key = r.key => b = c /\ q = r
      <3>1. b # a /\ r \in draft[b]
        BY <1>3, <2>2
      <3>2. \A q \in runs' : q.key # r.key
        BY <1>1, <1>4, <3>1 DEF KeysOwned
      <3>3. \A c \in Submitters : draft'[c] \subseteq draft[c]
        BY <1>3
      <3>. QED  BY <1>1, <3>1, <3>2, <3>3 DEF KeysOwned
    <2>. QED  BY <2>1, <2>2 DEF KeysOwned
  <1>7. \A b \in Submitters : started'[PeriodOf[b]] \in Nat
                           /\ started'[PeriodOf[b]] <= RunsPerPeriod
    BY <1>1, <1>5, SubmitterFacts DEF Counted, AdmissionTypeOK
  <1>8. Charged(a)'
    <2>1. IsFiniteSet(draft'[a]) /\ Cardinality(draft'[a]) = 0
      BY <1>3, FS_EmptySet
    <2>. QED  BY <1>2, <1>3, <1>7, <2>1 DEF Charged
  <1>9. ASSUME NEW b \in Submitters, b # a PROVE Charged(b)'
    <2>1. Charged(b)
      BY DEF IInv
    <2>2. \A r \in runs : \E q \in runs' : q.key = r.key
      BY <1>1, <1>4
    <2>3. charge[b] > 0 => locked'[PeriodOf[b]] = b
      BY <1>1, <1>9, <2>1, SubmitterFacts DEF Charged, EndTransaction
    <2>4. started'[PeriodOf[b]] + charge[b] <= RunsPerPeriod
      <3>1. charge[a] \in Nat /\ charge[b] \in Nat /\ started[PeriodOf[b]] \in Nat
        BY <1>1, SubmitterFacts DEF AdmissionTypeOK
      <3>2. CASE charge[b] = 0
        BY <1>7, <3>2
      <3>3. CASE charge[a] = 0 \/ PeriodOf[a] # PeriodOf[b]
        BY <1>1, <2>1, <3>1, <3>3, SubmitterFacts DEF Charged, AdmissionTypeOK
      <3>4. CASE charge[b] > 0 /\ charge[a] > 0 /\ PeriodOf[a] = PeriodOf[b]
        BY <1>1, <1>9, <2>1, <3>4 DEF Charged
      <3>. QED  BY <3>1, <3>2, <3>3, <3>4
    <2>. QED  BY <1>1, <1>2, <1>3, <1>9, <2>1, <2>2, <2>3, <2>4, Frame
  <1>. QED  BY <1>5, <1>6, <1>8, <1>9 DEF Kept

LEMMA InvariantStep == IInv /\ [AdmissionNext]_admissionVars => IInv'
<1> SUFFICES ASSUME IInv, [AdmissionNext]_admissionVars PROVE IInv'
  OBVIOUS
<1>1. Typed'
  BY TypeStep DEF IInv
<1>2. Kept
  <2>1. ASSUME NEW a \in Submitters, Open(a) PROVE Kept
    <3>1. /\ UNCHANGED <<runs, started, locked, draft, charge, item>> /\ Typed
          /\ at' = [at EXCEPT ![a] = "find"]
      BY <2>1 DEF Open, Proceed, txVars, IInv
    <3>. QED  BY <3>1, QuietStep DEF Kept, Typed, AdmissionTypeOK
  <2>2. ASSUME NEW a \in Submitters, Step(a) PROVE Kept
    <3>1. CASE UniqueViolation(a)
      BY <3>1, AbortStep DEF UniqueViolation, Kept
    <3>. QED  BY <2>2, <3>1, FindStep, ConsumeStep, ExhaustedStep, CreateStep,
                 InsertStep, CommitStep DEF Step
  <2>3. ASSUME NEW a \in Submitters, Crash(a) PROVE Kept
    BY <2>3, AbortStep DEF Crash, Kept
  <2>4. ASSUME NEW s \in Sweeps, SkipSchedule(s) PROVE Kept
    <3>1. /\ UNCHANGED <<runs, started, locked, draft, charge>> /\ NextItem(s)
          /\ Typed /\ s \in Submitters
      BY <2>4 DEF SkipSchedule, IInv, Submitters
    <3>. QED  BY <3>1, MovedOn, QuietStep DEF Kept
  <2>5. ASSUME NEW s \in Sweeps, Enqueue(s) PROVE Kept
    <3>1. /\ UNCHANGED <<runs, started, locked, draft, charge, item>> /\ Typed
          /\ at[s] = "enqueue" /\ s \in Submitters
          /\ at' = at \/ at' = [at EXCEPT ![s] = "done"]
      BY <2>5 DEF Enqueue, Proceed, IInv, Submitters
    <3>2. /\ at'[s] \notin {"create", "insert"}
          /\ \A b \in Submitters : b # s => at'[b] = at[b]
      BY <3>1 DEF Typed, AdmissionTypeOK
    <3>. QED  BY <3>1, <3>2, QuietStep DEF Kept
  <2>6. CASE UNCHANGED admissionVars
    BY <2>6 DEF admissionVars, txVars, Kept, IInv, Counted, KeysOwned,
       OneRunPerKey,
                RunsOf, Charged, Found, Key
  <2>. QED  BY <2>1, <2>2, <2>3, <2>4, <2>5, <2>6 DEF AdmissionNext, AllAnswered
<1>. QED  BY <1>1, <1>2 DEF IInv, Kept

(* The invariant the two properties rest on: every uncommitted row was     *)
(* charged under the lock of its period's counter and owns its key.        *)
THEOREM AdmissionInvariant == AdmissionSpec => []IInv
<1>1. AdmissionInit => IInv
  BY TypeInit, FreshInit DEF IInv
<1>. QED  BY <1>1, InvariantStep, PTL DEF AdmissionSpec

(* However many requests and sweeps run at once, the runs of a period      *)
(* never outnumber its counter, nor the counter the quota                  *)
(* (consume_run_quota).                                                    *)
THEOREM QuotaHolds == AdmissionSpec => []QuotaBoundsRuns
<1>1. IInv => QuotaBoundsRuns
  BY DEF IInv, Counted, QuotaBoundsRuns
<1>. QED  BY AdmissionInvariant, <1>1, PTL

(* No two runs are ever committed with one idempotency or trigger key.     *)
THEOREM KeysUnique == AdmissionSpec => []OneRunPerKey
<1>1. IInv => OneRunPerKey
  BY DEF IInv, KeysOwned
<1>. QED  BY AdmissionInvariant, <1>1, PTL

-----------------------------------------------------------------------------
(* No wait is circular.                                                    *)

(* An uncommitted row is of the request's key, or of a schedule that its   *)
(* sweep has turned its back on.                                           *)
Placed(a, r) ==
    /\ a \in Posts => at[a] = "commit" /\ r.key = KeyOf[a]
    /\ a \in Sweeps => \E i \in 1 .. NumSchedules :
                         /\ r.key = <<i, MomentOf[a]>>
                         /\ i < item[a] \/ at[a] = "commit"

(* Locks and rows belong to transactions under way, a lock to one of its   *)
(* counter's period.                                                       *)
WaitInv ==
    /\ \A p \in Periods : locked[p] # NoOne =>
         /\ locked[p] \in Submitters /\ PeriodOf[locked[p]] = p
         /\ InTransaction(locked[p])
    /\ \A a \in Submitters : \A r \in draft[a] :
         InTransaction(a) /\ Placed(a, r)

LEMMA InitWait == AdmissionInit => WaitInv
  BY DEF AdmissionInit, WaitInv

(* A step of a leaves the waits in order if what a has is.                 *)
LEMMA WaitFrame ==
    ASSUME AdmissionTypeOK, WaitInv, NEW a \in Submitters,
           \A b \in Submitters : b # a =>
             at'[b] = at[b] /\ item'[b] = item[b] /\ draft'[b] = draft[b],
           \A p \in Periods : \/ locked'[p] = NoOne
                              \/ locked'[p] = locked[p] /\ (locked[p] = a => InTransaction(a)')
                              \/ locked'[p] = a /\ PeriodOf[a] = p /\ InTransaction(a)',
           \A r \in draft'[a] : InTransaction(a)' /\ Placed(a, r)'
    PROVE  WaitInv'
<1>1. ASSUME NEW p \in Periods, locked'[p] # NoOne
      PROVE  /\ locked'[p] \in Submitters /\ PeriodOf[locked'[p]] = p
             /\ at'[locked'[p]] \in {"find", "charge", "create", "insert", "commit"}
  BY <1>1 DEF WaitInv, InTransaction
<1>2. ASSUME NEW b \in Submitters, NEW r \in draft'[b]
      PROVE  InTransaction(b)' /\ Placed(b, r)'
  <2>1. CASE b = a
    BY <1>2, <2>1
  <2>2. CASE b # a
    BY <1>2, <2>2 DEF WaitInv, InTransaction, Placed
  <2>. QED  BY <2>1, <2>2
<1>. QED  BY <1>1, <1>2 DEF WaitInv, InTransaction

(* A step that neither takes a lock nor writes a row.                      *)
LEMMA WaitMoves ==
    ASSUME AdmissionTypeOK, WaitInv, NEW a \in Submitters,
           UNCHANGED <<locked, draft, item>>,
           \A b \in Submitters : b # a => at'[b] = at[b],
           at[a] # "commit",
           InTransaction(a) => InTransaction(a)'
    PROVE  WaitInv'
<1>1. \A r \in draft[a] : InTransaction(a)' /\ Placed(a, r)'
  BY DEF WaitInv, Placed
<1>. QED  BY <1>1, WaitFrame DEF WaitInv

(* A submitter that goes to its next schedule puts what it wrote behind    *)
(* it.                                                                     *)
LEMMA WaitMovesOn ==
    ASSUME Typed, WaitInv, NEW a \in Submitters, NextItem(a), charge' = charge,
           at[a] # "commit",
           \A b \in Submitters : b # a => draft'[b] = draft[b],
           \A r \in draft'[a] : r \in draft[a] \/ r.key = Key(a),
           \A p \in Periods : locked'[p] = locked[p] \/ (locked'[p] = a /\ PeriodOf[a] = p),
           InTransaction(a)
    PROVE  WaitInv'
<1>1. /\ at'[a] \in {"find", "commit"} /\ AdmissionTypeOK
      /\ \A b \in Submitters : b # a => at'[b] = at[b] /\ item'[b] = item[b]
  BY MovedOn DEF Typed
<1>2. \/ /\ a \in Sweeps /\ item'[a] = item[a] + 1 /\ item[a] \in Nat
         /\ at'[a] = "find"
      \/ /\ item'[a] = item[a] /\ at'[a] = "commit"
  BY <1>1, RunAdmissionAssumption DEF NextItem, Proceed, AdmissionTypeOK
<1>3. a \in Sweeps => a \notin Posts
  BY RunAdmissionAssumption
<1>4. item[a] \in 1 .. NumSchedules /\ NumSchedules \in Nat
  BY <1>1, RunAdmissionAssumption DEF AdmissionTypeOK
<1>5. ASSUME NEW r \in draft'[a] PROVE Placed(a, r)'
  <2>1. CASE r \in draft[a]
    <3>1. Placed(a, r)
      BY <2>1 DEF WaitInv
    <3>. QED  BY <1>2, <1>3, <1>4, <3>1 DEF Placed
  <2>2. CASE r.key = Key(a)
    BY <1>2, <1>3, <1>4, <2>2 DEF Key, Placed, Submitters
  <2>. QED  BY <1>5, <2>1, <2>2
<1>6. InTransaction(a)'
  BY <1>1 DEF InTransaction
<1>. QED  BY <1>1, <1>5, <1>6, WaitFrame

(* The end of a transaction.                                               *)
LEMMA WaitEnds ==
    ASSUME Typed, WaitInv, NEW a \in Submitters, EndTransaction(a), item' = item,
           \A b \in Submitters : b # a => at'[b] = at[b]
    PROVE  WaitInv'
<1>1. /\ draft'[a] = {} /\ \A b \in Submitters : b # a => draft'[b] = draft[b]
      /\ AdmissionTypeOK
  BY ReleaseType DEF Typed
<1>2. \A p \in Periods : locked'[p] = NoOne \/ (locked'[p] = locked[p] /\ locked[p] # a)
  BY DEF EndTransaction
<1>. QED  BY <1>1, <1>2, WaitFrame

LEMMA WaitSteps == ASSUME Typed, WaitInv, NEW a \in Submitters, Step(a) PROVE WaitInv'
<1>0. AdmissionTypeOK
  BY DEF Typed
<1>1. CASE FindRun(a)
  <2>1. /\ at[a] = "find" /\ UNCHANGED <<locked, draft, charge>>
        /\ \/ /\ at' = [at EXCEPT ![a] = "charge"] /\ item' = item
           \/ /\ at' = [at EXCEPT ![a] = "create"] /\ item' = item
           \/ NextItem(a)
    BY <1>1 DEF FindRun, Proceed
  <2>2. CASE NextItem(a)
    BY <2>1, <2>2, WaitMovesOn DEF InTransaction
  <2>3. CASE \/ at' = [at EXCEPT ![a] = "charge"] /\ item' = item
             \/ at' = [at EXCEPT ![a] = "create"] /\ item' = item
    BY <1>0, <2>1, <2>3, WaitMoves DEF InTransaction, AdmissionTypeOK
  <2>. QED  BY <2>1, <2>2, <2>3
<1>2. CASE ConsumeQuota(a)
  <2>1. /\ at[a] = "charge" /\ UNCHANGED <<draft, item>>
        /\ locked' = [locked EXCEPT ![PeriodOf[a]] = a]
        /\ at' = [at EXCEPT ![a] = "create"]
    BY <1>2 DEF ConsumeQuota, Proceed
  <2>2. /\ at'[a] = "create" /\ \A b \in Submitters : b # a => at'[b] = at[b]
        /\ \A p \in Periods : locked'[p] = locked[p] \/ (locked'[p] = a /\ PeriodOf[a] = p)
    BY <1>0, <2>1 DEF AdmissionTypeOK
  <2>3. \A r \in draft'[a] : InTransaction(a)' /\ Placed(a, r)'
    BY <2>1, <2>2 DEF WaitInv, Placed, InTransaction
  <2>4. InTransaction(a)'
    BY <2>2 DEF InTransaction
  <2>. QED  BY <1>0, <2>1, <2>2, <2>3, <2>4, WaitFrame
<1>3. CASE QuotaExhausted(a)
  <2>1. CASE a \in Posts
    <3>1. EndTransaction(a) /\ item' = item /\ at' = [at EXCEPT ![a] = "refused"]
      BY <1>3, <2>1 DEF QuotaExhausted, RollBack, Proceed
    <3>. QED  BY <1>0, <3>1, WaitEnds DEF AdmissionTypeOK
  <2>2. CASE a \notin Posts
    <3>1. /\ at[a] = "charge" /\ NextItem(a) /\ UNCHANGED <<draft, charge>>
          /\ locked' = [locked EXCEPT ![PeriodOf[a]] = a]
      BY <1>3, <2>2 DEF QuotaExhausted
    <3>2. \A p \in Periods : locked'[p] = locked[p] \/ (locked'[p] = a /\ PeriodOf[a] = p)
      BY <1>0, <3>1 DEF AdmissionTypeOK
    <3>. QED  BY <3>1, <3>2, WaitMovesOn DEF InTransaction
  <2>. QED  BY <2>1, <2>2
<1>4. CASE CreateRun(a)
  <2>1. /\ at[a] = "create" /\ UNCHANGED <<locked, draft, charge>>
        /\ \/ NextItem(a)
           \/ at' = [at EXCEPT ![a] = "insert"] /\ item' = item
    BY <1>4 DEF CreateRun, Proceed
  <2>2. CASE NextItem(a)
    BY <2>1, <2>2, WaitMovesOn DEF InTransaction
  <2>3. CASE at' = [at EXCEPT ![a] = "insert"] /\ item' = item
    BY <1>0, <2>1, <2>3, WaitMoves DEF InTransaction, AdmissionTypeOK
  <2>. QED  BY <2>1, <2>2, <2>3
<1>5. CASE InsertRun(a)
  <2>1. /\ at[a] = "insert" /\ NextItem(a) /\ UNCHANGED <<locked, charge>>
        /\ draft' = [draft EXCEPT ![a] = draft[a] \cup {NewRun(a, Key(a), Body(a))}]
    BY <1>5 DEF InsertRun
  <2>2. /\ \A b \in Submitters : b # a => draft'[b] = draft[b]
        /\ \A r \in draft'[a] : r \in draft[a] \/ r.key = Key(a)
    BY <1>0, <2>1 DEF AdmissionTypeOK, NewRun
  <2>. QED  BY <2>1, <2>2, WaitMovesOn DEF InTransaction
<1>6. CASE UniqueViolation(a)
  <2>1. EndTransaction(a) /\ item' = item /\ at' = [at EXCEPT ![a] = "failed"]
    BY <1>6 DEF UniqueViolation, RollBack, Proceed
  <2>. QED  BY <1>0, <2>1, WaitEnds DEF AdmissionTypeOK
<1>7. CASE Commit(a)
  <2>1. /\ EndTransaction(a) /\ item' = item
        /\ at' = [at EXCEPT ![a] = IF a \in Sweeps THEN "enqueue" ELSE "done"]
    BY <1>7 DEF Commit, Proceed
  <2>. QED  BY <1>0, <2>1, WaitEnds DEF AdmissionTypeOK
<1>. QED  BY <1>1, <1>2, <1>3, <1>4, <1>5, <1>6, <1>7 DEF Step

LEMMA NextWait == Typed /\ WaitInv /\ [AdmissionNext]_admissionVars => WaitInv'
<1> SUFFICES ASSUME Typed, WaitInv, [AdmissionNext]_admissionVars PROVE WaitInv'
  OBVIOUS
<1>0. AdmissionTypeOK
  BY DEF Typed
<1>1. ASSUME NEW a \in Submitters, Open(a) PROVE WaitInv'
  <2>1. /\ at[a] = "idle" /\ at' = [at EXCEPT ![a] = "find"]
        /\ UNCHANGED <<locked, draft, item>>
    BY <1>1 DEF Open, Proceed, txVars
  <2>. QED  BY <1>0, <2>1, WaitMoves DEF InTransaction, AdmissionTypeOK
<1>2. ASSUME NEW a \in Submitters, Crash(a) PROVE WaitInv'
  <2>1. EndTransaction(a) /\ item' = item /\ at' = [at EXCEPT ![a] = "failed"]
    BY <1>2 DEF Crash, RollBack, Proceed
  <2>. QED  BY <1>0, <2>1, WaitEnds DEF AdmissionTypeOK
<1>3. ASSUME NEW s \in Sweeps, SkipSchedule(s) PROVE WaitInv'
  <2>1. /\ at[s] = "charge" /\ NextItem(s) /\ UNCHANGED <<locked, draft,
                                                          charge>>
        /\ s \in Submitters
    BY <1>3 DEF SkipSchedule, Submitters
  <2>. QED  BY <2>1, WaitMovesOn DEF InTransaction
<1>4. ASSUME NEW s \in Sweeps, Enqueue(s) PROVE WaitInv'
  <2>1. /\ at[s] = "enqueue" /\ UNCHANGED <<locked, draft, item>> /\ s \in Submitters
        /\ at' = at \/ at' = [at EXCEPT ![s] = "done"]
    BY <1>4 DEF Enqueue, Proceed, Submitters
  <2>. QED  BY <1>0, <2>1, WaitMoves DEF InTransaction, AdmissionTypeOK
<1>5. CASE UNCHANGED admissionVars
  BY <1>5 DEF admissionVars, txVars, WaitInv, InTransaction, Placed
<1>. QED  BY <1>1, <1>2, <1>3, <1>4, <1>5, WaitSteps DEF AdmissionNext,
             AllAnswered

(* Of the sweeps that wait for a key, one is furthest down the schedules.  *)
LEMMA FurthestDown ==
    ASSUME AdmissionTypeOK, NEW W \in SUBSET Submitters, W # {}
    PROVE  \E a \in W : \A b \in W : item[b] <= item[a]
<1> DEFINE Beyond(a) == {i \in 1 .. NumSchedules : i > item[a]}
           F == {Beyond(a) : a \in W}
           All == 1 .. NumSchedules
           R == StrictSubsetOrdering(All)
<1>1. IsWellFoundedOn(R, FiniteSubsetsOf(All))
  BY FS_StrictSubsetOrderingWellFounded
<1>2. F \subseteq FiniteSubsetsOf(All) /\ F # {}
  <2>1. \A a \in W : IsFiniteSet(Beyond(a)) /\ Beyond(a) \subseteq All
    <3>1. IsFiniteSet(All)
      BY RunAdmissionAssumption, FS_Interval
    <3>. QED  BY <3>1, FS_Subset
  <2>. QED  BY <2>1 DEF FiniteSubsetsOf
<1>3. PICK T \in F : \A U \in F : ~ (<<U, T>> \in R)
  <2> HIDE DEF R, All, F
  <2>. QED  BY <1>1, <1>2, WFMin
<1>4. PICK a \in W : T = Beyond(a)
  BY <1>3
<1>5. ASSUME NEW b \in W, item[b] > item[a] PROVE FALSE
  <2>1. item[b] \in 1 .. NumSchedules /\ item[a] \in 1 .. NumSchedules
    BY DEF AdmissionTypeOK
  <2>2. \A i \in 1 .. NumSchedules : i > item[b] => i > item[a]
    BY <1>5, <2>1, RunAdmissionAssumption
  <2>3. Beyond(b) \subseteq Beyond(a)
    BY <2>2
  <2>4. item[b] \in Beyond(a) /\ item[b] \notin Beyond(b)
    BY <1>5, <2>1, RunAdmissionAssumption
  <2>5. Beyond(a) \in SUBSET All /\ Beyond(b) \in SUBSET All /\ Beyond(b) \in F
    OBVIOUS
  <2>6. Beyond(b) # Beyond(a)
    BY <2>4
  <2> HIDE DEF Beyond, F, All
  <2>7. <<Beyond(b), Beyond(a)>> \in R
    BY <2>3, <2>5, <2>6 DEF StrictSubsetOrdering
  <2>. QED  BY <1>3, <1>4, <2>5, <2>7
<1>6. \A b \in W : item[b] \in Int
  BY RunAdmissionAssumption DEF AdmissionTypeOK
<1>. QED  BY <1>4, <1>5, <1>6

(* The submissions under way never all wait: whoever waits for a counter   *)
(* waits for one that has it, who can wait for a key only; and whoever     *)
(* waits for a key waits for a sweep that is further down the schedules,   *)
(* since all sweeps go through them in the same order (due_schedules).     *)
THEOREM AdmissionNeverDeadlocks == AdmissionSpec => []NoCircularWait
<1>1. AdmissionInit => WaitInv
  BY InitWait
<1>2. IInv /\ WaitInv /\ [AdmissionNext]_admissionVars => WaitInv'
  BY NextWait DEF IInv
<1>3. IInv /\ WaitInv => NoCircularWait
  <2> SUFFICES ASSUME IInv, WaitInv,
                      NEW a \in Submitters, InTransaction(a),
                      \A b \in Submitters : InTransaction(b) => Waits(b)
               PROVE  FALSE
    BY DEF NoCircularWait
  <2> DEFINE W == {b \in Submitters : at[b] = "insert" /\ ~ KeyUnclaimed(b)}
  <2>0. AdmissionTypeOK
    BY DEF IInv, Typed
  (* Whoever holds its counter, if it waits, waits for a key.              *)
  <2>1. \A b \in Submitters : InTransaction(b) /\ locked[PeriodOf[b]] = b => b \in W
    BY DEF Waits, CounterFree
  <2>2. W # {}
    <3>1. CASE at[a] = "charge" /\ ~ CounterFree(a)
      <4>1. /\ locked[PeriodOf[a]] \in Submitters /\ InTransaction(locked[PeriodOf[a]])
            /\ PeriodOf[locked[PeriodOf[a]]] = PeriodOf[a]
        BY <3>1, SubmitterFacts DEF CounterFree, WaitInv
      <4>. QED  BY <2>1, <4>1
    <3>2. CASE at[a] = "insert" /\ ~ KeyUnclaimed(a)
      BY <3>2
    <3>. QED  BY <3>1, <3>2 DEF Waits
  <2>3. PICK b \in W : \A c \in W : item[c] <= item[b]
    <3>1. W \in SUBSET Submitters
      OBVIOUS
    <3> HIDE DEF W
    <3>. QED  BY <2>0, <2>2, <3>1, FurthestDown
  <2>4. PICK c \in Submitters \ {b} : \E r \in draft[c] : r.key = Key(b)
    BY <2>3 DEF KeyUnclaimed
  <2>5. PICK r \in draft[c] : r.key = Key(b)
    BY <2>4
  <2>6. InTransaction(c) /\ Placed(c, r)
    BY <2>5 DEF WaitInv
  <2>7. locked[PeriodOf[c]] = c
    <3>1. Cardinality(draft[c]) > 0
      <4>1. IsFiniteSet(draft[c])
        BY DEF IInv, Charged
      <4>. QED  BY <2>5, <4>1, FS_EmptySet, FS_CardinalityType
    <3>2. charge[c] > 0
      BY <2>0, <3>1, FS_CardinalityType DEF IInv, Charged, AdmissionTypeOK
    <3>. QED  BY <3>2 DEF IInv, Charged
  <2>8. c \in W /\ at[c] = "insert"
    BY <2>1, <2>6, <2>7
  <2>9. c \in Sweeps
    BY <2>6, <2>8 DEF Placed, Submitters
  <2>10. PICK i \in 1 .. NumSchedules : r.key = <<i, MomentOf[c]>> /\ i < item[c]
    BY <2>6, <2>8, <2>9 DEF Placed
  <2>11. b \in Sweeps
    <3>1. r.key \in TriggerKeys
      BY <2>9, <2>10 DEF TriggerKeys
    <3>. QED  BY <2>3, <2>5, <3>1, RunAdmissionAssumption DEF Key, Submitters
  <2>12. Key(b) = <<item[b], MomentOf[b]>>
    BY <2>11, RunAdmissionAssumption DEF Key
  <2>13. i = item[b]
    <3>1. <<i, MomentOf[c]>> = <<item[b], MomentOf[b]>>
      BY <2>5, <2>10, <2>12
    <3>. QED  BY ONLY <3>1
  <2>. QED  BY <2>0, <2>3, <2>8, <2>10, <2>13, RunAdmissionAssumption
               DEF AdmissionTypeOK
<1>. QED  BY <1>1, <1>2, <1>3, AdmissionInvariant, PTL DEF AdmissionSpec
=============================================================================
