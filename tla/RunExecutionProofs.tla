------------------------- MODULE RunExecutionProofs -------------------------
(***************************************************************************)
(* Proofs about RunExecution, for every set of workers, candidates and     *)
(* cancellation requests, every number of examples, budget and price.      *)
(***************************************************************************)
EXTENDS RunExecution, FiniteSetTheorems, TLAPS

(***************************************************************************)
(* The inductive invariant.  Covers(v, done): the rows of v are those of   *)
(* the examples up to its checkpoint, whole, and of the candidates in done *)
(* for the next one.  What is committed covers no part of an example; what *)
(* an open transaction sees extends what is committed.                     *)
(***************************************************************************)
Resolved(v, u) ==
    /\ v.sample[u] \in Outcomes
    /\ v.entries[u] \in {0, 1}
    /\ v.sample[u] = "failed" => v.entries[u] = 0

Untouched(v, u) == v.sample[u] = "none" /\ v.entries[u] = 0

Done(v, done, u) ==
    \/ u[1] <= v.checkpoint
    \/ u[1] = v.checkpoint + 1 /\ u[2] \in done

Covers(v, done) ==
    \A u \in Units :
        /\ Done(v, done, u) => Resolved(v, u)
        /\ ~Done(v, done, u) => Untouched(v, u)

ExtendsRecord(v, base) ==
    /\ base.checkpoint <= v.checkpoint
    /\ \A u \in Units : u[1] <= base.checkpoint =>
         /\ v.sample[u] = base.sample[u]
         /\ v.entries[u] = base.entries[u]

Ceiling(done) == BudgetLimit - 1 + Cardinality(done) * MaxPrice

Affordable(cost) == cost = 0 \/ cost <= Ceiling(Candidates)

TrueVerdict(v) ==
    /\ v.completeness \in {"complete", "partial"} =>
         \A u \in Units : v.sample[u] # "none"
    /\ v.completeness = "exhausted" => v.cost >= BudgetLimit
    /\ v.completeness = "partial" =>
         \E u \in Units : v.sample[u] \in {"abstained", "failed"}

CommittedInv ==
    /\ Covers(db, {})
    /\ Affordable(db.cost)
    /\ TrueVerdict(db)

TransactionInv(w) ==
    pc[w] \in InTransaction =>
        /\ lock = w
        /\ ExtendsRecord(view[w], db)
        /\ spent[w] = view[w].cost
        /\ failed[w] =>
             \E u \in Units : view[w].sample[u] \in {"abstained", "failed"}
        /\ pc[w] = "record" =>
             /\ Index(view[w]) < NumExamples
             /\ Covers(view[w], Candidates \ pending[w])
             /\ view[w].cost <= Ceiling(Candidates \ pending[w])
        /\ pc[w] # "record" =>
             /\ Covers(view[w], {})
             /\ Affordable(view[w].cost)
        /\ pc[w] = "commit" =>
             TrueVerdict(view[w]) /\ view[w].state = "terminal"
                                  /\ view[w].completeness # "none"

IInv == TypeOK /\ CommittedInv /\ \A w \in Workers : TransactionInv(w)

-----------------------------------------------------------------------------
(* Type correctness.                                                       *)

LEMMA NewRunType == NewRun \in Record /\ Covers(NewRun, {}) /\ NewRun.cost = 0
  BY RunExecutionAssumption
     DEF NewRun, Record, Covers, Done, Untouched, Resolved, States, Verdicts,
         Units, Examples

LEMMA FinishRunType ==
  ASSUME NEW v \in Record, NEW d \in Verdicts
  PROVE  FinishRun(v, d) \in Record
  BY DEF FinishRun, Record, States

LEMMA RecordUnitType ==
  ASSUME NEW v \in Record, NEW u \in Units, NEW o \in Outcomes
  PROVE  /\ CostOf(u[2], o) \in 0 .. MaxPrice
         /\ RecordUnit(v, u, o) \in Record
         /\ RecordUnit(v, u, o).state = v.state
         /\ RecordUnit(v, u, o).completeness = v.completeness
         /\ RecordUnit(v, u, o).checkpoint = v.checkpoint
         /\ RecordUnit(v, u, o).cost = v.cost + CostOf(u[2], o)
         /\ RecordUnit(v, u, o).sample = [v.sample EXCEPT ![u] = o]
         /\ \A x \in Units : RecordUnit(v, u, o).entries[x] =
              IF x = u /\ CostOf(u[2], o) > 0 THEN v.entries[x] + 1
                                              ELSE v.entries[x]
<1> DEFINE amount == CostOf(u[2], o)
           s == [v.sample EXCEPT ![u] = o]
           e == [v.entries EXCEPT ![u] = IF amount > 0 THEN @ + 1 ELSE @]
<1>1. amount \in 0 .. MaxPrice
  BY RunExecutionAssumption DEF CostOf, Units
<1>2. s \in [Units -> Outcomes \cup {"none"}]
  BY DEF Record
<1>3. e \in [Units -> Nat]
  BY DEF Record
<1>4. v.cost + amount \in Nat
  BY <1>1, RunExecutionAssumption DEF Record
<1> DEFINE v1 == [v EXCEPT !.sample = s]
           v2 == [v1 EXCEPT !.entries = e]
           v3 == [v2 EXCEPT !.cost = v.cost + amount]
<1>5. RecordUnit(v, u, o) = v3
  <2> HIDE DEF s, e, amount
  <2>1. [v EXCEPT !.sample = s, !.entries = e, !.cost = v.cost + amount] = v3
    BY DEF Record
  <2>2. RecordUnit(v, u, o) =
          [v EXCEPT !.sample = s, !.entries = e, !.cost = v.cost + amount]
    <3> HIDE DEF v1, v2, v3
    <3> QED BY Zenon DEF RecordUnit, s, e, amount
  <2>3. QED
    BY <2>1, <2>2
<1>6. /\ v3 \in Record
      /\ v3.state = v.state /\ v3.completeness = v.completeness
      /\ v3.checkpoint = v.checkpoint
      /\ v3.sample = s /\ v3.entries = e /\ v3.cost = v.cost + amount
  <2> HIDE DEF s, e, amount
  <2>1. v1 \in Record
    BY <1>2 DEF Record
  <2>2. v2 \in Record
    BY <2>1, <1>3 DEF Record
  <2>3. QED
    BY <2>2, <1>4 DEF Record
<1>8. \A x \in Units : e[x] = IF x = u /\ amount > 0 THEN v.entries[x] + 1
                                                     ELSE v.entries[x]
  BY DEF Record
<1>9. QED
  <2> HIDE DEF e, v3
  <2> QED BY <1>1, <1>5, <1>6, <1>8

LEMMA RecordUnitKeeps ==
  ASSUME NEW v \in Record, NEW u \in Units, NEW o \in Outcomes
  PROVE  /\ RecordUnit(v, u, o) \in Record
         /\ RecordUnit(v, u, o).checkpoint = v.checkpoint
  BY RecordUnitType

(* The types of all variables, and that a run is terminal exactly when it  *)
(* has a verdict (ck_run__completeness_matches_state).                     *)
LEMMA TypeInit == Init => TypeOK
<1> SUFFICES ASSUME Init PROVE TypeOK
  OBVIOUS
<1>1. db \in Record /\ (db.state = "terminal") = (db.completeness # "none")
  BY NewRunType DEF Init, NewRun
<1>2. view \in [Workers -> Record]
  BY NewRunType DEF Init
<1>3. /\ lock \in Workers \cup {NoOne}
      /\ pc \in [Workers -> {"idle", "adopt", "ack", "raised"}
                         \cup InTransaction]
      /\ spent \in [Workers -> Nat]
      /\ failed \in [Workers -> BOOLEAN]
      /\ pending \in [Workers -> SUBSET Candidates]
  BY DEF Init
<1>4. tries \in 0 .. MaxTries /\ crashes \in 0 .. MaxCrashes
  <2>1. MaxTries \in Nat /\ MaxCrashes \in Nat
    BY RunExecutionAssumption
  <2>2. tries = 0 /\ crashes = 0
    BY DEF Init
  <2>3. QED
    BY <2>1, <2>2
<1>5. /\ acked \in BOOLEAN
      /\ calls \in [Examples -> Nat]
      /\ request \in [Requests -> {"idle", "write", "done"}]
  BY DEF Init
<1>6. QED
  BY <1>1, <1>2, <1>3, <1>4, <1>5 DEF TypeOK

LEMMA ForgetType ==
  ASSUME TypeOK, NEW w \in Workers, Forget(w)
  PROVE  /\ lock' \in Workers \cup {NoOne}
         /\ view' \in [Workers -> Record]
         /\ spent' \in [Workers -> Nat]
         /\ failed' \in [Workers -> BOOLEAN]
         /\ pending' \in [Workers -> SUBSET Candidates]
<1>1. view' \in [Workers -> Record]
  BY NewRunType DEF Forget, TypeOK
<1>2. QED
  BY <1>1 DEF Forget, TypeOK

(* While candidates of an example are recorded, that example exists; what  *)
(* is about to be committed has its verdict.                               *)
LoopShape == \A w \in Workers :
    /\ pc[w] = "record" => Index(view[w]) \in Examples
    /\ pc[w] = "commit" => /\ view[w].state = "terminal"
                           /\ view[w].completeness # "none"

LEMMA IndexRange ==
  ASSUME TypeOK, NEW w \in Workers
  PROVE  /\ view[w] \in Record
         /\ Index(view[w]) \in 0 .. NumExamples
         /\ Index(view[w]) < NumExamples => Index(view[w]) \in Examples
         /\ Index(view[w]) = view[w].checkpoint + 1
  BY RunExecutionAssumption DEF TypeOK, Record, Index, Examples

LEMMA TypeStep == TypeOK /\ LoopShape /\ [Next]_vars
                     => TypeOK' /\ LoopShape'
<1> SUFFICES ASSUME TypeOK, LoopShape, [Next]_vars
             PROVE  TypeOK' /\ LoopShape'
  OBVIOUS
<1> USE DEF TypeOK, LoopShape
<1>1. ASSUME NEW w \in Workers, Deliver(w) PROVE TypeOK' /\ LoopShape'
  <2>1. tries' \in 0 .. MaxTries
    BY <1>1, RunExecutionAssumption DEF Deliver
  <2>2. QED
    BY <1>1, <2>1 DEF Deliver
<1>2. ASSUME NEW w \in Workers, Ack(w) PROVE TypeOK' /\ LoopShape'
  BY <1>2 DEF Ack
<1>3. ASSUME NEW w \in Workers, Begin(w) PROVE TypeOK' /\ LoopShape'
  <2>1. MarkRunning(db) \in Record
    BY DEF MarkRunning, Record, States
  <2>2. view' \in [Workers -> Record] /\ spent' \in [Workers -> Nat]
    BY <1>3, <2>1 DEF Begin, CostTotal, Record
  <2>3. QED
    BY <1>3, <2>2 DEF Begin, jobVars, InTransaction
<1>4. ASSUME NEW w \in Workers, NEW d \in Verdicts, Conclude(w, d)
      PROVE  TypeOK' /\ LoopShape'
  <2>1. view' \in [Workers -> Record]
    BY <1>4, FinishRunType DEF Conclude
  <2>2. /\ view'[w].state = "terminal"
        /\ view'[w].completeness # "none"
    BY <1>4 DEF Conclude, FinishRun, Record, Verdicts
  <2>3. QED
    BY <1>4, <2>1, <2>2 DEF Conclude, jobVars, InTransaction
<1>5. ASSUME NEW w \in Workers, InvokeAll(w) PROVE TypeOK' /\ LoopShape'
  <2>1. Index(view[w]) \in Examples
    BY <1>5, IndexRange DEF InvokeAll
  <2>2. calls' \in [Examples -> Nat]
    BY <1>5, <2>1 DEF InvokeAll
  <2>3. QED
    BY <1>5, <2>1, <2>2 DEF InvokeAll, jobVars, InTransaction
<1>6. ASSUME NEW w \in Workers, NEW c \in Candidates, NEW o \in Outcomes,
             RecordCandidate(w, c, o)
      PROVE  TypeOK' /\ LoopShape'
  <2> DEFINE u == <<Index(view[w]), c>>
  <2>1. CASE view[w].sample[u] = "none"
    <3>1. u \in Units /\ u[2] = c
      BY <1>6 DEF RecordCandidate, Units
    <3>2. /\ RecordUnit(view[w], u, o) \in Record
          /\ RecordUnit(view[w], u, o).checkpoint = view[w].checkpoint
          /\ CostOf(c, o) \in Nat
      <4>1. view[w] \in Record
        BY IndexRange
      <4>2. CostOf(c, o) \in 0 .. MaxPrice
        BY <3>1, <4>1, RecordUnitType, Zenon
      <4>3. /\ RecordUnit(view[w], u, o) \in Record
            /\ RecordUnit(view[w], u, o).checkpoint = view[w].checkpoint
        BY <3>1, <4>1, RecordUnitKeeps
      <4>4. CostOf(c, o) \in Nat
        BY <4>2, RunExecutionAssumption
      <4>5. QED
        BY <4>3, <4>4
    <3>3. view' \in [Workers -> Record] /\ spent' \in [Workers -> Nat]
      BY <1>6, <2>1, <3>2 DEF RecordCandidate
    <3>4. failed' \in [Workers -> BOOLEAN]
      BY <1>6, <2>1 DEF RecordCandidate
    <3>5. \A x \in Workers : Index(view'[x]) = Index(view[x])
      BY <1>6, <2>1, <3>2 DEF RecordCandidate, Index
    <3>6. QED
      BY <1>6, <3>3, <3>4, <3>5 DEF RecordCandidate, jobVars
  <2>2. CASE view[w].sample[u] # "none"
    BY <1>6, <2>2 DEF RecordCandidate, jobVars
  <2>3. QED
    BY <2>1, <2>2
<1>7. ASSUME NEW w \in Workers, AdvanceCheckpoint(w)
      PROVE  TypeOK' /\ LoopShape'
  <2>1. view[w].checkpoint + 1 \in -1 .. NumExamples - 1
    BY <1>7, IndexRange, RunExecutionAssumption
       DEF AdvanceCheckpoint, Examples
  <2> DEFINE v == [view[w] EXCEPT !.checkpoint = view[w].checkpoint + 1]
  <2>2. v \in Record
    BY <2>1 DEF Record
  <2>3. view' = [view EXCEPT ![w] = v]
    BY <1>7 DEF AdvanceCheckpoint
  <2> HIDE DEF v
  <2>4. QED
    BY <1>7, <2>2, <2>3 DEF AdvanceCheckpoint, jobVars, InTransaction
<1>8. ASSUME NEW w \in Workers, Commit(w)
      PROVE  TypeOK' /\ LoopShape'
  <2>1. db' \in Record /\ (db'.state = "terminal") = (db'.completeness # "none")
    BY <1>8 DEF Commit
  <2>2. /\ pc' \in [Workers -> {"idle", "adopt", "ack", "raised"}
                         \cup InTransaction]
        /\ \A x \in Workers : x # w => pc'[x] = pc[x] /\ view'[x] = view[x]
        /\ pc'[w] = "ack"
    BY <1>8 DEF Commit, Forget
  <2>3. LoopShape'
    BY <2>2
  <2>4. QED
    BY <1>8, <2>1, <2>2, <2>3, ForgetType DEF Commit, jobVars
<1>9. ASSUME NEW w \in Workers, Crash(w) \/ Raise(w)
      PROVE  TypeOK' /\ LoopShape'
  <2>1. acked' \in BOOLEAN /\ crashes' \in 0 .. MaxCrashes
    <3>1. CASE Crash(w)
      BY <3>1, RunExecutionAssumption DEF Crash
    <3>2. CASE Raise(w)
      BY <3>2 DEF Raise
    <3>3. QED
      BY <1>9, <3>1, <3>2
  <2>2. Rollback(w)
    BY <1>9 DEF Crash, Raise
  <2>3. /\ pc' \in [Workers -> {"idle", "adopt", "ack", "raised"}
                         \cup InTransaction]
        /\ \A x \in Workers : x # w => pc'[x] = pc[x]
        /\ pc'[w] \in {"idle", "raised"}
    BY <1>9 DEF Crash, Raise
  <2>4. QED
    BY <2>1, <2>2, <2>3, ForgetType DEF Rollback, Forget
<1>10. ASSUME NEW r \in Requests, Cancellation(r)
       PROVE  TypeOK' /\ LoopShape'
  <2>1. FinishRun(db, "cancelled") \in Record
    BY FinishRunType DEF Verdicts
  <2>2. /\ FinishRun(db, "cancelled").state = "terminal"
        /\ FinishRun(db, "cancelled").completeness # "none"
    BY DEF FinishRun, Record
  <2>3. CASE CancelRead(r)
    BY <2>3 DEF CancelRead, workerVars, jobVars
  <2>4. CASE CancelWrite(r)
    BY <2>1, <2>2, <2>4 DEF CancelWrite, workerVars, jobVars
  <2>5. QED
    BY <1>10, <2>3, <2>4 DEF Cancellation
<1>11. CASE UNCHANGED vars
  BY <1>11 DEF vars, workerVars, jobVars
<1>12. QED
  BY <1>1, <1>2, <1>3, <1>4, <1>5, <1>6, <1>7, <1>8, <1>9, <1>10, <1>11
     DEF Next, ExecutorStep, StopCancelled, StopExhausted, FinishLoop,
         Quiescent, Verdicts

(* A run is terminal exactly when it has a verdict, and every variable has *)
(* its type.                                                               *)
THEOREM TypeCorrect == Spec => [](TypeOK /\ LoopShape)
<1>1. Init => LoopShape
  BY DEF Init, LoopShape
<1>2. QED
  BY <1>1, TypeInit, TypeStep, PTL DEF Spec

-----------------------------------------------------------------------------
(* The rows of an open transaction, step by step.                          *)

LEMMA CeilingGrows ==
  ASSUME NEW done \in SUBSET Candidates, NEW c \in Candidates, c \notin done
  PROVE  /\ Ceiling(done) \in Int
         /\ Ceiling(done \cup {c}) = Ceiling(done) + MaxPrice
         /\ Ceiling({}) = BudgetLimit - 1
<1>1. IsFiniteSet(done)
  BY RunExecutionAssumption, FS_Subset
<1>2. /\ Cardinality(done) \in Nat
      /\ Cardinality(done \cup {c}) = Cardinality(done) + 1
      /\ Cardinality({}) = 0
  BY <1>1, FS_CardinalityType, FS_AddElement, FS_EmptySet
<1>3. \A n \in Nat : (n + 1) * MaxPrice = n * MaxPrice + MaxPrice
                     /\ n * MaxPrice \in Nat /\ 0 * MaxPrice = 0
  BY RunExecutionAssumption
<1>4. QED
  BY <1>2, <1>3, RunExecutionAssumption DEF Ceiling

LEMMA CeilingBase ==
  /\ Ceiling({}) = BudgetLimit - 1
  /\ Ceiling(Candidates) = BudgetLimit - 1 + Cardinality(Candidates) * MaxPrice
<1>1. Cardinality({}) = 0 /\ 0 * MaxPrice = 0
  BY FS_EmptySet, RunExecutionAssumption
<1>2. QED
  BY <1>1, RunExecutionAssumption DEF Ceiling

LEMMA FinishRunKeeps ==
  ASSUME NEW v \in Record, NEW d \in Verdicts
  PROVE  /\ FinishRun(v, d).completeness = d
         /\ FinishRun(v, d).state = "terminal"
         /\ FinishRun(v, d).checkpoint = v.checkpoint
         /\ FinishRun(v, d).sample = v.sample
         /\ FinishRun(v, d).entries = v.entries
         /\ FinishRun(v, d).cost = v.cost
  BY DEF FinishRun, Record

LEMMA MarkRunningKeeps ==
  ASSUME NEW v \in Record
  PROVE  /\ MarkRunning(v).checkpoint = v.checkpoint
         /\ MarkRunning(v).sample = v.sample
         /\ MarkRunning(v).entries = v.entries
         /\ MarkRunning(v).cost = v.cost
  BY DEF MarkRunning, Record

(* Rows that agree on checkpoint, samples and entries cover the same work. *)
LEMMA CoversSame ==
  ASSUME NEW v, NEW x, NEW done, Covers(v, done),
         x.checkpoint = v.checkpoint,
         x.sample = v.sample, x.entries = v.entries
  PROVE  Covers(x, done)
  BY DEF Covers, Done, Resolved, Untouched

LEMMA RecordUnitCovers ==
  ASSUME NEW v \in Record, NEW done \in SUBSET Candidates,
         NEW c \in Candidates, c \notin done, NEW o \in Outcomes,
         NEW u \in Units, u = <<Index(v), c>>, Covers(v, done)
  PROVE  /\ Covers(RecordUnit(v, u, o), done \cup {c})
         /\ v.sample[u] = "none"
         /\ RecordUnit(v, u, o).sample[u] = o
         /\ \A y \in Units : y # u =>
              /\ RecordUnit(v, u, o).sample[y] = v.sample[y]
              /\ RecordUnit(v, u, o).entries[y] = v.entries[y]
<1> DEFINE x == RecordUnit(v, u, o)
<1>1. Untouched(v, u)
  BY DEF Covers, Done, Index, Record
<1>2. /\ x.checkpoint = v.checkpoint
      /\ x.sample = [v.sample EXCEPT ![u] = o]
      /\ \A y \in Units : x.entries[y] =
           IF y = u /\ CostOf(u[2], o) > 0 THEN v.entries[y] + 1
                                           ELSE v.entries[y]
  BY RecordUnitType
<1> HIDE DEF x
<1>3. \A y \in Units : x.sample[y] = IF y = u THEN o ELSE v.sample[y]
  BY <1>2 DEF Record
<1>4. Resolved(x, u)
  BY <1>1, <1>2, <1>3 DEF Resolved, Untouched, CostOf
<1>5. \A y \in Units : y # u => /\ x.sample[y] = v.sample[y]
                                /\ x.entries[y] = v.entries[y]
  BY <1>2, <1>3
<1>6. \A y \in Units : Done(x, done \cup {c}, y) <=> Done(v, done, y) \/ y = u
  BY <1>2 DEF Done, Index, Units, Record, Examples
<1>7. Covers(x, done \cup {c})
  BY <1>4, <1>5, <1>6 DEF Covers, Resolved, Untouched
<1>8. QED
  BY <1>1, <1>3, <1>5, <1>7 DEF x, Untouched

-----------------------------------------------------------------------------
(* The invariant, action by action.                                        *)

(* A step that commits nothing and touches one worker's transaction keeps  *)
(* the invariant if that transaction keeps its part of it.                 *)
LEMMA OneWorkerStep ==
  ASSUME IInv, NEW w \in Workers, db' = db, TypeOK', TransactionInv(w)',
         lock' = lock \/ lock \in {w, NoOne},
         \A x \in Workers : x # w =>
             /\ pc'[x] = pc[x] /\ view'[x] = view[x] /\ spent'[x] = spent[x]
             /\ failed'[x] = failed[x] /\ pending'[x] = pending[x]
  PROVE  IInv'
<1>1. CommittedInv'
  BY DEF IInv, CommittedInv
<1>2. ASSUME NEW x \in Workers, x # w PROVE TransactionInv(x)'
  <2>1. CASE pc[x] \notin InTransaction
    BY <1>2, <2>1 DEF TransactionInv
  <2>2. CASE pc[x] \in InTransaction
    <3>1. lock = x /\ lock # NoOne
      BY <2>2, RunExecutionAssumption DEF IInv, TransactionInv
    <3>3. lock' = lock
      BY <1>2, <3>1
    <3>4. TransactionInv(x)
      BY DEF IInv
    <3>5. QED
      BY <1>2, <3>3, <3>4 DEF TransactionInv
  <2>3. QED
    BY <2>1, <2>2
<1>3. QED
  BY <1>1, <1>2 DEF IInv

LEMMA BeginKeeps ==
  ASSUME IInv, TypeOK', NEW w \in Workers, Begin(w)
  PROVE  IInv'
<1> USE DEF InTransaction
<1>1. /\ lock = NoOne /\ lock' = w /\ db' = db /\ pc'[w] = "loop"
      /\ view'[w] = MarkRunning(db) /\ spent'[w] = db.cost
      /\ failed'[w] = FALSE
  BY DEF Begin, CostTotal, IInv, TypeOK
<1>2. db \in Record
  BY DEF IInv, TypeOK
<1>3. Covers(view'[w], {}) /\ view'[w].cost = db.cost
  BY <1>1, <1>2, MarkRunningKeeps, CoversSame DEF IInv, CommittedInv
<1>4. ExtendsRecord(view'[w], db')
  BY <1>1, <1>2, MarkRunningKeeps DEF ExtendsRecord, Record
<1>5. Affordable(view'[w].cost)
  BY <1>3 DEF IInv, CommittedInv
<1>6. TransactionInv(w)'
  BY <1>1, <1>3, <1>4, <1>5 DEF TransactionInv
<1>7. \A x \in Workers : x # w =>
        /\ pc'[x] = pc[x] /\ view'[x] = view[x] /\ spent'[x] = spent[x]
        /\ failed'[x] = failed[x] /\ pending'[x] = pending[x]
  BY DEF Begin, IInv, TypeOK
<1>8. QED
  BY <1>1, <1>6, <1>7, OneWorkerStep

LEMMA ConcludeKeeps ==
  ASSUME IInv, TypeOK', NEW w \in Workers,
         StopCancelled(w) \/ StopExhausted(w) \/ FinishLoop(w)
  PROVE  IInv'
<1> USE DEF InTransaction
<1>1. PICK d \in Verdicts :
        /\ pc[w] = "loop" /\ Conclude(w, d)
        /\ d = "exhausted" => OverBudget(w)
        /\ d \in {"complete", "partial"} => Index(view[w]) >= NumExamples
        /\ d = "partial" => failed[w]
  BY DEF StopCancelled, StopExhausted, FinishLoop, Verdicts, IInv, TypeOK
<1> DEFINE v == view[w]
<1>2. /\ v \in Record /\ TransactionInv(w) /\ Covers(v, {})
      /\ Affordable(v.cost) /\ spent[w] = v.cost /\ lock = w
      /\ ExtendsRecord(v, db)
      /\ failed[w] => \E u \in Units : v.sample[u] \in {"abstained", "failed"}
  BY <1>1 DEF IInv, TransactionInv, TypeOK
<1>3. /\ view'[w] = FinishRun(v, d) /\ pc'[w] = "commit" /\ db' = db
      /\ lock' = lock /\ spent' = spent /\ failed' = failed
  BY <1>1 DEF Conclude, IInv, TypeOK
<1>4. /\ Covers(view'[w], {}) /\ view'[w].cost = v.cost
      /\ view'[w].sample = v.sample
      /\ view'[w].state = "terminal" /\ view'[w].completeness = d
  BY <1>2, <1>3, FinishRunKeeps, CoversSame
<1>5. ExtendsRecord(view'[w], db')
  BY <1>2, <1>3, FinishRunKeeps DEF ExtendsRecord
<1>6. TrueVerdict(view'[w])
  <2>1. ASSUME d \in {"complete", "partial"}, NEW u \in Units
        PROVE  v.sample[u] # "none"
    <3>1. u[1] <= v.checkpoint
      BY <1>1, <1>2, <2>1, RunExecutionAssumption
         DEF Index, Units, Examples, Record
    <3>2. QED
      BY <1>2, <2>1, <3>1 DEF Covers, Done, Resolved, Outcomes
  <2>2. d = "exhausted" => v.cost >= BudgetLimit
    BY <1>1, <1>2 DEF OverBudget
  <2>3. d = "partial" =>
          \E u \in Units : v.sample[u] \in {"abstained", "failed"}
    BY <1>1, <1>2
  <2>4. QED
    BY <1>4, <2>1, <2>2, <2>3 DEF TrueVerdict
<1>7. TransactionInv(w)'
  <2>1. d # "none"
    BY DEF Verdicts
  <2>2. QED
    BY <1>2, <1>3, <1>4, <1>5, <1>6, <2>1 DEF TransactionInv, TrueVerdict
<1>8. \A x \in Workers : x # w =>
        /\ pc'[x] = pc[x] /\ view'[x] = view[x] /\ spent'[x] = spent[x]
        /\ failed'[x] = failed[x] /\ pending'[x] = pending[x]
  BY <1>1 DEF Conclude, IInv, TypeOK
<1>9. QED
  BY <1>1, <1>2, <1>3, <1>7, <1>8, OneWorkerStep

LEMMA InvokeAllKeeps ==
  ASSUME IInv, TypeOK', NEW w \in Workers, InvokeAll(w)
  PROVE  IInv'
<1> USE DEF InTransaction
<1>1. /\ pc[w] = "loop" /\ pc'[w] = "record" /\ pending'[w] = Candidates
      /\ Index(view[w]) < NumExamples /\ spent[w] < BudgetLimit
      /\ db' = db /\ lock' = lock /\ view' = view /\ spent' = spent
      /\ failed' = failed
  BY RunExecutionAssumption DEF InvokeAll, OverBudget, IInv, TypeOK
<1>2. /\ TransactionInv(w) /\ Covers(view[w], {}) /\ spent[w] = view[w].cost
      /\ spent[w] \in Nat
  BY <1>1 DEF IInv, TransactionInv, TypeOK
<1>3. view[w].cost <= Ceiling({})
  BY <1>1, <1>2, CeilingBase, RunExecutionAssumption
<1>4. Candidates \ pending'[w] = {}
  BY <1>1
<1>5. TransactionInv(w)'
  BY <1>1, <1>2, <1>3, <1>4 DEF TransactionInv
<1>6. \A x \in Workers : x # w =>
        /\ pc'[x] = pc[x] /\ view'[x] = view[x] /\ spent'[x] = spent[x]
        /\ failed'[x] = failed[x] /\ pending'[x] = pending[x]
  BY DEF InvokeAll, IInv, TypeOK
<1>7. QED
  BY <1>1, <1>5, <1>6, OneWorkerStep

LEMMA RecordCandidateKeeps ==
  ASSUME IInv, TypeOK', NEW w \in Workers, NEW c \in Candidates,
         NEW o \in Outcomes, RecordCandidate(w, c, o)
  PROVE  IInv'
<1> USE DEF InTransaction
<1> DEFINE v == view[w]
           u == <<Index(v), c>>
           done == Candidates \ pending[w]
           x == RecordUnit(v, u, o)
<1>1. /\ pc[w] = "record" /\ c \in pending[w] /\ TransactionInv(w)
      /\ pending[w] \in SUBSET Candidates
      /\ pending'[w] = pending[w] \ {c}
      /\ db' = db /\ lock' = lock /\ pc' = pc
  BY DEF RecordCandidate, IInv, TypeOK
<1>2. /\ v \in Record /\ lock = w /\ Index(v) \in Examples
      /\ Covers(v, done) /\ v.cost <= Ceiling(done) /\ spent[w] = v.cost
      /\ ExtendsRecord(v, db)
      /\ failed[w] => \E y \in Units : v.sample[y] \in {"abstained", "failed"}
  <2>1. v \in Record /\ (Index(v) < NumExamples => Index(v) \in Examples)
    BY IndexRange DEF IInv
  <2>2. QED
    BY <1>1, <2>1 DEF TransactionInv
<1>3. u \in Units /\ u[1] = v.checkpoint + 1 /\ u[2] = c
  BY <1>2 DEF Units, Index
<1>4. /\ Covers(x, done \cup {c})
      /\ v.sample[u] = "none"
      /\ x.sample[u] = o
      /\ \A y \in Units : y # u => /\ x.sample[y] = v.sample[y]
                                   /\ x.entries[y] = v.entries[y]
  <2>1. done \in SUBSET Candidates /\ c \notin done
    BY <1>1
  <2>2. u = <<Index(v), c>> /\ x = RecordUnit(v, u, o)
    OBVIOUS
  <2> HIDE DEF done, v, u, x
  <2>3. /\ v \in Record /\ u \in Units /\ Covers(v, done)
    BY <1>2, <1>3
  <2>4. QED
    BY ONLY <2>1, <2>2, <2>3, RecordUnitCovers
<1>5. /\ CostOf(c, o) \in 0 .. MaxPrice /\ x.checkpoint = v.checkpoint
      /\ x.cost = v.cost + CostOf(c, o)
  BY <1>2, <1>3, RecordUnitType, Zenon
<1>6. /\ view'[w] = x
      /\ spent'[w] = spent[w] + CostOf(c, o)
      /\ failed'[w] => failed[w] \/ o # "scored"
  BY <1>4 DEF RecordCandidate, IInv, TypeOK
<1>7. Candidates \ pending'[w] = done \cup {c}
  BY <1>1
<1>8. x.cost <= Ceiling(done \cup {c})
  <2>1. /\ Ceiling(done \cup {c}) = Ceiling(done) + MaxPrice
        /\ Ceiling(done) \in Int
    BY <1>1, CeilingGrows
  <2>2. v.cost \in Nat /\ MaxPrice \in Nat
    BY <1>2, RunExecutionAssumption DEF Record
  <2> HIDE DEF x
  <2>3. QED
    BY <1>2, <1>5, <2>1, <2>2
<1>9. ExtendsRecord(x, db)
  <2>1. \A y \in Units : y[1] <= db.checkpoint => y # u
    BY <1>2, <1>3 DEF ExtendsRecord, IInv, TypeOK, Record
  <2>2. QED
    BY <1>2, <1>4, <1>5, <2>1 DEF ExtendsRecord
<1>10. failed'[w] => \E y \in Units : x.sample[y] \in {"abstained", "failed"}
  <2>1. CASE o # "scored"
    BY <1>3, <1>4, <2>1 DEF Outcomes
  <2>2. CASE o = "scored"
    <3>1. SUFFICES ASSUME failed'[w]
                   PROVE  \E y \in Units : x.sample[y] \in {"abstained", "failed"}
      OBVIOUS
    <3>2. PICK y \in Units : v.sample[y] \in {"abstained", "failed"}
      BY <1>2, <1>6, <2>2, <3>1
    <3>3. y # u
      BY <1>4, <3>2
    <3>4. QED
      BY <1>4, <3>2, <3>3
  <2>3. QED
    BY <2>1, <2>2
<1>11. TransactionInv(w)'
  <2>1. Index(x) = Index(v)
    BY <1>5 DEF Index
  <2>2. spent'[w] = x.cost
    BY <1>2, <1>5, <1>6
  <2>3. Index(v) < NumExamples
    BY <1>1 DEF TransactionInv
  <2> HIDE DEF x, v, done
  <2>4. QED
    BY <1>1, <1>2, <1>4, <1>6, <1>7, <1>8, <1>9, <1>10, <2>1, <2>2, <2>3
       DEF TransactionInv
<1>12. \A y \in Workers : y # w =>
        /\ pc'[y] = pc[y] /\ view'[y] = view[y] /\ spent'[y] = spent[y]
        /\ failed'[y] = failed[y] /\ pending'[y] = pending[y]
  BY <1>4 DEF RecordCandidate, IInv, TypeOK
<1>13. QED
  BY <1>1, <1>11, <1>12, OneWorkerStep

LEMMA AdvanceCheckpointKeeps ==
  ASSUME IInv, TypeOK', NEW w \in Workers, AdvanceCheckpoint(w)
  PROVE  IInv'
<1> USE DEF InTransaction
<1> DEFINE v == view[w]
           x == [v EXCEPT !.checkpoint = v.checkpoint + 1]
<1>1. /\ pc[w] = "record" /\ pc'[w] = "loop" /\ TransactionInv(w)
      /\ Candidates \ pending[w] = Candidates
      /\ db' = db /\ lock' = lock /\ spent' = spent /\ failed' = failed
      /\ view'[w] = x
  BY DEF AdvanceCheckpoint, IInv, TypeOK
<1>2. /\ v \in Record /\ lock = w /\ Covers(v, Candidates)
      /\ v.cost <= Ceiling(Candidates) /\ spent[w] = v.cost
      /\ ExtendsRecord(v, db)
      /\ failed[w] => \E y \in Units : v.sample[y] \in {"abstained", "failed"}
  BY <1>1 DEF TransactionInv, IInv, TypeOK
<1>3. /\ x.checkpoint = v.checkpoint + 1 /\ x.sample = v.sample
      /\ x.entries = v.entries /\ x.cost = v.cost
  BY <1>2 DEF Record
<1>4. Covers(x, {})
  <2>1. \A u \in Units : Done(x, {}, u) <=> Done(v, Candidates, u)
    BY <1>2, <1>3 DEF Done, Units, Examples, Record
  <2>2. QED
    BY <1>2, <1>3, <2>1 DEF Covers, Resolved, Untouched
<1>5. ExtendsRecord(x, db)
  BY <1>2, <1>3 DEF ExtendsRecord, IInv, TypeOK, Record
<1>6. TransactionInv(w)'
  <2> HIDE DEF x, v
  <2> QED BY <1>1, <1>2, <1>3, <1>4, <1>5 DEF Affordable, TransactionInv
<1>7. \A y \in Workers : y # w =>
        /\ pc'[y] = pc[y] /\ view'[y] = view[y] /\ spent'[y] = spent[y]
        /\ failed'[y] = failed[y] /\ pending'[y] = pending[y]
  BY DEF AdvanceCheckpoint, IInv, TypeOK
<1>8. QED
  BY <1>1, <1>6, <1>7, OneWorkerStep

LEMMA CommitKeeps ==
  ASSUME IInv, TypeOK', NEW w \in Workers, Commit(w)
  PROVE  IInv'
<1>1. /\ pc[w] = "commit" /\ db' = view[w] /\ pc'[w] = "ack"
      /\ TransactionInv(w)
      /\ \A x \in Workers : x # w => pc'[x] = pc[x]
  BY DEF Commit, IInv, TypeOK
<1>2. /\ lock = w /\ Covers(view[w], {}) /\ TrueVerdict(view[w])
      /\ Affordable(view[w].cost)
  BY <1>1 DEF TransactionInv, InTransaction
<1>3. CommittedInv'
  BY <1>1, <1>2 DEF CommittedInv
<1>4. ASSUME NEW x \in Workers PROVE pc'[x] \notin InTransaction
  <2>1. CASE x = w
    BY <1>1, <2>1 DEF InTransaction
  <2>2. CASE x # w
    BY <1>1, <1>2, <2>2 DEF IInv, TransactionInv
  <2>3. QED
    BY <2>1, <2>2
<1>5. QED
  BY <1>3, <1>4 DEF IInv, TransactionInv

(* Taking, acknowledging or losing a job ends in no transaction.           *)
LEMMA JobStepKeeps ==
  ASSUME IInv, TypeOK', NEW w \in Workers,
         Deliver(w) \/ Ack(w) \/ Crash(w) \/ Raise(w)
  PROVE  IInv'
<1>1. /\ db' = db /\ pc'[w] \in {"idle", "adopt", "raised"}
      /\ lock' = lock \/ lock \in {w, NoOne}
  BY DEF Deliver, Ack, Crash, Raise, Rollback, Forget, IInv, TypeOK
<1>2. TransactionInv(w)'
  BY <1>1 DEF TransactionInv, InTransaction
<1>3. \A x \in Workers : x # w =>
        /\ pc'[x] = pc[x] /\ view'[x] = view[x] /\ spent'[x] = spent[x]
        /\ failed'[x] = failed[x] /\ pending'[x] = pending[x]
  BY DEF Deliver, Ack, Crash, Raise, Rollback, Forget, IInv, TypeOK
<1>4. QED
  BY <1>1, <1>2, <1>3, OneWorkerStep

LEMMA CancellationKeeps ==
  ASSUME IInv, TypeOK', NEW r \in Requests, Cancellation(r)
  PROVE  IInv'
<1>1. lock' = lock /\ UNCHANGED workerVars
  BY DEF Cancellation, CancelRead, CancelWrite
<1>2. CASE CancelRead(r)
  BY <1>1, <1>2 DEF CancelRead, IInv, CommittedInv, TransactionInv, workerVars
<1>3. CASE CancelWrite(r)
  <2>1. db' = FinishRun(db, "cancelled") /\ lock = NoOne /\ db \in Record
    BY <1>3 DEF CancelWrite, IInv, TypeOK
  <2>2. /\ db'.checkpoint = db.checkpoint /\ db'.sample = db.sample
        /\ db'.entries = db.entries /\ db'.cost = db.cost
        /\ db'.completeness = "cancelled"
    BY <2>1, FinishRunKeeps DEF Verdicts
  <2>3. Covers(db', {})
    BY <2>2, CoversSame DEF IInv, CommittedInv
  <2>4. CommittedInv'
    BY <2>2, <2>3 DEF IInv, CommittedInv, TrueVerdict
  <2>5. ASSUME NEW w \in Workers PROVE pc[w] \notin InTransaction
    BY <2>1, RunExecutionAssumption DEF IInv, TransactionInv
  <2>6. QED
    BY <1>1, <2>4, <2>5 DEF IInv, TransactionInv, workerVars
<1>4. QED
  BY <1>2, <1>3 DEF Cancellation

LEMMA InvariantInit == Init => IInv
<1> SUFFICES ASSUME Init PROVE IInv
  OBVIOUS
<1>1. db = NewRun /\ \A w \in Workers : pc[w] \notin InTransaction
  BY DEF Init, InTransaction
<1>2. Affordable(NewRun.cost)
  BY NewRunType DEF Affordable
<1>3. TrueVerdict(NewRun)
  BY DEF TrueVerdict, NewRun
<1>4. QED
  BY <1>1, <1>2, <1>3, TypeInit, NewRunType
     DEF IInv, CommittedInv, TransactionInv

LEMMA InvariantStep == IInv /\ [Next]_vars => IInv'
<1> SUFFICES ASSUME IInv, [Next]_vars PROVE IInv'
  OBVIOUS
<1>1. TypeOK'
  <2>1. LoopShape
    BY IndexRange DEF IInv, TransactionInv, LoopShape, InTransaction
  <2>2. QED
    BY <2>1, TypeStep DEF IInv
<1>2. ASSUME NEW w \in Workers, ExecutorStep(w) PROVE IInv'
  BY <1>1, <1>2, BeginKeeps, ConcludeKeeps, InvokeAllKeeps,
     RecordCandidateKeeps, AdvanceCheckpointKeeps, CommitKeeps
     DEF ExecutorStep
<1>3. CASE UNCHANGED vars
  BY <1>1, <1>3 DEF vars, workerVars, IInv, CommittedInv, TransactionInv
<1>4. QED
  BY <1>1, <1>2, <1>3, JobStepKeeps, CancellationKeeps DEF Next, Quiescent

THEOREM Invariance == Spec => []IInv
  BY InvariantInit, InvariantStep, PTL DEF Spec

-----------------------------------------------------------------------------
(* What the runs check, for every instance.                                *)

(* The spend is bounded by the budget and one example: the loop looks at   *)
(* the budget only between examples (runner.py:170-191).                   *)
THEOREM OvershootBounded == Spec => []BudgetOvershootBounded
<1>1. IInv => BudgetOvershootBounded
  BY CeilingBase DEF IInv, CommittedInv, Affordable, BudgetOvershootBounded
<1>2. QED
  BY <1>1, Invariance, PTL

(* A committed verdict tells the truth about the ledger beside it.         *)
THEOREM VerdictTruthful == Spec => []VerdictMatchesLedger
<1>1. IInv => VerdictMatchesLedger
  BY DEF IInv, CommittedInv, TrueVerdict, VerdictMatchesLedger
<1>2. QED
  BY <1>1, Invariance, PTL

(* Work that is in the committed record is never sent to a provider again. *)
THEOREM NoCommittedRework == Spec => CommittedWorkNeverRepeated
<1> DEFINE Fresh == \A i \in Examples : calls'[i] # calls[i] =>
                      \A c \in Candidates : db.sample[<<i, c>>] = "none"
<1>1. ASSUME IInv, NEW w \in Workers, InvokeAll(w) PROVE Fresh
  <2>1. /\ calls' = [calls EXCEPT ![Index(view[w])] = @ + 1]
        /\ ExtendsRecord(view[w], db) /\ view[w] \in Record /\ db \in Record
        /\ Covers(db, {})
    BY <1>1 DEF InvokeAll, IInv, CommittedInv, TransactionInv, InTransaction,
                TypeOK
  <2>2. SUFFICES ASSUME NEW i \in Examples, i = Index(view[w]),
                        NEW c \in Candidates
                 PROVE  db.sample[<<i, c>>] = "none"
    BY <1>1, <2>1 DEF IInv, TypeOK
  <2>3. <<i, c>> \in Units
    BY DEF Units
  <2>4. ~Done(db, {}, <<i, c>>)
    BY <2>1, <2>2 DEF Done, Index, ExtendsRecord, Record
  <2>5. QED
    BY <2>1, <2>3, <2>4 DEF Covers, Untouched
<1>2. ASSUME IInv, Next PROVE Fresh
  <2>1. CASE \E w \in Workers : InvokeAll(w)
    BY <1>1, <1>2, <2>1
  <2>2. CASE ~ \E w \in Workers : InvokeAll(w)
    <3>1. calls' = calls
      BY <1>2, <2>2
         DEF Next, ExecutorStep, Deliver, Ack, Crash, Raise, Rollback, Begin,
             StopCancelled, StopExhausted, FinishLoop, Conclude,
             RecordCandidate, AdvanceCheckpoint, Commit, Cancellation,
             CancelRead, CancelWrite, Quiescent, vars
    <3>2. QED
      BY <3>1
  <2>3. QED
    BY <2>1, <2>2
<1>3. IInv /\ [Next]_vars => [Fresh]_vars
  BY <1>2
<1>4. QED
  BY <1>3, Invariance, PTL DEF Spec, CommittedWorkNeverRepeated

(* A commit extends the ledger by whole examples or leaves its rows alone. *)
LEMMA CommitExtends ==
  ASSUME IInv, NEW w \in Workers, Commit(w)
  PROVE  [Ledger!LedgerNext]_(Ledger!ledgerVars)
<1> DEFINE v == view[w]
<1>1. db' = v /\ ExtendsRecord(v, db) /\ Covers(v, {}) /\ Covers(db, {})
  BY DEF Commit, IInv, CommittedInv, TransactionInv, InTransaction
<1>2. v \in Record /\ db \in Record /\ v.checkpoint \in -1 .. NumExamples - 1
      /\ db.checkpoint \in -1 .. NumExamples - 1 /\ NumExamples \in Nat
  BY RunExecutionAssumption DEF IInv, TypeOK, Record
<1>3. Ledger!Units = Units
  BY DEF Ledger!Units, Units, Examples
<1>4. \A u \in Units : u[1] \in Int
  BY <1>2 DEF Units, Examples
<1>5. CASE v.checkpoint = db.checkpoint
  <2>1. \A u \in Units : /\ v.sample[u] = db.sample[u]
                         /\ v.entries[u] = db.entries[u]
    <3>1. SUFFICES ASSUME NEW u \in Units
                   PROVE  /\ v.sample[u] = db.sample[u]
                          /\ v.entries[u] = db.entries[u]
      OBVIOUS
    <3>2. CASE u[1] <= db.checkpoint
      BY <1>1, <3>2 DEF ExtendsRecord
    <3>3. CASE ~(u[1] <= db.checkpoint)
      BY <1>1, <1>5, <3>3 DEF Covers, Done, Untouched
    <3>4. QED
      BY <3>2, <3>3
  <2>2. v.sample = db.sample /\ v.entries = db.entries
    <3>1. /\ v.sample \in [Units -> Outcomes \cup {"none"}]
          /\ db.sample \in [Units -> Outcomes \cup {"none"}]
          /\ v.entries \in [Units -> Nat] /\ db.entries \in [Units -> Nat]
      BY <1>2 DEF Record
    <3>2. QED
      BY <2>1, <3>1
  <2>3. QED
    BY <1>1, <1>5, <2>2 DEF Ledger!ledgerVars
<1>6. CASE v.checkpoint > db.checkpoint
  <2>1. v.checkpoint \in 0 .. NumExamples - 1
    BY <1>2, <1>6
  <2>2. ASSUME NEW u \in Units
        PROVE  IF db.checkpoint < u[1] /\ u[1] <= v.checkpoint
               THEN /\ v.sample[u] \in Ledger!Resolutions
                    /\ v.entries[u] \in {0, 1}
                    /\ v.sample[u] = "failed" => v.entries[u] = 0
               ELSE /\ v.sample[u] = db.sample[u]
                    /\ v.entries[u] = db.entries[u]
    <3>1. CASE u[1] <= db.checkpoint
      BY <1>1, <1>2, <1>4, <3>1 DEF ExtendsRecord
    <3>2. CASE db.checkpoint < u[1] /\ u[1] <= v.checkpoint
      BY <1>1, <3>2 DEF Covers, Done, Resolved, Outcomes, Ledger!Resolutions
    <3>3. CASE u[1] > v.checkpoint
      BY <1>1, <1>2, <1>4, <1>6, <3>3 DEF Covers, Done, Untouched
    <3>4. QED
      BY <1>2, <1>4, <3>1, <3>2, <3>3
  <2>3. Ledger!Extend(v.checkpoint)
    BY <1>1, <1>3, <1>6, <2>2 DEF Ledger!Extend
  <2>4. QED
    BY <2>1, <2>3 DEF Ledger!LedgerNext
<1>7. QED
  BY <1>1, <1>2, <1>5, <1>6 DEF ExtendsRecord

(* The committed record of a run is the ledger RunLedger promises.         *)
THEOREM LedgerImplemented == Spec => ImplementsLedger
<1>1. Init => Ledger!LedgerInit
  BY DEF Init, NewRun, Ledger!LedgerInit, Ledger!Units, Units, Examples
<1>2. ASSUME IInv, [Next]_vars
      PROVE  [Ledger!LedgerNext]_(Ledger!ledgerVars)
  <2>1. ASSUME NEW w \in Workers, Commit(w)
        PROVE  [Ledger!LedgerNext]_(Ledger!ledgerVars)
    BY <1>2, <2>1, CommitExtends
  <2>2. ASSUME NEW r \in Requests, CancelWrite(r)
        PROVE  UNCHANGED Ledger!ledgerVars
    BY <1>2, <2>2, FinishRunKeeps
       DEF CancelWrite, IInv, TypeOK, Verdicts, Ledger!ledgerVars
  <2>3. CASE db' = db
    BY <2>3 DEF Ledger!ledgerVars
  <2>4. \/ db' = db
        \/ \E w \in Workers : Commit(w)
        \/ \E r \in Requests : CancelWrite(r)
    BY <1>2
       DEF Next, ExecutorStep, Deliver, Ack, Crash, Raise, Rollback, Begin,
           StopCancelled, StopExhausted, FinishLoop, Conclude, InvokeAll,
           RecordCandidate, AdvanceCheckpoint, Cancellation,
           CancelRead, Quiescent, vars
  <2>5. QED
    BY <2>1, <2>2, <2>3, <2>4
<1>3. QED
  BY <1>1, <1>2, Invariance, PTL
     DEF Spec, ImplementsLedger, Ledger!LedgerSpec

=============================================================================
