------------------------- MODULE ReleaseGateProofs -------------------------
(***************************************************************************)
(* Proofs about ReleaseGate, for any runs, scopes and requests.            *)
(*                                                                         *)
(* The promise of ScopeBaseline is about committed rows; an approval       *)
(* prepares two changes and commits them together.  The invariant says     *)
(* what makes that commit one replacement: a row an approval superseded is *)
(* locked by it and still approved for everybody else, and while an        *)
(* approval is about to commit no other row of the scope is approved, nor  *)
(* is any other approval of the scope about to commit.                     *)
(***************************************************************************)
EXTENDS ReleaseGate, TLAPS

BaselineStates == {"none", "pending_approval", "approved", "superseded"}

BaselineType ==
    /\ baseline \in [Runs -> BaselineStates]
    /\ lock \in [Runs -> Approvals \cup {Nobody}]
    /\ pc \in [Approvals -> {"idle", "find", "supersede", "lock", "index",
                             "commit", "done", "refused"}]
    /\ found \in [Approvals -> SUBSET Runs]
    /\ superseded \in [Approvals -> SUBSET Runs]

SupersededHeld ==
    \A a \in Approvals : \A r \in superseded[a] :
        /\ lock[r] = a
        /\ baseline[r] = "approved"
        /\ ScopeOf[r] = ScopeOf[TargetOf[a]]

TargetHeld ==
    \A a \in Approvals :
        /\ pc[a] \in {"index", "commit"} => lock[TargetOf[a]] = a
        /\ pc[a] \in {"idle", "find", "supersede"} => superseded[a] = {}
        /\ pc[a] \in {"find", "supersede", "lock", "index", "commit"} =>
             baseline[TargetOf[a]] # "none"
        /\ \A r \in found[a] : ScopeOf[r] = ScopeOf[TargetOf[a]]

ReadyToCommit ==
    \A a \in Approvals : pc[a] = "commit" =>
        /\ TargetOf[a] \notin superseded[a]
        /\ baseline[TargetOf[a]] # "superseded"
        /\ \A r \in Runs : /\ ScopeOf[r] = ScopeOf[TargetOf[a]]
                           /\ baseline[r] = "approved"
                           => r \in superseded[a] \cup {TargetOf[a]}
        /\ \A b \in Approvals :
             pc[b] = "commit" /\ ScopeOf[TargetOf[b]] = ScopeOf[TargetOf[a]]
             => b = a

OneApproved ==
    \A q, r \in Runs : /\ baseline[q] = "approved" /\ baseline[r] = "approved"
                       /\ ScopeOf[q] = ScopeOf[r]
                       => q = r

IInv == /\ BaselineType /\ SupersededHeld /\ TargetHeld /\ ReadyToCommit
        /\ OneApproved

-----------------------------------------------------------------------------
(* The initial state satisfies the invariant.                              *)
LEMMA InitInvariant == Init => IInv
BY ReleaseGateAssumption
   DEF Init, IInv, BaselineType, SupersededHeld, TargetHeld, ReadyToCommit,
       OneApproved, BaselineStates

(* The end of a transaction frees its rows and forgets what it found.      *)
LEMMA ReleaseFrees ==
    ASSUME NEW a \in Approvals, BaselineType, Release(a)
    PROVE  /\ lock' \in [Runs -> Approvals \cup {Nobody}]
           /\ \A r \in Runs : lock[r] # a => lock'[r] = lock[r]
           /\ found' \in [Approvals -> SUBSET Runs]
           /\ found'[a] = {}
           /\ \A b \in Approvals \ {a} : found'[b] = found[b]
           /\ superseded' \in [Approvals -> SUBSET Runs]
           /\ superseded'[a] = {}
           /\ \A b \in Approvals \ {a} : superseded'[b] = superseded[b]
BY DEF BaselineType, Release

(* An approval that ends without effect leaves the others as they were.    *)
LEMMA AbortKeeps ==
    ASSUME IInv, NEW a \in Approvals, Abort(a)
    PROVE  IInv'
<1>1. /\ pc' = [pc EXCEPT ![a] = "refused"]
      /\ UNCHANGED baseline
      /\ Release(a)
  BY DEF Abort, Goto
<1>2. BaselineType /\ BaselineType'
  BY <1>1, ReleaseFrees DEF IInv, BaselineType
<1>3. \A b \in Approvals \ {a} :
         /\ pc'[b] = pc[b] /\ superseded'[b] = superseded[b]
         /\ found'[b] = found[b]
  BY <1>1, <1>2, ReleaseFrees DEF BaselineType
<1>4. /\ pc'[a] = "refused" /\ superseded'[a] = {} /\ found'[a] = {}
      /\ \A r \in Runs : lock[r] # a => lock'[r] = lock[r]
  BY <1>1, <1>2, ReleaseFrees DEF BaselineType
<1>5. SupersededHeld'
  BY <1>1, <1>2, <1>3, <1>4 DEF IInv, SupersededHeld, BaselineType
<1>6. TargetHeld'
  BY <1>1, <1>2, <1>3, <1>4, ReleaseGateAssumption
     DEF IInv, TargetHeld, BaselineType
<1>7. ReadyToCommit' /\ OneApproved'
  BY <1>1, <1>2, <1>3, <1>4 DEF IInv, ReadyToCommit, OneApproved
<1> QED BY <1>2, <1>5, <1>6, <1>7 DEF IInv

(* Nobody else changes a row while an approval of the scope is about to    *)
(* commit: only rows it superseded or approved stop being what they were.  *)
LEMMA CommitKeeps ==
    ASSUME IInv, NEW a \in Approvals, CommitApproval(a)
    PROVE  IInv'
<1>1. /\ pc[a] = "commit" /\ pc' = [pc EXCEPT ![a] = "done"]
      /\ baseline' = [r \in Runs |->
           IF r = TargetOf[a] THEN "approved"
           ELSE IF r \in superseded[a] THEN "superseded" ELSE baseline[r]]
      /\ Release(a)
  BY DEF CommitApproval, Goto
<1>2. BaselineType /\ BaselineType'
  BY <1>1, ReleaseFrees DEF IInv, BaselineType, BaselineStates
<1>3. \A b \in Approvals \ {a} :
         /\ pc'[b] = pc[b] /\ superseded'[b] = superseded[b]
         /\ found'[b] = found[b]
  BY <1>1, <1>2, ReleaseFrees DEF BaselineType
<1>4. /\ pc'[a] = "done" /\ superseded'[a] = {} /\ found'[a] = {}
      /\ \A r \in Runs : lock[r] # a => lock'[r] = lock[r]
  BY <1>1, <1>2, ReleaseFrees DEF BaselineType
<1>5. /\ lock[TargetOf[a]] = a
      /\ \A r \in superseded[a] : lock[r] = a
      /\ \A r \in Runs : lock[r] # a => baseline'[r] = baseline[r]
  BY <1>1, <1>2 DEF IInv, TargetHeld, SupersededHeld, BaselineType
<1>6. SupersededHeld'
  BY <1>2, <1>3, <1>4, <1>5 DEF IInv, SupersededHeld, BaselineType
<1>7. TargetHeld'
  BY <1>1, <1>2, <1>3, <1>4, <1>5, ReleaseGateAssumption
     DEF IInv, TargetHeld, BaselineType, BaselineStates
<1>8. ReadyToCommit'
  <2> SUFFICES ASSUME NEW b \in Approvals, pc'[b] = "commit"
               PROVE  /\ TargetOf[b] \notin superseded'[b]
                      /\ baseline'[TargetOf[b]] # "superseded"
                      /\ \A r \in Runs :
                           /\ ScopeOf[r] = ScopeOf[TargetOf[b]]
                           /\ baseline'[r] = "approved"
                           => r \in superseded'[b] \cup {TargetOf[b]}
                      /\ \A c \in Approvals :
                           /\ pc'[c] = "commit"
                           /\ ScopeOf[TargetOf[c]] = ScopeOf[TargetOf[b]]
                           => c = b
    BY DEF ReadyToCommit
  <2>1. b # a /\ pc[b] = "commit" /\ superseded'[b] = superseded[b]
    BY <1>3, <1>4
  <2>2. ScopeOf[TargetOf[b]] # ScopeOf[TargetOf[a]]
    BY <2>1, <1>1 DEF IInv, ReadyToCommit
  <2>3. TargetOf[b] \in Runs /\ TargetOf[a] \in Runs
    BY ReleaseGateAssumption
  <2>4. \A r \in Runs : ScopeOf[r] = ScopeOf[TargetOf[b]] =>
                          baseline'[r] = baseline[r]
    BY <1>1, <2>2, <2>3 DEF IInv, SupersededHeld
  <2>5. \A c \in Approvals : pc'[c] = "commit" => pc[c] = "commit"
    BY <1>3, <1>4
  <2> QED BY <2>1, <2>3, <2>4, <2>5 DEF IInv, ReadyToCommit
<1>9. OneApproved'
  <2>1. \A r \in Runs : baseline'[r] = "approved" =>
           \/ r = TargetOf[a]
           \/ baseline[r] = "approved" /\ ScopeOf[r] # ScopeOf[TargetOf[a]]
    BY <1>1 DEF IInv, ReadyToCommit
  <2> QED BY <2>1 DEF IInv, OneApproved
<1> QED BY <1>2, <1>6, <1>7, <1>8, <1>9 DEF IInv

(* Steps of an approval on its own rows, and steps around it.              *)
LEMMA FindKeeps ==
    ASSUME IInv, NEW a \in Approvals, OpenApproval(a) \/ FindApproved(a)
    PROVE  IInv'
<1>1. CASE OpenApproval(a)
  BY <1>1 DEF OpenApproval, Goto, IInv, BaselineType, SupersededHeld,
              TargetHeld, ReadyToCommit, OneApproved
<1>2. CASE FindApproved(a)
  <2>1. /\ pc[a] = "find" /\ pc' = [pc EXCEPT ![a] = "supersede"]
        /\ found' = [found EXCEPT ![a] = Approved(ScopeOfTarget(a))]
        /\ UNCHANGED <<baseline, lock, superseded>>
    BY <1>2 DEF FindApproved, Goto
  <2>2. \A r \in Approved(ScopeOfTarget(a)) :
           r \in Runs /\ ScopeOf[r] = ScopeOf[TargetOf[a]]
    BY DEF Approved, ScopeOfTarget
  <2> QED BY <2>1, <2>2 DEF IInv, BaselineType, SupersededHeld, TargetHeld,
                            ReadyToCommit, OneApproved
<1> QED BY <1>1, <1>2

LEMMA SupersedeKeeps ==
    ASSUME IInv, NEW a \in Approvals, Supersede(a)
    PROVE  IInv'
<1> DEFINE still == {r \in found[a] : baseline[r] = "approved"}
<1>1. /\ pc[a] = "supersede" /\ pc' = [pc EXCEPT ![a] = "lock"]
      /\ \A r \in found[a] : lock[r] = Nobody
      /\ superseded' = [superseded EXCEPT ![a] = still]
      /\ lock' = [r \in Runs |-> IF r \in still THEN a ELSE lock[r]]
      /\ UNCHANGED <<baseline, found>>
  BY DEF Supersede, Goto
<1>2. still \subseteq found[a] /\ found[a] \subseteq Runs
  BY DEF IInv, BaselineType
<1>3. \A r \in still : /\ lock[r] = Nobody /\ baseline[r] = "approved"
                       /\ ScopeOf[r] = ScopeOf[TargetOf[a]]
  BY <1>1, <1>2 DEF IInv, TargetHeld
<1> HIDE DEF still
<1>4. BaselineType'
  BY <1>1, <1>2 DEF IInv, BaselineType
<1>5. \A r \in Runs : lock[r] \in Approvals => lock'[r] = lock[r]
  BY <1>1, <1>3, ReleaseGateAssumption
<1>6. /\ superseded'[a] = still /\ pc'[a] = "lock"
      /\ \A b \in Approvals \ {a} :
           superseded'[b] = superseded[b] /\ pc'[b] = pc[b]
      /\ \A r \in still : lock'[r] = a
  BY <1>1, <1>2 DEF IInv, BaselineType
<1>7. SupersededHeld'
  BY <1>1, <1>3, <1>5, <1>6 DEF IInv, SupersededHeld, BaselineType
<1>8. TargetHeld'
  BY <1>1, <1>5, <1>6, ReleaseGateAssumption DEF IInv, TargetHeld
<1>9. ReadyToCommit' /\ OneApproved'
  BY <1>1, <1>6 DEF IInv, ReadyToCommit, OneApproved
<1> QED BY <1>4, <1>7, <1>8, <1>9 DEF IInv

LEMMA LockKeeps ==
    ASSUME IInv, NEW a \in Approvals, LockTarget(a)
    PROVE  IInv'
<1>1. /\ pc[a] = "lock" /\ pc' = [pc EXCEPT ![a] = "index"]
      /\ lock[TargetOf[a]] \in {a, Nobody}
      /\ lock' = [lock EXCEPT ![TargetOf[a]] = a]
      /\ UNCHANGED <<baseline, found, superseded>>
  BY DEF LockTarget, Goto
<1>2. TargetOf[a] \in Runs
  BY ReleaseGateAssumption
<1>3. BaselineType'
  BY <1>1, <1>2 DEF IInv, BaselineType
<1>4. /\ \A r \in Runs : lock[r] \in Approvals => lock'[r] = lock[r]
      /\ lock'[TargetOf[a]] = a /\ pc'[a] = "index"
      /\ \A b \in Approvals \ {a} : pc'[b] = pc[b]
  BY <1>1, <1>2, ReleaseGateAssumption DEF IInv, BaselineType
<1>5. SupersededHeld'
  BY <1>1, <1>4 DEF IInv, SupersededHeld, BaselineType
<1>6. TargetHeld'
  BY <1>1, <1>4, ReleaseGateAssumption DEF IInv, TargetHeld
<1>7. ReadyToCommit' /\ OneApproved'
  BY <1>1, <1>4 DEF IInv, ReadyToCommit, OneApproved
<1> QED BY <1>3, <1>5, <1>6, <1>7 DEF IInv

(* The unique index admits an approval only if no other row of its scope   *)
(* is approved and nobody else is about to commit one.                     *)
LEMMA ApproveKeeps ==
    ASSUME IInv, NEW a \in Approvals, Approve(a)
    PROVE  IInv'
<1>1. /\ pc[a] = "index" /\ pc' = [pc EXCEPT ![a] = "commit"]
      /\ ~WasSuperseded(a) /\ InDoubt(a) = {} /\ Rivals(a) = {}
      /\ UNCHANGED <<baseline, lock, found, superseded>>
  BY DEF Approve, Goto, IndexAdmits
<1>2. /\ pc'[a] = "commit"
      /\ \A b \in Approvals \ {a} : pc'[b] = pc[b]
  BY <1>1 DEF IInv, BaselineType
<1>3. BaselineType' /\ SupersededHeld' /\ TargetHeld'
  BY <1>1, <1>2 DEF IInv, BaselineType, SupersededHeld, TargetHeld
<1>4. /\ TargetOf[a] \notin superseded[a]
      /\ baseline[TargetOf[a]] # "superseded"
  BY <1>1 DEF WasSuperseded
<1>5. \A r \in Runs : /\ ScopeOf[r] = ScopeOf[TargetOf[a]]
                     /\ baseline[r] = "approved"
                     => r \in superseded[a] \cup {TargetOf[a]}
  BY <1>1 DEF Rivals, Approved, ScopeOfTarget
<1>6. \A b \in Approvals \ {a} :
         pc[b] = "commit" => ScopeOf[TargetOf[b]] # ScopeOf[TargetOf[a]]
  BY <1>1 DEF InDoubt, ScopeOfTarget
<1>7. ReadyToCommit' /\ OneApproved'
  BY <1>1, <1>2, <1>4, <1>5, <1>6 DEF IInv, ReadyToCommit, OneApproved
<1> QED BY <1>3, <1>7 DEF IInv

LEMMA CreateKeeps ==
    ASSUME IInv, NEW r \in Runs, CreateBaseline(r)
    PROVE  IInv'
<1>1. /\ baseline[r] = "none"
      /\ baseline' = [baseline EXCEPT ![r] = "pending_approval"]
      /\ UNCHANGED <<lock, pc, found, superseded>>
  BY DEF CreateBaseline, approvalVars
<1>2. BaselineType'
  BY <1>1 DEF IInv, BaselineType, BaselineStates
<1>3. \A q \in Runs : q = r \/ baseline'[q] = baseline[q]
  BY <1>1 DEF IInv, BaselineType
<1>4. baseline'[r] = "pending_approval"
  BY <1>1 DEF IInv, BaselineType
<1>5. SupersededHeld' /\ TargetHeld'
  BY <1>1, <1>3, <1>4, ReleaseGateAssumption
     DEF IInv, SupersededHeld, TargetHeld, BaselineType
<1>6. ReadyToCommit' /\ OneApproved'
  BY <1>1, <1>3, <1>4, ReleaseGateAssumption
     DEF IInv, ReadyToCommit, OneApproved, BaselineType
<1> QED BY <1>2, <1>5, <1>6 DEF IInv

LEMMA UnchangedKeeps ==
    ASSUME IInv, UNCHANGED <<baseline, lock, pc, found, superseded>>
    PROVE  IInv'
BY DEF IInv, BaselineType, SupersededHeld, TargetHeld, ReadyToCommit,
       OneApproved

LEMMA StepKeeps == IInv /\ [Next]_vars => IInv'
<1> SUFFICES ASSUME IInv, [Next]_vars PROVE IInv'
  OBVIOUS
<1>1. CASE \E r \in Runs : FinishRun(r) \/ CreateBaseline(r)
  BY <1>1, CreateKeeps, UnchangedKeeps DEF FinishRun, approvalVars
<1>2. CASE \E v \in Versions : PublishPolicyVersion(v)
  BY <1>2, UnchangedKeeps DEF PublishPolicyVersion, approvalVars
<1>3. ASSUME NEW a \in Approvals, OpenApproval(a) \/ ApprovalStep(a)
      PROVE  IInv'
  BY <1>3, FindKeeps, SupersedeKeeps, LockKeeps, ApproveKeeps, CommitKeeps,
     AbortKeeps DEF ApprovalStep, RefuseApproval, BreakDeadlock
<1>4. ASSUME NEW a \in Approvals, LoseApproval(a) PROVE IInv'
  BY <1>4, AbortKeeps DEF LoseApproval
<1>5. CASE \E g \in Gates : OpenGate(g) \/ ReadBaseline(g) \/ Decide(g)
  BY <1>5, UnchangedKeeps DEF OpenGate, ReadBaseline, Decide, approvalVars
<1>6. CASE UNCHANGED vars
  BY <1>6, UnchangedKeeps DEF vars, approvalVars
<1> QED BY <1>1, <1>2, <1>3, <1>4, <1>5, <1>6 DEF Next

(* The inductive invariant holds in every reachable state.                 *)
THEOREM ApprovalInvariant == Spec => []IInv
BY InitInvariant, StepKeeps, PTL DEF Spec

-----------------------------------------------------------------------------
(* A commit of an approval replaces the scope's baseline in one step, or   *)
(* approves again what is approved.                                        *)
LEMMA CommitReplaces ==
    ASSUME IInv, NEW a \in Approvals, CommitApproval(a)
    PROVE  [Scope!ScopesNext]_<<[s \in Scopes |-> Approved(s)],
                                {r \in Runs : baseline[r] = "superseded"}>>
<1> DEFINE t == TargetOf[a]
           old == superseded[a]
           gone == {r \in Runs : baseline[r] = "superseded"}
<1>1. /\ pc[a] = "commit"
      /\ baseline' = [r \in Runs |->
           IF r = t THEN "approved"
           ELSE IF r \in old THEN "superseded" ELSE baseline[r]]
  BY DEF CommitApproval
<1>2. t \in Runs /\ ScopeOf[t] \in Scopes
  BY ReleaseGateAssumption
<1>3. /\ t \notin old /\ baseline[t] # "superseded"
      /\ \A r \in Runs : ScopeOf[r] = ScopeOf[t] /\ baseline[r] = "approved"
                         => r \in old \cup {t}
  BY <1>1 DEF IInv, ReadyToCommit
<1>4. /\ old \subseteq Runs
      /\ \A r \in old : baseline[r] = "approved" /\ ScopeOf[r] = ScopeOf[t]
  BY DEF IInv, BaselineType, SupersededHeld
<1> HIDE DEF t, old
<1>5. Approved(ScopeOf[t])' = {t}
  BY <1>1, <1>2, <1>3, <1>4 DEF Approved
<1>6. \A s \in Scopes : s # ScopeOf[t] => Approved(s)' = Approved(s)
  BY <1>1, <1>4 DEF Approved
<1>7. gone' = gone \cup old
  BY <1>1, <1>2, <1>3, <1>4 DEF gone
<1>8. CASE baseline[t] = "approved"
  <2>1. old = {}
    BY <1>2, <1>3, <1>4, <1>8 DEF IInv, OneApproved
  <2>2. Approved(ScopeOf[t]) = {t}
    BY <1>2, <1>3, <1>8, <2>1 DEF Approved
  <2>3. [s \in Scopes |-> Approved(s)]' = [s \in Scopes |-> Approved(s)]
    BY <1>5, <1>6, <2>2
  <2> QED BY <1>7, <2>1, <2>3 DEF gone
<1>9. CASE baseline[t] # "approved"
  <2>1. Approved(ScopeOf[t]) = old
    BY <1>3, <1>4, <1>9 DEF Approved
  <2>2. t \notin gone \cup Approved(ScopeOf[t])
    BY <1>3, <2>1 DEF gone
  <2>3. [s \in Scopes |-> Approved(s)]'
          = [[s \in Scopes |-> Approved(s)] EXCEPT ![ScopeOf[t]] = {t}]
    BY <1>2, <1>5, <1>6
  <2>4. Scope!Replace(t)
    BY <1>2, <1>7, <2>1, <2>2, <2>3 DEF Scope!Replace, gone
  <2> QED BY <1>2, <2>4 DEF Scope!ScopesNext, gone
<1> QED BY <1>8, <1>9

LEMMA RowsDecide ==
    ASSUME UNCHANGED baseline
    PROVE  UNCHANGED <<[s \in Scopes |-> Approved(s)],
                       {r \in Runs : baseline[r] = "superseded"}>>
BY DEF Approved

LEMMA StepReplaces ==
    IInv /\ [Next]_vars =>
      [Scope!ScopesNext]_<<[s \in Scopes |-> Approved(s)],
                           {r \in Runs : baseline[r] = "superseded"}>>
<1> SUFFICES ASSUME IInv, [Next]_vars
             PROVE  [Scope!ScopesNext]_<<[s \in Scopes |-> Approved(s)],
                         {r \in Runs : baseline[r] = "superseded"}>>
  OBVIOUS
<1>1. CASE \E r \in Runs : FinishRun(r)
  BY <1>1, RowsDecide DEF FinishRun
<1>2. ASSUME NEW r \in Runs, CreateBaseline(r)
      PROVE  UNCHANGED <<[s \in Scopes |-> Approved(s)],
                         {q \in Runs : baseline[q] = "superseded"}>>
  BY <1>2 DEF CreateBaseline, Approved, IInv, BaselineType
<1>3. CASE \E v \in Versions : PublishPolicyVersion(v)
  BY <1>3, RowsDecide DEF PublishPolicyVersion
<1>4. CASE \E a \in Approvals : CommitApproval(a)
  BY <1>4, CommitReplaces
<1>5. ASSUME NEW a \in Approvals,
             OpenApproval(a) \/ ApprovalStep(a) \/ LoseApproval(a),
             ~CommitApproval(a)
      PROVE  UNCHANGED baseline
  BY <1>5 DEF OpenApproval, ApprovalStep, LoseApproval, FindApproved,
              Supersede, LockTarget, Approve, RefuseApproval, BreakDeadlock,
              Abort
<1>6. CASE \E g \in Gates : OpenGate(g) \/ ReadBaseline(g) \/ Decide(g)
  BY <1>6, RowsDecide DEF OpenGate, ReadBaseline, Decide
<1>7. CASE UNCHANGED vars
  BY <1>7, RowsDecide DEF vars
<1> QED BY <1>1, <1>2, <1>3, <1>4, <1>5, <1>6, <1>7, RowsDecide DEF Next

LEMMA InitMaps == Init => Scope!ScopesInit
BY ReleaseGateAssumption DEF Init, Scope!ScopesInit, Approved

(* Whatever approvals overlap, fail or are repeated, a scope's baseline is *)
(* replaced in one step, is never withdrawn and never comes back           *)
(* (approve_baseline: "Two statements, never two transactions").           *)
THEOREM ScopesImplemented == Spec => ImplementsScopes
<1>1. Spec => []IInv
  BY ApprovalInvariant
<1> QED BY <1>1, InitMaps, StepReplaces, PTL
           DEF Spec, ImplementsScopes, Scope!ScopesSpec

-----------------------------------------------------------------------------
LEMMA CommitApproves ==
    ASSUME IInv, NEW a \in Approvals, CommitApproval(a), NEW s \in Scopes
    PROVE  Approved(s)' = IF s = ScopeOf[TargetOf[a]] THEN {TargetOf[a]}
                          ELSE Approved(s)
<1> DEFINE t == TargetOf[a]
           old == superseded[a]
<1>1. /\ pc[a] = "commit"
      /\ baseline' = [r \in Runs |->
           IF r = t THEN "approved"
           ELSE IF r \in old THEN "superseded" ELSE baseline[r]]
  BY DEF CommitApproval
<1>2. t \in Runs
  BY ReleaseGateAssumption
<1>3. \A r \in Runs : ScopeOf[r] = ScopeOf[t] /\ baseline[r] = "approved"
                      => r \in old \cup {t}
  BY <1>1 DEF IInv, ReadyToCommit
<1>4. \A r \in old : ScopeOf[r] = ScopeOf[t]
  BY DEF IInv, SupersededHeld
<1> HIDE DEF t, old
<1>5. CASE s = ScopeOf[t]
  BY <1>1, <1>2, <1>3, <1>5 DEF Approved, t
<1>6. CASE s # ScopeOf[t]
  BY <1>1, <1>4, <1>6 DEF Approved, t
<1> QED BY <1>5, <1>6 DEF t

GateType ==
    /\ gate \in [Gates -> {"idle", "baseline", "decide", "done", "refused"}]
    /\ cited \in [Gates -> Runs \cup {Nobody}]
    /\ decisions \subseteq
         [gate : Gates, baseline : Runs \cup {Nobody},
          outcome : {"pass", "hard_fail", "not_comparable"}]
    /\ inForce \in [Gates -> SUBSET Runs]
    /\ without \subseteq Gates

(* While a gate request runs, what is approved in its scope is known to be *)
(* in force, and unless it began without a baseline there is one.          *)
GateSees ==
    \A g \in Gates : gate[g] \in {"baseline", "decide"} =>
        /\ Approved(ScopeOf[CandidateOf[g]]) \subseteq inForce[g]
        /\ Approved(ScopeOf[CandidateOf[g]]) = {} => g \in without

GateCites ==
    \A g \in Gates :
        /\ gate[g] \in {"idle", "baseline"} => cited[g] = Nobody
        /\ gate[g] = "decide" /\ NamedBy[g] = Nobody =>
             IF cited[g] = Nobody THEN g \in without
             ELSE cited[g] \in inForce[g]

Decided == \A d \in decisions : gate[d.gate] = "done"

GInv == /\ GateType /\ GateSees /\ GateCites /\ Decided
        /\ UnnamedGateFindsBaseline

LEMMA InitGates == Init => GInv
BY ReleaseGateAssumption
   DEF Init, GInv, GateType, GateSees, GateCites, Decided,
       UnnamedGateFindsBaseline

(* An approval's commit adds to what is in force and empties no scope.     *)
LEMMA CommitShows ==
    ASSUME IInv, GInv, NEW a \in Approvals, CommitApproval(a)
    PROVE  GInv'
<1>1. /\ UNCHANGED <<gate, cited, decisions, without>>
      /\ inForce' = [g \in Gates |->
           IF gate[g] = "idle" THEN {}
           ELSE inForce[g] \cup
                  {r \in Runs : /\ ScopeOf[r] = ScopeOf[CandidateOf[g]]
                                /\ baseline'[r] = "approved"}]
  BY DEF CommitApproval, Observe
<1>2. GateType'
  BY <1>1 DEF GInv, GateType
<1>3. \A g \in Gates : gate[g] # "idle" =>
         /\ inForce[g] \subseteq inForce'[g]
         /\ Approved(ScopeOf[CandidateOf[g]])' \subseteq inForce'[g]
  BY <1>1 DEF Approved
<1>4. \A g \in Gates : Approved(ScopeOf[CandidateOf[g]])' = {} =>
                        Approved(ScopeOf[CandidateOf[g]]) = {}
  BY CommitApproves, ReleaseGateAssumption
<1>5. GateSees'
  BY <1>1, <1>3, <1>4 DEF GInv, GateSees
<1>6. GateCites'
  BY <1>1, <1>3 DEF GInv, GateCites
<1>7. Decided' /\ UnnamedGateFindsBaseline'
  <2>1. \A d \in decisions : d.gate \in Gates /\ gate[d.gate] = "done"
    BY DEF GInv, GateType, Decided
  <2> QED BY <1>1, <1>3, <2>1 DEF GInv, Decided, UnnamedGateFindsBaseline
<1> QED BY <1>2, <1>5, <1>6, <1>7 DEF GInv

LEMMA OpenShows ==
    ASSUME GInv, NEW g \in Gates, OpenGate(g)
    PROVE  GInv'
<1> DEFINE now == Approved(ScopeOf[CandidateOf[g]])
           next == IF policy[PolicyOf[g]] = "published"
                   THEN "baseline" ELSE "refused"
<1>1. /\ gate[g] = "idle" /\ gate' = [gate EXCEPT ![g] = next]
      /\ inForce' = [inForce EXCEPT ![g] = now]
      /\ without' = IF now = {} THEN without \cup {g} ELSE without
      /\ UNCHANGED <<baseline, cited, decisions>>
  BY DEF OpenGate
<1>2. now \subseteq Runs /\ next \in {"baseline", "refused"}
  BY DEF Approved
<1>3. GateType'
  BY <1>1, <1>2 DEF GInv, GateType
<1>4. /\ \A h \in Gates \ {g} : gate'[h] = gate[h] /\ inForce'[h] = inForce[h]
      /\ gate'[g] = next /\ inForce'[g] = now
      /\ without \subseteq without'
  BY <1>1 DEF GInv, GateType
<1>5. \A s \in Scopes : Approved(s)' = Approved(s)
  BY <1>1 DEF Approved
<1>6. CandidateOf \in [Gates -> Runs] /\ ScopeOf \in [Runs -> Scopes]
  BY ReleaseGateAssumption
<1>7. \A h \in Gates : Approved(ScopeOf[CandidateOf[h]])'
                        = Approved(ScopeOf[CandidateOf[h]])
  BY <1>5, <1>6
<1>8. GateSees'
  <2> SUFFICES ASSUME NEW h \in Gates, gate'[h] \in {"baseline", "decide"}
               PROVE  /\ Approved(ScopeOf[CandidateOf[h]])' \subseteq inForce'[h]
                      /\ Approved(ScopeOf[CandidateOf[h]])' = {} =>
                           h \in without'
    BY DEF GateSees
  <2>1. CASE h = g
    BY <1>1, <1>4, <1>7, <2>1
  <2>2. CASE h # g
    BY <1>4, <1>7, <2>2 DEF GInv, GateSees
  <2> QED BY <2>1, <2>2
<1>9. GateCites'
  BY <1>1, <1>2, <1>4 DEF GInv, GateCites
<1>10. Decided' /\ UnnamedGateFindsBaseline'
  <2>1. \A d \in decisions : d.gate \in Gates /\ d.gate # g
    BY <1>1 DEF GInv, GateType, Decided
  <2> QED BY <1>1, <1>4, <2>1 DEF GInv, Decided, UnnamedGateFindsBaseline
<1> QED BY <1>3, <1>8, <1>9, <1>10 DEF GInv

LEMMA ReadShows ==
    ASSUME GInv, NEW g \in Gates, ReadBaseline(g)
    PROVE  GInv'
<1>1. /\ gate[g] = "baseline" /\ gate' = [gate EXCEPT ![g] = "decide"]
      /\ UNCHANGED <<baseline, decisions, inForce, without>>
      /\ cited[g] = Nobody
  BY DEF ReadBaseline, GInv, GateCites
<1>2. \/ \E b \in Resolve(g) : cited' = [cited EXCEPT ![g] = b]
      \/ Resolve(g) = {} /\ cited' = cited
  BY DEF ReadBaseline
<1>3. /\ Resolve(g) \subseteq Runs
      /\ NamedBy[g] = Nobody =>
           Resolve(g) = Approved(ScopeOf[CandidateOf[g]])
  BY ReleaseGateAssumption DEF Resolve, Approved
<1>4. GateType'
  BY <1>1, <1>2, <1>3 DEF GInv, GateType
<1>5. /\ \A h \in Gates \ {g} : gate'[h] = gate[h] /\ cited'[h] = cited[h]
      /\ gate'[g] = "decide"
  BY <1>1, <1>2 DEF GInv, GateType
<1>6. GateSees'
  BY <1>1, <1>5 DEF GInv, GateSees, Approved
<1>7. NamedBy[g] = Nobody =>
        IF cited'[g] = Nobody THEN g \in without ELSE cited'[g] \in inForce[g]
  <2>1. CASE \E b \in Resolve(g) : cited' = [cited EXCEPT ![g] = b]
    <3>1. PICK b \in Resolve(g) : cited' = [cited EXCEPT ![g] = b]
      BY <2>1
    <3>2. cited'[g] = b /\ b \in Runs /\ b # Nobody
      BY <1>3, <3>1, ReleaseGateAssumption DEF GInv, GateType
    <3> QED BY <1>1, <1>3, <3>1, <3>2 DEF GInv, GateSees
  <2>2. CASE Resolve(g) = {} /\ cited' = cited
    BY <1>1, <1>3, <2>2 DEF GInv, GateSees
  <2> QED BY <1>2, <2>1, <2>2
<1>8. GateCites'
  BY <1>1, <1>5, <1>7 DEF GInv, GateCites
<1>9. Decided' /\ UnnamedGateFindsBaseline'
  <2>1. \A d \in decisions : d.gate \in Gates /\ d.gate # g
    BY <1>1 DEF GInv, GateType, Decided
  <2> QED BY <1>1, <1>5, <2>1 DEF GInv, Decided, UnnamedGateFindsBaseline
<1> QED BY <1>4, <1>6, <1>8, <1>9 DEF GInv

LEMMA DecideShows ==
    ASSUME GInv, NEW g \in Gates, Decide(g)
    PROVE  GInv'
<1>1. PICK o \in Outcomes(cited[g]) :
         decisions' = decisions \cup
           {[gate |-> g, baseline |-> cited[g], outcome |-> o]}
  BY DEF Decide
<1>2. /\ gate[g] = "decide" /\ gate' = [gate EXCEPT ![g] = "done"]
      /\ UNCHANGED <<baseline, cited, inForce, without>>
  BY DEF Decide
<1>3. o \in {"pass", "hard_fail", "not_comparable"}
  BY <1>1 DEF Outcomes
<1>4. GateType'
  BY <1>1, <1>2, <1>3 DEF GInv, GateType
<1>5. /\ \A h \in Gates \ {g} : gate'[h] = gate[h]
      /\ gate'[g] = "done"
  BY <1>2 DEF GInv, GateType
<1>6. GateSees' /\ GateCites'
  BY <1>2, <1>5 DEF GInv, GateSees, GateCites, Approved
<1>7. \A d \in decisions : d.gate \in Gates
  BY DEF GInv, GateType
<1>8. Decided'
  BY <1>1, <1>5, <1>7 DEF GInv, Decided
<1>9. UnnamedGateFindsBaseline'
  BY <1>1, <1>2 DEF GInv, GateCites, UnnamedGateFindsBaseline
<1> QED BY <1>4, <1>6, <1>8, <1>9 DEF GInv

LEMMA StillShows ==
    ASSUME GInv, UNCHANGED <<gate, cited, decisions, inForce, without>>,
           \A s \in Scopes : Approved(s)' = Approved(s)
    PROVE  GInv'
<1>1. \A g \in Gates : Approved(ScopeOf[CandidateOf[g]])'
                        = Approved(ScopeOf[CandidateOf[g]])
  BY ReleaseGateAssumption
<1> QED BY <1>1 DEF GInv, GateType, GateSees, GateCites, Decided,
                    UnnamedGateFindsBaseline

LEMMA StepShows == IInv /\ GInv /\ [Next]_vars => GInv'
<1> SUFFICES ASSUME IInv, GInv, [Next]_vars PROVE GInv'
  OBVIOUS
<1>1. CASE \E r \in Runs : FinishRun(r)
  BY <1>1, StillShows DEF FinishRun, gateVars, Approved
<1>2. ASSUME NEW r \in Runs, CreateBaseline(r) PROVE GInv'
  <2>1. \A s \in Scopes : Approved(s)' = Approved(s)
    BY <1>2 DEF CreateBaseline, Approved, IInv, BaselineType
  <2> QED BY <1>2, <2>1, StillShows DEF CreateBaseline, gateVars
<1>3. CASE \E v \in Versions : PublishPolicyVersion(v)
  BY <1>3, StillShows DEF PublishPolicyVersion, gateVars, Approved
<1>4. CASE \E a \in Approvals : CommitApproval(a)
  BY <1>4, CommitShows
<1>5. ASSUME NEW a \in Approvals,
             OpenApproval(a) \/ ApprovalStep(a) \/ LoseApproval(a),
             ~CommitApproval(a)
      PROVE  GInv'
  <2>1. UNCHANGED baseline /\ UNCHANGED gateVars
    BY <1>5 DEF OpenApproval, ApprovalStep, LoseApproval, FindApproved,
                Supersede, LockTarget, Approve, RefuseApproval, BreakDeadlock,
                Abort
  <2>2. \A s \in Scopes : Approved(s)' = Approved(s)
    BY <2>1 DEF Approved
  <2> QED BY <2>1, <2>2, StillShows DEF gateVars
<1>6. CASE \E g \in Gates : OpenGate(g) \/ ReadBaseline(g) \/ Decide(g)
  BY <1>6, OpenShows, ReadShows, DecideShows
<1>7. CASE UNCHANGED vars
  BY <1>7, StillShows DEF vars, gateVars, Approved
<1> QED BY <1>1, <1>2, <1>3, <1>4, <1>5, <1>6, <1>7 DEF Next

THEOREM GateInvariant == Spec => [](IInv /\ GInv)
BY InitInvariant, StepKeeps, InitGates, StepShows, PTL DEF Spec

(* A gate that names no baseline never reports that there is none while    *)
(* its scope has one, and compares with one that was in force meanwhile    *)
(* (_evaluate_gate beside any approvals).                                  *)
THEOREM BaselineFound == Spec => []UnnamedGateFindsBaseline
<1>1. GInv => UnnamedGateFindsBaseline
  BY DEF GInv
<1> QED BY <1>1, GateInvariant, PTL

Surroundings ==
    /\ run \in [Runs -> {"running", "complete", "partial"}]
    /\ policy \in [Versions -> {"draft", "published"}]
    /\ crashes \in 0 .. MaxCrashes

LEMMA SurroundingsKept == Surroundings /\ [Next]_vars => Surroundings'
<1> SUFFICES ASSUME Surroundings, [Next]_vars PROVE Surroundings'
  OBVIOUS
<1>1. CASE \E r \in Runs : FinishRun(r) \/ CreateBaseline(r)
  BY <1>1 DEF FinishRun, CreateBaseline, Surroundings
<1>2. CASE \E v \in Versions : PublishPolicyVersion(v)
  BY <1>2 DEF PublishPolicyVersion, Surroundings
<1>3. ASSUME NEW a \in Approvals, OpenApproval(a) \/ ApprovalStep(a)
      PROVE  Surroundings'
  BY <1>3 DEF OpenApproval, ApprovalStep, FindApproved, Supersede, LockTarget,
              Approve, RefuseApproval, BreakDeadlock, CommitApproval, Abort,
              Surroundings
<1>4. ASSUME NEW a \in Approvals, LoseApproval(a) PROVE Surroundings'
  BY <1>4, ReleaseGateAssumption DEF LoseApproval, Abort, Surroundings
<1>5. CASE \E g \in Gates : OpenGate(g) \/ ReadBaseline(g) \/ Decide(g)
  BY <1>5 DEF OpenGate, ReadBaseline, Decide, Surroundings
<1>6. CASE UNCHANGED vars
  BY <1>6 DEF vars, Surroundings
<1> QED BY <1>1, <1>2, <1>3, <1>4, <1>5, <1>6 DEF Next

(* Every variable keeps its type.                                          *)
THEOREM GateTypeCorrect == Spec => []TypeOK
<1>1. Init => Surroundings
  BY ReleaseGateAssumption DEF Init, Surroundings
<1>2. IInv /\ GInv /\ Surroundings => TypeOK
  BY DEF IInv, BaselineType, BaselineStates, GInv, GateType, Surroundings,
         TypeOK
<1> QED BY <1>1, <1>2, SurroundingsKept, GateInvariant, PTL DEF Spec
=============================================================================
