---------------------------- MODULE ReleaseGate ----------------------------
(***************************************************************************)
(* Baselines and the decisions that compare a run with one.                *)
(*                                                                         *)
(*   api/gate_service.py        create_baseline, approve_baseline,         *)
(*                              _evaluate_gate, _record_uncomparable       *)
(*   regression/repository.py   the statements behind them                 *)
(*   07-regression-and-gates    uq_baseline__run, the CHECK on             *)
(*                              superseded_at, the partial unique index    *)
(*                              one_approved_per_scope                     *)
(*                                                                         *)
(* Every request is one READ COMMITTED transaction.  An approval runs two  *)
(* UPDATEs: each finds its rows in what is committed when it starts, waits *)
(* for rows that others have updated, and looks at a row again once the    *)
(* wait is over.  The unique index makes the second UPDATE wait for any    *)
(* transaction that has changed which row of the scope is approved.        *)
(*                                                                         *)
(* A baseline is known by its run: there is one per run at most.           *)
(***************************************************************************)
EXTENDS FiniteSets, Naturals

CONSTANTS Runs,          \* runs that may be baselines or candidates
          Scopes,        \* pairs of a project and a suite version
          ScopeOf,       \* the scope of a run
          Approvals,     \* requests to approve a baseline
          TargetOf,      \* the baseline an approval is about
          Gates,         \* requests to evaluate a gate
          CandidateOf,   \* the run a gate request is about
          NamedBy,       \* the baseline it names, or Nobody
          Versions,      \* gate policy versions
          PolicyOf,      \* the version a gate request cites
          MaxCrashes,    \* bound: lost API processes considered
          Nobody         \* holder of a free lock, absent baseline

ASSUME ReleaseGateAssumption ==
    /\ ScopeOf \in [Runs -> Scopes]
    /\ TargetOf \in [Approvals -> Runs]
    /\ CandidateOf \in [Gates -> Runs]
    /\ NamedBy \in [Gates -> Runs \cup {Nobody}]
    /\ PolicyOf \in [Gates -> Versions]
    /\ Nobody \notin Runs \cup Approvals
    /\ MaxCrashes \in Nat

VARIABLES run,           \* state of each run, kept by RunExecution
          baseline,      \* state of the baseline of each run
          policy,        \* state of each policy version
          lock,          \* the approval holding each baseline's row
          pc,            \* where each approval is
          found,         \* the rows its first UPDATE found approved
          superseded,    \* the rows it has superseded, not committed
          gate,          \* where each gate request is
          cited,         \* the baseline it compares with
          decisions,     \* recorded decisions, never changed
          crashes,
          inForce,       \* history: baselines approved since a gate began
          without        \* history: gates that began without any

approvalVars == <<lock, pc, found, superseded>>
gateVars == <<gate, cited, decisions, inForce, without>>
vars == <<run, baseline, policy, approvalVars, gateVars, crashes>>

Approved(s) == {r \in Runs : ScopeOf[r] = s /\ baseline[r] = "approved"}

Init ==
    /\ run = [r \in Runs |-> "running"]
    /\ baseline = [r \in Runs |-> "none"]
    /\ policy = [v \in Versions |-> "draft"]
    /\ lock = [r \in Runs |-> Nobody]
    /\ pc = [a \in Approvals |-> "idle"]
    /\ found = [a \in Approvals |-> {}]
    /\ superseded = [a \in Approvals |-> {}]
    /\ gate = [g \in Gates |-> "idle"]
    /\ cited = [g \in Gates |-> Nobody]
    /\ decisions = {}
    /\ crashes = 0
    /\ inForce = [g \in Gates |-> {}]
    /\ without = {}

-----------------------------------------------------------------------------
(* What happens around: runs finish, policy versions are published, and a  *)
(* complete run is proposed as a baseline (a second proposal of the run is *)
(* refused by uq_baseline__run).                                           *)
FinishRun(r) ==
    /\ run[r] = "running"
    /\ \E c \in {"complete", "partial"} : run' = [run EXCEPT ![r] = c]
    /\ UNCHANGED <<baseline, policy, approvalVars, gateVars, crashes>>

(* A version that has criteria; VersionRegistry refuses one that has none. *)
PublishPolicyVersion(v) ==
    /\ policy[v] = "draft"
    /\ policy' = [policy EXCEPT ![v] = "published"]
    /\ UNCHANGED <<run, baseline, approvalVars, gateVars, crashes>>

CreateBaseline(r) ==
    /\ run[r] = "complete" /\ baseline[r] = "none"
    /\ baseline' = [baseline EXCEPT ![r] = "pending_approval"]
    /\ UNCHANGED <<run, policy, approvalVars, gateVars, crashes>>

-----------------------------------------------------------------------------
ScopeOfTarget(a) == ScopeOf[TargetOf[a]]

Goto(a, label) == pc' = [pc EXCEPT ![a] = label]

KeepRowLocks(a) ==                               \* mutant of Release
    /\ found' = [found EXCEPT ![a] = {}]
    /\ superseded' = [superseded EXCEPT ![a] = {}]
    /\ UNCHANGED lock

(* The transaction ends, with or without its effects.                      *)
Release(a) ==
    /\ lock' = [r \in Runs |-> IF lock[r] = a THEN Nobody ELSE lock[r]]
    /\ found' = [found EXCEPT ![a] = {}]
    /\ superseded' = [superseded EXCEPT ![a] = {}]

Abort(a) ==
    /\ Release(a)
    /\ Goto(a, "refused")
    /\ UNCHANGED <<run, baseline, policy, gateVars>>

(* get_baseline; a baseline that is not there is answered with 404.        *)
OpenApproval(a) ==
    /\ pc[a] = "idle"
    /\ Goto(a, IF baseline[TargetOf[a]] = "none" THEN "refused" ELSE "find")
    /\ UNCHANGED <<run, baseline, policy, lock, found, superseded, gateVars,
                   crashes>>

(* The first UPDATE, in two steps: the rows it finds, and, once nobody     *)
(* else is updating them, those that are still approved.                   *)
FindApproved(a) ==
    /\ pc[a] = "find"
    /\ found' = [found EXCEPT ![a] = Approved(ScopeOfTarget(a))]
    /\ Goto(a, "supersede")
    /\ UNCHANGED <<run, baseline, policy, lock, superseded, gateVars, crashes>>

SupersedeAlone(a) ==                             \* mutant of Supersede
    /\ pc[a] = "supersede"
    /\ \A r \in found[a] : lock[r] = Nobody
    /\ baseline' = [r \in Runs |-> IF r \in found[a] /\ baseline[r] = "approved"
                                  THEN "superseded" ELSE baseline[r]]
    /\ Goto(a, "lock")
    /\ UNCHANGED <<run, policy, lock, found, superseded, gateVars, crashes>>

Supersede(a) ==
    /\ pc[a] = "supersede"
    /\ \A r \in found[a] : lock[r] = Nobody
    /\ LET still == {r \in found[a] : baseline[r] = "approved"}
       IN  /\ superseded' = [superseded EXCEPT ![a] = still]
           /\ lock' = [r \in Runs |-> IF r \in still THEN a ELSE lock[r]]
    /\ Goto(a, "lock")
    /\ UNCHANGED <<run, baseline, policy, found, gateVars, crashes>>

(* The second UPDATE: it locks the row of the baseline, whose superseded_at*)
(* it leaves as it is, and enters it in the unique index.                  *)
LockTarget(a) ==
    /\ pc[a] = "lock"
    /\ lock[TargetOf[a]] \in {a, Nobody}
    /\ lock' = [lock EXCEPT ![TargetOf[a]] = a]
    /\ Goto(a, "index")
    /\ UNCHANGED <<run, baseline, policy, found, superseded, gateVars, crashes>>

WasSuperseded(a) ==
    TargetOf[a] \in superseded[a] \/ baseline[TargetOf[a]] = "superseded"

(* Rows of the scope that others hold approved, and the transactions that  *)
(* are about to change that.                                               *)
Rivals(a) == Approved(ScopeOfTarget(a)) \ (superseded[a] \cup {TargetOf[a]})

InDoubt(a) ==
    {b \in Approvals \ {a} :
       \/ superseded[b] \cap Rivals(a) # {}
       \/ pc[b] = "commit" /\ ScopeOfTarget(b) = ScopeOfTarget(a)}

NoIndex(a) == TRUE                               \* mutant of IndexAdmits

IndexAdmits(a) == InDoubt(a) = {} /\ Rivals(a) = {}

Approve(a) ==
    /\ pc[a] = "index"
    /\ ~WasSuperseded(a) /\ IndexAdmits(a)
    /\ Goto(a, "commit")
    /\ UNCHANGED <<run, baseline, policy, lock, found, superseded, gateVars,
                   crashes>>

RefuseApproval(a) ==
    /\ pc[a] = "index"
    /\ WasSuperseded(a) \/ (InDoubt(a) = {} /\ Rivals(a) # {})
    /\ Abort(a)
    /\ UNCHANGED crashes

(* Two approvals of one baseline: one waits in the index for the other,    *)
(* which waits for the row.  The database refuses one of the two.          *)
AwaitsRow(a, b) == pc[a] = "lock" /\ lock[TargetOf[a]] = b

AwaitsIndex(a, b) == pc[a] = "index" /\ ~WasSuperseded(a) /\ b \in InDoubt(a)

BreakDeadlock(a) ==
    /\ \E b \in Approvals \ {a} : \/ AwaitsRow(a, b) /\ AwaitsIndex(b, a)
                                  \/ AwaitsIndex(a, b) /\ AwaitsRow(b, a)
    /\ Abort(a)
    /\ UNCHANGED crashes

(* What the gate requests in progress may see.                             *)
Observe ==
    inForce' = [g \in Gates |->
      IF gate[g] = "idle" THEN {}
      ELSE inForce[g] \cup {r \in Runs : /\ ScopeOf[r] = ScopeOf[CandidateOf[g]]
                                        /\ baseline'[r] = "approved"}]

CommitApproval(a) ==
    /\ pc[a] = "commit"
    /\ baseline' = [r \in Runs |->
         IF r = TargetOf[a] THEN "approved"
         ELSE IF r \in superseded[a] THEN "superseded" ELSE baseline[r]]
    /\ Release(a)
    /\ Goto(a, "done")
    /\ Observe
    /\ UNCHANGED <<run, policy, gate, cited, decisions, without, crashes>>

LoseApproval(a) ==
    /\ pc[a] \notin {"idle", "done", "refused"}
    /\ crashes < MaxCrashes
    /\ crashes' = crashes + 1
    /\ Abort(a)

-----------------------------------------------------------------------------
(* A gate request: the policy version, the run and the baseline are read,  *)
(* then the decision is computed and recorded.                             *)
OpenGate(g) ==
    /\ gate[g] = "idle"
    /\ gate' = [gate EXCEPT ![g] = IF policy[PolicyOf[g]] = "published"
                                   THEN "baseline" ELSE "refused"]
    /\ inForce' = [inForce EXCEPT ![g] = Approved(ScopeOf[CandidateOf[g]])]
    /\ without' = IF Approved(ScopeOf[CandidateOf[g]]) = {}
                  THEN without \cup {g} ELSE without
    /\ UNCHANGED <<run, baseline, policy, approvalVars, cited, decisions,
                   crashes>>

Resolve(g) ==
    IF NamedBy[g] # Nobody THEN {r \in {NamedBy[g]} : baseline[r] # "none"}
    ELSE Approved(ScopeOf[CandidateOf[g]])

ReadBaseline(g) ==
    /\ gate[g] = "baseline"
    /\ \/ \E b \in Resolve(g) : cited' = [cited EXCEPT ![g] = b]
       \/ Resolve(g) = {} /\ UNCHANGED cited
    /\ gate' = [gate EXCEPT ![g] = "decide"]
    /\ UNCHANGED <<run, baseline, policy, approvalVars, decisions, inForce,
                   without, crashes>>

StoreException(b) ==                             \* mutant of Outcomes
    IF b = Nobody THEN {"not_comparable"}
    ELSE {"pass", "hard_fail", "not_comparable", "exception_applied"}

(* What _decision_outcome may return (see GateVerdict), kept to an outcome *)
(* that lets through, one that blocks, and the one recorded without a      *)
(* baseline.                                                               *)
Outcomes(b) ==
    IF b = Nobody THEN {"not_comparable"}
    ELSE {"pass", "hard_fail", "not_comparable"}

Decide(g) ==
    /\ gate[g] = "decide"
    /\ \E o \in Outcomes(cited[g]) :
         decisions' = decisions \cup
           {[gate |-> g, baseline |-> cited[g], outcome |-> o]}
    /\ gate' = [gate EXCEPT ![g] = "done"]
    /\ UNCHANGED <<run, baseline, policy, approvalVars, cited, inForce, without,
                   crashes>>

-----------------------------------------------------------------------------
ApprovalStep(a) ==
    \/ FindApproved(a) \/ Supersede(a)
    \/ LockTarget(a) \/ Approve(a) \/ RefuseApproval(a) \/ BreakDeadlock(a)
    \/ CommitApproval(a)

Next ==
    \/ \E r \in Runs : FinishRun(r) \/ CreateBaseline(r)
    \/ \E v \in Versions : PublishPolicyVersion(v)
    \/ \E a \in Approvals : OpenApproval(a) \/ ApprovalStep(a) \/ LoseApproval(a)
    \/ \E g \in Gates : OpenGate(g) \/ ReadBaseline(g) \/ Decide(g)

Spec == Init /\ [][Next]_vars

(* An approval that was opened goes on: its statements wait only for other *)
(* approvals, and the database breaks their deadlocks.                     *)
FairSpec == Spec /\ \A a \in Approvals : WF_vars(ApprovalStep(a))
-----------------------------------------------------------------------------
TypeOK ==
    /\ run \in [Runs -> {"running", "complete", "partial"}]
    /\ baseline \in [Runs -> {"none", "pending_approval", "approved",
                              "superseded"}]
    /\ policy \in [Versions -> {"draft", "published"}]
    /\ lock \in [Runs -> Approvals \cup {Nobody}]
    /\ pc \in [Approvals -> {"idle", "find", "supersede", "lock", "index",
                             "commit", "done", "refused"}]
    /\ found \in [Approvals -> SUBSET Runs]
    /\ superseded \in [Approvals -> SUBSET Runs]
    /\ gate \in [Gates -> {"idle", "baseline", "decide", "done", "refused"}]
    /\ cited \in [Gates -> Runs \cup {Nobody}]
    /\ decisions \subseteq
         [gate : Gates, baseline : Runs \cup {Nobody},
          outcome : {"pass", "hard_fail", "not_comparable"}]
    /\ crashes \in 0 .. MaxCrashes
    /\ inForce \in [Gates -> SUBSET Runs]
    /\ without \subseteq Gates

(* Approvals that overlap, fail or are repeated never leave a scope with   *)
(* two baselines, never without one, and never bring one back.             *)
Scope == INSTANCE ScopeBaseline WITH
    current <- [s \in Scopes |-> Approved(s)],
    retired <- {r \in Runs : baseline[r] = "superseded"}

ImplementsScopes == Scope!ScopesSpec

(* A gate that names no baseline compares with one that was in force while *)
(* it ran, and records "no approved baseline exists" only if its scope had *)
(* none when it began, however many are being approved meanwhile           *)
(* (approve_baseline: "between them there would be a moment with no        *)
(* approved baseline").                                                    *)
UnnamedGateFindsBaseline ==
    \A d \in decisions : NamedBy[d.gate] = Nobody =>
        IF d.baseline = Nobody THEN d.gate \in without
        ELSE d.baseline \in inForce[d.gate]

(* Every approval that was opened is answered: time and again there is none*)
(* that rows, index or deadlocks between them hold.                        *)
ApprovalsAnswered ==
    []<>(\A a \in Approvals : pc[a] \in {"idle", "done", "refused"})
=============================================================================
