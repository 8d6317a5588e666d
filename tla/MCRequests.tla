----------------------------- MODULE MCRequests -----------------------------
(***************************************************************************)
(* What the API serves besides executions: submissions, gates and          *)
(* approvals, credentials and role bindings, erasures.  The four modules   *)
(* share no variable, so interleaving them adds nothing to what each can   *)
(* do: the initial state picks the one that moves, and the others stay in  *)
(* their initial states.                                                   *)
(***************************************************************************)
EXTENDS MCRunAdmission, MCReleaseGate, MCAccess, MCContentErasure

VARIABLE part            \* the module that moves

AdmissionPart ==
    /\ part = "admission" /\ AdmissionNext
    /\ UNCHANGED <<vars, accessVars, contentVars, part>>

GatePart ==
    /\ part = "gate" /\ Next
    /\ UNCHANGED <<admissionVars, accessVars, contentVars, part>>

AccessPart ==
    /\ part = "access" /\ AccessNext
    /\ UNCHANGED <<admissionVars, vars, contentVars, part>>

ErasurePart ==
    /\ part = "erasure" /\ ErasureNext
    /\ UNCHANGED <<admissionVars, vars, accessVars, part>>

(* Deadlock is looked for in submissions, which all end; where the others  *)
(* stop is a matter of what is asked of them.                              *)
Rest ==
    /\ part # "admission"
    /\ UNCHANGED <<admissionVars, vars, accessVars, contentVars, part>>

PartsInit ==
    /\ AdmissionInit /\ Init /\ AccessInit /\ ErasureInit
    /\ part \in {"admission", "gate", "access", "erasure"}

PartsNext == AdmissionPart \/ GatePart \/ AccessPart \/ ErasurePart \/ Rest

(* The fairness of each module, owed only while it is the one that moves.  *)
PartsFairness ==
    /\ \A a \in Submitters : WF_admissionVars(part = "admission" /\ Step(a))
    /\ \A s \in Sweeps : WF_admissionVars(part = "admission" /\ Enqueue(s))
    /\ \A a \in Approvals : WF_vars(part = "gate" /\ ApprovalStep(a))
    /\ \A q \in Requests : WF_accessVars(part = "access" /\ RequestStep(q))
    /\ \A r \in DatasetRuns : WF_contentVars(part = "erasure" /\ CommitRun(r))
    /\ \A e \in Erasures : WF_contentVars(part = "erasure" /\ ErasureStep(e))

PartsSpec ==
    /\ PartsInit
    /\ [][PartsNext]_<<admissionVars, vars, accessVars, contentVars, part>>
    /\ PartsFairness
=============================================================================
