----------------------------- MODULE PlanReview -----------------------------
(***************************************************************************)
(* An evaluation plan between its draft and its acceptance.                *)
(*                                                                         *)
(*   agents/planner.py       the plan, its digest, amend, accept           *)
(*   agents/repository.py    the rows and the transitions                  *)
(*   api/agentic_service.py  a request: read, rebuild, amend or accept     *)
(*                                                                         *)
(* A request reads the plan, rebuilds it from the rows, reads it again and *)
(* writes, in one READ COMMITTED transaction.  What a plan says is not     *)
(* modelled but how its costs are written down is, since the digest covers *)
(* the text of every cost: a decimal drafted as "0.001" comes back from a  *)
(* numeric(18, 9) column as "0.001000000".                                 *)
(***************************************************************************)
EXTENDS FiniteSets

CONSTANTS Amendments, Acceptances,   \* requests
          ValidDrafts,               \* does the draft validate?
          NoRequest

VARIABLES plan,        \* the row: state, digest, validity, accepted_by
          stepsUnder,  \* digests under which plan_step rows are committed
          adding,      \* digests whose step rows are uncommitted, by request
          amended,     \* amendments committed: request and prior digest
          rowLock,     \* who has updated the row and not ended
          request      \* per request: phase and what it read

planVars == <<plan, stepsUnder, adding, amended, rowLock, request>>

PlanRequests == Amendments \cup Acceptances

(* A request amends the plan or accepts it, and none is the absent one.    *)
ASSUME PlanReviewAssumption ==
    /\ Amendments \cap Acceptances = {} /\ NoRequest \notin PlanRequests
    /\ ValidDrafts \subseteq BOOLEAN

Forms == {"drafted", "stored"}     \* how the costs were written

NewRequest == [phase |-> "new", read |-> "drafted", reread |-> "drafted",
               state |-> "draft", outcome |-> "none"]

PlanInit ==
    /\ plan \in [state : {"draft"}, digest : {"drafted"}, valid : ValidDrafts,
                 acceptedBy : {NoRequest}]
    /\ stepsUnder = {"drafted"} /\ adding = [q \in PlanRequests |-> {}]
    /\ amended = {} /\ rowLock = NoRequest
    /\ request = [q \in PlanRequests |-> NewRequest]

Move(q, phase, outcome) ==
    request' = [request EXCEPT ![q].phase = phase, ![q].outcome = outcome]

KeepDigest(d) == d                                \* mutant of Rehydrated

(* _rehydrate: the digest of the plan rebuilt from the rows of digest d.   *)
Rehydrated(d) == "stored"

(* get, _rehydrate and the planner's amend or accept, which refuse a plan  *)
(* that is settled; accept also one that does not validate.                *)
ReadPlan(q) ==
    /\ request[q].phase = "new"
    /\ IF plan.state # "draft" \/ (q \in Acceptances /\ ~plan.valid)
       THEN Move(q, "end", "refused")
       ELSE request' = [request EXCEPT ![q].phase = "reread",
                                       ![q].read = Rehydrated(plan.digest)]
    /\ UNCHANGED <<plan, stepsUnder, adding, amended, rowLock>>

(* The repository's own look at the row, before it writes.                 *)
RereadPlan(q) ==
    /\ request[q].phase = "reread"
    /\ IF plan.state # "draft" THEN Move(q, "end", "settled")
       ELSE IF q \in Acceptances /\ request[q].read # plan.digest
       THEN Move(q, "end", "not the stored plan")
       ELSE request' = [request EXCEPT
                          ![q].phase = IF q \in Acceptances THEN "update" ELSE "steps",
                          ![q].reread = plan.digest]
    /\ UNCHANGED <<plan, stepsUnder, adding, amended, rowLock>>

NeedsSteps(q) == request[q].read # request[q].reread

(* _write_steps: nothing when the digest is the row's; otherwise it waits  *)
(* for whoever is writing the same rows.  trg_plan_step__frozen_with_its_  *)
(* plan refuses them on a settled plan, uq_plan_step__order a second time. *)
WriteSteps(q) ==
    /\ request[q].phase = "steps"
    /\ NeedsSteps(q) => \A o \in PlanRequests \ {q} : request[q].read \notin adding[o]
    /\ IF NeedsSteps(q) /\ plan.state # "draft" THEN Move(q, "end", "frozen")
       ELSE IF NeedsSteps(q) /\ request[q].read \in stepsUnder
       THEN Move(q, "end", "duplicate")
       ELSE Move(q, "update", "none")
    /\ adding' = [adding EXCEPT ![q] = IF NeedsSteps(q) /\ request'[q].phase = "update"
                                       THEN {request[q].read} ELSE {}]
    /\ UNCHANGED <<plan, stepsUnder, amended, rowLock>>

SettleAgain == FALSE                              \* mutant of SettledOnce

(* trg_evaluation_plan__settles_once.                                      *)
SettledOnce == plan.state # "draft"

(* The UPDATE, on the row as it is when its lock is free.                  *)
UpdatePlan(q) ==
    /\ request[q].phase = "update" /\ rowLock = NoRequest
    /\ IF SettledOnce
       THEN /\ Move(q, "end", "refused by trigger")
            /\ adding' = [adding EXCEPT ![q] = {}]
            /\ UNCHANGED rowLock
       ELSE /\ rowLock' = q /\ Move(q, "commit", "none") /\ UNCHANGED adding
    /\ UNCHANGED <<plan, stepsUnder, amended>>

CommitPlan(q) ==
    /\ request[q].phase = "commit"
    /\ plan' = IF q \in Acceptances
               THEN [plan EXCEPT !.state = "accepted", !.acceptedBy = q]
               ELSE [plan EXCEPT !.digest = request[q].read]
    /\ stepsUnder' = stepsUnder \cup adding[q]
    /\ adding' = [adding EXCEPT ![q] = {}]
    /\ amended' = IF q \in Amendments
                  THEN amended \cup {[by |-> q, prior |-> request[q].reread]}
                  ELSE amended
    /\ rowLock' = NoRequest /\ Move(q, "end", "done")

(* The request is lost before its commit.                                  *)
LosePlanRequest(q) ==
    /\ request[q].phase \in {"steps", "update", "commit"}
    /\ adding' = [adding EXCEPT ![q] = {}]
    /\ rowLock' = IF rowLock = q THEN NoRequest ELSE rowLock
    /\ Move(q, "end", "lost")
    /\ UNCHANGED <<plan, stepsUnder, amended>>

PlanNext ==
    \E q \in PlanRequests :
        \/ ReadPlan(q) \/ RereadPlan(q) \/ UpdatePlan(q) \/ CommitPlan(q)
        \/ LosePlanRequest(q)
        \/ (q \in Amendments /\ WriteSteps(q))

PlanSpec == PlanInit /\ [][PlanNext]_planVars

-----------------------------------------------------------------------------
(* What was accepted is what was reviewed, whole, and stays so: it         *)
(* validated, its digest is the one the accepting request rebuilt, its     *)
(* steps are there, the digest before every committed amendment can still  *)
(* be read, and no request touches it again (REQ-F-AG-1).                  *)
AcceptedPlanStands ==
    /\ plan.state = "accepted" =>
         /\ plan.valid
         /\ plan.digest = request[plan.acceptedBy].read
         /\ Cardinality({q \in Acceptances : request[q].outcome = "done"}) = 1
    /\ {plan.digest} \cup {a.prior : a \in amended} \subseteq stepsUnder

(* agentic_service.py, _rehydrate: "an amendment or an acceptance acts on  *)
(* what is actually there".  A plan that validates and that nobody has     *)
(* touched is not refused as "not the plan that is stored".                *)
UntouchedPlanAcceptable ==
    (\E q \in Acceptances : request[q].outcome = "not the stored plan")
      => amended # {}
=============================================================================
