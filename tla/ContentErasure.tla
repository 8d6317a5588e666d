--------------------------- MODULE ContentErasure ---------------------------
(***************************************************************************)
(* Erasure of dataset content, beside the runs that evaluate it and the    *)
(* baselines that rest on it.                                              *)
(*                                                                         *)
(*   security/erasure.py        request_erasure: one READ COMMITTED        *)
(*                              transaction, in the order the schema fixes *)
(*   orchestration/examples.py  a scheduled run reads its content when it  *)
(*                              is executed; a run submitted to the API    *)
(*                              carries its examples in the job            *)
(*   04-artifacts-and-audit     erasure_request                            *)
(*                                                                         *)
(* A content stands for every example with its digest.  An UPDATE finds    *)
(* its rows in what is committed when it starts, waits for the rows others *)
(* have changed, and looks at each again once the wait is over.  Nothing   *)
(* in the source writes artifacts, so an erasure's targets are contents.   *)
(***************************************************************************)
EXTENDS FiniteSets, Naturals

CONSTANTS Contents,      \* digests of dataset content
          DatasetRuns,
          Scheduled,     \* runs whose examples are read at execution
          ContentOf,     \* the content of a run's dataset version
          RunScopeOf,    \* the scope its baseline would hold
          Erasures,      \* erasure requests
          DigestsOf,     \* what a request names
          Overriding,    \* requests that override a baseline's pin
          MaxLosses,     \* bound: lost processes considered
          NoHolder       \* holder of a free lock

StoredRows == DatasetRuns \cup Contents

ASSUME ContentErasureAssumption ==
    /\ DatasetRuns \cap Contents = {}
    /\ Erasures \cap DatasetRuns = {}
    /\ Scheduled \subseteq DatasetRuns
    /\ ContentOf \in [DatasetRuns -> SUBSET Contents]
    /\ DigestsOf \in [Erasures -> SUBSET Contents]
    /\ Overriding \subseteq Erasures
    /\ NoHolder \notin Erasures \cup DatasetRuns
    /\ MaxLosses \in Nat

VARIABLES content,       \* state of each content
          repro,         \* reproducibility of each run
          samples,       \* the content its committed samples were made from
          pin,           \* state of the baseline of each run
          exec,          \* where the executor of each run is
          holder,        \* the erasure or the run that holds each row
          stage,         \* where each erasure is
          live,          \* its targets
          want,          \* rows its current UPDATE has still to reach
          used,          \* erasures recorded as overriding a pin
          losses,
          late,          \* history: runs that recorded content being erased
          newer          \* history: baselines approved since an erasure looked

runVars == <<samples, exec>>
erasureVars == <<stage, live, want, used>>
contentVars == <<content, repro, runVars, pin, holder, erasureVars, losses,
                 late, newer>>

ErasureInit ==
    /\ content = [c \in Contents |-> "present"]
    /\ repro = [r \in DatasetRuns |-> "reproducible"]
    /\ samples = [r \in DatasetRuns |-> {}]
    /\ pin = [r \in DatasetRuns |-> "none"]
    /\ exec = [r \in DatasetRuns |-> "queued"]
    /\ holder = [x \in StoredRows |-> NoHolder]
    /\ stage = [e \in Erasures |-> "idle"]
    /\ live = [e \in Erasures |-> {}]
    /\ want = [e \in Erasures |-> {}]
    /\ used = {}
    /\ losses = 0
    /\ late = {}
    /\ newer = [e \in Erasures |-> {}]

Present == {c \in Contents : content[c] = "present"}
Erased == Contents \ Present

HoldRows(x) == UNCHANGED holder                  \* mutant of FreeRows

(* A transaction ends, of an erasure or of the executor of a run.          *)
FreeRows(x) ==
    holder' = [y \in StoredRows |-> IF holder[y] = x THEN NoHolder
                                  ELSE holder[y]]

-----------------------------------------------------------------------------
(* Runs.  A scheduled one whose content is gone is never executed; another *)
(* one needs nothing of what is stored.                                    *)
Prepare(r) ==
    /\ exec[r] = "queued"
    /\ exec' = [exec EXCEPT ![r] =
                  IF r \in Scheduled /\ ContentOf[r] \cap Erased # {}
                  THEN "raised" ELSE "loaded"]
    /\ UNCHANGED <<content, repro, samples, pin, holder, erasureVars,
                   losses, late, newer>>

(* The executor updates the run's row first and holds it to the end.       *)
Begin(r) ==
    /\ exec[r] = "loaded" /\ holder[r] = NoHolder
    /\ exec' = [exec EXCEPT ![r] = "running"]
    /\ holder' = [holder EXCEPT ![r] = r]
    /\ UNCHANGED <<content, repro, samples, pin, erasureVars, losses,
                   late, newer>>

(* Content that is gone, or is a target of an erasure that has looked for  *)
(* the runs to demote.                                                     *)
Demoting ==
    {e \in Erasures : stage[e] \in {"demote", "destroy", "finish", "failing"}}

Doomed == Erased \cup UNION {live[e] : e \in Demoting}

(* Its samples become visible together, all of them or a budget's worth.   *)
CommitRun(r) ==
    /\ exec[r] = "running"
    /\ \E S \in SUBSET ContentOf[r] :
         /\ samples[r] \subseteq S
         /\ samples' = [samples EXCEPT ![r] = S]
         /\ late' = IF (S \ samples[r]) \cap Doomed # {} THEN late \cup {r}
                    ELSE late
    /\ exec' = [exec EXCEPT ![r] = "done"]
    /\ FreeRows(r)
    /\ UNCHANGED <<content, repro, pin, erasureVars, losses, newer>>

(* The worker is lost, or its acknowledgement: the job is delivered again. *)
LoseWorker(r) ==
    /\ exec[r] \in {"loaded", "running", "done"} /\ losses < MaxLosses
    /\ losses' = losses + 1
    /\ exec' = [exec EXCEPT ![r] = "queued"]
    /\ FreeRows(r)
    /\ UNCHANGED <<content, repro, samples, pin, erasureVars, late, newer>>

(* approve_baseline, for a run that recorded all of its dataset version.   *)
ApproveBaseline(r) ==
    /\ samples[r] = ContentOf[r] /\ pin[r] = "none"
    /\ pin' = [q \in DatasetRuns |->
         IF q = r THEN "approved"
         ELSE IF RunScopeOf[q] = RunScopeOf[r] /\ pin[q] = "approved"
              THEN "superseded" ELSE pin[q]]
    /\ newer' = [e \in Erasures |-> IF stage[e] \in {"idle", "check"} THEN {}
                                    ELSE newer[e] \cup {r}]
    /\ UNCHANGED <<content, repro, runVars, holder, erasureVars, losses, late>>

-----------------------------------------------------------------------------
(* request_erasure.                                                        *)
Enter(e, label) == stage' = [stage EXCEPT ![e] = label]

ReadTargets(e) ==
    /\ stage[e] = "idle"
    /\ live' = [live EXCEPT ![e] = DigestsOf[e] \cap Present]
    /\ Enter(e, IF DigestsOf[e] \cap Present = {} THEN "refused" ELSE "check")
    /\ UNCHANGED <<content, repro, runVars, pin, holder, want, used, losses,
                   late, newer>>

(* _baselines_pinning: approved baselines of runs over a dataset version   *)
(* that contains a target.                                                 *)
Pinning(e) ==
    {r \in DatasetRuns : pin[r] = "approved" /\ ContentOf[r] \cap live[e] # {}}

RefusePinned(e) ==
    /\ stage[e] = "check"
    /\ Pinning(e) # {} /\ e \notin Overriding
    /\ Enter(e, "refused")
    /\ UNCHANGED <<content, repro, runVars, pin, holder, live, want, used,
                   losses, late, newer>>

AcceptUnrecorded(e) ==                           \* mutant of AcceptErasure
    /\ stage[e] = "check"
    /\ Pinning(e) = {} \/ e \in Overriding
    /\ Enter(e, "accepted")
    /\ UNCHANGED <<content, repro, runVars, pin, holder, live, want, used,
                   losses, late, newer>>

AcceptErasure(e) ==
    /\ stage[e] = "check"
    /\ Pinning(e) = {} \/ e \in Overriding
    /\ used' = IF Pinning(e) # {} THEN used \cup {e} ELSE used
    /\ Enter(e, "accepted")
    /\ UNCHANGED <<content, repro, runVars, pin, holder, live, want, losses,
                   late, newer>>

(* Demote: the runs with a sample of a target, those still reproducible.   *)
FindRuns(e) ==
    /\ stage[e] = "accepted"
    /\ want' = [want EXCEPT ![e] =
                  {r \in DatasetRuns : /\ repro[r] = "reproducible"
                                       /\ samples[r] \cap live[e] # {}}]
    /\ Enter(e, "demote")
    /\ UNCHANGED <<content, repro, runVars, pin, holder, live, used, losses,
                   late, newer>>

(* Destroy: the targets that are still present.                            *)
FindContent(e) ==
    /\ stage[e] = "demote" /\ want[e] = {}
    /\ want' = [want EXCEPT ![e] = live[e] \cap Present]
    /\ Enter(e, "destroy")
    /\ UNCHANGED <<content, repro, runVars, pin, holder, live, used, losses,
                   late, newer>>

(* An UPDATE comes to a row: it waits until nobody else holds it, and      *)
(* leaves one alone that no longer matches.                                *)
Matches(x) == IF x \in DatasetRuns THEN repro[x] = "reproducible"
              ELSE content[x] = "present"

SkipLocked(e, x) ==                              \* mutant of UpdateRow
    /\ stage[e] \in {"demote", "destroy"} /\ x \in want[e]
    /\ want' = [want EXCEPT ![e] = want[e] \ {x}]
    /\ holder' = IF Matches(x) /\ holder[x] = NoHolder
                 THEN [holder EXCEPT ![x] = e] ELSE holder
    /\ UNCHANGED <<content, repro, runVars, pin, stage, live, used, losses,
                   late, newer>>

UpdateRow(e, x) ==
    /\ stage[e] \in {"demote", "destroy"} /\ x \in want[e]
    /\ holder[x] = NoHolder
    /\ want' = [want EXCEPT ![e] = want[e] \ {x}]
    /\ holder' = IF Matches(x) THEN [holder EXCEPT ![x] = e] ELSE holder
    /\ UNCHANGED <<content, repro, runVars, pin, stage, live, used, losses,
                   late, newer>>

(* Two erasures, each holding a row the other has still to reach: the      *)
(* database ends one of them.                                              *)
Held(e) == {x \in StoredRows : holder[x] = e}

EndErasure(e) ==
    /\ FreeRows(e)
    /\ Enter(e, "refused")
    /\ want' = [want EXCEPT ![e] = {}]
    /\ UNCHANGED <<live, used>>

BreakCircle(e) ==
    /\ \E f \in Erasures \ {e} : /\ want[e] \cap Held(f) # {}
                                 /\ want[f] \cap Held(e) # {}
    /\ EndErasure(e)
    /\ UNCHANGED <<content, repro, runVars, pin, losses, late, newer>>

(* Verify, by looking: targets that still have a payload.                  *)
Survivors(e) == (live[e] \cap Present) \ Held(e)

Verify(e) ==
    /\ stage[e] = "destroy" /\ want[e] = {}
    /\ Enter(e, IF Survivors(e) = {} THEN "finish" ELSE "failing")
    /\ UNCHANGED <<content, repro, runVars, pin, holder, live, want, used,
                   losses, late, newer>>

DeleteRows(e) ==                                 \* mutant of Publish
    /\ content' = [c \in Contents |-> IF holder[c] = e THEN "deleted"
                                      ELSE content[c]]
    /\ repro' = [r \in DatasetRuns |-> IF holder[r] = e THEN "auditable"
                                      ELSE repro[r]]

(* The effects of the transaction.                                         *)
Publish(e) ==
    /\ content' = [c \in Contents |-> IF holder[c] = e THEN "erased"
                                      ELSE content[c]]
    /\ repro' = [r \in DatasetRuns |-> IF holder[r] = e THEN "auditable"
                                      ELSE repro[r]]

CommitErasure(e) ==
    /\ stage[e] \in {"finish", "failing"}
    /\ Publish(e)
    /\ FreeRows(e)
    /\ Enter(e, IF stage[e] = "finish" THEN "completed" ELSE "failed")
    /\ UNCHANGED <<runVars, pin, live, want, used, losses, late, newer>>

(* The process is lost: no statement of the transaction, the stages it     *)
(* wrote included, leaves a trace.                                         *)
LoseStatements(e) ==                             \* mutant of LoseErasure
    /\ stage[e] \in {"check", "accepted"} \/ e \in Demoting
    /\ losses < MaxLosses
    /\ losses' = losses + 1
    /\ Publish(e)
    /\ EndErasure(e)
    /\ UNCHANGED <<runVars, pin, late, newer>>

LoseErasure(e) ==
    /\ stage[e] \in {"check", "accepted"} \/ e \in Demoting
    /\ losses < MaxLosses
    /\ losses' = losses + 1
    /\ EndErasure(e)
    /\ UNCHANGED <<content, repro, runVars, pin, late, newer>>

-----------------------------------------------------------------------------
RunStep(r) == Prepare(r) \/ Begin(r) \/ CommitRun(r)

ErasureStep(e) ==
    \/ RefusePinned(e) \/ AcceptErasure(e)
    \/ FindRuns(e) \/ FindContent(e)
    \/ \E x \in StoredRows : UpdateRow(e, x)
    \/ BreakCircle(e)
    \/ Verify(e) \/ CommitErasure(e)

ErasureNext ==
    \/ \E r \in DatasetRuns : RunStep(r) \/ LoseWorker(r) \/ ApproveBaseline(r)
    \/ \E e \in Erasures : ReadTargets(e) \/ ErasureStep(e) \/ LoseErasure(e)

ErasureSpec == ErasureInit /\ [][ErasureNext]_contentVars

(* An executor ends its run and a request goes on: every wait is for a row *)
(* that another of them holds, and the database breaks their deadlocks.    *)
FairErasure ==
    /\ ErasureSpec
    /\ \A r \in DatasetRuns : WF_contentVars(CommitRun(r))
    /\ \A e \in Erasures : WF_contentVars(ErasureStep(e))
-----------------------------------------------------------------------------
ErasureTypeOK ==
    /\ content \in [Contents -> {"present", "erased"}]
    /\ repro \in [DatasetRuns -> {"reproducible", "auditable"}]
    /\ samples \in [DatasetRuns -> SUBSET Contents]
    /\ pin \in [DatasetRuns -> {"none", "approved", "superseded"}]
    /\ exec \in [DatasetRuns ->
                   {"queued", "loaded", "running", "done", "raised"}]
    /\ holder \in [StoredRows -> Erasures \cup DatasetRuns \cup {NoHolder}]
    /\ stage \in [Erasures -> {"idle", "check", "accepted", "demote", "destroy",
                               "finish", "failing", "completed", "failed",
                               "refused"}]
    /\ live \in [Erasures -> SUBSET Contents]
    /\ want \in [Erasures -> SUBSET StoredRows]
    /\ used \subseteq Erasures
    /\ losses \in 0 .. MaxLosses
    /\ late \subseteq DatasetRuns
    /\ newer \in [Erasures -> SUBSET DatasetRuns]

(* A run whose committed samples were made from erased content admits it,  *)
(* unless it recorded them after an erasure had looked for such runs:      *)
(* whatever erasures overlap, wait for each other, or are lost             *)
(* (erasure.py, "Demote before destroy").                                  *)
ErasedEvidenceDemoted ==
    \A r \in DatasetRuns : samples[r] \cap Erased # {} =>
        repro[r] = "auditable" \/ r \in late

(* Content is erased exactly by the requests recorded as completed: all    *)
(* that a completed one targeted is gone, and nothing is gone that no      *)
(* completed request targeted ("Verification").                            *)
ErasuresAccountedFor ==
    LET completed == {e \in Erasures : stage[e] = "completed"}
    IN  Erased = UNION {live[e] : e \in completed}

(* Content an approved baseline rests on is erased only by a request whose *)
(* record says it overrode the pin, whatever erasures wait, overlap or are *)
(* lost, except that the answer of _baselines_pinning (erasure.py:95) is   *)
(* not looked at again: a baseline approved after it is not seen, a case   *)
(* PinnedContentNeedsOverride is about.                                    *)
PinsHonoured ==
    [][\A r \in DatasetRuns : \A c \in ContentOf[r] :
         content[c] = "present" /\ content'[c] = "erased"
           /\ pin[r] = "approved" =>
         \E e \in Erasures : /\ stage[e] # "completed"
                             /\ stage'[e] = "completed" /\ c \in live[e]
                             /\ e \in used \/ r \in newer[e]]_contentVars

(* Every request that found something to erase is answered: time and again *)
(* there is none left between its first read and its end.                  *)
ErasuresAnswered ==
    []<>(\A e \in Erasures :
           stage[e] \in {"idle", "completed", "failed", "refused"})

-----------------------------------------------------------------------------
(* erasure.py:12, "a run that claims to be replayable and is not is worse  *)
(* than one that admits it is not": none does, says 02-golden-dataset.sql, *)
(* "affected runs are demoted from reproducible to auditable".             *)
ErasedNotReproducible ==
    \A r \in DatasetRuns :
        samples[r] \cap Erased # {} => repro[r] = "auditable"

(* REQ-F-05-9 (requirements.md:119): the product "shall prevent a dataset  *)
(* version from being deleted while an active baseline references it, and  *)
(* shall require an explicit, audited override".                           *)
PinnedContentNeedsOverride ==
    [][\A r \in DatasetRuns : \A c \in ContentOf[r] :
         content[c] = "present" /\ content'[c] = "erased"
           /\ pin[r] = "approved" =>
         \E e \in used : stage'[e] = "completed" /\ c \in live[e]]_contentVars
=============================================================================
