------------------------ MODULE ContentErasureProofs ------------------------
(***************************************************************************)
(* Proofs about ContentErasure, for any contents, runs and requests.       *)
(*                                                                         *)
(* What an erasure has found is true only of the moment it looked; what    *)
(* makes it last is that each row it will change is already in order, held *)
(* by it, or still to be reached: Demoted says so of the runs that must be *)
(* demoted, Destroyed of its targets.  Runs that record content after it   *)
(* looked escape it: they are the history variable late.                   *)
(***************************************************************************)
EXTENDS ContentErasure, TLAPS

LocksHeld ==
    \A x \in StoredRows, e \in Erasures : holder[x] = e =>
        /\ e \in Demoting
        /\ Matches(x)
        /\ x \in Contents => x \in live[e] /\ stage[e] # "demote"

Wanted ==
    \A e \in Erasures :
        /\ want[e] # {} => stage[e] \in {"demote", "destroy"}
        /\ stage[e] = "demote" => want[e] \subseteq DatasetRuns
        /\ stage[e] = "destroy" => want[e] \subseteq live[e]

Demoted ==
    \A e \in Demoting, r \in DatasetRuns : samples[r] \cap live[e] # {} =>
        \/ repro[r] = "auditable" \/ r \in late
        \/ holder[r] = e
        \/ stage[e] = "demote" /\ r \in want[e]

Destroyed ==
    \A e \in Erasures :
        /\ stage[e] \in {"destroy", "finish"} =>
                \A c \in live[e] : \/ content[c] = "erased" \/ holder[c] = e
                                   \/ stage[e] = "destroy" /\ c \in want[e]
        /\ stage[e] \notin {"failing", "failed"}

PinsRecorded ==
    \A e \in Erasures : stage[e] = "accepted" \/ e \in Demoting =>
        \A r \in Pinning(e) : e \in used \/ r \in newer[e]

IInv == /\ ErasureTypeOK /\ LocksHeld /\ Wanted
        /\ Demoted /\ ErasedEvidenceDemoted
        /\ Destroyed /\ ErasuresAccountedFor
        /\ PinsRecorded

-----------------------------------------------------------------------------
LEMMA Kinds ==
    /\ \A x \in DatasetRuns : x \in StoredRows /\ x \notin Contents /\ x \notin Erasures
    /\ \A x \in Contents : x \in StoredRows /\ x \notin DatasetRuns
    /\ \A x \in StoredRows : x \in DatasetRuns \/ x \in Contents
    /\ NoHolder \notin Erasures /\ NoHolder \notin DatasetRuns
    /\ MaxLosses \in Nat
    /\ \A r \in DatasetRuns : ContentOf[r] \subseteq Contents
    /\ \A e \in Erasures : DigestsOf[e] \subseteq Contents
BY ContentErasureAssumption DEF StoredRows

LEMMA InitInvariant == ErasureInit => IInv
<1> SUFFICES ASSUME ErasureInit PROVE IInv
  OBVIOUS
<1>1. ErasureTypeOK
  BY Kinds DEF ErasureInit, ErasureTypeOK
<1>2. LocksHeld /\ Wanted /\ Demoted
  BY Kinds DEF ErasureInit, LocksHeld, Wanted, Demoted, Demoting
<1>3. ErasedEvidenceDemoted
  BY DEF ErasureInit, ErasedEvidenceDemoted
<1>4. Destroyed
  BY DEF ErasureInit, Destroyed
<1>5. ErasuresAccountedFor
  BY DEF ErasureInit, ErasuresAccountedFor, Erased, Present
<1>6. PinsRecorded
  BY DEF ErasureInit, PinsRecorded, Demoting
<1> QED BY <1>1, <1>2, <1>3, <1>4, <1>5, <1>6 DEF IInv

-----------------------------------------------------------------------------
(* Runs and baselines: what they change is no erasure's row.               *)

(* The end of an executor frees no row that an erasure holds.              *)
LEMMA ExecutorRelease ==
    ASSUME ErasureTypeOK, NEW r \in DatasetRuns, FreeRows(r)
    PROVE  /\ holder' \in [StoredRows -> Erasures \cup DatasetRuns \cup {NoHolder}]
           /\ \A x \in StoredRows, e \in Erasures : holder'[x] = e <=> holder[x] = e
BY Kinds DEF ErasureTypeOK, FreeRows

(* A step that leaves the erasures and their rows alone keeps the          *)
(* invariant if it keeps what is said of samples and baselines.            *)
LEMMA OutsideKeeps ==
    ASSUME IInv, ErasureTypeOK', UNCHANGED <<content, repro, erasureVars>>,
           late \subseteq late',
           \A x \in StoredRows, e \in Erasures : holder'[x] = e <=> holder[x] = e,
           \A r \in DatasetRuns : r \in late' \/ \A c \in Doomed :
               c \in samples'[r] => c \in samples[r],
           PinsRecorded'
    PROVE  IInv'
<1>1. ErasureTypeOK /\ LocksHeld /\ Wanted /\ Demoted /\ ErasedEvidenceDemoted
      /\ Destroyed /\ ErasuresAccountedFor
  BY DEF IInv
<1>2. /\ Demoting' = Demoting /\ Erased' = Erased
      /\ \A x \in StoredRows : Matches(x)' <=> Matches(x)
  BY DEF erasureVars, Demoting, Erased, Present, Matches
<1>3. LocksHeld' /\ Wanted'
  BY <1>1, <1>2 DEF LocksHeld, Wanted, erasureVars
<1>4. Demoted'
  <2> SUFFICES ASSUME NEW e \in Demoting, NEW r \in DatasetRuns,
                      samples'[r] \cap live[e] # {}, r \notin late'
               PROVE  \/ repro[r] = "auditable" \/ holder'[r] = e
                      \/ stage[e] = "demote" /\ r \in want[e]
    BY <1>2 DEF Demoted, erasureVars
  <2>1. live[e] \subseteq Doomed
    BY DEF Doomed
  <2>2. samples[r] \cap live[e] # {}
    BY <2>1
  <2>3. e \in Erasures /\ r \in StoredRows
    BY Kinds DEF Demoting
  <2> QED BY <1>1, <2>2, <2>3 DEF Demoted
<1>5. ErasedEvidenceDemoted'
  <2>1. Erased \subseteq Doomed
    BY DEF Doomed
  <2> QED BY <1>1, <1>2, <2>1 DEF ErasedEvidenceDemoted
<1>6. Destroyed'
  <2>1. \A e \in Erasures : \A c \in live[e] : c \in StoredRows
    BY <1>1, Kinds DEF ErasureTypeOK
  <2> QED BY <1>1, <2>1 DEF Destroyed, erasureVars
<1>7. ErasuresAccountedFor'
  BY <1>1, <1>2 DEF ErasuresAccountedFor, erasureVars
<1> QED BY <1>3, <1>4, <1>5, <1>6, <1>7 DEF IInv

LEMMA PinsKeep ==
    ASSUME PinsRecorded, UNCHANGED <<pin, erasureVars, newer>>
    PROVE  PinsRecorded'
BY DEF PinsRecorded, Pinning, Demoting, erasureVars

LEMMA RunKeeps ==
    ASSUME IInv, NEW r \in DatasetRuns, RunStep(r) \/ LoseWorker(r)
    PROVE  IInv'
<1>1. ErasureTypeOK /\ PinsRecorded
  BY DEF IInv
<1>2. UNCHANGED <<content, repro, pin, erasureVars, newer>>
  BY DEF RunStep, Prepare, Begin, CommitRun, LoseWorker
<1>3. PinsRecorded'
  BY <1>1, <1>2, PinsKeep
<1>4. CASE Prepare(r)
  <2>1. ErasureTypeOK'
    BY <1>1, <1>4 DEF ErasureTypeOK, Prepare, erasureVars
  <2> QED BY <1>2, <1>3, <1>4, <2>1, OutsideKeeps DEF Prepare
<1>5. CASE Begin(r)
  <2>1. ErasureTypeOK'
    BY <1>1, <1>5, Kinds DEF ErasureTypeOK, Begin, erasureVars
  <2>2. \A x \in StoredRows, e \in Erasures : holder'[x] = e <=> holder[x] = e
    BY <1>1, <1>5, Kinds DEF ErasureTypeOK, Begin
  <2> QED BY <1>2, <1>3, <1>5, <2>1, <2>2, OutsideKeeps DEF Begin
<1>6. CASE CommitRun(r)
  <2>1. PICK S \in SUBSET ContentOf[r] :
          /\ samples' = [samples EXCEPT ![r] = S]
          /\ late' = IF (S \ samples[r]) \cap Doomed # {} THEN late \cup {r}
                     ELSE late
    BY <1>6 DEF CommitRun
  <2>2. ErasureTypeOK'
    BY <1>1, <1>6, <2>1, ExecutorRelease, Kinds DEF ErasureTypeOK, CommitRun,
       erasureVars
  <2>3. \A q \in DatasetRuns : q \in late' \/ \A c \in Doomed :
          c \in samples'[q] => c \in samples[q]
    BY <1>1, <2>1 DEF ErasureTypeOK
  <2> QED BY <1>1, <1>2, <1>3, <1>6, <2>1, <2>2, <2>3, ExecutorRelease,
             OutsideKeeps DEF CommitRun
<1>7. CASE LoseWorker(r)
  <2>1. ErasureTypeOK'
    BY <1>1, <1>7, ExecutorRelease, Kinds DEF ErasureTypeOK, LoseWorker,
       erasureVars
  <2> QED BY <1>1, <1>2, <1>3, <1>7, <2>1, ExecutorRelease, OutsideKeeps
          DEF LoseWorker
<1> QED BY <1>4, <1>5, <1>6, <1>7 DEF RunStep

LEMMA ApprovalKeeps ==
    ASSUME IInv, NEW r \in DatasetRuns, ApproveBaseline(r)
    PROVE  IInv'
<1>1. ErasureTypeOK /\ PinsRecorded
  BY DEF IInv
<1>2. ErasureTypeOK'
  BY <1>1 DEF ErasureTypeOK, ApproveBaseline, runVars, erasureVars
<1>3. PinsRecorded'
  <2> SUFFICES ASSUME NEW e \in Erasures, stage[e] = "accepted" \/ e \in Demoting,
                      NEW q \in Pinning(e)'
               PROVE  e \in used \/ q \in newer'[e]
    BY DEF PinsRecorded, ApproveBaseline, erasureVars, Demoting
  <2>1. q = r \/ q \in Pinning(e)
    BY <1>1 DEF Pinning, ApproveBaseline, erasureVars, ErasureTypeOK
  <2>2. newer'[e] = newer[e] \cup {r}
    BY DEF ApproveBaseline, Demoting
  <2> QED BY <1>1, <2>1, <2>2 DEF PinsRecorded
<1> QED BY <1>2, <1>3, OutsideKeeps DEF ApproveBaseline, runVars

-----------------------------------------------------------------------------
(* The steps of an erasure that change no row.                             *)
Looks(e) ==
    \/ ReadTargets(e) \/ RefusePinned(e) \/ AcceptErasure(e)
    \/ FindRuns(e) \/ FindContent(e) \/ Verify(e)

Ends(e) == EndErasure(e) /\ UNCHANGED <<content, repro, runVars, pin, late,
                                        newer>>
                        /\ (stage[e] = "check" \/ stage[e] = "accepted" \/ e \in Demoting)
                        /\ losses' \in 0 .. MaxLosses

LEMMA StepKinds ==
    ASSUME IInv, NEW e \in Erasures, ReadTargets(e) \/ ErasureStep(e) \/ LoseErasure(e)
    PROVE  \/ Looks(e) \/ Ends(e) \/ CommitErasure(e)
           \/ \E x \in StoredRows : UpdateRow(e, x)
<1>1. ErasureTypeOK /\ Wanted
  BY DEF IInv
<1>2. CASE BreakCircle(e)
  <2>1. want[e] # {}
    BY <1>2 DEF BreakCircle
  <2>2. e \in Demoting
    BY <1>1, <2>1 DEF Wanted, Demoting
  <2> QED BY <1>1, <1>2, <2>2 DEF BreakCircle, Ends, ErasureTypeOK
<1>3. CASE LoseErasure(e)
  BY <1>1, <1>3, Kinds DEF LoseErasure, Ends, ErasureTypeOK
<1> QED BY <1>2, <1>3 DEF ErasureStep, Looks

LEMMA LooksKeep ==
    ASSUME IInv, NEW e \in Erasures, Looks(e)
    PROVE  IInv'
<1>1. ErasureTypeOK /\ LocksHeld /\ Wanted /\ Demoted /\ ErasedEvidenceDemoted
      /\ Destroyed /\ ErasuresAccountedFor /\ PinsRecorded
  BY DEF IInv
<1>2. /\ UNCHANGED <<content, repro, samples, exec, pin, holder, losses, late,
                     newer>>
      /\ stage' = [stage EXCEPT ![e] = stage'[e]]
      /\ live' = [live EXCEPT ![e] = live'[e]]
      /\ want' = [want EXCEPT ![e] = want'[e]]
      /\ \A f \in Erasures : f # e => (f \in used' <=> f \in used)
      /\ used' \subseteq Erasures
      /\ e \in used => e \in used'
      /\ stage[e] \notin {"completed", "failed"} /\ stage'[e] \notin {"completed", "failed"}
  BY <1>1 DEF Looks, ReadTargets, RefusePinned, AcceptErasure, FindRuns,
     FindContent, Verify, Enter, ErasureTypeOK, runVars
<1>3. \/ /\ stage[e] = "idle" /\ stage'[e] \in {"check", "refused"}
         /\ live'[e] \subseteq Contents /\ want'[e] = want[e]
      \/ /\ stage[e] = "check" /\ live'[e] = live[e] /\ want'[e] = want[e]
         /\ stage'[e] \in {"refused", "accepted"}
         /\ stage'[e] = "accepted" => Pinning(e) = {} \/ e \in used'
      \/ /\ stage[e] = "accepted" /\ stage'[e] = "demote" /\ live'[e] = live[e]
         /\ want'[e] = {r \in DatasetRuns : /\ repro[r] = "reproducible"
                                            /\ samples[r] \cap live[e] # {}}
      \/ /\ stage[e] = "demote" /\ stage'[e] = "destroy" /\ live'[e] = live[e]
         /\ want[e] = {} /\ want'[e] = live[e] \cap Present
      \/ /\ stage[e] = "destroy" /\ live'[e] = live[e] /\ want[e] = {}
         /\ want'[e] = want[e]
         /\ stage'[e] = IF Survivors(e) = {} THEN "finish" ELSE "failing"
  BY <1>1, Kinds
     DEF Looks, ReadTargets, RefusePinned, AcceptErasure, FindRuns, FindContent,
         Verify, Enter, ErasureTypeOK, runVars
<1>4. stage[e] = "destroy" => Survivors(e) = {}
  <2>1. ASSUME stage[e] = "destroy", NEW c \in Survivors(e), want[e] = {}
        PROVE  FALSE
    BY <1>1, <2>1, Kinds DEF Survivors, Held, Present, Destroyed, ErasureTypeOK
  <2> QED BY <2>1, <1>3
<1>5. ErasureTypeOK'
  <2>1. /\ stage'[e] \in {"check", "refused", "accepted", "demote", "destroy",
                        "finish", "failing"}
        /\ live'[e] \subseteq Contents /\ want'[e] \subseteq StoredRows
    BY <1>1, <1>3, Kinds DEF ErasureTypeOK, Present
  <2> QED BY <1>1, <1>2, <2>1 DEF ErasureTypeOK
<1>6. /\ \A f \in Erasures : f # e =>
             stage'[f] = stage[f] /\ live'[f] = live[f] /\ want'[f] = want[f]
      /\ e \in Demoting => e \in Demoting' /\ live'[e] = live[e]
      /\ \A f \in Erasures : f # e => (f \in Demoting' <=> f \in Demoting)
  BY <1>1, <1>2, <1>3 DEF ErasureTypeOK, Demoting
<1>7. LocksHeld'
  <2>1. ASSUME NEW x \in StoredRows, NEW f \in Erasures, holder[x] = f
        PROVE  /\ f \in Demoting'
               /\ Matches(x)'
               /\ x \in Contents => x \in live'[f] /\ stage'[f] # "demote"
    <3>1. /\ f \in Demoting /\ Matches(x)
          /\ x \in Contents => x \in live[f] /\ stage[f] # "demote"
      BY <1>1, <2>1 DEF LocksHeld
    <3>2. CASE f = e
      BY <1>2, <1>3, <1>6, <3>1, <3>2 DEF Matches, Demoting
    <3>3. CASE f # e
      BY <1>2, <1>6, <3>1, <3>3 DEF Matches
    <3> QED BY <3>2, <3>3
  <2> QED BY <1>2, <2>1 DEF LocksHeld
<1>8. Wanted'
  BY <1>1, <1>2, <1>3, <1>6 DEF Wanted
<1>9. Demoted'
  <2> SUFFICES ASSUME NEW f \in Demoting', NEW r \in DatasetRuns,
                      samples[r] \cap live'[f] # {}
               PROVE  \/ repro[r] = "auditable" \/ r \in late
                      \/ holder[r] = f
                      \/ stage'[f] = "demote" /\ r \in want'[f]
    BY <1>2 DEF Demoted
  <2>0. f \in Erasures
    BY DEF Demoting
  <2>1. CASE f # e
    BY <1>1, <1>6, <2>0, <2>1 DEF Demoted
  <2>2. CASE f = e /\ e \in Demoting
    BY <1>1, <1>3, <1>6, <2>2 DEF Demoted, Demoting
  <2>3. CASE f = e /\ e \notin Demoting
    BY <1>1, <1>3, <2>3 DEF Demoting, ErasureTypeOK
  <2> QED BY <2>1, <2>2, <2>3
<1>10. ErasedEvidenceDemoted'
  BY <1>1, <1>2 DEF ErasedEvidenceDemoted, Erased, Present
<1>11. Destroyed'
  <2> SUFFICES ASSUME NEW f \in Erasures
               PROVE  /\ stage'[f] \in {"destroy", "finish"} =>
                              \A c \in live'[f] :
                                \/ content[c] = "erased" \/ holder[c] = f
                                \/ stage'[f] = "destroy" /\ c \in want'[f]
                      /\ stage'[f] \notin {"failing", "failed"}
    BY <1>2 DEF Destroyed
  <2>1. CASE f # e
    BY <1>1, <1>6, <2>1 DEF Destroyed
  <2>2. CASE f = e /\ stage[e] = "demote"
    BY <1>1, <1>3, <2>2 DEF Present, ErasureTypeOK
  <2>3. CASE f = e /\ stage[e] # "demote"
    BY <1>1, <1>3, <1>4, <2>3 DEF Destroyed
  <2> QED BY <2>1, <2>2, <2>3
<1>12. ErasuresAccountedFor'
  <2>1. {f \in Erasures : stage'[f] = "completed"}
          = {f \in Erasures : stage[f] = "completed"}
    BY <1>2, <1>6
  <2>2. \A f \in Erasures : stage[f] = "completed" => live'[f] = live[f]
    BY <1>2, <1>6
  <2> QED BY <1>1, <1>2, <2>1, <2>2 DEF ErasuresAccountedFor, Erased, Present
<1>13. PinsRecorded'
  <2> SUFFICES ASSUME NEW f \in Erasures, stage'[f] = "accepted" \/ f \in Demoting',
                      NEW r \in Pinning(f)'
               PROVE  f \in used' \/ r \in newer[f]
    BY <1>2 DEF PinsRecorded
  <2>1. CASE f # e
    BY <1>1, <1>2, <1>6, <2>1 DEF PinsRecorded, Pinning
  <2>2. CASE f = e
    <3>1. r \in Pinning(e)
      BY <1>2, <1>3, <2>2 DEF Pinning, Demoting
    <3> QED BY <1>1, <1>2, <1>3, <2>2, <3>1 DEF PinsRecorded, Demoting
  <2> QED BY <2>1, <2>2
<1> QED BY <1>5, <1>7, <1>8, <1>9, <1>10, <1>11, <1>12, <1>13 DEF IInv

(* An erasure that ends without its effects leaves its rows to the others. *)
LEMMA EndsKeep ==
    ASSUME IInv, NEW e \in Erasures, Ends(e)
    PROVE  IInv'
<1>1. ErasureTypeOK /\ LocksHeld /\ Wanted /\ Demoted /\ ErasedEvidenceDemoted
      /\ Destroyed /\ ErasuresAccountedFor /\ PinsRecorded
  BY DEF IInv
<1>2. /\ UNCHANGED <<content, repro, samples, exec, pin, live, used, late,
                     newer>>
      /\ stage' = [stage EXCEPT ![e] = "refused"] /\ want' = [want EXCEPT ![e] = {}]
      /\ holder' = [y \in StoredRows |-> IF holder[y] = e THEN NoHolder ELSE holder[y]]
      /\ stage[e] \notin {"completed", "failed"} /\ losses' \in 0 .. MaxLosses
  BY DEF Ends, EndErasure, Enter, FreeRows, Demoting, runVars
<1>3. /\ stage'[e] = "refused" /\ e \notin Demoting' /\ want'[e] = {}
      /\ \A f \in Erasures : f # e => stage'[f] = stage[f] /\ want'[f] = want[f]
      /\ \A f \in Erasures : f \in Demoting' <=> f \in Demoting /\ f # e
      /\ \A x \in StoredRows, f \in Erasures : holder'[x] = f <=> holder[x] = f /\ f # e
  BY <1>1, <1>2, Kinds DEF ErasureTypeOK, Demoting
<1>4. ErasureTypeOK'
  BY <1>1, <1>2 DEF ErasureTypeOK
<1>5. LocksHeld'
  BY <1>1, <1>2, <1>3 DEF LocksHeld, Matches
<1>6. Wanted'
  BY <1>1, <1>2, <1>3 DEF Wanted
<1>7. Demoted'
  <2> SUFFICES ASSUME NEW f \in Demoting', NEW r \in DatasetRuns,
                      samples[r] \cap live[f] # {}
               PROVE  \/ repro[r] = "auditable" \/ r \in late
                      \/ holder'[r] = f
                      \/ stage'[f] = "demote" /\ r \in want'[f]
    BY <1>2 DEF Demoted
  <2>1. f \in Erasures /\ f \in Demoting /\ f # e
    BY <1>3 DEF Demoting
  <2> QED BY <1>1, <1>3, <2>1, Kinds DEF Demoted
<1>8. ErasedEvidenceDemoted'
  BY <1>1, <1>2 DEF ErasedEvidenceDemoted, Erased, Present
<1>9. Destroyed'
  <2>1. \A f \in Erasures : \A c \in live[f] : c \in StoredRows
    BY <1>1, Kinds DEF ErasureTypeOK
  <2> QED BY <1>1, <1>2, <1>3, <2>1 DEF Destroyed
<1>10. ErasuresAccountedFor'
  <2>1. {f \in Erasures : stage'[f] = "completed"}
          = {f \in Erasures : stage[f] = "completed"}
    BY <1>2, <1>3
  <2> QED BY <1>1, <1>2, <2>1 DEF ErasuresAccountedFor, Erased, Present
<1>11. PinsRecorded'
  BY <1>1, <1>2, <1>3 DEF PinsRecorded, Pinning
<1> QED BY <1>4, <1>5, <1>6, <1>7, <1>8, <1>9, <1>10, <1>11 DEF IInv

(* A row an UPDATE comes to is held afterwards, unless it no longer needs  *)
(* to be changed.                                                          *)
LEMMA UpdateKeeps ==
    ASSUME IInv, NEW e \in Erasures, NEW x \in StoredRows, UpdateRow(e, x)
    PROVE  IInv'
<1>1. ErasureTypeOK /\ LocksHeld /\ Wanted /\ Demoted /\ ErasedEvidenceDemoted
      /\ Destroyed /\ ErasuresAccountedFor /\ PinsRecorded
  BY DEF IInv
<1>2. /\ UNCHANGED <<content, repro, samples, exec, pin, stage, live, used,
                     losses, late, newer>>
      /\ want' = [want EXCEPT ![e] = want[e] \ {x}]
      /\ holder' = IF Matches(x) THEN [holder EXCEPT ![x] = e] ELSE holder
      /\ holder[x] = NoHolder /\ x \in want[e] /\ stage[e] \in {"demote", "destroy"}
  BY DEF UpdateRow, runVars
<1>3. /\ Demoting' = Demoting /\ e \in Demoting
      /\ \A y \in StoredRows : Matches(y)' <=> Matches(y)
      /\ \A y \in StoredRows, f \in Erasures : holder[y] = f => holder'[y] = f
      /\ Matches(x) => holder'[x] = e
      /\ \A y \in StoredRows, f \in Erasures :
           holder'[y] = f => holder[y] = f \/ (y = x /\ f = e /\ Matches(x))
  BY <1>1, <1>2, Kinds DEF Demoting, Matches, ErasureTypeOK
<1>4. ErasureTypeOK'
  BY <1>1, <1>2 DEF ErasureTypeOK
<1>5. \A f \in Erasures : /\ want'[f] \subseteq want[f]
                          /\ \A y \in want[f] : y \in want'[f] \/ (f = e /\ y = x)
  BY <1>1, <1>2 DEF ErasureTypeOK
<1>6. LocksHeld'
  <2>1. x \in Contents => x \in live[e] /\ stage[e] # "demote"
    BY <1>1, <1>2, Kinds DEF Wanted
  <2> QED BY <1>1, <1>2, <1>3, <2>1 DEF LocksHeld
<1>7. Wanted'
  BY <1>1, <1>2, <1>5 DEF Wanted
<1>8. Demoted'
  <2> SUFFICES ASSUME NEW f \in Demoting, NEW r \in DatasetRuns,
                      samples[r] \cap live[f] # {}
               PROVE  \/ repro[r] = "auditable" \/ r \in late
                      \/ holder'[r] = f
                      \/ stage[f] = "demote" /\ r \in want'[f]
    BY <1>2, <1>3 DEF Demoted
  <2>1. f \in Erasures /\ r \in StoredRows
    BY Kinds DEF Demoting
  <2>2. f = e /\ r = x => repro[r] = "auditable" \/ holder'[r] = f
    BY <1>1, <1>3 DEF Matches, ErasureTypeOK
  <2> QED BY <1>1, <1>3, <1>5, <2>1, <2>2 DEF Demoted
<1>9. Destroyed'
  <2> SUFFICES ASSUME NEW f \in Erasures, stage[f] \in {"destroy", "finish"},
                      NEW c \in live[f]
               PROVE  \/ content[c] = "erased" \/ holder'[c] = f
                      \/ stage[f] = "destroy" /\ c \in want'[f]
    BY <1>1, <1>2 DEF Destroyed
  <2>1. c \in Contents /\ c \in StoredRows /\ c \notin DatasetRuns
    BY <1>1, Kinds DEF ErasureTypeOK
  <2>2. f = e /\ c = x => content[c] = "erased" \/ holder'[c] = f
    BY <1>1, <1>3, <2>1 DEF Matches, ErasureTypeOK
  <2> QED BY <1>1, <1>3, <1>5, <2>1, <2>2 DEF Destroyed
<1>10. ErasedEvidenceDemoted' /\ ErasuresAccountedFor'
  BY <1>1, <1>2 DEF ErasedEvidenceDemoted, ErasuresAccountedFor, Erased, Present
<1>11. PinsRecorded'
  BY <1>1, <1>2, <1>3 DEF PinsRecorded, Pinning
<1> QED BY <1>4, <1>6, <1>7, <1>8, <1>9, <1>10, <1>11 DEF IInv

(* The effects become visible: the rows held are the targets that were     *)
(* left, and runs that had to be demoted.                                  *)
LEMMA CommitKeeps ==
    ASSUME IInv, NEW e \in Erasures, CommitErasure(e)
    PROVE  IInv'
<1>1. ErasureTypeOK /\ LocksHeld /\ Wanted /\ Demoted /\ ErasedEvidenceDemoted
      /\ Destroyed /\ ErasuresAccountedFor /\ PinsRecorded
  BY DEF IInv
<1>2. /\ UNCHANGED <<samples, exec, pin, live, want, used, losses, late, newer>>
      /\ stage[e] = "finish" /\ stage' = [stage EXCEPT ![e] = "completed"]
      /\ holder' = [y \in StoredRows |-> IF holder[y] = e THEN NoHolder ELSE holder[y]]
      /\ content' = [c \in Contents |-> IF holder[c] = e THEN "erased" ELSE content[c]]
      /\ repro' = [r \in DatasetRuns |-> IF holder[r] = e THEN "auditable" ELSE repro[r]]
  BY <1>1 DEF CommitErasure, Enter, FreeRows, Publish, runVars, Destroyed
<1>3. /\ stage'[e] = "completed" /\ e \in Demoting
      /\ \A f \in Erasures : f # e => stage'[f] = stage[f]
      /\ \A f \in Erasures : f \in Demoting' <=> f \in Demoting /\ f # e
      /\ \A y \in StoredRows, f \in Erasures : holder'[y] = f <=> holder[y] = f /\ f # e
      /\ \A y \in StoredRows : holder[y] # e => (Matches(y)' <=> Matches(y))
  BY <1>1, <1>2, Kinds DEF ErasureTypeOK, Demoting, Matches
<1>4. ErasureTypeOK'
  BY <1>1, <1>2 DEF ErasureTypeOK
<1>5. Erased' = Erased \cup live[e]
  <2>1. \A c \in Contents :
          content'[c] = "erased" <=> content[c] = "erased" \/ holder[c] = e
    BY <1>2
  <2>2. \A c \in Contents : c \in live[e] => content[c] = "erased" \/ holder[c] = e
    BY <1>1, <1>2 DEF Destroyed
  <2>3. \A c \in Contents : holder[c] = e => c \in live[e]
    BY <1>1, Kinds DEF LocksHeld
  <2>4. live[e] \subseteq Contents
    BY <1>1 DEF ErasureTypeOK
  <2> QED BY <1>1, <1>4, <2>1, <2>2, <2>3, <2>4 DEF Erased, Present,
             ErasureTypeOK
<1>6. LocksHeld'
  BY <1>1, <1>2, <1>3 DEF LocksHeld
<1>7. Wanted'
  <2>1. want[e] = {}
    BY <1>1, <1>2 DEF Wanted
  <2> QED BY <1>1, <1>2, <1>3, <2>1 DEF Wanted
<1>8. \A r \in DatasetRuns :
        repro[r] = "auditable" \/ holder[r] = e => repro'[r] = "auditable"
  BY <1>2
<1>9. Demoted'
  <2> SUFFICES ASSUME NEW f \in Demoting', NEW r \in DatasetRuns,
                      samples[r] \cap live[f] # {}
               PROVE  \/ repro'[r] = "auditable" \/ r \in late
                      \/ holder'[r] = f
                      \/ stage'[f] = "demote" /\ r \in want[f]
    BY <1>2 DEF Demoted
  <2>1. f \in Erasures /\ f \in Demoting /\ f # e
    BY <1>3 DEF Demoting
  <2> QED BY <1>1, <1>3, <1>8, <2>1, Kinds DEF Demoted
<1>10. ErasedEvidenceDemoted'
  <2> SUFFICES ASSUME NEW r \in DatasetRuns, samples[r] \cap Erased' # {}
               PROVE  repro'[r] = "auditable" \/ r \in late
    BY <1>2 DEF ErasedEvidenceDemoted
  <2>1. CASE samples[r] \cap Erased # {}
    BY <1>1, <1>8, <2>1 DEF ErasedEvidenceDemoted
  <2>2. CASE samples[r] \cap live[e] # {}
    BY <1>1, <1>2, <1>3, <1>8, <2>2 DEF Demoted
  <2> QED BY <1>5, <2>1, <2>2
<1>11. Destroyed'
  <2> SUFFICES ASSUME NEW f \in Erasures
               PROVE  /\ stage'[f] \in {"destroy", "finish"} =>
                              \A c \in live[f] :
                                \/ content'[c] = "erased" \/ holder'[c] = f
                                \/ stage'[f] = "destroy" /\ c \in want[f]
                      /\ stage'[f] \notin {"failing", "failed"}
    BY <1>2 DEF Destroyed
  <2>1. \A c \in live[f] : c \in StoredRows /\ c \in Contents
    BY <1>1, Kinds DEF ErasureTypeOK
  <2>2. \A c \in Contents : content[c] = "erased" => content'[c] = "erased"
    BY <1>2
  <2> QED BY <1>1, <1>3, <2>1, <2>2 DEF Destroyed
<1>12. ErasuresAccountedFor'
  <2>1. {f \in Erasures : stage'[f] = "completed"}
          = {f \in Erasures : stage[f] = "completed"} \cup {e}
    BY <1>3
  <2> QED BY <1>1, <1>2, <1>5, <2>1 DEF ErasuresAccountedFor
<1>13. PinsRecorded'
  BY <1>1, <1>2, <1>3 DEF PinsRecorded, Pinning
<1> QED BY <1>4, <1>6, <1>7, <1>9, <1>10, <1>11, <1>12, <1>13 DEF IInv

-----------------------------------------------------------------------------
(* IInv holds in every state: erasures that overlap, wait for each other or*)
(* are lost never disturb what another has put in order.                   *)
THEOREM ErasureInvariant == ErasureSpec => []IInv
<1>1. ErasureInit => IInv
  BY InitInvariant
<1>2. IInv /\ [ErasureNext]_contentVars => IInv'
  <2> SUFFICES ASSUME IInv, [ErasureNext]_contentVars PROVE IInv'
    OBVIOUS
  <2>1. CASE ErasureNext
    BY <2>1, RunKeeps, ApprovalKeeps, StepKinds, LooksKeep, EndsKeep,
       UpdateKeeps, CommitKeeps DEF ErasureNext
  <2>2. CASE UNCHANGED contentVars
    BY <2>2 DEF contentVars, runVars, erasureVars, IInv, ErasureTypeOK,
       LocksHeld, Wanted,
                Demoted, ErasedEvidenceDemoted, Destroyed, ErasuresAccountedFor,
                PinsRecorded, Pinning, Demoting, Matches, Erased, Present
  <2> QED BY <2>1, <2>2
<1> QED BY <1>1, <1>2, PTL DEF ErasureSpec

(* The state stays of its type.                                            *)
THEOREM ErasureTypeCorrect == ErasureSpec => []ErasureTypeOK
BY ErasureInvariant, PTL DEF IInv

(* A run whose samples were made from erased content admits it, unless it  *)
(* recorded them after an erasure had looked (erasure.py:124-132).         *)
THEOREM EvidenceDemoted == ErasureSpec => []ErasedEvidenceDemoted
BY ErasureInvariant, PTL DEF IInv

(* Content is erased exactly by the requests recorded as completed         *)
(* (erasure.py:150-167).                                                   *)
THEOREM ErasuresAccounted == ErasureSpec => []ErasuresAccountedFor
BY ErasureInvariant, PTL DEF IInv

(* An approved baseline's content is erased only by a request that is      *)
(* recorded as overriding the pin, or that looked before the approval      *)
(* (erasure.py:101-107).                                                   *)
THEOREM PinsAreHonoured == ErasureSpec => PinsHonoured
<1>1. IInv /\ [ErasureNext]_contentVars =>
        [\A r \in DatasetRuns : \A c \in ContentOf[r] :
           content[c] = "present" /\ content'[c] = "erased"
             /\ pin[r] = "approved" =>
           \E e \in Erasures : /\ stage[e] # "completed"
                               /\ stage'[e] = "completed" /\ c \in live[e]
                               /\ e \in used \/ r \in newer[e]]_contentVars
  <2> SUFFICES ASSUME IInv, ErasureNext, NEW r \in DatasetRuns, NEW c \in ContentOf[r],
                      content[c] = "present", content'[c] = "erased",
                      pin[r] = "approved"
               PROVE  \E e \in Erasures :
                        /\ stage[e] # "completed" /\ stage'[e] = "completed"
                        /\ c \in live[e]
                        /\ e \in used \/ r \in newer[e]
    OBVIOUS
  <2>1. c \in Contents /\ c \in StoredRows
    BY Kinds
  <2>2. PICK e \in Erasures : CommitErasure(e)
    <3>1. \A q \in DatasetRuns :
            RunStep(q) \/ LoseWorker(q) \/ ApproveBaseline(q) => UNCHANGED content
      BY DEF RunStep, Prepare, Begin, CommitRun, LoseWorker, ApproveBaseline
    <3>2. \A e \in Erasures : Looks(e) \/ Ends(e) => UNCHANGED content
      BY DEF Looks, ReadTargets, RefusePinned, AcceptErasure, FindRuns,
             FindContent, Verify, Ends
    <3>3. \A e \in Erasures, x \in StoredRows : UpdateRow(e, x) => UNCHANGED content
      BY DEF UpdateRow
    <3> QED BY <3>1, <3>2, <3>3, StepKinds DEF ErasureNext
  <2>3. holder[c] = e
    BY <2>1, <2>2 DEF CommitErasure, Publish
  <2>4. c \in live[e] /\ e \in Demoting
    BY <2>1, <2>3 DEF IInv, LocksHeld
  <2>5. e \in used \/ r \in newer[e]
    BY <2>4 DEF IInv, PinsRecorded, Pinning
  <2>6. stage[e] = "finish" /\ stage'[e] = "completed"
    BY <2>2 DEF IInv, ErasureTypeOK, Destroyed, CommitErasure, Enter
  <2> QED BY <2>4, <2>5, <2>6
<1> QED BY <1>1, ErasureInvariant, PTL DEF ErasureSpec, PinsHonoured
=============================================================================
