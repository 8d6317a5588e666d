-------------------------- MODULE SettlementProofs --------------------------
(***************************************************************************)
(* What several requests, judges or servers settle between them: the       *)
(* versions of a definition (VersionRegistry), the acceptance of a plan    *)
(* (PlanReview), the verdict of a panel (JudgePanel) and a tenant's        *)
(* allowance (RateLimiter).                                                *)
(***************************************************************************)
EXTENDS VersionRegistry, PlanReview, JudgePanel, RateLimiter, EvidenceProofs

Requests == Additions \cup Publications

Labels == {"idle", "insert", "update", "commit", "refused", "done"}

RegistryTypes ==
    /\ number \in [Additions -> Nat] /\ asked \in [Additions -> Nat]
    /\ published \in SUBSET Additions
    /\ stamps \in [Additions -> SUBSET Publications]
    /\ locked \in [Additions -> SUBSET Publications]
    /\ cited \in [Additions -> {"never", "draft", "changing", "published"}]
    /\ progress \in [Requests -> Labels]

(* The stored versions are numbered; a request that has not stored its     *)
(* version has no number yet, took one that was free or next when it read, *)
(* and at most one is about to commit, the next.                           *)
NumbersInv ==
    /\ IsFiniteSet(Stored)
    /\ VersionsNumbered
    /\ \A a \in Additions : progress[a] # "done" => number[a] = 0
    /\ \A a \in Additions :
         progress[a] = "insert" => asked[a] \in 1 .. Cardinality(Stored) + 1
    /\ \A a \in Additions : progress[a] = "commit" => asked[a] = Cardinality(Stored) + 1
    /\ \A a, b \in Additions : (progress[a] = "commit" /\ progress[b] = "commit") => a = b

(* A publication holds its version's row, alone, from its statement to its *)
(* commit; a version whose row is held is neither published nor cited as a *)
(* draft.                                                                  *)
PublicationsInv ==
    /\ \A a \in Additions, q \in Publications :
         q \in locked[a] <=> (progress[q] = "commit" /\ TargetOf[q] = a)
    /\ \A a \in Additions : \A p, q \in locked[a] : p = q
    /\ \A a \in Additions :
         locked[a] # {} => (a \notin published /\ cited[a] # "draft")
    /\ \A a \in Additions : a \in published => \E q \in Publications : stamps[a] = {q}
    /\ \A a \in Additions : a \notin published => stamps[a] = {}
    /\ \A q \in Publications : progress[q] = "done" => TargetOf[q] \in published
    /\ CitedDraftStands

RegistryInv == RegistryTypes /\ NumbersInv /\ PublicationsInv

-----------------------------------------------------------------------------
(* The number after the highest of 1 to n is n + 1.                        *)
LEMMA NextAfter ==
    ASSUME NEW n \in Nat, Numbers = 1 .. n
    PROVE  NextNumber = n + 1
<1>1. n \in {0} \cup 1 .. n /\ \A y \in {0} \cup 1 .. n : n >= y
  OBVIOUS
<1>2. \A x \in {0} \cup 1 .. n :
        (\A y \in {0} \cup 1 .. n : x >= y) => x = n
  BY <1>1
<1>3. Max({0} \cup 1 .. n) = n
  BY <1>1, <1>2, Zenon DEF Max
<1>. QED  BY <1>3 DEF NextNumber

(* A step that leaves numbers and the requests for them alone keeps them.  *)
LEMMA NumbersFrame ==
    ASSUME NumbersInv, UNCHANGED <<number, asked>>,
           \A a \in Additions :
             \/ progress'[a] = progress[a]
             \/ progress[a] # "done" /\ progress'[a] = "refused"
    PROVE  NumbersInv'
<1>1. Stored' = Stored /\ Numbers' = Numbers
  BY DEF Stored, Numbers
<1>. QED  BY <1>1, Zenon DEF NumbersInv, VersionsNumbered

(* A step that leaves publications and evidence alone keeps them.          *)
LEMMA PublicationsFrame ==
    ASSUME PublicationsInv, UNCHANGED <<published, stamps, locked, cited>>,
           \A q \in Publications : progress'[q] = progress[q]
    PROVE  PublicationsInv'
BY DEF PublicationsInv, CitedDraftStands

-----------------------------------------------------------------------------
LEMMA InitRegistry == RegistryInit => RegistryInv
<1> SUFFICES ASSUME RegistryInit PROVE RegistryInv
  OBVIOUS
<1>1. Stored = {} /\ Numbers = {}
  BY DEF RegistryInit, Stored, Numbers
<1>2. IsFiniteSet({}) /\ Cardinality({}) = 0
  BY FS_EmptySet
<1>3. RegistryTypes
  BY DEF RegistryInit, RegistryTypes, Requests, Labels
<1>4. NumbersInv
  BY <1>1, <1>2 DEF RegistryInit, NumbersInv, VersionsNumbered
<1>5. PublicationsInv
  BY DEF RegistryInit, PublicationsInv, CitedDraftStands
<1>. QED  BY <1>3, <1>4, <1>5 DEF RegistryInv

(* Additions.                                                              *)
LEMMA AdditionKeeps ==
    ASSUME RegistryInv, NEW a \in Additions, Addition(a)
    PROVE  RegistryInv'
<1> USE DEF RegistryInv
<1>1. a \notin Publications /\ a \in Requests
  BY VersionRegistryAssumption DEF Requests
<1>2. Cardinality(Stored) \in Nat
  BY FS_CardinalityType DEF NumbersInv
<1>3. ASSUME ReadMaximum(a) PROVE RegistryInv'
  <2>1. NextNumber = Cardinality(Stored) + 1
    BY <1>2, NextAfter DEF NumbersInv, VersionsNumbered
  <2>2. RegistryTypes'
    BY <1>1, <1>3, <1>2, <2>1
       DEF ReadMaximum, Goto, RegistryTypes, Requests, Labels
  <2>3. Stored' = Stored /\ Numbers' = Numbers
    BY <1>3 DEF ReadMaximum, Stored, Numbers
  <2>4. NumbersInv'
    BY <1>1, <1>3, <1>2, <2>1, <2>3
       DEF ReadMaximum, Goto, RegistryTypes, NumbersInv, VersionsNumbered
  <2>5. PublicationsInv'
    BY <1>1, <1>3, PublicationsFrame DEF ReadMaximum, Goto, RegistryTypes, Requests
  <2>. QED  BY <2>2, <2>4, <2>5
<1>4. ASSUME InsertVersion(a) PROVE RegistryInv'
  <2>1. RegistryTypes'
    BY <1>1, <1>4 DEF InsertVersion, Goto, RegistryTypes, Requests, Labels
  <2>2. Stored' = Stored /\ Numbers' = Numbers
    BY <1>4 DEF InsertVersion, Stored, Numbers
  <2>3. asked[a] = Cardinality(Stored) + 1
    BY <1>4, <1>2 DEF InsertVersion, NumbersInv, VersionsNumbered, RegistryTypes
  <2>4. \A b \in Additions \ {a} : progress[b] # "commit"
    BY <1>4, <2>3 DEF InsertVersion, NumberUnclaimed, NumbersInv
  <2>5. NumbersInv'
    BY <1>1, <1>4, <2>2, <2>3, <2>4
       DEF InsertVersion, Goto, RegistryTypes, NumbersInv, VersionsNumbered
  <2>6. PublicationsInv'
    BY <1>1, <1>4, PublicationsFrame DEF InsertVersion, Goto, RegistryTypes, Requests
  <2>. QED  BY <2>1, <2>5, <2>6
<1>5. ASSUME RefuseDuplicate(a) PROVE RegistryInv'
  <2>1. RegistryTypes'
    BY <1>1, <1>5 DEF RefuseDuplicate, Goto, RegistryTypes, Requests, Labels
  <2>2. NumbersInv'
    BY <1>1, <1>5, NumbersFrame DEF RefuseDuplicate, Goto, RegistryTypes, Requests
  <2>3. PublicationsInv'
    BY <1>1, <1>5, PublicationsFrame DEF RefuseDuplicate, Goto, RegistryTypes, Requests
  <2>. QED  BY <2>1, <2>2, <2>3
<1>6. ASSUME CommitVersion(a) PROVE RegistryInv'
  <2> DEFINE n == Cardinality(Stored)
  <2>1. asked[a] = n + 1 /\ number[a] = 0 /\ a \notin Stored
    BY <1>6 DEF CommitVersion, NumbersInv, Stored
  <2>2. number'[a] = n + 1 /\ \A b \in Additions \ {a} : number'[b] = number[b]
    BY <1>6, <2>1 DEF CommitVersion, RegistryTypes
  <2>3. Stored' = Stored \cup {a}
    BY <1>2, <2>1, <2>2 DEF Stored
  <2>4. IsFiniteSet(Stored') /\ Cardinality(Stored') = n + 1
    BY <2>1, <2>3, FS_AddElement DEF NumbersInv
  <2>5. Numbers' = Numbers \cup {n + 1}
    BY <2>1, <2>2, <2>3 DEF Numbers, Stored
  <2>6. Numbers' = 1 .. n + 1
    BY <1>2, <2>5 DEF NumbersInv, VersionsNumbered
  <2>7. \A b \in Stored : number[b] \in 1 .. n
    BY DEF NumbersInv, VersionsNumbered, Numbers
  <2>8. \A b, c \in Stored' : number'[b] = number'[c] => b = c
    BY <1>2, <2>1, <2>2, <2>3, <2>7 DEF NumbersInv, VersionsNumbered, Stored
  <2>9. RegistryTypes'
    BY <1>1, <1>6 DEF CommitVersion, Goto, RegistryTypes, Requests, Labels
  <2>10. \A b \in Additions :
           progress'[b] = IF b = a THEN "done" ELSE progress[b]
    BY <1>1, <1>6 DEF CommitVersion, Goto, RegistryTypes, Requests
  <2>11. asked' = asked /\ progress[a] = "commit"
    BY <1>6 DEF CommitVersion
  <2>12. VersionsNumbered'
    BY <2>4, <2>6, <2>8 DEF VersionsNumbered
  <2>13. \A b \in Additions : progress'[b] # "done" => number'[b] = 0
    BY <2>2, <2>10 DEF NumbersInv
  <2>14. \A b \in Additions : progress'[b] # "commit"
    BY <2>10, <2>11 DEF NumbersInv
  <2>15. \A b \in Additions : progress'[b] = "insert" => asked'[b] \in 1 .. n + 2
    BY <1>2, <2>10, <2>11 DEF NumbersInv
  <2>16. NumbersInv'
    BY <1>2, <2>4, <2>12, <2>13, <2>14, <2>15 DEF NumbersInv
  <2>17. PublicationsInv'
    BY <1>1, <1>6, PublicationsFrame DEF CommitVersion, Goto, RegistryTypes, Requests
  <2>. QED  BY <2>9, <2>16, <2>17
<1>. QED  BY <1>3, <1>4, <1>5, <1>6 DEF Addition

(* Publications.                                                           *)
LEMMA PublicationKeeps ==
    ASSUME RegistryInv, NEW q \in Publications, Publication(q)
    PROVE  RegistryInv'
<1> USE DEF RegistryInv
<1> DEFINE v == TargetOf[q]
<1>1. q \notin Additions /\ q \in Requests /\ v \in Additions
  BY VersionRegistryAssumption DEF Requests
<1>2. ASSUME ReadState(q) PROVE RegistryInv'
  <2>1. \/ /\ v \notin Stored
           /\ Goto(q, "refused")
        \/ /\ v \in published
           /\ kind = "judge"
           /\ Goto(q, "refused")
        \/ /\ v \in published
           /\ Goto(q, "done")
        \/ /\ v \in Bare
           /\ Goto(q, "refused")
        \/ Goto(q, "update")
    BY <1>2 DEF ReadState
  <2>2. RegistryTypes'
    BY <1>1, <1>2, <2>1 DEF ReadState, Goto, RegistryTypes, Requests, Labels
  <2>3. NumbersInv'
    BY <1>1, <1>2, <2>1, NumbersFrame DEF ReadState, Goto, RegistryTypes, Requests
  <2>4. UNCHANGED <<published, stamps, locked, cited>> /\ progress[q] = "idle"
    BY <1>2 DEF ReadState
  <2>5. progress'[q] # "commit" /\ (progress'[q] = "done" => v \in published)
    BY <1>1, <2>1 DEF Goto, RegistryTypes, Requests
  <2>6. \A p \in Publications \ {q} : progress'[p] = progress[p]
    BY <2>1 DEF Goto, RegistryTypes, Requests
  <2>7. PublicationsInv'
    BY <2>4, <2>5, <2>6 DEF PublicationsInv, CitedDraftStands
  <2>. QED  BY <2>2, <2>3, <2>7
<1>3. ASSUME PublishVersion(q) PROVE RegistryInv'
  <2>1. RegistryTypes'
    BY <1>1, <1>3 DEF PublishVersion, Goto, RegistryTypes, Requests, Labels
  <2>2. NumbersInv'
    BY <1>1, <1>3, NumbersFrame DEF PublishVersion, Goto, RegistryTypes, Requests
  <2>3. /\ progress[q] = "update"
        /\ locked[v] = {}
        /\ v \notin published
        /\ cited[v] = "never"
    BY <1>3 DEF PublishVersion, Frozen
  <2>4. UNCHANGED <<published, stamps, cited>>
    BY <1>3 DEF PublishVersion
  <2>5. \A p \in Publications : progress'[p] = IF p = q THEN "commit" ELSE progress[p]
    BY <1>3 DEF PublishVersion, Goto, RegistryTypes, Requests
  <2>6. \A a \in Additions : locked'[a] = IF a = v THEN {q} ELSE locked[a]
    BY <1>1, <1>3 DEF PublishVersion, RegistryTypes
  <2>7. \A a \in Additions, p \in Publications :
          p \in locked'[a] <=> (progress'[p] = "commit" /\ TargetOf[p] = a)
    BY <1>1, <2>3, <2>5, <2>6 DEF PublicationsInv
  <2>8. PublicationsInv'
    BY <2>3, <2>4, <2>5, <2>6, <2>7 DEF PublicationsInv, CitedDraftStands
  <2>. QED  BY <2>1, <2>2, <2>8
<1>4. ASSUME RefuseFrozen(q) PROVE RegistryInv'
  <2>1. RegistryTypes'
    BY <1>1, <1>4 DEF RefuseFrozen, Goto, RegistryTypes, Requests, Labels
  <2>2. NumbersInv'
    BY <1>1, <1>4, NumbersFrame DEF RefuseFrozen, Goto, RegistryTypes, Requests
  <2>3. UNCHANGED <<published, stamps, locked, cited>> /\ progress[q] = "update"
    BY <1>4 DEF RefuseFrozen
  <2>4. \A p \in Publications : progress'[p] = IF p = q THEN "refused" ELSE progress[p]
    BY <1>4 DEF RefuseFrozen, Goto, RegistryTypes, Requests
  <2>5. PublicationsInv'
    BY <2>3, <2>4 DEF PublicationsInv, CitedDraftStands
  <2>. QED  BY <2>1, <2>2, <2>5
<1>5. ASSUME CommitPublication(q) PROVE RegistryInv'
  <2>1. RegistryTypes'
    BY <1>1, <1>5 DEF CommitPublication, Goto, RegistryTypes, Requests, Labels
  <2>2. Stored' = Stored /\ Numbers' = Numbers
    BY <1>5 DEF CommitPublication, Stored, Numbers
  <2>3. \A a \in Additions : progress'[a] = progress[a]
    BY <1>1, <1>5 DEF CommitPublication, Goto, RegistryTypes, Requests
  <2>4. UNCHANGED <<number, asked>>
    BY <1>5 DEF CommitPublication
  <2>5. NumbersInv'
    BY <2>3, <2>4, NumbersFrame
  <2>6. progress[q] = "commit" /\ q \in locked[v]
    BY <1>1, <1>5 DEF CommitPublication, PublicationsInv
  <2>7. v \notin published /\ cited[v] # "draft" /\ stamps[v] = {}
    BY <1>1, <2>6 DEF PublicationsInv
  <2>8. published' = published \cup {v} /\ cited' = cited
    BY <1>5 DEF CommitPublication
  <2>9. \A a \in Additions : stamps'[a] = IF a = v THEN {q} ELSE stamps[a]
    BY <1>1, <1>5, <2>7 DEF CommitPublication, RegistryTypes
  <2>10. \A a \in Additions : locked'[a] = IF a = v THEN {} ELSE locked[a]
    BY <1>1, <1>5 DEF CommitPublication, RegistryTypes
  <2>11. \A p \in Publications : progress'[p] = IF p = q THEN "done" ELSE progress[p]
    BY <1>5 DEF CommitPublication, Goto, RegistryTypes, Requests
  <2>12. \A a \in Additions, p \in Publications :
           p \in locked'[a] <=> (progress'[p] = "commit" /\ TargetOf[p] = a)
    BY <1>1, <2>6, <2>10, <2>11 DEF PublicationsInv
  <2>13. \A a \in Additions :
           a \in published' => \E p \in Publications : stamps'[a] = {p}
    BY <2>8, <2>9 DEF PublicationsInv
  <2>14. PublicationsInv'
    BY <2>7, <2>8, <2>9, <2>10, <2>11, <2>12, <2>13
       DEF PublicationsInv, CitedDraftStands
  <2>. QED  BY <2>1, <2>5, <2>14
<1>. QED  BY <1>2, <1>3, <1>4, <1>5 DEF Publication

(* Evidence.                                                               *)
LEMMA CiteKeeps ==
    ASSUME RegistryInv, NEW a \in Additions, Cite(a)
    PROVE  RegistryInv'
<1> USE DEF RegistryInv
<1>1. RegistryTypes'
  BY DEF Cite, RegistryTypes
<1>2. NumbersInv'
  BY NumbersFrame DEF Cite
<1>3. \A b \in Additions :
        \/ cited'[b] = cited[b]
        \/ b = a /\ cited'[b] # "draft"
        \/ b = a /\ a \notin published /\ locked[a] = {}
  BY DEF Cite, RegistryTypes
<1>4. UNCHANGED <<published, stamps, locked, progress>>
  BY DEF Cite
<1>5. \A b \in Additions :
        locked'[b] # {} => (b \notin published' /\ cited'[b] # "draft")
  BY <1>3, <1>4 DEF PublicationsInv
<1>6. CitedDraftStands'
  BY <1>3, <1>4 DEF PublicationsInv, CitedDraftStands, RegistryTypes
<1>7. PublicationsInv'
  BY <1>4, <1>5, <1>6, Zenon DEF PublicationsInv
<1>. QED  BY <1>1, <1>2, <1>7

(* A lost process.                                                         *)
LEMMA LossKeeps ==
    ASSUME RegistryInv, NEW r \in Requests, LoseRequest(r)
    PROVE  RegistryInv'
<1> USE DEF RegistryInv
<1>1. RegistryTypes'
  BY DEF LoseRequest, Goto, RegistryTypes, Requests, Labels
<1>2. NumbersInv'
  BY NumbersFrame DEF LoseRequest, Goto, RegistryTypes, Requests
<1>3. UNCHANGED <<published, stamps, cited>>
  BY DEF LoseRequest
<1>4. \A q \in Requests : progress'[q] = IF q = r THEN "refused" ELSE progress[q]
  BY DEF LoseRequest, Goto, RegistryTypes
<1>5. \A a \in Additions : locked'[a] = locked[a] \ {r}
  BY DEF LoseRequest
<1>6. \A a \in Additions, q \in Publications :
        q \in locked'[a] <=> (progress'[q] = "commit" /\ TargetOf[q] = a)
  BY <1>4, <1>5 DEF PublicationsInv, Requests
<1>7. \A q \in Publications : progress'[q] = "done" => progress[q] = "done"
  BY <1>4 DEF Requests
<1>8. PublicationsInv'
  BY <1>3, <1>5, <1>6, <1>7 DEF PublicationsInv, CitedDraftStands
<1>. QED  BY <1>1, <1>2, <1>8

-----------------------------------------------------------------------------
LEMMA StepRegistry ==
    ASSUME RegistryInv, [RegistryNext]_registryVars
    PROVE  RegistryInv'
<1>1. ASSUME NEW a \in Additions, Addition(a) PROVE RegistryInv'
  BY <1>1, AdditionKeeps
<1>2. ASSUME NEW a \in Additions, Cite(a) PROVE RegistryInv'
  BY <1>2, CiteKeeps
<1>3. ASSUME NEW q \in Publications, Publication(q) PROVE RegistryInv'
  BY <1>3, PublicationKeeps
<1>4. ASSUME NEW r \in Requests, LoseRequest(r) PROVE RegistryInv'
  BY <1>4, LossKeeps
<1>5. ASSUME UNCHANGED registryVars PROVE RegistryInv'
  <2>1. Stored' = Stored /\ Numbers' = Numbers
    BY <1>5 DEF registryVars, Stored, Numbers
  <2>. QED  BY <1>5, <2>1 DEF registryVars, RegistryInv, RegistryTypes, NumbersInv,
       VersionsNumbered, PublicationsInv, CitedDraftStands
<1>. QED  BY <1>1, <1>2, <1>3, <1>4, <1>5 DEF RegistryNext, Requests

(* The invariant of the registry: how stored versions are numbered, what   *)
(* each request has read, and who holds which version's row.               *)
THEOREM RegistryInvariant == RegistrySpec => []RegistryInv
<1>1. RegistryInit => RegistryInv
  BY InitRegistry
<1>2. RegistryInv /\ [RegistryNext]_registryVars => RegistryInv'
  BY StepRegistry
<1>. QED  BY <1>1, <1>2, PTL DEF RegistrySpec

(* Versions are numbered from one without a gap or a double, each is       *)
(* published at most once, an answer that it is published is true, and a   *)
(* draft that completed evidence cites is never published afterwards,      *)
(* whichever requests race or are lost.                                    *)
THEOREM RegistryKept == RegistrySpec => []RegistryStands
<1>1. RegistryInv => RegistryStands
  <2> SUFFICES ASSUME RegistryInv PROVE RegistryStands
    OBVIOUS
  <2>1. Cardinality({}) = 0 /\ \A q : Cardinality({q}) = 1
    BY FS_EmptySet, FS_Singleton, Zenon
  <2>2. \A a \in Additions : /\ Cardinality(stamps[a]) <= 1
                             /\ a \in published <=> stamps[a] # {}
    <3> SUFFICES ASSUME NEW a \in Additions
                 PROVE  /\ Cardinality(stamps[a]) <= 1
                        /\ a \in published <=> stamps[a] # {}
      OBVIOUS
    <3>1. CASE a \in published
      <4>1. PICK q \in Publications : stamps[a] = {q}
        BY <3>1 DEF RegistryInv, PublicationsInv
      <4>2. Cardinality(stamps[a]) = 1
        BY <2>1, <4>1, Zenon
      <4>. QED  BY <3>1, <4>1, <4>2
    <3>2. CASE a \notin published
      BY <2>1, <3>2 DEF RegistryInv, PublicationsInv
    <3>. QED  BY <3>1, <3>2
  <2>. QED  BY <2>2
    DEF RegistryInv, NumbersInv, PublicationsInv, RegistryStands, PublishedOnce
<1>2. RegistrySpec => []RegistryInv
  BY RegistryInvariant
<1>. QED  BY <1>1, <1>2, PTL

-----------------------------------------------------------------------------
Phases == {"new", "reread", "steps", "update", "commit", "end"}

PlanOutcomes ==
    {"none", "refused", "settled", "not the stored plan", "frozen", "duplicate",
     "refused by trigger", "done", "lost"}

PlanTypes ==
    /\ plan \in [state : {"draft", "accepted"}, digest : Forms, valid : BOOLEAN,
                 acceptedBy : Acceptances \cup {NoRequest}]
    /\ stepsUnder \in SUBSET Forms
    /\ adding \in [PlanRequests -> SUBSET Forms]
    /\ amended \in SUBSET [by : Amendments, prior : Forms]
    /\ rowLock \in PlanRequests \cup {NoRequest}
    /\ request \in [PlanRequests ->
                      [phase : Phases, read : Forms, reread : Forms,
                       state : {"draft"}, outcome : PlanOutcomes]]

(* Who is about to commit holds the row, and nobody settled it before.     *)
RowInv ==
    \A q \in PlanRequests :
        /\ request[q].phase = "commit" <=> rowLock = q
        /\ request[q].phase = "commit" => plan.state = "draft"

(* A plan is read as its rows give it back; an acceptance goes on only     *)
(* with a plan that validates and is stored in that form, and it stays so. *)
AcceptanceInv ==
    /\ \A q \in PlanRequests :
         /\ request[q].phase \in {"reread", "steps", "update", "commit"}
              => request[q].read = "stored"
         /\ request[q].outcome = "done" => request[q].phase = "end"
    /\ \A q \in Acceptances :
         /\ request[q].phase \in {"reread", "update", "commit"} => plan.valid
         /\ request[q].phase \in {"update", "commit"} => plan.digest = "stored"
         /\ request[q].outcome = "done"
              => plan.state = "accepted" /\ plan.acceptedBy = q
    /\ plan.state = "accepted" =>
         /\ plan.valid /\ plan.acceptedBy \in Acceptances
         /\ LET r == request[plan.acceptedBy]
            IN r.phase = "end" /\ r.outcome = "done" /\ r.read = plan.digest

(* The steps of every digest the record names are there, or come with it.  *)
StepsInv ==
    /\ plan.digest \in stepsUnder
    /\ \A a \in amended : a.prior \in stepsUnder
    /\ \A q \in Amendments :
         /\ request[q].phase \in {"steps", "update", "commit"}
              => request[q].reread \in stepsUnder
         /\ request[q].phase \in {"update", "commit"}
              => request[q].read \in stepsUnder \cup adding[q]

PlanInv == PlanTypes /\ RowInv /\ AcceptanceInv /\ StepsInv

-----------------------------------------------------------------------------
LEMMA PlanInitInv == ASSUME PlanInit PROVE PlanInv
<1>1. PlanTypes
  BY PlanReviewAssumption DEF PlanInit, PlanTypes, Forms, NewRequest, Phases, PlanOutcomes
<1>2. RowInv
  BY PlanReviewAssumption DEF PlanInit, RowInv, NewRequest
<1>3. AcceptanceInv
  BY DEF PlanInit, AcceptanceInv, NewRequest, PlanRequests
<1>4. StepsInv
  BY DEF PlanInit, StepsInv, NewRequest, PlanRequests
<1>. QED  BY <1>1, <1>2, <1>3, <1>4 DEF PlanInv

(* A request that only moves on, or has read something, disturbs no other. *)
LEMMA OnlyMoved ==
    ASSUME PlanInv, NEW q \in PlanRequests,
           NEW r \in [phase : Phases, read : Forms, reread : Forms,
                      state : {"draft"}, outcome : PlanOutcomes],
           request' = [request EXCEPT ![q] = r],
           request[q].phase \notin {"commit", "end"},
           r.phase # "commit", r.outcome # "done",
           r.phase \in {"reread", "steps", "update"} => r.read = "stored",
           q \in Acceptances =>
             /\ r.phase \in {"reread", "update"} => plan.valid
             /\ r.phase = "update" => plan.digest = "stored",
           q \in Amendments =>
             /\ r.phase \in {"steps", "update"} => r.reread \in stepsUnder
             /\ r.phase = "update" => r.read \in stepsUnder \cup adding'[q],
           adding' \in [PlanRequests -> SUBSET Forms],
           \A o \in PlanRequests \ {q} : adding'[o] = adding[o],
           UNCHANGED <<plan, stepsUnder, amended, rowLock>>
    PROVE  PlanInv'
<1>1. /\ request'[q] = r
      /\ \A o \in PlanRequests \ {q} : request'[o] = request[o]
  BY DEF PlanInv, PlanTypes
<1>2. PlanTypes'
  BY DEF PlanInv, PlanTypes
<1>3. RowInv'
  BY <1>1 DEF PlanInv, RowInv
<1>4. AcceptanceInv'
  <2>1. plan.state = "accepted" => plan.acceptedBy # q
    BY DEF PlanInv, AcceptanceInv
  <2>. QED  BY <1>1, <2>1 DEF PlanInv, AcceptanceInv, PlanRequests
<1>5. StepsInv'
  BY <1>1 DEF PlanInv, StepsInv, PlanRequests
<1>. QED  BY <1>2, <1>3, <1>4, <1>5 DEF PlanInv

LEMMA ReadKeeps == ASSUME PlanInv,
        NEW q \in PlanRequests, ReadPlan(q) PROVE PlanInv'
<1>1. request[q] \in [phase : Phases, read : Forms, reread : Forms,
                      state : {"draft"}, outcome : PlanOutcomes]
  BY DEF PlanInv, PlanTypes
<1>2. /\ request[q].phase = "new"
      /\ adding' \in [PlanRequests -> SUBSET Forms] /\ adding' = adding
      /\ UNCHANGED <<plan, stepsUnder, amended, rowLock>>
  BY DEF ReadPlan, PlanInv, PlanTypes
<1>3. CASE plan.state # "draft" \/ (q \in Acceptances /\ ~plan.valid)
  <2> DEFINE r == [request[q] EXCEPT !.phase = "end", !.outcome = "refused"]
  <2>1. request' = [request EXCEPT ![q] = r]
    BY <1>3 DEF ReadPlan, Move
  <2>2. /\ r \in [phase : Phases, read : Forms, reread : Forms,
                  state : {"draft"}, outcome : PlanOutcomes]
        /\ r.phase = "end" /\ r.outcome = "refused"
    BY <1>1 DEF Phases, PlanOutcomes
  <2> HIDE DEF r
  <2>. QED  BY <1>2, <2>1, <2>2, OnlyMoved
<1>4. CASE ~(plan.state # "draft" \/ (q \in Acceptances /\ ~plan.valid))
  <2> DEFINE r == [request[q] EXCEPT !.phase = "reread", !.read = "stored"]
  <2>1. request' = [request EXCEPT ![q] = r]
    BY <1>4 DEF ReadPlan, Rehydrated
  <2>2. /\ r \in [phase : Phases, read : Forms, reread : Forms,
                  state : {"draft"}, outcome : PlanOutcomes]
        /\ r.phase = "reread" /\ r.read = "stored" /\ r.outcome = request[q].outcome
    BY <1>1 DEF Phases, Forms
  <2>3. request[q].outcome # "done"
    BY <1>2 DEF PlanInv, AcceptanceInv
  <2>4. q \in Acceptances => plan.valid
    BY <1>4
  <2> HIDE DEF r
  <2>. QED  BY <1>2, <2>1, <2>2, <2>3, <2>4, OnlyMoved
<1>. QED  BY <1>3, <1>4

LEMMA RereadKeeps == ASSUME PlanInv,
        NEW q \in PlanRequests, RereadPlan(q) PROVE PlanInv'
<1>1. /\ request[q] \in [phase : Phases, read : Forms, reread : Forms,
                         state : {"draft"}, outcome : PlanOutcomes]
      /\ request[q].phase = "reread" /\ request[q].read = "stored"
      /\ request[q].outcome # "done"
      /\ plan.digest \in Forms /\ plan.digest \in stepsUnder
      /\ q \in Acceptances => plan.valid
  BY DEF RereadPlan, PlanInv, PlanTypes, AcceptanceInv, StepsInv
<1>2. /\ adding' \in [PlanRequests -> SUBSET Forms] /\ adding' = adding
      /\ UNCHANGED <<plan, stepsUnder, amended, rowLock>>
  BY DEF RereadPlan, PlanInv, PlanTypes
<1>3. ASSUME NEW o \in {"settled", "not the stored plan"}, Move(q, "end", o)
      PROVE  PlanInv'
  <2> DEFINE r == [request[q] EXCEPT !.phase = "end", !.outcome = o]
  <2>1. request' = [request EXCEPT ![q] = r]
    BY <1>3 DEF Move
  <2>2. /\ r \in [phase : Phases, read : Forms, reread : Forms,
                  state : {"draft"}, outcome : PlanOutcomes]
        /\ r.phase = "end" /\ r.outcome # "done"
    BY <1>1 DEF Phases, PlanOutcomes
  <2> HIDE DEF r
  <2>. QED  BY <1>1, <1>2, <2>1, <2>2, OnlyMoved
<1>4. CASE plan.state = "draft" /\ ~(q \in Acceptances /\ request[q].read # plan.digest)
  <2> DEFINE r == [request[q] EXCEPT
                     !.phase = IF q \in Acceptances THEN "update" ELSE "steps",
                     !.reread = plan.digest]
  <2>1. request' = [request EXCEPT ![q] = r]
    BY <1>4 DEF RereadPlan
  <2>2. /\ r \in [phase : Phases, read : Forms, reread : Forms,
                  state : {"draft"}, outcome : PlanOutcomes]
        /\ r.phase = IF q \in Acceptances THEN "update" ELSE "steps"
        /\ r.read = "stored" /\ r.reread = plan.digest
        /\ r.outcome = request[q].outcome
    BY <1>1 DEF Phases
  <2>3. q \in Acceptances => plan.digest = "stored"
    BY <1>1, <1>4
  <2>4. q \in Amendments => q \notin Acceptances
    BY PlanReviewAssumption
  <2> HIDE DEF r
  <2>. QED  BY <1>1, <1>2, <2>1, <2>2, <2>3, <2>4, OnlyMoved
<1>. QED  BY <1>3, <1>4 DEF RereadPlan

LEMMA StepsKeep == ASSUME PlanInv,
        NEW q \in Amendments, WriteSteps(q) PROVE PlanInv'
<1>1. /\ q \in PlanRequests /\ q \notin Acceptances
      /\ request[q] \in [phase : Phases, read : Forms, reread : Forms,
                         state : {"draft"}, outcome : PlanOutcomes]
      /\ request[q].phase = "steps" /\ request[q].read = "stored"
      /\ request[q].reread \in stepsUnder
  BY PlanReviewAssumption
       DEF WriteSteps, PlanInv, PlanTypes, AcceptanceInv, StepsInv, PlanRequests
<1>2. /\ UNCHANGED <<plan, stepsUnder, amended, rowLock>>
      /\ adding' = [adding EXCEPT ![q] =
                      IF NeedsSteps(q) /\ request'[q].phase = "update"
                      THEN {request[q].read} ELSE {}]
  BY DEF WriteSteps
<1>3. /\ adding' \in [PlanRequests -> SUBSET Forms]
      /\ \A o \in PlanRequests \ {q} : adding'[o] = adding[o]
      /\ adding'[q] = IF NeedsSteps(q) /\ request'[q].phase = "update"
                      THEN {request[q].read} ELSE {}
  BY <1>1, <1>2 DEF PlanInv, PlanTypes
<1>4. PICK p \in {"end", "update"}, o \in {"frozen", "duplicate", "none"} :
         Move(q, p, o)
  BY DEF WriteSteps
<1> DEFINE r == [request[q] EXCEPT !.phase = p, !.outcome = o]
<1>5. request' = [request EXCEPT ![q] = r]
  BY <1>4 DEF Move
<1>6. /\ r \in [phase : Phases, read : Forms, reread : Forms,
                state : {"draft"}, outcome : PlanOutcomes]
      /\ r.phase = p /\ r.outcome = o /\ r.read = "stored"
      /\ r.reread = request[q].reread
  BY <1>1 DEF Phases, PlanOutcomes
<1>7. p = "update" => r.read \in stepsUnder \cup adding'[q]
  <2>1. request'[q].phase = p
    BY <1>1, <1>5, <1>6 DEF PlanInv, PlanTypes
  <2>. QED  BY <1>1, <1>3, <1>6, <2>1 DEF NeedsSteps
<1> HIDE DEF r
<1>. QED  BY <1>1, <1>2, <1>3, <1>5, <1>6, <1>7, OnlyMoved

LEMMA UpdateCommits == ASSUME PlanInv,
        NEW q \in PlanRequests, UpdatePlan(q) PROVE PlanInv'
<1>1. request[q] \in [phase : Phases, read : Forms, reread : Forms,
                      state : {"draft"}, outcome : PlanOutcomes]
  BY DEF PlanInv, PlanTypes
<1>2. CASE SettledOnce
  <2> DEFINE r == [request[q] EXCEPT !.phase = "end",
                                     !.outcome = "refused by trigger"]
  <2>1. request' = [request EXCEPT ![q] = r]
    BY <1>2 DEF UpdatePlan, Move
  <2>2. r \in [phase : Phases, read : Forms, reread : Forms,
               state : {"draft"}, outcome : PlanOutcomes]
    BY <1>1 DEF Phases, PlanOutcomes
  <2>3. r.phase = "end" /\ r.outcome = "refused by trigger"
    BY <1>1
  <2>4. /\ adding' \in [PlanRequests -> SUBSET Forms]
        /\ \A o \in PlanRequests \ {q} : adding'[o] = adding[o]
        /\ UNCHANGED <<plan, stepsUnder, amended, rowLock>>
        /\ request[q].phase = "update"
    BY <1>2 DEF UpdatePlan, PlanInv, PlanTypes
  <2> HIDE DEF r
  <2>. QED  BY <2>1, <2>2, <2>3, <2>4, OnlyMoved
<1>3. CASE ~SettledOnce
  <2>1. /\ request[q].phase = "update" /\ rowLock = NoRequest /\ rowLock' = q
        /\ UNCHANGED <<plan, stepsUnder, amended, adding>>
    BY <1>3 DEF UpdatePlan
  <2>2. request' = [request EXCEPT ![q] =
                      [request[q] EXCEPT !.phase = "commit", !.outcome = "none"]]
    BY <1>3 DEF UpdatePlan, Move
  <2>3. /\ request'[q].phase = "commit" /\ request'[q].outcome = "none"
        /\ request'[q].read = request[q].read
        /\ request'[q].reread = request[q].reread
        /\ \A o \in PlanRequests \ {q} : request'[o] = request[o]
    BY <1>1, <2>2 DEF PlanInv, PlanTypes
  <2>4. plan.state = "draft"
    BY <1>3 DEF SettledOnce, PlanInv, PlanTypes
  <2>5. PlanTypes'
    BY <1>1, <2>1, <2>2 DEF PlanInv, PlanTypes, Phases, PlanOutcomes
  <2>6. RowInv'
    BY <2>1, <2>3, <2>4, PlanReviewAssumption DEF PlanInv, RowInv
  <2>7. AcceptanceInv'
    BY <2>1, <2>3, <2>4 DEF PlanInv, AcceptanceInv, PlanRequests
  <2>8. StepsInv'
    BY <2>1, <2>3 DEF PlanInv, StepsInv, PlanRequests
  <2>. QED  BY <2>5, <2>6, <2>7, <2>8 DEF PlanInv
<1>. QED  BY <1>2, <1>3

(* A request that is lost gives its row and its steps up.                  *)
LEMMA PlanLossKeeps == ASSUME PlanInv,
        NEW q \in PlanRequests, LosePlanRequest(q) PROVE PlanInv'
<1>1. /\ request[q] \in [phase : Phases, read : Forms, reread : Forms,
                         state : {"draft"}, outcome : PlanOutcomes]
      /\ request[q].phase \in {"steps", "update", "commit"}
      /\ UNCHANGED <<plan, stepsUnder, amended>>
  BY DEF LosePlanRequest, PlanInv, PlanTypes
<1>2. request' = [request EXCEPT ![q] =
                    [request[q] EXCEPT !.phase = "end", !.outcome = "lost"]]
  BY DEF LosePlanRequest, Move
<1>3. /\ request'[q].phase = "end" /\ request'[q].outcome = "lost"
      /\ \A o \in PlanRequests \ {q} : request'[o] = request[o]
  BY <1>1, <1>2 DEF PlanInv, PlanTypes
<1>4. /\ adding' \in [PlanRequests -> SUBSET Forms]
      /\ \A o \in PlanRequests \ {q} : adding'[o] = adding[o]
  BY DEF LosePlanRequest, PlanInv, PlanTypes
<1>5. rowLock' = IF rowLock = q THEN NoRequest ELSE rowLock
  BY DEF LosePlanRequest
<1>6. PlanTypes'
  BY <1>1, <1>2, <1>4, <1>5 DEF PlanInv, PlanTypes, Phases, PlanOutcomes
<1>7. RowInv'
  BY <1>1, <1>3, <1>5, PlanReviewAssumption DEF PlanInv, RowInv
<1>8. AcceptanceInv'
  <2>1. plan.state = "accepted" => plan.acceptedBy # q
    BY <1>1 DEF PlanInv, AcceptanceInv
  <2>. QED  BY <1>1, <1>3, <2>1 DEF PlanInv, AcceptanceInv, PlanRequests
<1>9. StepsInv'
  BY <1>1, <1>3, <1>4 DEF PlanInv, StepsInv, PlanRequests
<1>. QED  BY <1>6, <1>7, <1>8, <1>9 DEF PlanInv

(* Whoever commits holds the row, so no other request is about to, and a   *)
(* draft has no acceptance yet.                                            *)
LEMMA CommitKeeps == ASSUME PlanInv,
        NEW q \in PlanRequests, CommitPlan(q) PROVE PlanInv'
<1>1. /\ request[q] \in [phase : Phases, read : Forms, reread : Forms,
                         state : {"draft"}, outcome : PlanOutcomes]
      /\ request[q].phase = "commit" /\ request[q].read = "stored"
      /\ plan.state = "draft" /\ rowLock = q
      /\ rowLock' = NoRequest
  BY DEF CommitPlan, PlanInv, PlanTypes, RowInv, AcceptanceInv
<1>2. request' = [request EXCEPT ![q] =
                    [request[q] EXCEPT !.phase = "end", !.outcome = "done"]]
  BY DEF CommitPlan, Move
<1>3. /\ request'[q].phase = "end" /\ request'[q].outcome = "done"
      /\ request'[q].read = "stored"
      /\ \A o \in PlanRequests \ {q} : request'[o] = request[o]
  BY <1>1, <1>2 DEF PlanInv, PlanTypes
<1>4. /\ adding' \in [PlanRequests -> SUBSET Forms]
      /\ \A o \in PlanRequests \ {q} : adding'[o] = adding[o]
      /\ stepsUnder' = stepsUnder \cup adding[q] /\ stepsUnder' \in SUBSET Forms
  BY DEF CommitPlan, PlanInv, PlanTypes
<1>5. \A o \in PlanRequests \ {q} : request'[o].phase # "commit"
  BY <1>1, <1>3 DEF PlanInv, RowInv
<1>6. \A o \in Acceptances : request[o].outcome # "done"
  BY <1>1 DEF PlanInv, AcceptanceInv
<1>7. RowInv'
  BY <1>1, <1>3, <1>5, PlanReviewAssumption DEF RowInv
<1>8. CASE q \in Acceptances
  <2>1. /\ plan' = [plan EXCEPT !.state = "accepted", !.acceptedBy = q]
        /\ amended' = amended
        /\ plan.valid /\ plan.digest = "stored"
    BY <1>1, <1>8, PlanReviewAssumption DEF CommitPlan, PlanInv, AcceptanceInv
  <2>2. /\ plan'.state = "accepted" /\ plan'.acceptedBy = q
        /\ plan'.digest = "stored" /\ plan'.valid = plan.valid
    BY <2>1 DEF PlanInv, PlanTypes
  <2>3. PlanTypes'
    BY <1>1, <1>2, <1>4, <1>8, <2>1 DEF PlanInv, PlanTypes, Phases, PlanOutcomes
  <2>4. AcceptanceInv'
    BY <1>3, <1>6, <1>8, <2>1, <2>2 DEF PlanInv, AcceptanceInv, PlanRequests
  <2>5. StepsInv'
    BY <1>3, <1>4, <1>8, <2>1, <2>2, PlanReviewAssumption
       DEF PlanInv, StepsInv, PlanRequests
  <2>. QED  BY <1>7, <2>3, <2>4, <2>5 DEF PlanInv
<1>9. CASE q \in Amendments
  <2>1. /\ plan' = [plan EXCEPT !.digest = "stored"]
        /\ amended' = amended \cup {[by |-> q, prior |-> request[q].reread]}
        /\ q \notin Acceptances
    BY <1>1, <1>9, PlanReviewAssumption DEF CommitPlan
  <2>2. /\ plan'.state = "draft" /\ plan'.digest = "stored"
        /\ plan'.valid = plan.valid
    BY <1>1, <2>1 DEF PlanInv, PlanTypes
  <2>3. PlanTypes'
    <3>1. plan' \in [state : {"draft", "accepted"}, digest : Forms, valid : BOOLEAN,
                     acceptedBy : Acceptances \cup {NoRequest}]
      BY <2>1 DEF PlanInv, PlanTypes, Forms
    <3>2. amended' \in SUBSET [by : Amendments, prior : Forms]
      BY <1>1, <1>9, <2>1 DEF PlanInv, PlanTypes
    <3>3. request' \in [PlanRequests ->
                          [phase : Phases, read : Forms, reread : Forms,
                           state : {"draft"}, outcome : PlanOutcomes]]
      BY <1>1, <1>2 DEF PlanInv, PlanTypes, Phases, PlanOutcomes
    <3>. QED  BY <1>1, <1>4, <3>1, <3>2, <3>3 DEF PlanTypes
  <2>4. AcceptanceInv'
    BY <1>3, <1>6, <2>1, <2>2 DEF PlanInv, AcceptanceInv, PlanRequests
  <2>5. /\ request[q].reread \in stepsUnder
        /\ "stored" \in stepsUnder \cup adding[q]
    BY <1>1, <1>9 DEF PlanInv, StepsInv
  <2>6. StepsInv'
    BY <1>3, <1>4, <2>1, <2>2, <2>5, PlanReviewAssumption
       DEF PlanInv, StepsInv, PlanRequests
  <2>. QED  BY <1>7, <2>3, <2>4, <2>6 DEF PlanInv
<1>. QED  BY <1>8, <1>9 DEF PlanRequests

(* A plan's row, its steps and the requests about it agree at every step.  *)
THEOREM PlanInvariant == PlanSpec => []PlanInv
<1>1. PlanInit => PlanInv
  BY PlanInitInv
<1>2. PlanInv /\ [PlanNext]_planVars => PlanInv'
  <2> SUFFICES ASSUME PlanInv, [PlanNext]_planVars PROVE PlanInv'
    OBVIOUS
  <2>1. CASE UNCHANGED planVars
    BY <2>1 DEF planVars, PlanInv, PlanTypes, RowInv, AcceptanceInv, StepsInv
  <2>2. CASE PlanNext
    BY <2>2, ReadKeeps, RereadKeeps, StepsKeep, UpdateCommits, CommitKeeps,
       PlanLossKeeps DEF PlanNext
  <2>. QED  BY <2>1, <2>2
<1>. QED  BY <1>1, <1>2, PTL DEF PlanSpec

(* What is accepted is what was reviewed, by one request, and stays so,    *)
(* whatever requests race (evaluation_plan's triggers).                    *)
THEOREM AcceptedPlanKept == PlanSpec => []AcceptedPlanStands
<1>1. ASSUME PlanInv PROVE AcceptedPlanStands
  <2>1. ASSUME plan.state = "accepted"
        PROVE  /\ plan.valid /\ plan.digest = request[plan.acceptedBy].read
               /\ Cardinality({q \in Acceptances : request[q].outcome = "done"}) = 1
    <3>1. {q \in Acceptances : request[q].outcome = "done"} = {plan.acceptedBy}
      BY <1>1, <2>1 DEF PlanInv, AcceptanceInv
    <3>. QED  BY <1>1, <2>1, <3>1, FS_Singleton DEF PlanInv, AcceptanceInv
  <2>2. {plan.digest} \cup {a.prior : a \in amended} \subseteq stepsUnder
    BY <1>1 DEF PlanInv, StepsInv
  <2>. QED  BY <2>1, <2>2 DEF AcceptedPlanStands
<1>. QED  BY <1>1, PlanInvariant, PTL

-----------------------------------------------------------------------------
(* Largest and least.                                                      *)

(* The library chooses the largest element of a finite set of integers,    *)
(* and the least.                                                          *)
LEMMA MaxOf ==
    ASSUME NEW S \in SUBSET Int, IsFiniteSet(S), S # {}
    PROVE  Max(S) \in S /\ \A y \in S : y <= Max(S)
<1>1. PICK x \in S : \A y \in S : y <= x
  BY LargestElement
<1>2. \A y \in S : x >= y
  BY <1>1
<1>3. Max(S) \in S /\ \A y \in S : Max(S) >= y
  BY <1>2, Zenon DEF Max
<1>. QED  BY <1>3

LEMMA MinOf ==
    ASSUME NEW S \in SUBSET Int, IsFiniteSet(S), S # {}
    PROVE  Min(S) \in S /\ \A y \in S : Min(S) <= y
<1>1. PICK x \in S : \A y \in S : x <= y
  BY SmallestElement
<1>. QED  BY <1>1, Zenon DEF Min

-----------------------------------------------------------------------------
(* The panel: the calls a judge is asked for.                              *)

(* What SpentOnAttempts unfolds to: the last reply first.                  *)
CostSums(s, iter) ==
    iter = [t \in SUBSET DOMAIN s |->
              IF t = {} THEN 0 ELSE s[Max(t)].cost + iter[t \ {Max(t)}]]

CostIter(s) == CHOOSE iter : CostSums(s, iter)

LEMMA MaxOfInterval == ASSUME NEW k \in Nat, k >= 1 PROVE Max(1 .. k) = k
<1>1. 1 .. k \in SUBSET Int /\ IsFiniteSet(1 .. k) /\ k \in 1 .. k
  BY FS_Interval
<1>2. Max(1 .. k) \in 1 .. k /\ k <= Max(1 .. k)
  BY <1>1, MaxOf
<1>. QED  BY <1>2

(* A fold over a sequence, one element at a time.                          *)
LEMMA FoldUnfolds ==
    ASSUME NEW S, NEW s \in Seq(S)
    PROVE  /\ FoldLeft(AddCost, 0, s) = CostIter(s)[1 .. Len(s)]
           /\ CostIter(s)[{}] = 0
           /\ \A k \in 1 .. Len(s) :
                CostIter(s)[1 .. k] = s[k].cost + CostIter(s)[1 .. k - 1]
<1> DEFINE D == DOMAIN s
           chosen == [t \in SUBSET D |-> Max(t)]
           value == [i \in D |-> s[i].cost]
<1>1. D = 1 .. Len(s) /\ Len(s) \in Nat /\ IsFiniteSet(D)
  BY FS_Interval
<1>2. \A t \in SUBSET D : t # {} => Max(t) \in t
  <2>1. ASSUME NEW t \in SUBSET D, t # {} PROVE t \in SUBSET Int /\ IsFiniteSet(t)
    BY <1>1, FS_Subset
  <2>. QED  BY <2>1, MaxOf
<1>3. Picks(chosen, D)
  BY <1>2 DEF Picks
<1>4. PICK iter : Sums(iter, D, chosen, value)
  <2> HIDE DEF chosen, D, value
  <2>. QED  BY <1>1, <1>3, SumsExist
<1>5. CostSums(s, iter)
  BY <1>2, <1>4 DEF Sums, CostSums
<1>6. CostSums(s, CostIter(s))
  BY <1>5 DEF CostIter
<1>7. FoldLeft(AddCost, 0, s) = CostIter(s)[D]
  BY Zenon DEF FoldLeft, AddCost, MapThenFoldSet, CostIter, CostSums
<1>8. \A t \in SUBSET D :
         CostIter(s)[t] = IF t = {} THEN 0 ELSE s[Max(t)].cost + CostIter(s)[t \ {Max(t)}]
  <2> DEFINE it == CostIter(s)
  <2>1. it = [t \in SUBSET D |-> IF t = {} THEN 0 ELSE s[Max(t)].cost + it[t \ {Max(t)}]]
    BY <1>6 DEF CostSums
  <2> HIDE DEF it
  <2>2. \A t \in SUBSET D :
          it[t] = IF t = {} THEN 0 ELSE s[Max(t)].cost + it[t \ {Max(t)}]
    BY <2>1
  <2>. QED  BY <2>2 DEF it
<1>9. ASSUME NEW k \in 1 .. Len(s)
      PROVE  CostIter(s)[1 .. k] = s[k].cost + CostIter(s)[1 .. k - 1]
  <2>1. Max(1 .. k) = k
    BY <1>1, MaxOfInterval
  <2>2. k \in Nat /\ k >= 1 /\ k <= Len(s)
    BY <1>1
  <2>3. 1 .. k \subseteq 1 .. Len(s) /\ k \in 1 .. k
    BY <1>1, <2>2
  <2>4. (1 .. k) \ {k} = 1 .. (k - 1)
    BY <2>2
  <2>. QED  BY <1>1, <1>8, <2>1, <2>3, <2>4
<1>10. CostIter(s)[{}] = 0
  BY <1>8
<1>. QED  BY <1>1, <1>7, <1>9, <1>10

(* What the last of a number of attempts adds to what they cost.           *)
LEMMA CostOfOneMore ==
    ASSUME NEW S, NEW s \in Seq(S), NEW r \in S, \A x \in S : x.cost \in Int
    PROVE  /\ FoldLeft(AddCost, 0, s) \in Int
           /\ FoldLeft(AddCost, 0, Append(s, r)) = r.cost + FoldLeft(AddCost, 0, s)
<1> DEFINE e == Append(s, r)
           n == Len(s)
           Agree(k) == /\ CostIter(s)[1 .. k] \in Int
                       /\ CostIter(e)[1 .. k] = CostIter(s)[1 .. k]
           Odd == {k \in Nat : k <= n /\ ~ Agree(k)}
<1>1. /\ e \in Seq(S) /\ Len(e) = n + 1 /\ n \in Nat /\ e[n + 1] = r
      /\ \A i \in 1 .. n : e[i] = s[i] /\ s[i] \in S
  OBVIOUS
<1> HIDE DEF e
<1>2. ASSUME Odd # {} PROVE FALSE
  <2>1. PICK k \in Odd : \A j \in Odd : k <= j
    <3>1. Odd \in SUBSET Nat
      OBVIOUS
    <3> HIDE DEF Odd
    <3>. QED  BY <1>2, <3>1, LeastNumber
  <2>2. k # 0
    <3>1. 1 .. 0 = {}
      OBVIOUS
    <3>2. CostIter(s)[1 .. 0] = 0 /\ CostIter(e)[1 .. 0] = 0
      BY <1>1, <3>1, FoldUnfolds
    <3>. QED  BY <3>2
  <2>3. k - 1 \in Nat /\ k - 1 \notin Odd /\ k \in 1 .. n /\ k \in Nat
    <3>1. k \in Nat /\ k <= n
      OBVIOUS
    <3> HIDE DEF Odd
    <3>. QED  BY <1>1, <2>1, <2>2, <3>1
  <2>4. Agree(k - 1)
    BY <1>1, <2>3
  <2>5. CostIter(s)[1 .. k] = s[k].cost + CostIter(s)[1 .. k - 1]
    BY <2>3, FoldUnfolds
  <2>6. CostIter(e)[1 .. k] = e[k].cost + CostIter(e)[1 .. k - 1]
    <3>1. k \in 1 .. Len(e)
      BY <1>1, <2>3
    <3>. QED  BY <1>1, <3>1, FoldUnfolds
  <2>7. e[k] = s[k] /\ s[k].cost \in Int
    BY <1>1, <2>3
  <2>8. Agree(k)
    BY <2>4, <2>5, <2>6, <2>7
  <2>. QED  BY <2>8
<1>3. Agree(n)
  BY <1>1, <1>2
<1>4. CostIter(e)[1 .. n + 1] = r.cost + CostIter(e)[1 .. n]
  <2>1. n + 1 \in 1 .. Len(e) /\ (n + 1) - 1 = n
    BY <1>1
  <2>2. CostIter(e)[1 .. n + 1] = e[n + 1].cost + CostIter(e)[1 .. (n + 1) - 1]
    BY <1>1, <2>1, FoldUnfolds
  <2>. QED  BY <1>1, <2>1, <2>2
<1>5. FoldLeft(AddCost, 0, s) = CostIter(s)[1 .. n]
  BY FoldUnfolds
<1>6. FoldLeft(AddCost, 0, e) = CostIter(e)[1 .. n + 1]
  BY <1>1, FoldUnfolds
<1>. QED  BY <1>3, <1>4, <1>5, <1>6 DEF e

-----------------------------------------------------------------------------
(* While a judge is asked, no reply but the last can be read, and the      *)
(* loop's bounds were still open when the last attempt was made.           *)
AskInv ==
    /\ asking \in {"first", "again", "record", "done"}
    /\ replies \in Seq(Replies) /\ lapses \in Nat
    /\ asking = "first" => lapses = 0
    /\ asking \in {"first", "done"} <=> replies = <<>>
    /\ asking = "again" => ~ IsReadable(Last(replies))
    /\ AskingIsBounded

(* Costs, and the scores of those that scored, are numbers.                *)
LEMMA ReplyFields ==
    ASSUME NEW r \in Replies
    PROVE  /\ r.cost \in Int
           /\ r.resolution = "scored" => r.score \in Int
  BY JudgePanelAssumption DEF Replies, Scored, Silent, Unreadable

LEMMA InitAsk == PanelInit => AskInv
  BY DEF PanelInit, AskInv, AskingIsBounded

(* One more reply after those that could not be read.                      *)
LEMMA OneMoreReply ==
    ASSUME AskInv, asking = "again", NEW r \in Replies,
           replies' = Append(replies, r), lapses' = lapses, WithinBounds,
           asking' \in {"record", "again"}, asking' = "again" => ~ IsReadable(r)
    PROVE  AskInv'
<1> DEFINE n == Len(replies)
           e == Append(replies, r)
<1>1. /\ n \in Nat /\ n >= 1 /\ e \in Seq(Replies) /\ Len(e) = n + 1 /\ e[n + 1] = r
      /\ \A i \in 1 .. n : e[i] = replies[i]
      /\ Tail(replies) \in Seq(Replies) /\ Len(Tail(replies)) = n - 1
      /\ replies # <<>> /\ e # <<>>
  BY DEF AskInv
<1>2. Tail(e) = Append(Tail(replies), r)
  BY <1>1
<1>3. /\ SpentOnAttempts \in Int /\ FoldLeft(AddCost, 0, Tail(e)) = r.cost + SpentOnAttempts
  BY <1>1, <1>2, ReplyFields, CostOfOneMore DEF SpentOnAttempts, Attempts
<1>4. Last(Tail(e)) = r /\ Last(e) = r /\ Len(Tail(e)) = n
  BY <1>1, <1>2 DEF Last
<1>5. Last(replies) = replies[n]
  BY DEF Last
<1>6. \A i \in 1 .. Len(e) - 1 : e[i].resolution = "unreadable"
  BY <1>1, <1>5 DEF AskInv, AskingIsBounded, IsReadable
<1>7. Len(Tail(e)) + lapses <= MaxIterations /\ lapses \in Nat
  BY <1>1, <1>4, JudgePanelAssumption DEF Attempts, WithinBounds, AskInv
<1>8. FoldLeft(AddCost, 0, Tail(e)) - Last(Tail(e)).cost < RegenerationBudget
  BY <1>3, <1>4, ReplyFields, JudgePanelAssumption DEF WithinBounds
<1>9. AskingIsBounded'
  BY <1>6, <1>7, <1>8 DEF AskingIsBounded, Attempts, SpentOnAttempts
<1>. QED  BY <1>1, <1>4, <1>9 DEF AskInv

LEMMA NextAsk == AskInv /\ [PanelNext]_panelVars => AskInv'
<1> SUFFICES ASSUME AskInv, [PanelNext]_panelVars PROVE AskInv'
  OBVIOUS
<1>1. CASE Ask
  <2>1. PICK r \in Replies :
          /\ replies' = Append(replies, r)
          /\ asking' = IF IsReadable(r) THEN "record" ELSE "again"
          /\ lapses' = lapses
    BY <1>1 DEF Ask, Heard
  <2>2. replies = <<>> /\ lapses' = 0
    BY <1>1, <2>1 DEF Ask, AskInv
  <2>3. /\ replies' \in Seq(Replies) /\ Len(replies') = 1 /\ replies'[1] = r
        /\ Tail(replies') = <<>> /\ replies' # <<>>
    BY <2>1, <2>2
  <2>4. AskingIsBounded'
    <3>1. Attempts' = <<>>
      BY <2>3 DEF Attempts
    <3>2. Len(Attempts') = 0
      BY <3>1
    <3>3. Len(Attempts') + lapses' <= MaxIterations
      BY <2>2, <3>2, JudgePanelAssumption
    <3>. QED  BY <2>3, <3>1, <3>3 DEF AskingIsBounded
  <2>. QED  BY <2>1, <2>2, <2>3, <2>4 DEF AskInv, Last
<1>2. CASE AskAgain
  <2>1. PICK r \in Replies :
          /\ replies' = Append(replies, r) /\ lapses' = lapses
          /\ asking' = IF IsReadable(r) \/ (Attempts # <<>> /\ r = Last(Attempts))
                       THEN "record" ELSE "again"
    BY <1>2 DEF AskAgain, Heard
  <2>. QED  BY <1>2, <2>1, OneMoreReply DEF AskAgain
<1>3. CASE AttemptRaises
  <2>1. replies' = replies /\ asking' = "again" /\ asking = "again"
    BY <1>3 DEF AttemptRaises
  <2>2. /\ lapses' = lapses + 1 /\ lapses \in Nat
        /\ Len(Attempts) + lapses < MaxIterations
    BY <1>3 DEF AttemptRaises, WithinBounds, AskInv
  <2>3. Tail(replies) \in Seq(Replies) /\ replies # <<>>
    BY <2>1 DEF AskInv
  <2>4. Len(Attempts) + lapses' <= MaxIterations
    BY <2>2, <2>3, JudgePanelAssumption DEF Attempts
  <2>. QED  BY <2>1, <2>2, <2>4 DEF AskInv, AskingIsBounded, Attempts, SpentOnAttempts
<1>4. CASE GiveUp
  <2>1. replies' = replies /\ lapses' = lapses /\ asking = "again" /\ asking' = "record"
    BY <1>4 DEF GiveUp
  <2>. QED  BY <2>1 DEF AskInv, AskingIsBounded, Attempts, SpentOnAttempts
<1>5. CASE Record
  <2>1. replies' = <<>> /\ lapses' = 0 /\ asking' = "first"
    BY <1>5 DEF Record
  <2>2. replies' \in Seq(Replies) /\ Len(replies') = 0
    BY <2>1
  <2>. QED  BY <2>1, <2>2 DEF AskInv, AskingIsBounded
<1>6. CASE Conclude
  <2>1. replies' = replies /\ lapses' = lapses /\ asking = "first" /\ asking' = "done"
    BY <1>6 DEF Conclude
  <2>. QED  BY <2>1 DEF AskInv, AskingIsBounded, Attempts, SpentOnAttempts
<1>7. CASE ReviewNext \/ UNCHANGED panelVars
  <2>1. replies' = replies /\ lapses' = lapses /\ asking' = asking
    BY <1>7 DEF ReviewNext, ReadEscalation, WriteReview, CommitReview, LoseReview,
                samplePart, panelVars
  <2>. QED  BY <2>1 DEF AskInv, AskingIsBounded, Attempts, SpentOnAttempts
<1>. QED  BY <1>1, <1>2, <1>3, <1>4, <1>5, <1>6, <1>7 DEF PanelNext

-----------------------------------------------------------------------------
(* The votes are the first answers, but for the judge in hand, whose       *)
(* answer is heard before its vote is recorded; the verdict is what        *)
(* reach_consensus makes of all of them.                                   *)
VoteInv ==
    /\ AskInv
    /\ threshold \in Nat \cup {NotSet} /\ minimum \in Nat \cup {NotSet}
    /\ votes \in Seq(Replies) /\ answers \in Seq(Replies)
    /\ \A i \in 1 .. Len(votes) : i <= Len(answers) /\ answers[i] = votes[i]
    /\ \/ /\ Len(answers) = Len(votes)
          /\ asking = "record" => ~ IsReadable(Last(replies))
       \/ /\ asking = "record" /\ Len(answers) = Len(votes) + 1
          /\ IsReadable(Last(replies)) /\ answers[Len(votes) + 1] = Last(replies)
    /\ consensus = IF asking = "done" THEN ReachConsensus ELSE Pending

LEMMA InitVote == PanelInit => VoteInv
<1> SUFFICES ASSUME PanelInit PROVE VoteInv
  OBVIOUS
<1>. QED  BY InitAsk, JudgePanelAssumption DEF PanelInit, VoteInv

(* A reply heard of the judge in hand.                                     *)
LEMMA HeardKeepsVotes ==
    ASSUME VoteInv, AskInv', NEW r \in Replies, Heard(r), asking \in {"first", "again"},
           asking' \in {"record", "again"}, IsReadable(r) => asking' = "record"
    PROVE  VoteInv'
<1>1. /\ replies' = Append(replies, r) /\ replies \in Seq(Replies)
      /\ UNCHANGED <<threshold, minimum, votes, consensus>>
      /\ answers' = IF IsReadable(r) THEN Append(answers, r) ELSE answers
      /\ Len(answers) = Len(votes)
      /\ consensus = Pending
  BY DEF Heard, IsReadable, VoteInv, AskInv
<1>2. Last(replies') = r
  BY <1>1 DEF Last
<1>3. /\ answers' \in Seq(Replies)
      /\ \A i \in 1 .. Len(votes') : i <= Len(answers') /\ answers'[i] = votes'[i]
  BY <1>1 DEF VoteInv
<1>4. \/ /\ Len(answers') = Len(votes')
         /\ asking' = "record" => ~ IsReadable(Last(replies'))
      \/ /\ asking' = "record" /\ Len(answers') = Len(votes') + 1
         /\ IsReadable(Last(replies')) /\ answers'[Len(votes') + 1] = Last(replies')
  <2>1. CASE IsReadable(r)
    <3>1. answers' = Append(answers, r) /\ answers \in Seq(Replies)
      BY <1>1, <2>1 DEF VoteInv
    <3>. QED  BY <1>1, <1>2, <2>1, <3>1
  <2>2. CASE ~ IsReadable(r)
    BY <1>1, <1>2, <2>2
  <2>. QED  BY <2>1, <2>2
<1>. QED  BY <1>1, <1>3, <1>4 DEF VoteInv, IsReadable

LEMMA RecordKeepsVotes == ASSUME VoteInv, AskInv', Record PROVE VoteInv'
<1>1. /\ asking = "record" /\ asking' = "first" /\ replies # <<>>
      /\ votes' = Append(votes, RecordedVote)
      /\ answers' = IF Len(answers) = Len(votes) THEN Append(answers, Head(replies))
                    ELSE answers
      /\ UNCHANGED <<threshold, minimum, consensus>>
  BY DEF Record, VoteInv, AskInv
<1>2. /\ Last(replies) \in Replies /\ Head(replies) \in Replies
      /\ votes \in Seq(Replies) /\ answers \in Seq(Replies)
  BY <1>1 DEF VoteInv, AskInv, Last
<1>3. CASE IsReadable(Last(replies))
  <2>1. /\ answers' = answers /\ votes' = Append(votes, Last(replies))
        /\ Len(answers) = Len(votes) + 1 /\ answers[Len(votes) + 1] = Last(replies)
    BY <1>1, <1>3 DEF VoteInv, RecordedVote
  <2>2. /\ votes' \in Seq(Replies) /\ Len(votes') = Len(answers')
        /\ \A i \in 1 .. Len(votes') : i <= Len(answers') /\ answers'[i] = votes'[i]
    BY <1>2, <2>1 DEF VoteInv
  <2>. QED  BY <1>1, <1>2, <2>1, <2>2 DEF VoteInv, Pending
<1>4. CASE ~ IsReadable(Last(replies))
  <2>1. /\ answers' = Append(answers, Head(replies))
        /\ votes' = Append(votes, Head(replies)) /\ Len(answers) = Len(votes)
    BY <1>1, <1>4 DEF VoteInv, RecordedVote
  <2>2. /\ votes' \in Seq(Replies) /\ answers' \in Seq(Replies)
        /\ Len(votes') = Len(answers')
        /\ \A i \in 1 .. Len(votes') : i <= Len(answers') /\ answers'[i] = votes'[i]
    BY <1>2, <2>1 DEF VoteInv
  <2>. QED  BY <1>1, <2>2 DEF VoteInv, Pending
<1>. QED  BY <1>3, <1>4

LEMMA NextVote == VoteInv /\ [PanelNext]_panelVars => VoteInv'
<1> SUFFICES ASSUME VoteInv, [PanelNext]_panelVars PROVE VoteInv'
  OBVIOUS
<1>1. AskInv'
  BY NextAsk DEF VoteInv
<1>2. CASE Ask
  <2>1. PICK r \in Replies :
          Heard(r) /\ asking' = IF IsReadable(r) THEN "record" ELSE "again"
    BY <1>2 DEF Ask
  <2>. QED  BY <1>1, <1>2, <2>1, HeardKeepsVotes DEF Ask
<1>3. CASE AskAgain
  <2>1. PICK r \in Replies :
          /\ Heard(r)
          /\ asking' = IF IsReadable(r) \/ (Attempts # <<>> /\ r = Last(Attempts))
                       THEN "record" ELSE "again"
    BY <1>3 DEF AskAgain
  <2>. QED  BY <1>1, <1>3, <2>1, HeardKeepsVotes DEF AskAgain
<1>4. CASE GiveUp
  <2>1. /\ asking = "again" /\ asking' = "record" /\ ~ IsReadable(Last(replies))
        /\ UNCHANGED <<threshold, minimum, replies, votes, answers, consensus>>
    BY <1>4 DEF GiveUp, VoteInv, AskInv
  <2>. QED  BY <1>1, <2>1 DEF VoteInv, IsReadable
<1>5. CASE Record
  BY <1>1, <1>5, RecordKeepsVotes
<1>6. CASE Conclude
  <2>1. /\ asking = "first" /\ asking' = "done" /\ consensus' = ReachConsensus
        /\ UNCHANGED <<threshold, minimum, votes, answers>>
    BY <1>6 DEF Conclude
  <2>2. ReachConsensus' = ReachConsensus
    BY <2>1 DEF ReachConsensus, Disagreement, TwiceMedian, ScoreOf, ScoringVotes, Escalated
  <2>. QED  BY <1>1, <2>1, <2>2 DEF VoteInv
<1>7. CASE ReviewNext \/ UNCHANGED panelVars
  <2>1. UNCHANGED samplePart
    BY <1>7 DEF ReviewNext, ReadEscalation, WriteReview, CommitReview, LoseReview,
                panelVars
  <2>2. ReachConsensus' = ReachConsensus
    BY <2>1 DEF samplePart, ReachConsensus, Disagreement, TwiceMedian, ScoreOf,
                ScoringVotes, Escalated
  <2>. QED  BY <1>1, <2>1, <2>2 DEF samplePart, VoteInv, IsReadable, Pending
<1>8. CASE AttemptRaises
  <2>1. UNCHANGED <<threshold, minimum, asking, replies, votes, answers, consensus>>
    BY <1>8 DEF AttemptRaises
  <2>2. ReachConsensus' = ReachConsensus
    BY <2>1 DEF ReachConsensus, Disagreement, TwiceMedian, ScoreOf, ScoringVotes,
                Escalated
  <2>. QED  BY <1>1, <2>1, <2>2 DEF VoteInv, IsReadable, Pending
<1>. QED  BY <1>2, <1>3, <1>4, <1>5, <1>6, <1>7, <1>8 DEF PanelNext

(* An agreement among as many scores as one likes.                         *)
LEMMA AgreementDivides ==
    ASSUME VoteInv, asking = "done", ReachConsensus.state = "agreed"
    PROVE  AgreementIsOfFirstAnswers
<1> DEFINE F == ScoringVotes
           f == ScoreOf
           n == Cardinality(F)
<1>1. answers = votes /\ FirstScores = F /\ consensus = ReachConsensus
  <2>1. Len(answers) = Len(votes) /\ votes \in Seq(Replies) /\ answers \in Seq(Replies)
    BY DEF VoteInv
  <2>2. answers = votes
    BY <2>1 DEF VoteInv
  <2>. QED  BY <2>1, <2>2 DEF FirstScores, ScoringVotes, VoteInv
<1>2. /\ Integral(f, F) /\ n \in Nat /\ DOMAIN f = F
      /\ \A i \in F : f[i] = answers[i].score
  <2>1. F \in SUBSET (1 .. Len(votes)) /\ votes \in Seq(Replies)
    BY DEF ScoringVotes, VoteInv
  <2>2. IsFiniteSet(F)
    <3>1. IsFiniteSet(1 .. Len(votes))
      BY <2>1, FS_Interval
    <3> HIDE DEF F
    <3>. QED  BY <2>1, <3>1, FS_Subset
  <2>3. \A i \in F : votes[i].score \in Int
    BY <2>1, ReplyFields DEF ScoringVotes
  <2>. QED  BY <1>1, <2>2, <2>3, FS_CardinalityType DEF Integral, ScoreOf
<1>3. /\ n >= 2 /\ (minimum # NotSet => n >= minimum)
      /\ Disagreement <= threshold /\ threshold \in Nat
      /\ consensus.twiceVerdict = TwiceMedian
  <2>1. /\ ~ (n < 2) /\ ~ (minimum # NotSet /\ n < minimum)
        /\ threshold # NotSet /\ ~ (Disagreement > threshold)
        /\ ReachConsensus = [state |-> "agreed", twiceVerdict |-> TwiceMedian,
                             confidence |-> 100 - Disagreement]
    BY DEF ReachConsensus, Escalated
  <2>2. Disagreement \in Int
    <3>1. Range(f) \in SUBSET Int /\ IsFiniteSet(Range(f)) /\ Range(f) # {}
      <4>1. Range(f) = {f[i] : i \in F}
        BY <1>2 DEF Range
      <4>2. F # {}
        BY <1>2, <2>1, FS_EmptySet
      <4>. QED  BY <1>2, <4>1, <4>2, SurjectionOnto DEF Integral
    <3>2. Max(Range(f)) \in Int /\ Min(Range(f)) \in Int
      BY <3>1, MaxOf, MinOf
    <3>. QED  BY <3>2 DEF Disagreement
  <2>. QED  BY <1>1, <1>2, <2>1, <2>2 DEF VoteInv
<1>4. ASSUME NEW i \in F, NEW j \in F PROVE f[i] - f[j] <= threshold
  <2>1. Range(f) = {f[x] : x \in F}
    BY <1>2 DEF Range
  <2>2. Range(f) \in SUBSET Int /\ IsFiniteSet(Range(f)) /\ Range(f) # {}
    BY <1>2, <2>1, SurjectionOnto DEF Integral
  <2>3. /\ f[i] <= Max(Range(f)) /\ Min(Range(f)) <= f[j]
        /\ Max(Range(f)) \in Int /\ Min(Range(f)) \in Int /\ f[i] \in Int /\ f[j] \in Int
    BY <1>2, <2>1, <2>2, MaxOf, MinOf DEF Integral
  <2>4. Disagreement = Max(Range(f)) - Min(Range(f))
    BY <1>2, <1>3 DEF Disagreement
  <2> HIDE DEF f
  <2>. QED  BY <1>3, <2>3, <2>4
<1> DEFINE low == (n + 1) \div 2
           high == (n + 2) \div 2
           l == Ranked(f, F, low)
           u == Ranked(f, F, high)
<1>5. /\ low \in 1 .. n /\ high \in 1 .. n /\ low <= high
      /\ n <= 2 * low /\ 2 * high <= n + 2
  BY <1>2, <1>3
<1>6. consensus.twiceVerdict = l + u
  BY <1>3 DEF TwiceMedian
<1> HIDE DEF low, high
<1>7. IsRanked(f, F, low, l) /\ IsRanked(f, F, high, u) /\ l \in Int /\ u \in Int
  BY <1>2, <1>5, RankedProperty
<1>8. l <= u
  BY <1>2, <1>5, RankedMonotone
<1>9. /\ Cardinality(Below(f, F, u)) \in Nat /\ IsFiniteSet(Below(f, F, u))
      /\ Cardinality(AtMost(f, F, l)) \in Nat
      /\ IsFiniteSet(F \ AtMost(f, F, l))
      /\ Cardinality(F \ AtMost(f, F, l)) = n - Cardinality(AtMost(f, F, l))
  <2>1. AtMost(f, F, l) = F \cap AtMost(f, F, l) /\ IsFiniteSet(F)
    BY <1>2 DEF AtMost, Integral
  <2> HIDE DEF f, F, l, u
  <2>2. /\ IsFiniteSet(F \ AtMost(f, F, l))
        /\ Cardinality(F \ AtMost(f, F, l)) = n - Cardinality(AtMost(f, F, l))
    BY <2>1, FS_Difference
  <2>3. /\ Cardinality(Below(f, F, u)) \in Nat /\ IsFiniteSet(Below(f, F, u))
        /\ Cardinality(AtMost(f, F, l)) \in Nat
    BY <2>1, CountsFinite
  <2>. QED  BY <2>2, <2>3
<1>10. /\ Cardinality(Below(f, F, u)) < high
       /\ low <= Cardinality(AtMost(f, F, l))
  BY <1>7 DEF IsRanked
<1> HIDE DEF l, u
<1>11. 2 * Cardinality(Below(f, F, u)) <= n /\ 2 * Cardinality(F \ AtMost(f, F, l)) <= n
  <2> HIDE DEF n
  <2>. QED  BY <1>2, <1>5, <1>9, <1>10
<1> DEFINE Over == {i \in F : 2 * answers[i].score > consensus.twiceVerdict}
           Under == {i \in F : 2 * answers[i].score < consensus.twiceVerdict}
<1>12. Over \in SUBSET (F \ AtMost(f, F, l)) /\ Under \in SUBSET Below(f, F, u)
  <2>1. ASSUME NEW i \in F
        PROVE  /\ 2 * answers[i].score > l + u => ~ (f[i] <= l)
               /\ 2 * answers[i].score < l + u => f[i] < u
    <3>1. answers[i].score = f[i] /\ f[i] \in Int
      BY <1>2 DEF Integral
    <3> HIDE DEF f
    <3>. QED  BY <1>7, <1>8, <3>1
  <2>. QED  BY <1>6, <2>1 DEF AtMost, Below
<1>13. /\ Cardinality(Over) <= Cardinality(F \ AtMost(f, F, l))
       /\ Cardinality(Under) <= Cardinality(Below(f, F, u))
       /\ Cardinality(Over) \in Nat /\ Cardinality(Under) \in Nat
  <2> HIDE DEF Over, Under
  <2>. QED  BY <1>9, <1>12, FS_Subset, FS_CardinalityType
<1>14. 2 * Cardinality(Over) <= n /\ 2 * Cardinality(Under) <= n
  <2> HIDE DEF n, Over, Under
  <2>. QED  BY <1>2, <1>9, <1>11, <1>13
<1>15. \A i, j \in F : answers[i].score - answers[j].score <= threshold
  BY <1>2, <1>4
<1>. QED  BY <1>1, <1>3, <1>14, <1>15 DEF AgreementIsOfFirstAnswers

LEMMA VotesAgree == VoteInv => AgreementIsOfFirstAnswers
<1> SUFFICES ASSUME VoteInv, consensus.state = "agreed" PROVE AgreementIsOfFirstAnswers
  BY DEF AgreementIsOfFirstAnswers
<1>1. asking = "done" /\ ReachConsensus.state = "agreed"
  BY DEF VoteInv, Pending
<1>. QED  BY <1>1, AgreementDivides

-----------------------------------------------------------------------------
(* The panel: the review of an escalation.                                 *)

ReviewPhases == {"idle", "write", "commit", "refused", "done", "lost"}

(* Before the verdict there is nothing to review; afterwards there is if   *)
(* it escalated.  One reviewer at most is about to commit, on an open row. *)
ReviewInv ==
    /\ escalation \in [state : {"none", "open", "reviewed"},
                       reviewedBy : Reviewers \cup {Nobody}]
    /\ reviewing \in [Reviewers -> ReviewPhases]
    /\ asking # "done" => escalation.state = "none" /\ consensus = Pending
    /\ escalation.state # "none" <=> consensus.state = "escalated"
    /\ escalation.state = "reviewed" <=> escalation.reviewedBy # Nobody
    /\ \A r \in Reviewers :
         /\ reviewing[r] = "done" <=> escalation.reviewedBy = r
         /\ reviewing[r] \in {"write", "commit"} => escalation.state # "none"
         /\ reviewing[r] = "commit" => escalation.state = "open"
    /\ \A r, o \in Reviewers :
         reviewing[r] = "commit" /\ reviewing[o] = "commit" => r = o

LEMMA ReviewInitInv == ASSUME PanelInit PROVE ReviewInv
  BY JudgePanelAssumption DEF PanelInit, ReviewInv, ReviewPhases, Pending

(* The sample's own steps leave its escalation alone until the verdict.    *)
LEMMA SampleKeeps ==
    ASSUME ReviewInv, Ask \/ AskAgain \/ AttemptRaises \/ GiveUp \/ Record
    PROVE  ReviewInv'
<1>1. UNCHANGED <<consensus, escalation, reviewing>> /\ asking # "done"
  BY DEF Ask, AskAgain, AttemptRaises, GiveUp, Record, Heard
<1>. QED  BY <1>1 DEF ReviewInv

LEMMA ConcludeKeeps == ASSUME ReviewInv, Conclude PROVE ReviewInv'
<1>1. /\ asking = "first" /\ asking' = "done" /\ UNCHANGED reviewing
      /\ consensus' = ReachConsensus
      /\ escalation' = IF ReachConsensus.state = "escalated"
                       THEN [escalation EXCEPT !.state = "open"] ELSE escalation
  BY DEF Conclude
<1>2. /\ escalation.state = "none" /\ escalation.reviewedBy = Nobody
      /\ \A r \in Reviewers : reviewing[r] \notin {"write", "commit", "done"}
  BY <1>1, JudgePanelAssumption DEF ReviewInv
<1> HIDE DEF ReachConsensus
<1>3. CASE ReachConsensus.state = "escalated"
  <2>1. /\ escalation' = [escalation EXCEPT !.state = "open"]
        /\ consensus'.state = "escalated"
    BY <1>1, <1>3
  <2>2. /\ escalation'.state = "open" /\ escalation'.reviewedBy = Nobody
        /\ escalation' \in [state : {"none", "open", "reviewed"},
                            reviewedBy : Reviewers \cup {Nobody}]
    BY <1>2, <2>1 DEF ReviewInv
  <2>. QED  BY <1>1, <1>2, <2>1, <2>2, JudgePanelAssumption DEF ReviewInv
<1>4. CASE ReachConsensus.state # "escalated"
  <2>1. escalation' = escalation /\ consensus'.state # "escalated"
    BY <1>1, <1>4
  <2>. QED  BY <1>1, <1>2, <2>1, JudgePanelAssumption DEF ReviewInv
<1>. QED  BY <1>3, <1>4

LEMMA ReviewerKeeps ==
    ASSUME ReviewInv, NEW r \in Reviewers,
           ReadEscalation(r) \/ WriteReview(r) \/ LoseReview(r)
    PROVE  ReviewInv'
<1>1. /\ UNCHANGED <<asking, consensus, escalation>>
      /\ reviewing[r] \in {"idle", "write", "commit"}
  BY DEF ReadEscalation, WriteReview, LoseReview, samplePart
<1>2. PICK p \in {"refused", "write", "commit", "lost"} :
        /\ reviewing' = [reviewing EXCEPT ![r] = p]
        /\ p = "write" => escalation.state # "none"
        /\ p = "commit" =>
             /\ escalation.state = "open"
             /\ \A o \in Reviewers : reviewing[o] # "commit"
  BY DEF ReadEscalation, WriteReview, LoseReview, Step, ReviewedAlready, ReviewInv
<1>3. /\ reviewing'[r] = p
      /\ \A o \in Reviewers \ {r} : reviewing'[o] = reviewing[o]
  BY <1>2 DEF ReviewInv
<1>4. reviewing' \in [Reviewers -> ReviewPhases]
  BY <1>2 DEF ReviewInv, ReviewPhases
<1>. QED  BY <1>1, <1>2, <1>3, <1>4 DEF ReviewInv

LEMMA CommitReviewKeeps ==
    ASSUME ReviewInv, NEW r \in Reviewers, CommitReview(r)
    PROVE  ReviewInv'
<1>1. /\ UNCHANGED <<asking, consensus>> /\ reviewing[r] = "commit"
      /\ escalation' = [state |-> "reviewed", reviewedBy |-> r]
      /\ reviewing' = [reviewing EXCEPT ![r] = "done"]
  BY DEF CommitReview, Step, samplePart
<1>2. /\ escalation.state = "open" /\ escalation.reviewedBy = Nobody
      /\ \A o \in Reviewers \ {r} : reviewing[o] \notin {"commit", "done"}
  BY <1>1, JudgePanelAssumption DEF ReviewInv
<1>3. /\ reviewing'[r] = "done" /\ reviewing' \in [Reviewers -> ReviewPhases]
      /\ \A o \in Reviewers \ {r} : reviewing'[o] = reviewing[o]
  BY <1>1 DEF ReviewInv, ReviewPhases
<1>. QED  BY <1>1, <1>2, <1>3, JudgePanelAssumption DEF ReviewInv

(* A judged sample rests on the first answer of each judge that gave one:  *)
(* no judge is asked to reconsider and none beyond the loop's bounds, an   *)
(* agreement is one of enough scores within the threshold, and a           *)
(* disagreement is reviewed once, however many ask to review it at a time  *)
(* (ADR-004 D-4, I-22, I-24); for any number of judges and any bounds.     *)
THEOREM PanelHonest == PanelSpec => []PanelIsHonest
<1>1. ReviewInv /\ [PanelNext]_panelVars => ReviewInv'
  <2> SUFFICES ASSUME ReviewInv, [PanelNext]_panelVars PROVE ReviewInv'
    OBVIOUS
  <2>1. CASE UNCHANGED panelVars
    BY <2>1 DEF panelVars, samplePart, ReviewInv
  <2>2. CASE PanelNext
    BY <2>2, SampleKeeps, ConcludeKeeps, ReviewerKeeps, CommitReviewKeeps
       DEF PanelNext, ReviewNext
  <2>. QED  BY <2>1, <2>2
<1>2. VoteInv /\ ReviewInv => PanelIsHonest
  <2>1. VoteInv => AskingIsBounded
    BY DEF VoteInv, AskInv
  <2>2. ReviewInv => ReviewedOnce
    BY DEF ReviewInv, ReviewedOnce
  <2>. QED  BY <2>1, <2>2, VotesAgree DEF PanelIsHonest
<1>. QED  BY <1>1, <1>2, InitVote, NextVote, ReviewInitInv, PTL DEF PanelSpec

-----------------------------------------------------------------------------
(* The rate limiter.                                                       *)

(* The highest limit, and how far the clocks run ahead.                    *)
Highest == Max(Limits)
Ahead == Max({SkewOf[s] : s \in Servers})

(* A reading of the limit and of a server's clock.                         *)
Readings == [capacity : Limits, now : Int, since : Nat]

(* Every reading is at most MaxDelay old, and its clock at most Ahead.     *)
ReadingsInv ==
    \A s \in Servers :
      check[s] # Idle =>
        /\ check[s] \in Readings
        /\ clock - MaxDelay <= check[s].now /\ check[s].since <= clock
        /\ check[s].now <= clock + Ahead
        /\ check[s].now = check[s].since + SkewOf[s]
        /\ clock <= check[s].since + MaxDelay

Spent(i) == Minute * (Len(admitted) - i + 1)

(* What a bucket holds and what was taken from it since an admission is    *)
(* what it can have held then and got from the time it has seen pass; no   *)
(* clock shows more than that time, and by when it is forgotten every one  *)
(* shows a minute more.                                                    *)
BucketInv ==
    /\ bucket = NoBucket => admitted = <<>>
    /\ bucket # NoBucket =>
         /\ bucket \in [tokens : Nat, at : Int, expires : Int]
         /\ bucket.tokens <= Highest * Minute
         /\ bucket.at <= clock + Ahead
         /\ bucket.at + Minute + MaxDelay <= bucket.expires
         /\ \A i \in 1 .. Len(admitted) :
              bucket.tokens + Spent(i)
                <= Highest * (Minute + bucket.at - admitted[i] + MaxDelay)

LimiterInv ==
    /\ clock \in Nat /\ limit \in Limits
    /\ check \in [Servers -> Readings \cup {Idle}]
    /\ admitted \in Seq(Nat)
    /\ ReadingsInv /\ BucketInv /\ AdmissionsBounded

(* What the assumptions say of the constants.                              *)
LEMMA Measures ==
    /\ Highest \in Nat /\ \A l \in Limits : l \in Nat /\ l <= Highest
    /\ Ahead \in Nat /\ \A s \in Servers : SkewOf[s] \in Nat /\ SkewOf[s] <= Ahead
    /\ Uncertainty = Ahead + MaxDelay
    /\ Minute \in Nat /\ Minute >= 1 /\ MaxDelay \in Nat
    /\ \A l \in Limits : TimeToLive[l] \in Nat /\ Minute + Ahead + MaxDelay <= TimeToLive[l]
<1> DEFINE Skews == {SkewOf[s] : s \in Servers}
<1>1. Highest \in Limits /\ \A l \in Limits : l <= Highest
  <2>1. Limits \in SUBSET Int /\ IsFiniteSet(Limits) /\ Limits # {}
    BY RateLimiterAssumption
  <2>. QED  BY <2>1, MaxOf DEF Highest
<1>2. Skews \in SUBSET Int /\ IsFiniteSet(Skews) /\ Skews # {}
  BY RateLimiterAssumption, SurjectionOnto
<1>3. Ahead \in Skews /\ \A x \in Skews : x <= Ahead
  <2>1. Ahead = Max(Skews)
    BY DEF Ahead
  <2> HIDE DEF Skews
  <2>. QED  BY <1>2, <2>1, MaxOf
<1>4. Uncertainty = Ahead + MaxDelay
  BY DEF Uncertainty, Ahead
<1>5. Ahead \in Nat /\ \A s \in Servers : SkewOf[s] \in Nat /\ SkewOf[s] <= Ahead
  BY <1>3, RateLimiterAssumption
<1>. QED  BY <1>1, <1>4, <1>5, RateLimiterAssumption, ClocksAgree

(* More time allows no fewer requests.                                     *)
LEMMA TimesMonotone ==
    ASSUME NEW a \in Nat, NEW x \in Int, NEW y \in Int, x <= y
    PROVE  a * x \in Int /\ a * y \in Int /\ a * x <= a * y
<1>1. PICK d \in Nat : y = x + d
  <2>1. y - x \in Nat /\ y = x + (y - x)
    OBVIOUS
  <2>. QED  BY <2>1
<1>2. a * (x + d) = a * x + a * d /\ a * d \in Nat /\ a * x \in Int
  OBVIOUS
<1>. QED  BY <1>1, <1>2

(* What is allowed grows by the time that passes.                          *)
LEMMA TimePasses ==
    ASSUME NEW m \in Int, NEW d \in Int, NEW x \in Int, NEW a \in Int, NEW w \in Int
    PROVE  /\ m + a - x + d \in Int /\ m + w - x + d \in Int /\ w - a \in Int
           /\ m + w - x + d = (m + a - x + d) + (w - a)
  OBVIOUS

(* A bucket that has been forgotten is a minute behind every clock.        *)
LEMMA ForgottenLongAgo ==
    ASSUME NEW m \in Int, NEW d \in Int, NEW a \in Int, NEW x \in Int, NEW w \in Int,
           NEW t \in Int, a + m + d <= x, x <= t, t - d <= w
    PROVE  m <= w - a
  OBVIOUS

(* A bucket is never taken for none.                                       *)
LEMMA BucketsDiffer ==
    \A t, a, x : [tokens |-> t, at |-> a, expires |-> x] # NoBucket
<1>1. \A t, a, x : DOMAIN [tokens |-> t, at |-> a, expires |-> x] # DOMAIN NoBucket
  BY DEF NoBucket
<1>. QED  BY <1>1

LEMMA InitLimiter == LimiterInit => LimiterInv
<1> SUFFICES ASSUME LimiterInit PROVE LimiterInv
  OBVIOUS
<1>1. check \in [Servers -> Readings \cup {Idle}] /\ ReadingsInv
  BY DEF LimiterInit, ReadingsInv
<1>. QED  BY <1>1 DEF LimiterInit, LimiterInv, BucketInv, AdmissionsBounded

(* The step of one server alone leaves the other readings as they are.     *)
LEMMA ReadingKeeps == ASSUME LimiterInv, NEW s \in Servers, ReadLimit(s) PROVE LimiterInv'
<1> DEFINE c == [capacity |-> limit, now |-> clock + SkewOf[s], since |-> clock]
<1>1. /\ check' = [check EXCEPT ![s] = c]
      /\ UNCHANGED <<clock, limit, bucket, admitted>>
  BY DEF ReadLimit
<1>2. /\ c \in Readings /\ c.now = clock + SkewOf[s] /\ c.since = clock
      /\ clock \in Nat /\ SkewOf[s] \in Nat /\ SkewOf[s] <= Ahead /\ Ahead \in Nat
      /\ MaxDelay \in Nat
  BY Measures, RateLimiterAssumption DEF LimiterInv, Readings
<1> HIDE DEF c
<1>3. check' \in [Servers -> Readings \cup {Idle}]
  BY <1>1, <1>2 DEF LimiterInv
<1>4. ReadingsInv'
  <2> SUFFICES ASSUME NEW o \in Servers, check'[o] # Idle
               PROVE  /\ check'[o] \in Readings
                      /\ clock - MaxDelay <= check'[o].now /\ check'[o].since <= clock
                      /\ check'[o].now <= clock + Ahead
                      /\ check'[o].now = check'[o].since + SkewOf[o]
                      /\ clock <= check'[o].since + MaxDelay
    BY <1>1 DEF ReadingsInv
  <2>1. CASE o = s
    <3>1. check'[o] = c
      BY <1>1, <2>1 DEF LimiterInv
    <3>. QED  BY <1>2, <2>1, <3>1
  <2>2. CASE o # s
    <3>1. check'[o] = check[o]
      BY <1>1, <2>2 DEF LimiterInv
    <3>. QED  BY <3>1 DEF LimiterInv, ReadingsInv
  <2>. QED  BY <2>1, <2>2
<1>. QED  BY <1>1, <1>3, <1>4 DEF LimiterInv, BucketInv, Spent, AdmissionsBounded

LEMMA RestKeeps ==
    ASSUME LimiterInv, [SetLimit \/ \E s \in Servers : StoreUnreachable(s)]_limiterVars
    PROVE  LimiterInv'
<1>1. CASE SetLimit
  <2>1. limit' \in Limits /\ UNCHANGED <<clock, bucket, check, admitted>>
    BY <1>1 DEF SetLimit
  <2>. QED  BY <2>1 DEF LimiterInv, ReadingsInv, BucketInv, Spent, AdmissionsBounded
<1>2. ASSUME NEW s \in Servers, StoreUnreachable(s) PROVE LimiterInv'
  <2>1. /\ check' = [check EXCEPT ![s] = Idle]
        /\ UNCHANGED <<clock, limit, bucket, admitted>>
    BY <1>2 DEF StoreUnreachable
  <2>2. check' \in [Servers -> Readings \cup {Idle}]
    BY <2>1 DEF LimiterInv
  <2>3. \A o \in Servers : check'[o] # Idle => check'[o] = check[o]
    BY <2>1 DEF LimiterInv
  <2>4. ReadingsInv'
    <3> SUFFICES ASSUME NEW o \in Servers, check'[o] # Idle
                 PROVE  /\ check'[o] \in Readings
                        /\ clock - MaxDelay <= check'[o].now /\ check'[o].since <= clock
                        /\ check'[o].now <= clock + Ahead
                        /\ check'[o].now = check'[o].since + SkewOf[o]
                        /\ clock <= check'[o].since + MaxDelay
      BY <2>1 DEF ReadingsInv
    <3>1. check'[o] = check[o]
      BY <2>3
    <3>. QED  BY <3>1 DEF LimiterInv, ReadingsInv
  <2>. QED  BY <2>1, <2>2, <2>4 DEF LimiterInv, BucketInv, Spent, AdmissionsBounded
<1>3. CASE UNCHANGED limiterVars
  BY <1>3 DEF limiterVars, LimiterInv, ReadingsInv, BucketInv, Spent, AdmissionsBounded
<1>. QED  BY <1>1, <1>2, <1>3

(* Time passes only while every reading is younger than MaxDelay.          *)
LEMMA TickKeeps == ASSUME LimiterInv, Tick PROVE LimiterInv'
<1>1. /\ clock' = clock + 1 /\ UNCHANGED <<limit, bucket, check, admitted>>
      /\ \A s \in Servers : check[s] # Idle => clock < check[s].since + MaxDelay
      /\ clock \in Nat
  BY DEF Tick, LimiterInv
<1>2. ReadingsInv'
  <2> SUFFICES ASSUME NEW s \in Servers, check[s] # Idle
               PROVE  /\ check[s] \in Readings
                      /\ clock' - MaxDelay <= check[s].now
                      /\ check[s].since <= clock'
                      /\ check[s].now <= clock' + Ahead
                      /\ check[s].now = check[s].since + SkewOf[s]
                      /\ clock' <= check[s].since + MaxDelay
    <3> HIDE DEF Idle
    <3>1. check' = check
      BY <1>1
    <3>. QED  BY <3>1 DEF ReadingsInv
  <2>1. /\ check[s] \in Readings /\ check[s].since <= clock
        /\ check[s].now <= clock + Ahead
        /\ check[s].now = check[s].since + SkewOf[s]
        /\ clock < check[s].since + MaxDelay
    BY <1>1 DEF LimiterInv, ReadingsInv
  <2> DEFINE w == check[s].now
             t == check[s].since
  <2>2. t \in Nat /\ w \in Int
    BY <2>1 DEF Readings
  <2>3. SkewOf[s] \in Nat /\ MaxDelay \in Nat /\ Ahead \in Nat
    BY Measures
  <2>4. /\ t <= clock /\ w <= clock + Ahead /\ w = t + SkewOf[s]
        /\ clock < t + MaxDelay
    BY <2>1
  <2> HIDE DEF w, t
  <2>5. /\ clock' - MaxDelay <= w /\ t <= clock' /\ w <= clock' + Ahead
        /\ clock' <= t + MaxDelay
    BY <1>1, <2>2, <2>3, <2>4
  <2>. QED  BY <2>1, <2>4, <2>5 DEF w, t
<1>3. BucketInv'
  <2>1. bucket # NoBucket => bucket.at \in Int
    BY DEF LimiterInv, BucketInv
  <2>. QED  BY <1>1, <2>1, Measures DEF LimiterInv, BucketInv, Spent
<1>. QED  BY <1>1, <1>2, <1>3 DEF LimiterInv, AdmissionsBounded

(* The bucket a script finds, once refilled: what was taken of it is still *)
(* accounted for, and its time is one that a clock has shown.              *)
Refilled(b) ==
    /\ b.tokens \in Nat /\ b.at \in Int
    /\ b.tokens <= Highest * Minute
    /\ clock - MaxDelay <= b.at /\ b.at <= clock + Ahead
    /\ \A i \in 1 .. Len(admitted) :
         b.tokens + Spent(i) <= Highest * (Minute + b.at - admitted[i] + MaxDelay)

(* Three buckets a script may find: none, one that should have been        *)
(* forgotten, and one to be refilled.                                      *)
LEMMA RefillKeeps ==
    ASSUME LimiterInv, NEW s \in Servers, check[s] # Idle
    PROVE  Refilled(Refill(Current(check[s]), check[s]))
<1> DEFINE c == check[s]
           w == c.now
           p == c.capacity
           b == Refill(Current(c), c)
<1>1. /\ w \in Int /\ p \in Nat /\ p <= Highest /\ clock \in Nat
      /\ clock - MaxDelay <= w /\ w <= clock + Ahead
  BY Measures DEF LimiterInv, ReadingsInv, Readings
<1>2. /\ Highest \in Nat /\ Minute \in Nat /\ Ahead \in Nat /\ MaxDelay \in Nat
      /\ admitted \in Seq(Nat)
  BY Measures DEF LimiterInv
<1>3. p * Minute \in Nat /\ p * Minute <= Highest * Minute /\ Highest * Minute \in Nat
  <2>1. p * Minute = Minute * p /\ Highest * Minute = Minute * Highest
        /\ Highest * Minute \in Nat /\ p * Minute \in Nat
    BY <1>1, <1>2
  <2>2. Minute * p <= Minute * Highest
    BY <1>1, <1>2, TimesMonotone
  <2>. QED  BY <2>1, <2>2
<1>4. \A i \in 1 .. Len(admitted) : admitted[i] \in Nat /\ Spent(i) \in Int
  BY <1>2 DEF Spent
<1>5. CASE bucket = NoBucket
  <2>1. b = [tokens |-> p * Minute, at |-> w]
    BY <1>1, <1>5 DEF Refill, Current
  <2>2. admitted = <<>>
    BY <1>5 DEF LimiterInv, BucketInv
  <2>3. b.tokens = p * Minute /\ b.at = w
    BY <2>1
  <2> HIDE DEF b, w, p
  <2>. QED  BY <1>1, <1>3, <2>2, <2>3 DEF Refilled, b
<1>6. CASE bucket # NoBucket /\ clock >= bucket.expires
  <2>1. b = [tokens |-> p * Minute, at |-> w]
    BY <1>1, <1>6 DEF Refill, Current
  <2>2. b.tokens = p * Minute /\ b.at = w
    BY <2>1
  <2>3. /\ bucket.tokens \in Nat /\ bucket.at \in Int /\ bucket.expires \in Int
        /\ bucket.at + Minute + MaxDelay <= bucket.expires
    BY <1>6 DEF LimiterInv, BucketInv
  <2>4. ASSUME NEW i \in 1 .. Len(admitted)
        PROVE  p * Minute + Spent(i) <= Highest * (Minute + w - admitted[i] + MaxDelay)
    <3> DEFINE before == Minute + bucket.at - admitted[i] + MaxDelay
               now == Minute + w - admitted[i] + MaxDelay
    <3>1. /\ Spent(i) \in Int /\ admitted[i] \in Nat
          /\ bucket.tokens + Spent(i) <= Highest * before
      BY <1>4, <1>6 DEF LimiterInv, BucketInv
    <3>2. before \in Int /\ now \in Int /\ before + Minute <= now
      <4> DEFINE passed == w - bucket.at
      <4>1. Minute \in Int /\ MaxDelay \in Int /\ admitted[i] \in Int
            /\ bucket.at \in Int /\ w \in Int
        BY <1>1, <1>2, <2>3, <3>1
      <4> HIDE DEF w
      <4>2. before \in Int /\ passed \in Int /\ now \in Int /\ now = before + passed
        BY <4>1, TimePasses
      <4>3. Minute <= passed
        <5>1. /\ bucket.expires \in Int /\ bucket.expires <= clock /\ clock \in Int
              /\ bucket.at + Minute + MaxDelay <= bucket.expires /\ clock - MaxDelay <= w
          BY <1>1, <1>6, <2>3
        <5>. QED  BY <4>1, <5>1, ForgottenLongAgo
      <4> HIDE DEF before, now, passed
      <4>. QED  BY <4>1, <4>2, <4>3
    <3> HIDE DEF before, now, w, p
    <3>3. Highest * (before + Minute) = Highest * before + Highest * Minute
          /\ Highest * before \in Int
      BY <1>2, <3>2
    <3>4. Highest * (before + Minute) <= Highest * now /\ Highest * now \in Int
      BY <1>2, <3>2, TimesMonotone
    <3>5. p * Minute + Spent(i) <= Highest * now
      BY <1>3, <2>3, <3>1, <3>3, <3>4
    <3>. QED  BY <3>5 DEF now
  <2> HIDE DEF b, w, p
  <2>. QED  BY <1>1, <1>3, <2>2, <2>4 DEF Refilled, b
<1>7. CASE bucket # NoBucket /\ ~ (clock >= bucket.expires)
  <2>1. Current(c) = [tokens |-> bucket.tokens, at |-> bucket.at]
    BY <1>7 DEF Current
  <2>2. /\ bucket.tokens \in Nat /\ bucket.at \in Int
        /\ bucket.at <= clock + Ahead /\ bucket.tokens <= Highest * Minute
    BY <1>7 DEF LimiterInv, BucketInv
  <2>3. CASE ~ (w > bucket.at)
    <3>1. b.tokens = bucket.tokens /\ b.at = bucket.at
      BY <2>1, <2>3 DEF Refill
    <3>2. clock - MaxDelay <= bucket.at
      BY <1>1, <1>2, <2>2, <2>3
    <3> HIDE DEF b, w, p
    <3>. QED  BY <1>7, <2>2, <3>1, <3>2 DEF Refilled, b, LimiterInv, BucketInv
  <2>4. CASE w > bucket.at
    <3> DEFINE gain == (w - bucket.at) * p
    <3>1. /\ b.at = w
          /\ b.tokens = IF p * Minute <= bucket.tokens + gain THEN p * Minute
                        ELSE bucket.tokens + gain
      BY <2>1, <2>4 DEF Refill, Lesser
    <3>2. gain \in Nat /\ gain <= Highest * (w - bucket.at)
      <4>1. w - bucket.at \in Nat
        BY <1>1, <2>2, <2>4
      <4>2. (w - bucket.at) * p <= (w - bucket.at) * Highest
            /\ (w - bucket.at) * p \in Nat
        BY <1>1, <1>2, <4>1, TimesMonotone
      <4>3. (w - bucket.at) * Highest = Highest * (w - bucket.at)
        BY <1>2, <4>1
      <4>. QED  BY <4>2, <4>3
    <3> HIDE DEF gain
    <3>3. /\ b.tokens \in Nat /\ b.tokens <= Highest * Minute
          /\ b.tokens <= bucket.tokens + gain
      <4> HIDE DEF b, w, p
      <4>. QED  BY <1>3, <2>2, <3>1, <3>2
    <3>4. ASSUME NEW i \in 1 .. Len(admitted)
          PROVE  b.tokens + Spent(i) <= Highest * (Minute + w - admitted[i] + MaxDelay)
      <4> DEFINE before == Minute + bucket.at - admitted[i] + MaxDelay
                 now == Minute + w - admitted[i] + MaxDelay
                 passed == w - bucket.at
      <4>1. Spent(i) \in Int /\ admitted[i] \in Nat
            /\ bucket.tokens + Spent(i) <= Highest * before
        BY <1>4, <1>7 DEF LimiterInv, BucketInv
      <4>2. before \in Int /\ passed \in Int /\ now = before + passed
        <5>1. Minute \in Int /\ MaxDelay \in Int /\ admitted[i] \in Int
              /\ bucket.at \in Int /\ w \in Int
          BY <1>1, <1>2, <2>2, <4>1
        <5> HIDE DEF w
        <5>. QED  BY <5>1, TimePasses
      <4>3. gain <= Highest * passed
        BY <3>2
      <4> HIDE DEF before, now, passed, b, w, p
      <4>4. Highest * now = Highest * before + Highest * passed
            /\ Highest * before \in Int /\ Highest * passed \in Int
        BY <1>2, <4>2
      <4>5. b.tokens + Spent(i) <= Highest * now
        BY <2>2, <3>2, <3>3, <4>3, <4>1, <4>4
      <4>. QED  BY <4>5 DEF now
    <3> HIDE DEF b, w, p
    <3>. QED  BY <1>1, <3>1, <3>3, <3>4 DEF Refilled, b
  <2>. QED  BY <2>3, <2>4
<1>. QED  BY <1>5, <1>6, <1>7

(* One admission more, at the present time.                                *)
LEMMA AdmitOne ==
    ASSUME LimiterInv, NEW b, Refilled(b), b.tokens >= Minute,
           admitted' = Append(admitted, clock), clock' = clock,
           bucket'.tokens = b.tokens - Minute, bucket'.at = b.at
    PROVE  /\ bucket'.tokens \in Nat
           /\ \A i \in 1 .. Len(admitted') :
                bucket'.tokens + Spent(i)'
                  <= Highest * (Minute + bucket'.at - admitted'[i] + MaxDelay)
<1>1. /\ Highest \in Nat /\ Minute \in Nat /\ Ahead \in Nat /\ MaxDelay \in Nat
      /\ admitted \in Seq(Nat) /\ clock \in Nat /\ b.tokens \in Nat /\ b.at \in Int
      /\ b.tokens <= Highest * Minute /\ clock - MaxDelay <= b.at
  BY Measures DEF LimiterInv, Refilled
<1> DEFINE n == Len(admitted)
           t == b.tokens
           a == b.at
<1>2. /\ n \in Nat /\ Len(admitted') = n + 1 /\ admitted'[n + 1] = clock
      /\ \A i \in 1 .. n : admitted'[i] = admitted[i] /\ admitted[i] \in Nat
  BY <1>1
<1>3. ASSUME NEW i \in 1 .. n
      PROVE  t - Minute + Minute * (n + 1 - i + 1)
               <= Highest * (Minute + a - admitted'[i] + MaxDelay)
  <2>1. t + Minute * (n - i + 1) <= Highest * (Minute + a - admitted[i] + MaxDelay)
    BY DEF Refilled, Spent
  <2> HIDE DEF n, t, a
  <2>2. Minute * (n + 1 - i + 1) = Minute * (n - i + 1) + Minute
        /\ Minute * (n - i + 1) \in Int
    BY <1>1, <1>2
  <2>3. t \in Int
    BY <1>1 DEF t
  <2>. QED  BY <1>1, <1>2, <2>1, <2>2, <2>3
<1>4. t - Minute + Minute * (n + 1 - (n + 1) + 1)
        <= Highest * (Minute + a - admitted'[n + 1] + MaxDelay)
  <2> HIDE DEF n, t, a
  <2>1. t \in Int /\ a \in Int /\ t <= Highest * Minute /\ clock - MaxDelay <= a
    BY <1>1 DEF t, a
  <2>2. Minute * (n + 1 - (n + 1) + 1) = Minute
    BY <1>1, <1>2
  <2>3. Highest * Minute <= Highest * (Minute + a - clock + MaxDelay)
        /\ Highest * Minute \in Int /\ Highest * (Minute + a - clock + MaxDelay) \in Int
    <3>1. /\ Minute + a - clock + MaxDelay \in Int
          /\ Minute <= Minute + a - clock + MaxDelay
      <4>1. a - clock + MaxDelay \in Nat
        BY <1>1, <2>1
      <4>2. Minute + a - clock + MaxDelay = Minute + (a - clock + MaxDelay)
        BY <1>1, <2>1
      <4>. QED  BY <1>1, <4>1, <4>2
    <3> DEFINE y == Minute + a - clock + MaxDelay
    <3>2. y \in Int /\ Minute <= y
      BY <3>1
    <3> HIDE DEF y
    <3>3. Highest * Minute \in Int /\ Highest * y \in Int /\ Highest * Minute <= Highest * y
      BY <1>1, <3>2, TimesMonotone
    <3>. QED  BY <3>3 DEF y
  <2>4. admitted'[n + 1] = clock
    BY <1>2
  <2>5. t - Minute + Minute <= Highest * (Minute + a - clock + MaxDelay)
    BY <1>1, <2>1, <2>3
  <2>. QED  BY <2>2, <2>4, <2>5
<1>5. ASSUME NEW i \in 1 .. n + 1
      PROVE  t - Minute + Minute * (n + 1 - i + 1)
               <= Highest * (Minute + a - admitted'[i] + MaxDelay)
  <2>1. i = n + 1 \/ i \in 1 .. n
    BY <1>2
  <2> HIDE DEF n, t, a
  <2>. QED  BY <1>3, <1>4, <2>1
<1>6. bucket'.tokens \in Nat
  BY <1>1
<1>. QED  BY <1>2, <1>5, <1>6 DEF Spent

(* What the invariant says of a bucket bounds the admissions to this one.  *)
LEMMA LatestIsBounded ==
    ASSUME NEW b \in Nat, NEW a \in Int, NEW i \in Int, NEW n \in Int, NEW x \in Int,
           NEW y \in Int, a <= y + Ahead,
           b + Minute * (n - i + 1) <= Highest * (Minute + a - x + MaxDelay)
    PROVE  Minute * (n - i + 1) <= Highest * (Minute + y - x + Uncertainty)
<1>1. Uncertainty = Ahead + MaxDelay /\ Ahead \in Nat /\ Highest \in Nat
      /\ MaxDelay \in Nat /\ Minute \in Nat
  BY Measures
<1>2. /\ Minute + a - x + MaxDelay \in Int /\ Minute + y - x + Uncertainty \in Int
      /\ Minute + a - x + MaxDelay <= Minute + y - x + Uncertainty
  BY <1>1
<1>3. /\ Highest * (Minute + a - x + MaxDelay) \in Int
      /\ Highest * (Minute + y - x + Uncertainty) \in Int
      /\ Highest * (Minute + a - x + MaxDelay) <= Highest * (Minute + y - x + Uncertainty)
  BY <1>1, <1>2, TimesMonotone
<1>4. Minute * (n - i + 1) \in Int
  BY <1>1
<1>. QED  BY <1>3, <1>4

(* The script, atomically.                                                 *)
LEMMA ScriptKeeps ==
    ASSUME LimiterInv, NEW s \in Servers, RunScript(s)
    PROVE  LimiterInv'
<1> DEFINE c == check[s]
           b == Refill(Current(c), c)
<1>1. /\ check[s] # Idle /\ check' = [check EXCEPT ![s] = Idle]
      /\ UNCHANGED <<clock, limit>>
      /\ IF c.capacity < 1 THEN UNCHANGED <<bucket, admitted>>
         ELSE /\ bucket' = [tokens |-> IF b.tokens >= Minute THEN b.tokens - Minute
                                       ELSE b.tokens,
                            at |-> b.at, expires |-> clock + TimeToLive[c.capacity]]
              /\ admitted' = IF b.tokens >= Minute THEN Append(admitted, clock)
                             ELSE admitted
  BY DEF RunScript
<1>2. check' \in [Servers -> Readings \cup {Idle}]
  BY <1>1 DEF LimiterInv
<1>3. ReadingsInv'
  <2>1. \A o \in Servers : check'[o] # Idle => check'[o] = check[o]
    BY <1>1 DEF LimiterInv
  <2> SUFFICES ASSUME NEW o \in Servers, check'[o] # Idle
               PROVE  /\ check'[o] \in Readings
                      /\ clock - MaxDelay <= check'[o].now /\ check'[o].since <= clock
                      /\ check'[o].now <= clock + Ahead
                      /\ check'[o].now = check'[o].since + SkewOf[o]
                      /\ clock <= check'[o].since + MaxDelay
    BY <1>1 DEF ReadingsInv
  <2>2. check'[o] = check[o]
    BY <2>1
  <2>. QED  BY <2>2 DEF LimiterInv, ReadingsInv
<1>4. CASE c.capacity < 1
  <2>1. UNCHANGED <<clock, limit, bucket, admitted>>
    BY <1>1, <1>4
  <2>. QED  BY <1>2, <1>3, <2>1 DEF LimiterInv, BucketInv, Spent, AdmissionsBounded
<1>5. CASE ~ (c.capacity < 1)
  <2> DEFINE ttl == TimeToLive[c.capacity]
  <2>1. Refilled(b)
    BY <1>1, RefillKeeps
  <2>2. ttl \in Nat /\ Minute + Ahead + MaxDelay <= ttl
    <3>1. c.capacity \in Limits
      BY <1>1 DEF LimiterInv, ReadingsInv, Readings
    <3>. QED  BY <3>1, Measures
  <2>3. /\ bucket'.at = b.at /\ bucket'.expires = clock + ttl
        /\ bucket'.tokens = IF b.tokens >= Minute THEN b.tokens - Minute ELSE b.tokens
        /\ bucket' # NoBucket
        /\ bucket' = [tokens |-> bucket'.tokens, at |-> b.at, expires |-> clock + ttl]
    BY <1>1, <1>5, BucketsDiffer
  <2>4. admitted' = IF b.tokens >= Minute THEN Append(admitted, clock) ELSE admitted
    BY <1>1, <1>5
  <2> HIDE DEF b, ttl
  <2>5. /\ Highest \in Nat /\ Minute \in Nat /\ Ahead \in Nat /\ MaxDelay \in Nat
        /\ admitted \in Seq(Nat) /\ clock \in Nat /\ b.tokens \in Nat /\ b.at \in Int
        /\ b.tokens <= Highest * Minute /\ Highest * Minute \in Nat
        /\ b.at <= clock + Ahead /\ clock' = clock
    BY <1>1, <2>1, Measures DEF LimiterInv, Refilled
  <2>6. /\ bucket'.tokens \in Nat
        /\ \A i \in 1 .. Len(admitted') :
             bucket'.tokens + Spent(i)'
               <= Highest * (Minute + bucket'.at - admitted'[i] + MaxDelay)
    <3>1. CASE b.tokens >= Minute
      BY <2>1, <2>3, <2>4, <2>5, <3>1, AdmitOne
    <3>2. CASE ~ (b.tokens >= Minute)
      BY <2>1, <2>3, <2>4, <2>5, <3>2 DEF Refilled, Spent
    <3>. QED  BY <3>1, <3>2
  <2>7. bucket'.tokens <= Highest * Minute
    BY <2>3, <2>5
  <2>8. bucket'.at <= clock + Ahead /\ bucket'.at + Minute + MaxDelay <= bucket'.expires
    BY <2>2, <2>3, <2>5
  <2>9. bucket' \in [tokens : Nat, at : Int, expires : Int]
    <3>1. clock + ttl \in Int
      BY <2>2, <2>5
    <3>. QED  BY <2>3, <2>5, <2>6, <3>1
  <2>10. BucketInv'
    BY <1>1, <2>3, <2>6, <2>7, <2>8, <2>9 DEF BucketInv
  <2>11. /\ admitted' \in Seq(Nat) /\ Len(admitted') \in Nat
         /\ \A i \in 1 .. Len(admitted') : admitted'[i] \in Nat
         /\ \A i \in 1 .. Len(admitted') :
              \/ i = Len(admitted') /\ admitted'[i] = clock
              \/ i \in 1 .. Len(admitted)
         /\ \A i \in 1 .. Len(admitted) :
              i \in 1 .. Len(admitted') /\ admitted'[i] = admitted[i]
    <3>1. CASE b.tokens >= Minute
      BY <2>4, <2>5, <3>1
    <3>2. CASE ~ (b.tokens >= Minute)
      BY <2>4, <2>5, <3>2
    <3>. QED  BY <3>1, <3>2
  <2>12. AdmissionsBounded'
    <3> SUFFICES ASSUME NEW i \in 1 .. Len(admitted'), NEW j \in 1 .. Len(admitted'), i <= j
                 PROVE  Minute * (j - i + 1)
                          <= Highest * (Minute + admitted'[j] - admitted'[i] + Uncertainty)
      BY DEF AdmissionsBounded, Highest
    <3>1. CASE j \in 1 .. Len(admitted)
      <4>1. /\ i \in 1 .. Len(admitted)
            /\ admitted'[i] = admitted[i] /\ admitted'[j] = admitted[j]
        BY <2>5, <2>11, <3>1
      <4>. QED  BY <3>1, <4>1 DEF LimiterInv, AdmissionsBounded, Highest
    <3>2. CASE j = Len(admitted') /\ admitted'[j] = clock
      <4>1. bucket'.tokens + Minute * (j - i + 1)
              <= Highest * (Minute + b.at - admitted'[i] + MaxDelay)
        BY <2>3, <2>6, <3>2 DEF Spent
      <4>2. /\ bucket'.tokens \in Nat /\ b.at \in Int /\ i \in Int /\ j \in Int
            /\ admitted'[i] \in Int /\ clock \in Int /\ b.at <= clock + Ahead
        BY <2>5, <2>6, <2>11
      <4>3. Minute * (j - i + 1)
              <= Highest * (Minute + clock - admitted'[i] + Uncertainty)
        BY <4>1, <4>2, LatestIsBounded
      <4>. QED  BY <3>2, <4>3
    <3>. QED  BY <2>11, <3>1, <3>2
  <2>. QED  BY <1>1, <1>2, <1>3, <2>10, <2>11, <2>12 DEF LimiterInv
<1>. QED  BY <1>4, <1>5

(* The limit holds, whichever servers meter a request, with clocks that    *)
(* differ, scripts that arrive late and out of order, a bucket forgotten   *)
(* and a limit changed: for any number of servers and any limits, as long  *)
(* as clocks and delays differ by no more than the part of its life that a *)
(* bucket does not take to fill (ADR-021).                                 *)
THEOREM NeverOverAdmits == LimiterSpec => []AdmissionsBounded
<1>1. LimiterInv /\ [LimiterNext]_limiterVars => LimiterInv'
  BY ReadingKeeps, ScriptKeeps, TickKeeps, RestKeeps DEF LimiterNext
<1>2. LimiterInv => AdmissionsBounded
  BY DEF LimiterInv
<1>. QED  BY <1>1, <1>2, InitLimiter, PTL DEF LimiterSpec
=============================================================================
