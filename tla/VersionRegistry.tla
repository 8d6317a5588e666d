--------------------------- MODULE VersionRegistry ---------------------------
(***************************************************************************)
(* The numbered versions of one definition, which evidence cites.          *)
(*                                                                         *)
(*   registry/repository.py     prompts                                    *)
(*   judges/repository.py       judges                                     *)
(*   regression/repository.py   gate policies                              *)
(*   06, 07, 08 of the schema   unique version numbers, and the triggers   *)
(*                              that freeze a version                      *)
(*                                                                         *)
(* The three keep their versions alike: a request reads the highest number *)
(* and inserts the next, or reads a version's state and publishes it, each *)
(* in one READ COMMITTED transaction.  A version is known by the request   *)
(* that adds it.  Evidence is what the triggers look for: a completed run  *)
(* with the prompt, a judgement, a decision.                               *)
(***************************************************************************)
EXTENDS Naturals, FiniteSets, FiniteSetsExt

CONSTANTS Kinds,         \* of "prompt", "judge" and "policy"
          Additions,     \* requests to add a version
          Publications,  \* requests to publish one
          TargetOf,      \* the version a publication is about
          Bare           \* additions of a policy version without criteria

(* A request adds a version or publishes one that some request adds.       *)
ASSUME VersionRegistryAssumption ==
    Additions \cap Publications = {} /\ TargetOf \in [Publications -> Additions]

VARIABLES kind,          \* what is versioned
          number,        \* number of each committed version, or 0
          asked,         \* the number an addition is about to take
          published,     \* committed versions that are published
          stamps,        \* history: publications committed, per version
          locked,        \* versions updated by a publication under way
          cited,         \* history: state of a version when evidence cited it
          progress       \* where each request is

registryVars == <<kind, number, asked, published, stamps, locked, cited, progress>>

RegistryInit ==
    /\ kind \in Kinds
    /\ number = [a \in Additions |-> 0]
    /\ asked = [a \in Additions |-> 0]
    /\ published = {}
    /\ stamps = [a \in Additions |-> {}]
    /\ locked = [a \in Additions |-> {}]
    /\ cited = [a \in Additions |-> "never"]
    /\ progress = [q \in Additions \cup Publications |-> "idle"]

Goto(q, label) == progress' = [progress EXCEPT ![q] = label]

Stored == {a \in Additions : number[a] # 0}
Numbers == {number[a] : a \in Stored}

(* COALESCE(MAX(version_number), 0) + 1                                    *)
NextNumber == Max({0} \cup Numbers) + 1

-----------------------------------------------------------------------------
(* add_prompt_version, add_version, add_policy_version.                    *)
ReadMaximum(a) ==
    /\ progress[a] = "idle"
    /\ asked' = [asked EXCEPT ![a] = NextNumber]
    /\ Goto(a, "insert")
    /\ UNCHANGED <<kind, number, published, stamps, locked, cited>>

NumberIsFree(a) == TRUE                          \* mutant of NumberUnclaimed

(* The unique index: an insert waits for another transaction with its      *)
(* number, and fails if that one committed.                                *)
NumberUnclaimed(a) ==
    \A b \in Additions \ {a} : progress[b] = "commit" => asked[b] # asked[a]

InsertVersion(a) ==
    /\ progress[a] = "insert" /\ asked[a] \notin Numbers /\ NumberUnclaimed(a)
    /\ Goto(a, "commit")
    /\ UNCHANGED <<kind, number, asked, published, stamps, locked, cited>>

RefuseDuplicate(a) ==
    /\ progress[a] = "insert" /\ asked[a] \in Numbers
    /\ Goto(a, "refused")
    /\ UNCHANGED <<kind, number, asked, published, stamps, locked, cited>>

CommitVersion(a) ==
    /\ progress[a] = "commit"
    /\ number' = [number EXCEPT ![a] = asked[a]]
    /\ Goto(a, "done")
    /\ UNCHANGED <<kind, asked, published, stamps, locked, cited>>

-----------------------------------------------------------------------------
(* _publish, publish_version, publish_policy_version.  Publishing again is *)
(* answered as done, except for a judge, where it is refused.              *)
ReadState(q) ==
    /\ progress[q] = "idle"
    /\ Goto(q, CASE TargetOf[q] \notin Stored -> "refused"
                 [] TargetOf[q] \in published ->
                      IF kind = "judge" THEN "refused" ELSE "done"
                 [] kind = "policy" /\ TargetOf[q] \in Bare -> "refused"
                 [] OTHER -> "update")
    /\ UNCHANGED <<kind, number, asked, published, stamps, locked, cited>>

(* The trigger runs once the row is locked, on the row as it is by then.   *)
Frozen(a) == a \in published \/ cited[a] # "never"

PublishVersion(q) ==
    LET a == TargetOf[q] IN
    /\ progress[q] = "update" /\ locked[a] = {} /\ ~Frozen(a)
    /\ locked' = [locked EXCEPT ![a] = {q}]
    /\ Goto(q, "commit")
    /\ UNCHANGED <<kind, number, asked, published, stamps, cited>>

RefuseFrozen(q) ==
    LET a == TargetOf[q] IN
    /\ progress[q] = "update" /\ locked[a] = {} /\ Frozen(a)
    /\ Goto(q, "refused")
    /\ UNCHANGED <<kind, number, asked, published, stamps, locked, cited>>

CommitPublication(q) ==
    LET a == TargetOf[q] IN
    /\ progress[q] = "commit"
    /\ published' = published \cup {a}
    /\ stamps' = [stamps EXCEPT ![a] = stamps[a] \cup {q}]
    /\ locked' = [locked EXCEPT ![a] = {}]
    /\ Goto(q, "done")
    /\ UNCHANGED <<kind, number, asked, cited>>

-----------------------------------------------------------------------------
(* Evidence that cites a version is completed: a run may have a draft      *)
(* prompt, a judgement and a decision need a published version.            *)
Cite(a) ==
    /\ a \in Stored /\ cited[a] = "never"
    /\ kind = "prompt" \/ a \in published
    /\ cited' = [cited EXCEPT ![a] =
                   IF a \in published THEN "published"
                   ELSE IF locked[a] = {} THEN "draft" ELSE "changing"]
    /\ UNCHANGED <<kind, number, asked, published, stamps, locked, progress>>

(* The API process is lost and its transaction rolls back.                 *)
LoseRequest(q) ==
    /\ progress[q] \in {"insert", "update", "commit"}
    /\ locked' = [a \in Additions |-> locked[a] \ {q}]
    /\ Goto(q, "refused")
    /\ UNCHANGED <<kind, number, asked, published, stamps, cited>>

Addition(a) ==
    ReadMaximum(a) \/ InsertVersion(a) \/ RefuseDuplicate(a) \/ CommitVersion(a)

Publication(q) ==
    ReadState(q) \/ PublishVersion(q) \/ RefuseFrozen(q) \/ CommitPublication(q)

RegistryNext ==
    \/ \E a \in Additions : Addition(a) \/ Cite(a)
    \/ \E q \in Publications : Publication(q)
    \/ \E q \in Additions \cup Publications : LoseRequest(q)

RegistrySpec == RegistryInit /\ [][RegistryNext]_registryVars

-----------------------------------------------------------------------------
(* The versions that can be read are numbered from one without a gap and   *)
(* without a number twice, whichever writers raced and whichever were lost *)
(* (add_prompt_version: "two concurrent writers cannot both read the same  *)
(* maximum ... rather than a silently reused number").                     *)
VersionsNumbered ==
    /\ Numbers = 1 .. Cardinality(Stored)
    /\ \A a, b \in Stored : number[a] = number[b] => a = b

(* A version is published once: a publication is never repeated, whichever *)
(* requests race, and one that is answered as done is so                   *)
(* ("already in the desired state").                                       *)
PublishedOnce ==
    /\ \A a \in Additions : /\ Cardinality(stamps[a]) <= 1
                            /\ a \in published <=> stamps[a] # {}
    /\ \A q \in Publications : progress[q] = "done" => TargetOf[q] \in published

(* A draft that completed evidence cites stays what it was, unless it was  *)
(* being published while that evidence was completed (REQ-F-01-1,          *)
(* refuse_change_to_frozen_version).                                       *)
CitedDraftStands == \A a \in published : cited[a] # "draft"

RegistryStands == VersionsNumbered /\ PublishedOnce /\ CitedDraftStands
=============================================================================
