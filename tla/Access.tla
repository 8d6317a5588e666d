------------------------------- MODULE Access -------------------------------
(***************************************************************************)
(* Credentials and role bindings of one organization, and the guard every  *)
(* request passes.                                                         *)
(*                                                                         *)
(*   api/app.py                 _guard: authenticate, then authorize       *)
(*   api/security_service.py    one transaction per operation              *)
(*   security/repository.py     authenticate, issue, rotate and revoke a   *)
(*                              key, create and revoke a binding           *)
(*   12-identity-and-access     the unique index over active bindings, the *)
(*                              trigger that keeps an administrator        *)
(*                                                                         *)
(* The guard reads the key and the grants in a transaction of its own; the *)
(* handler then works in another, so what the guard saw may have changed.  *)
(* Transactions are READ COMMITTED: an UPDATE waits for a row another      *)
(* transaction has changed, a SELECT never waits.                          *)
(***************************************************************************)
EXTENDS FiniteSets, Naturals

CONSTANTS Principals, Keys, Bindings,
          Issues, Rotations, Revocations,    \* requests about keys
          Grants, Removals,                  \* requests about bindings
          CredentialOf,  \* the key a request presents
          AboutOf,       \* the key or the binding it is about
          NewKeyOf,      \* the key a rotation mints
          SubjectOf,     \* whom a key is issued to, a binding granted to
          RoleOf,        \* role of a binding
          ProjectOf,     \* its project, or Null for the organization
          AdminRoles,    \* roles with role:grant and credential:manage
          FirstKeys, FirstBindings,          \* provisioned
          MaxRequests,   \* bound: requests considered
          MaxDropped,    \* bound: lost API processes considered
          Null

Requests == Issues \cup Rotations \cup Revocations \cup Grants \cup Removals
KeyRequests == Rotations \cup Revocations
AccessRows == Keys \cup Bindings

ASSUME AccessAssumption ==
    /\ Keys \cap Bindings = {} /\ FirstKeys \subseteq Keys
    /\ FirstBindings \subseteq Bindings
    /\ (Issues \cup KeyRequests) \cap (Grants \cup Removals) = {}
    /\ Issues \cap KeyRequests = {} /\ Rotations \cap Revocations = {}
    /\ Grants \cap Removals = {}
    /\ CredentialOf \in [Requests -> Keys]
    /\ AboutOf \in [Requests -> AccessRows]
    /\ \A q \in Issues \cup KeyRequests : AboutOf[q] \in Keys
    /\ \A q \in Grants \cup Removals : AboutOf[q] \in Bindings
    /\ NewKeyOf \in [Rotations -> Keys \ FirstKeys]
    /\ \A q \in Issues : AboutOf[q] \notin FirstKeys
    /\ \A q, r \in Rotations : NewKeyOf[q] = NewKeyOf[r] => q = r
    /\ \A q \in Rotations, r \in Issues : NewKeyOf[q] # AboutOf[r]
    /\ \A q, r \in Issues : AboutOf[q] = AboutOf[r] => q = r
    /\ \A q \in Grants : AboutOf[q] \notin FirstBindings
    /\ \A q, r \in Grants : AboutOf[q] = AboutOf[r] => q = r
    /\ SubjectOf \in [AccessRows -> Principals]
    /\ \A b, c \in FirstBindings :
         /\ RoleOf[b] = RoleOf[c] /\ SubjectOf[b] = SubjectOf[c]
         /\ ProjectOf[b] = ProjectOf[c]
         => b = c
    /\ MaxRequests \in Nat /\ MaxDropped \in Nat
    /\ Null \notin Principals \cup AccessRows \cup Requests
    /\ \E b \in FirstBindings : RoleOf[b] \in AdminRoles /\ ProjectOf[b] = Null

VARIABLES key,           \* state of each key
          owner,         \* the principal a key authenticates
          successor,     \* rotated_to_api_key_id
          binding,       \* state of each binding
          rowLock,       \* the request that has changed a row, uncommitted
          request,       \* where each request is
          dropped,
          contested,     \* history: keys two requests were about at once
          heirs,         \* history: keys issued in a key's place
          raced          \* history: removals that met an administrator's

keyVars == <<key, owner, successor, heirs>>
accessVars == <<keyVars, binding, rowLock, request, dropped, contested, raced>>

AccessInit ==
    /\ key = [k \in Keys |-> IF k \in FirstKeys THEN "live" ELSE "none"]
    /\ owner = [k \in Keys |-> IF k \in FirstKeys THEN SubjectOf[k] ELSE Null]
    /\ successor = [k \in Keys |-> Null]
    /\ binding = [b \in Bindings |-> IF b \in FirstBindings THEN "active"
                                     ELSE "none"]
    /\ rowLock = [x \in AccessRows |-> Null]
    /\ request = [q \in Requests |-> "idle"]
    /\ dropped = 0
    /\ contested = {}
    /\ heirs = [k \in Keys |-> {}]
    /\ raced = {}

Become(q, label) == request' = [request EXCEPT ![q] = label]

Lock(q, x) == rowLock' = [rowLock EXCEPT ![x] = q]

HoldOn(q) == UNCHANGED rowLock                   \* mutant of ReleaseRows

(* The transaction of a request ends; a lost one leaves nothing behind.    *)
ReleaseRows(q) ==
    rowLock' = [x \in AccessRows |-> IF rowLock[x] = q THEN Null
                                   ELSE rowLock[x]]

-----------------------------------------------------------------------------
(* The guard.  The key must be live when it is read; then the grants of its*)
(* owner are read, and only one on the whole organization lets a request   *)
(* about keys or bindings through: their routes name no project.           *)
Administrative(b) == RoleOf[b] \in AdminRoles

Authorizes(b, p) ==
    /\ binding[b] = "active" /\ SubjectOf[b] = p
    /\ Administrative(b) /\ ProjectOf[b] = Null

Authenticate(q) ==
    /\ request[q] = "idle"
    /\ Cardinality({r \in Requests : request[r] # "idle"}) < MaxRequests
    /\ Become(q, IF key[CredentialOf[q]] = "live" THEN "known" ELSE "refused")
    /\ UNCHANGED <<keyVars, binding, rowLock, dropped, contested, raced>>

(* Requests whose handlers are at work on the same key.                    *)
InHandler(q) == request[q] \in {"handle", "write", "commit"}

SameKey(q) ==
    {r \in KeyRequests \ {q} : InHandler(r) /\ AboutOf[r] = AboutOf[q]}

Authorize(q) ==
    /\ request[q] = "known"
    /\ \/ /\ \E b \in Bindings : Authorizes(b, owner[CredentialOf[q]])
          /\ Become(q, "handle")
          /\ contested' = IF q \in KeyRequests /\ SameKey(q) # {}
                          THEN contested \cup {AboutOf[q]} ELSE contested
       \/ /\ \A b \in Bindings : ~Authorizes(b, owner[CredentialOf[q]])
          /\ Become(q, "refused")
          /\ UNCHANGED contested
    /\ UNCHANGED <<keyVars, binding, rowLock, dropped, raced>>

Refuse(q) ==
    /\ Become(q, "refused")
    /\ UNCHANGED <<keyVars, binding, rowLock, dropped, contested, raced>>

-----------------------------------------------------------------------------
(* issue_api_key: one INSERT under a fresh identifier.                     *)
IssueKey(q) ==
    /\ request[q] = "handle"
    /\ key' = [key EXCEPT ![AboutOf[q]] = "live"]
    /\ owner' = [owner EXCEPT ![AboutOf[q]] = SubjectOf[AboutOf[q]]]
    /\ Become(q, "done")
    /\ UNCHANGED <<successor, heirs, binding, rowLock, dropped, contested,
                   raced>>

(* rotate_api_key: the key is read without a lock, and a revoked one is    *)
(* refused; the successor is inserted; the old row is updated whatever has *)
(* become of it.                                                           *)
ReadKey(q) ==
    /\ request[q] = "handle" /\ key[AboutOf[q]] = "live"
    /\ Become(q, "write")
    /\ UNCHANGED <<keyVars, binding, rowLock, dropped, contested, raced>>

RefuseRotation(q) ==
    /\ request[q] = "handle" /\ key[AboutOf[q]] # "live"
    /\ Refuse(q)

RotateKey(q) ==
    /\ request[q] = "write" /\ rowLock[AboutOf[q]] = Null
    /\ Lock(q, AboutOf[q])
    /\ Become(q, "commit")
    /\ UNCHANGED <<keyVars, binding, dropped, contested, raced>>

CommitSuccessorOnly(q) ==                        \* mutant of CommitRotation
    /\ request[q] = "commit"
    /\ key' = [key EXCEPT ![NewKeyOf[q]] = "live"]
    /\ owner' = [owner EXCEPT ![NewKeyOf[q]] = owner[AboutOf[q]]]
    /\ heirs' = [heirs EXCEPT ![AboutOf[q]] = @ \cup {NewKeyOf[q]}]
    /\ ReleaseRows(q)
    /\ Become(q, "done")
    /\ UNCHANGED <<successor, binding, dropped, contested, raced>>

CommitRotation(q) ==
    /\ request[q] = "commit"
    /\ LET old == AboutOf[q]
           new == NewKeyOf[q]
       IN  /\ key' = [key EXCEPT ![old] = "rotated", ![new] = "live"]
           /\ owner' = [owner EXCEPT ![new] = owner[old]]
           /\ successor' = [successor EXCEPT ![old] = new]
           /\ heirs' = [heirs EXCEPT ![old] = heirs[old] \cup {new}]
    /\ ReleaseRows(q)
    /\ Become(q, "done")
    /\ UNCHANGED <<binding, dropped, contested, raced>>

(* revoke_api_key: only a key that is still live is updated, and one that  *)
(* is not is answered alike; an unknown one is answered with 404.          *)
RevokeKey(q) ==
    /\ request[q] = "handle" /\ key[AboutOf[q]] = "live"
    /\ rowLock[AboutOf[q]] = Null
    /\ Lock(q, AboutOf[q])
    /\ Become(q, "commit")
    /\ UNCHANGED <<keyVars, binding, dropped, contested, raced>>

RevokeNothing(q) ==
    /\ request[q] = "handle" /\ key[AboutOf[q]] # "live"
    /\ Become(q, IF key[AboutOf[q]] = "none" THEN "refused" ELSE "done")
    /\ UNCHANGED <<keyVars, binding, rowLock, dropped, contested, raced>>

DeleteKey(q) ==                                  \* mutant of CommitRevocation
    /\ request[q] = "commit"
    /\ key' = [key EXCEPT ![AboutOf[q]] = "deleted"]
    /\ ReleaseRows(q)
    /\ Become(q, "done")
    /\ UNCHANGED <<owner, successor, heirs, binding, dropped, contested,
                   raced>>

CommitRevocation(q) ==
    /\ request[q] = "commit"
    /\ key' = [key EXCEPT ![AboutOf[q]] = "revoked"]
    /\ ReleaseRows(q)
    /\ Become(q, "done")
    /\ UNCHANGED <<owner, successor, heirs, binding, dropped, contested,
                   raced>>

-----------------------------------------------------------------------------
(* create_role_binding: the unique index admits one active binding of a    *)
(* role to a principal in a place, and makes the INSERT wait for whoever   *)
(* is adding or removing one.                                              *)
Twins(b) ==
    {c \in Bindings \ {b} : /\ RoleOf[c] = RoleOf[b]
                            /\ SubjectOf[c] = SubjectOf[b]
                            /\ ProjectOf[c] = ProjectOf[b]}

GrantAgain(q) ==                                 \* mutant of Grant
    /\ request[q] = "handle"
    /\ \A c \in Twins(AboutOf[q]) : binding[c] # "active"
    /\ Lock(q, AboutOf[q])
    /\ Become(q, "commit")
    /\ UNCHANGED <<keyVars, binding, dropped, contested, raced>>

Grant(q) ==
    /\ request[q] = "handle"
    /\ \A c \in Twins(AboutOf[q]) : rowLock[c] = Null /\ binding[c] # "active"
    /\ Lock(q, AboutOf[q])
    /\ Become(q, "commit")
    /\ UNCHANGED <<keyVars, binding, dropped, contested, raced>>

RefuseTwin(q) ==
    /\ request[q] = "handle"
    /\ \E c \in Twins(AboutOf[q]) : rowLock[c] = Null /\ binding[c] = "active"
    /\ Refuse(q)

CommitGrant(q) ==
    /\ request[q] = "commit"
    /\ binding' = [binding EXCEPT ![AboutOf[q]] = "active"]
    /\ ReleaseRows(q)
    /\ Become(q, "done")
    /\ UNCHANGED <<keyVars, dropped, contested, raced>>

(* revoke_role_binding: once the row is locked the trigger counts the other*)
(* bindings that carry role:grant, among those it can see.                 *)
CountEverything(b) ==                            \* mutant of Remaining
    {c \in Bindings \ {b} : binding[c] = "active"}

Remaining(b) ==
    {c \in Bindings \ {b} : binding[c] = "active" /\ Administrative(c)}

MayGo(b) == Administrative(b) => Remaining(b) # {}

Remove(q) ==
    /\ request[q] = "handle" /\ binding[AboutOf[q]] = "active"
    /\ rowLock[AboutOf[q]] = Null /\ MayGo(AboutOf[q])
    /\ Lock(q, AboutOf[q])
    /\ Become(q, "commit")
    /\ raced' = IF \E r \in Removals \ {q} :
                       request[r] = "commit" /\ Administrative(AboutOf[r])
                THEN raced \cup {q} ELSE raced
    /\ UNCHANGED <<keyVars, binding, dropped, contested>>

RefuseRemoval(q) ==
    /\ request[q] = "handle"
    /\ \/ binding[AboutOf[q]] # "active"
       \/ rowLock[AboutOf[q]] = Null /\ ~MayGo(AboutOf[q])
    /\ Refuse(q)

CommitRemoval(q) ==
    /\ request[q] = "commit"
    /\ binding' = [binding EXCEPT ![AboutOf[q]] = "revoked"]
    /\ ReleaseRows(q)
    /\ Become(q, "done")
    /\ UNCHANGED <<keyVars, dropped, contested, raced>>

-----------------------------------------------------------------------------
LoseRequest(q) ==
    /\ request[q] \notin {"idle", "done", "refused"}
    /\ dropped < MaxDropped
    /\ dropped' = dropped + 1
    /\ ReleaseRows(q)
    /\ Become(q, "refused")
    /\ UNCHANGED <<keyVars, binding, contested, raced>>

Rotate(q) ==
    ReadKey(q) \/ RefuseRotation(q) \/ RotateKey(q) \/ CommitRotation(q)

Revoke(q) == RevokeKey(q) \/ RevokeNothing(q) \/ CommitRevocation(q)

Bind(q) == Grant(q) \/ RefuseTwin(q) \/ CommitGrant(q)

Unbind(q) == Remove(q) \/ RefuseRemoval(q) \/ CommitRemoval(q)

RequestStep(q) ==
    \/ Authorize(q)
    \/ q \in Issues /\ IssueKey(q)
    \/ q \in Rotations /\ Rotate(q)
    \/ q \in Revocations /\ Revoke(q)
    \/ q \in Grants /\ Bind(q)
    \/ q \in Removals /\ Unbind(q)

AccessNext ==
    \E q \in Requests : Authenticate(q) \/ RequestStep(q) \/ LoseRequest(q)

AccessSpec == AccessInit /\ [][AccessNext]_accessVars

(* A request that was let in goes on: its statements wait only for other   *)
(* requests.                                                               *)
FairAccess == AccessSpec /\ \A q \in Requests : WF_accessVars(RequestStep(q))
-----------------------------------------------------------------------------
AccessTypeOK ==
    /\ key \in [Keys -> {"none", "live", "revoked", "rotated"}]
    /\ owner \in [Keys -> Principals \cup {Null}]
    /\ successor \in [Keys -> Keys \cup {Null}]
    /\ binding \in [Bindings -> {"none", "active", "revoked"}]
    /\ rowLock \in [AccessRows -> Requests \cup {Null}]
    /\ request \in [Requests -> {"idle", "known", "handle", "write", "commit",
                                 "done", "refused"}]
    /\ dropped \in 0 .. MaxDropped
    /\ contested \subseteq Keys
    /\ heirs \in [Keys -> SUBSET Keys]
    /\ raced \subseteq Removals

(* The organization keeps a principal who may grant roles, unless two      *)
(* removals overlapped, or the trigger counted a binding that lets its     *)
(* holder through on one project only (refuse_last_administrative_binding).*)
AdministratorLostOnlyToRace ==
    \/ \E b \in Bindings, p \in Principals : Authorizes(b, p)
    \/ raced # {}
    \/ \E b \in Bindings : /\ binding[b] = "active" /\ Administrative(b)
                           /\ ProjectOf[b] # Null

(* However requests race, a key that is not rotated has no heir, a revoked *)
(* one included, and a rotated key's row names one of its heirs            *)
(* (ck_api_key__rotation_revokes); it has no other heir unless two        *)
(* requests were about it at once, a case DeadKeysNeverReplaced is about.  *)
RotationLeavesOneHeir ==
    \A k \in Keys :
        /\ key[k] = "rotated" => successor[k] \in heirs[k]
        /\ key[k] # "rotated" => heirs[k] = {} /\ successor[k] = Null
        /\ k \notin contested => heirs[k] \subseteq {successor[k]}

(* No principal holds one role twice in one place, whatever requests race  *)
(* to grant it (uq_role_binding__active).                                  *)
NoTwinBindings ==
    \A b \in Bindings : binding[b] = "active" =>
        \A c \in Twins(b) : binding[c] # "active"

(* A key that ceased to be live never authenticates again, and no row is   *)
(* handed from one principal to another.                                   *)
KeysOnlyDie ==
    [][\A k \in Keys : /\ key[k] \in {"revoked", "rotated"} => key'[k] # "live"
                       /\ owner[k] # Null => owner'[k] = owner[k]]_accessVars

(* Every request that was let in is answered: time and again there is none *)
(* left in its handler.                                                    *)
RequestsAnswered == []<>(\A q \in Requests : ~InHandler(q))

-----------------------------------------------------------------------------
(* domain-model.md:43 asks that "at least one principal retains            *)
(* administrative capability in every organization".                       *)
AdministratorRemains == \E b \in Bindings, p \in Principals : Authorizes(b, p)

(* security/repository.py:243-244 says of a dead key that "replacing a dead*)
(* one would issue authority nobody currently holds": no key is issued in  *)
(* the place of one that was revoked, or was rotated already.              *)
DeadKeysNeverReplaced ==
    [][\A k \in Keys : key[k] \in {"revoked", "rotated"} =>
                          heirs'[k] = heirs[k]]_accessVars
=============================================================================
