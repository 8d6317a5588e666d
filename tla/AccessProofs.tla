---------------------------- MODULE AccessProofs ----------------------------
(***************************************************************************)
(* Proofs about Access, for any principals, keys, bindings and requests.   *)
(*                                                                         *)
(* A request that is about to commit holds the row it is about, and what   *)
(* it read of that row under the lock still holds; what it read before the *)
(* lock holds only if nobody else was at work on the row.  The parts of    *)
(* the invariant say which of the two applies: LocksHeld and the Fresh     *)
(* parts to everybody, Uncontested to keys that had one request at a time, *)
(* OthersRemain to removals that did not overlap.                          *)
(***************************************************************************)
EXTENDS Access, TLAPS

LocksHeld ==
    /\ \A x \in AccessRows, q \in Requests :
         rowLock[x] = q => request[q] = "commit" /\ AboutOf[q] = x
    /\ \A q \in Requests :
         /\ request[q] = "commit" => rowLock[AboutOf[q]] = q
         /\ request[q] = "write" => q \in Rotations

FreshKeys ==
    /\ \A q \in Rotations : key[NewKeyOf[q]] # "none" => request[q] = "done"
    /\ \A q \in Issues : key[AboutOf[q]] # "none" => request[q] = "done"
    /\ \A q \in KeyRequests :
         request[q] \in {"write", "commit"} => key[AboutOf[q]] # "none"
    /\ \A k \in Keys : key[k] = "none" <=> owner[k] = Null

FreshBindings ==
    /\ \A q \in Grants : binding[AboutOf[q]] # "none" => request[q] = "done"
    /\ \A q \in Removals : request[q] = "commit" => binding[AboutOf[q]] = "active"

(* What a revocation read before its UPDATE, it reads again under the lock.*)
StillLive ==
    \A q \in Revocations : request[q] = "commit" => key[AboutOf[q]] = "live"

Uncontested ==
    \A q \in KeyRequests : InHandler(q) /\ AboutOf[q] \notin contested =>
        /\ \A r \in KeyRequests :
             InHandler(r) /\ AboutOf[r] = AboutOf[q] => r = q
        /\ request[q] \in {"write", "commit"} => key[AboutOf[q]] = "live"

TwinsApart ==
    \A q \in Grants : request[q] = "commit" =>
        \A c \in Twins(AboutOf[q]) :
            /\ binding[c] # "active"
            /\ \A r \in Grants : request[r] = "commit" => AboutOf[r] # c

RemovesAdministrator(q) == request[q] = "commit" /\ Administrative(AboutOf[q])

OthersRemain ==
    raced = {} =>
        /\ \E b \in Bindings : binding[b] = "active" /\ Administrative(b)
        /\ \A q \in Removals : RemovesAdministrator(q) =>
             /\ Remaining(AboutOf[q]) # {}
             /\ \A r \in Removals : RemovesAdministrator(r) => r = q

IInv == /\ AccessTypeOK /\ LocksHeld /\ FreshKeys /\ FreshBindings
        /\ StillLive /\ Uncontested /\ RotationLeavesOneHeir
        /\ TwinsApart /\ NoTwinBindings
        /\ OthersRemain

-----------------------------------------------------------------------------
(* The steps of a request that commits nothing: what it reads, and what it *)
(* locks.                                                                  *)
Reads(q) ==
    \/ Authenticate(q) \/ Authorize(q)
    \/ q \in Rotations /\ (ReadKey(q) \/ RefuseRotation(q))
    \/ q \in Revocations /\ RevokeNothing(q)
    \/ q \in Grants /\ RefuseTwin(q)
    \/ q \in Removals /\ RefuseRemoval(q)
    \/ LoseRequest(q)

Locks(q) ==
    \/ q \in Rotations /\ RotateKey(q)
    \/ q \in Revocations /\ RevokeKey(q)
    \/ q \in Grants /\ Grant(q)
    \/ q \in Removals /\ Remove(q)

Commits(q) ==
    \/ q \in Rotations /\ CommitRotation(q)
    \/ q \in Revocations /\ CommitRevocation(q)
    \/ q \in Grants /\ CommitGrant(q)
    \/ q \in Removals /\ CommitRemoval(q)

LEMMA StepKinds ==
    ASSUME NEW q \in Requests, Authenticate(q) \/ RequestStep(q) \/ LoseRequest(q)
    PROVE  Reads(q) \/ Locks(q) \/ Commits(q) \/ (q \in Issues /\ IssueKey(q))
BY DEF RequestStep, Rotate, Revoke, Bind, Unbind, Reads, Locks, Commits

LEMMA TargetKinds ==
    /\ \A q \in Issues \cup KeyRequests : q \in Requests /\ AboutOf[q] \in Keys
    /\ \A q \in Grants \cup Removals : q \in Requests /\ AboutOf[q] \in Bindings
    /\ \A q \in Requests : AboutOf[q] \in AccessRows /\ CredentialOf[q] \in Keys
    /\ \A q \in Rotations : NewKeyOf[q] \in Keys
    /\ MaxDropped \in Nat
    /\ Null \notin Requests /\ Null \notin Principals /\ Null \notin Keys
    /\ \A q \in Issues \cup KeyRequests : q \notin Grants \cup Removals
    /\ \A q \in Issues : q \notin KeyRequests
    /\ \A q \in Rotations : q \notin Revocations
    /\ \A q \in Grants : q \notin Removals
    /\ \A k \in Keys : k \notin Bindings
BY AccessAssumption DEF Requests, KeyRequests, AccessRows

(* A step that commits nothing leaves the rows as they were; its request   *)
(* waits, holds its row, or ends without it.                               *)
LEMMA ReadsEffect ==
    ASSUME AccessTypeOK, NEW q \in Requests, Reads(q)
    PROVE  /\ UNCHANGED <<keyVars, binding, raced>>
           /\ request' = [request EXCEPT ![q] = request'[q]]
           /\ request'[q] \in {"known", "handle", "write", "done", "refused"}
           /\ request[q] \notin {"done", "refused"}
           /\ \/ rowLock' = [x \in AccessRows |-> IF rowLock[x] = q THEN Null ELSE rowLock[x]]
              \/ rowLock' = rowLock /\ request[q] # "commit"
           /\ request'[q] = "write" =>
                     q \in Rotations /\ request[q] = "handle" /\ key[AboutOf[q]] = "live"
           /\ dropped' \in 0 .. MaxDropped
           /\ contested' \subseteq Keys /\ contested \subseteq contested'
           /\ contested' = contested \/ (request[q] = "known" /\ request'[q] = "handle")
           /\ request'[q] = "handle" => request[q] = "known" /\
                     (q \in KeyRequests =>
                        SameKey(q) = {} \/ AboutOf[q] \in contested')
<1>1. CASE Authenticate(q)
  BY <1>1 DEF Authenticate, Become, AccessTypeOK, keyVars
<1>2. CASE Authorize(q)
  BY <1>2, TargetKinds DEF Authorize, Become, AccessTypeOK, keyVars
<1>3. CASE q \in Rotations /\ ReadKey(q)
  BY <1>3 DEF ReadKey, Become, AccessTypeOK, keyVars
<1>4. CASE \/ RefuseRotation(q) \/ RefuseTwin(q) \/ RefuseRemoval(q)
  BY <1>4 DEF RefuseRotation, RefuseTwin, RefuseRemoval, Refuse, Become,
     AccessTypeOK,
              keyVars
<1>5. CASE RevokeNothing(q)
  BY <1>5 DEF RevokeNothing, Become, AccessTypeOK, keyVars
<1>6. CASE LoseRequest(q)
  BY <1>6, TargetKinds DEF LoseRequest, ReleaseRows, Become, AccessTypeOK,
     keyVars
<1> QED BY <1>1, <1>2, <1>3, <1>4, <1>5, <1>6 DEF Reads

LEMMA LocksEffect ==
    ASSUME AccessTypeOK, NEW q \in Requests, Locks(q)
    PROVE  /\ UNCHANGED <<keyVars, binding, dropped, contested>>
           /\ request' = [request EXCEPT ![q] = "commit"]
           /\ request[q] = IF q \in Rotations THEN "write" ELSE "handle"
           /\ rowLock' = [rowLock EXCEPT ![AboutOf[q]] = q]
           /\ q \notin Grants => rowLock[AboutOf[q]] = Null
           /\ q \notin Issues
           /\ q \notin Removals => UNCHANGED raced
           /\ q \in Revocations => key[AboutOf[q]] = "live"
BY TargetKinds DEF Locks, RotateKey, RevokeKey, Grant, Remove, Lock, Become,
                   AccessTypeOK, keyVars, KeyRequests

LEMMA CommitsEffect ==
    ASSUME AccessTypeOK, NEW q \in Requests, Commits(q)
    PROVE  /\ UNCHANGED <<dropped, contested, raced>>
           /\ request' = [request EXCEPT ![q] = "done"] /\ request[q] = "commit"
           /\ rowLock' = [x \in AccessRows |-> IF rowLock[x] = q THEN Null ELSE rowLock[x]]
           /\ q \notin Issues
           /\ q \in KeyRequests => UNCHANGED binding
           /\ q \notin KeyRequests => UNCHANGED keyVars
BY TargetKinds DEF Commits, CommitRotation, CommitRevocation, CommitGrant,
                   CommitRemoval, ReleaseRows, Become, AccessTypeOK, keyVars, KeyRequests

-----------------------------------------------------------------------------
LEMMA InitInvariant == AccessInit => IInv
<1> SUFFICES ASSUME AccessInit PROVE IInv
  OBVIOUS
<1>0. SubjectOf \in [AccessRows -> Principals] /\ MaxDropped \in Nat
  BY AccessAssumption
<1>1. AccessTypeOK
  <2>1. owner \in [Keys -> Principals \cup {Null}]
    BY <1>0 DEF AccessInit, AccessRows
  <2> QED BY <2>1, <1>0 DEF AccessInit, AccessTypeOK
<1>2. LocksHeld
  BY TargetKinds DEF AccessInit, LocksHeld
<1>3. FreshKeys
  BY TargetKinds, AccessAssumption DEF AccessInit, FreshKeys, AccessRows,
     KeyRequests, Requests
<1>4. FreshBindings /\ TwinsApart
  BY TargetKinds, AccessAssumption DEF AccessInit, FreshBindings, TwinsApart,
     Requests
<1>5. Uncontested
  BY TargetKinds DEF AccessInit, Uncontested, InHandler
<1>6. RotationLeavesOneHeir /\ StillLive
  BY DEF AccessInit, RotationLeavesOneHeir, StillLive, Requests
<1>7. NoTwinBindings
  BY AccessAssumption DEF AccessInit, NoTwinBindings, Twins
<1>8. OthersRemain
  BY TargetKinds, AccessAssumption
     DEF AccessInit, OthersRemain, RemovesAdministrator, Administrative
<1> QED BY <1>1, <1>2, <1>3, <1>4, <1>5, <1>6, <1>7, <1>8 DEF IInv

-----------------------------------------------------------------------------
(* Steps that commit nothing keep every part.                              *)
LEMMA ReadsKeep ==
    ASSUME IInv, NEW q \in Requests, Reads(q)
    PROVE  IInv'
<1>1. AccessTypeOK /\ LocksHeld /\ FreshKeys /\ FreshBindings
  BY DEF IInv
<1>2. /\ UNCHANGED <<key, owner, successor, heirs, binding, raced>>
      /\ request' = [request EXCEPT ![q] = request'[q]]
      /\ request'[q] \in {"known", "handle", "write", "done", "refused"}
      /\ request[q] \notin {"done", "refused"}
      /\ \/ rowLock' = [x \in AccessRows |-> IF rowLock[x] = q THEN Null ELSE rowLock[x]]
         \/ rowLock' = rowLock /\ request[q] # "commit"
      /\ request'[q] = "write" =>
                q \in Rotations /\ request[q] = "handle" /\ key[AboutOf[q]] = "live"
      /\ dropped' \in 0 .. MaxDropped
      /\ contested' \subseteq Keys /\ contested \subseteq contested'
      /\ request'[q] = "handle" => request[q] = "known" /\
                (q \in KeyRequests =>
                   SameKey(q) = {} \/ AboutOf[q] \in contested')
  BY <1>1, ReadsEffect DEF keyVars
<1>3. AccessTypeOK'
  BY <1>1, <1>2 DEF AccessTypeOK
<1>4. /\ \A r \in Requests : r # q => request'[r] = request[r]
      /\ \A r \in Requests : request'[r] = "commit" => r # q /\ request[r] = "commit"
      /\ \A r \in Requests : request[r] = "done" => request'[r] = "done"
  BY <1>1, <1>2 DEF AccessTypeOK
<1>5. LocksHeld'
  <2>1. ASSUME NEW x \in AccessRows, NEW r \in Requests, rowLock'[x] = r
        PROVE  request'[r] = "commit" /\ AboutOf[r] = x
    BY <2>1, <1>1, <1>2, <1>4, TargetKinds DEF LocksHeld, AccessTypeOK
  <2>2. ASSUME NEW r \in Requests, request'[r] = "commit"
        PROVE  rowLock'[AboutOf[r]] = r
    BY <2>2, <1>1, <1>2, <1>4, TargetKinds DEF LocksHeld, AccessTypeOK
  <2>3. ASSUME NEW r \in Requests, request'[r] = "write"
        PROVE  r \in Rotations
    BY <2>3, <1>1, <1>2, <1>4 DEF LocksHeld, AccessTypeOK
  <2> QED BY <2>1, <2>2, <2>3 DEF LocksHeld
<1>6. FreshKeys'
  BY <1>1, <1>2, <1>4, TargetKinds DEF FreshKeys, KeyRequests
<1>7. FreshBindings'
  BY <1>1, <1>2, <1>4, TargetKinds DEF FreshBindings
<1>8. Uncontested'
  <2> SUFFICES ASSUME NEW r \in KeyRequests, InHandler(r)',
                      AboutOf[r] \notin contested'
               PROVE  /\ \A t \in KeyRequests :
                           InHandler(t)' /\ AboutOf[t] = AboutOf[r] => t = r
                      /\ request'[r] \in {"write", "commit"} =>
                                key'[AboutOf[r]] = "live"
    BY DEF Uncontested
  <2>1. Uncontested /\ AboutOf[r] \notin contested
    BY <1>2 DEF IInv
  <2>2. \A t \in KeyRequests : InHandler(t)' /\ t # q => InHandler(t)
    BY <1>4, TargetKinds DEF InHandler
  <2>3. q \in KeyRequests /\ InHandler(q)' /\ ~InHandler(q) =>
          SameKey(q) = {} \/ AboutOf[q] \in contested'
    BY <1>2 DEF InHandler
  <2>4. ASSUME NEW t \in KeyRequests, InHandler(t)', AboutOf[t] = AboutOf[r]
        PROVE  t = r
    <3>1. CASE InHandler(t) /\ InHandler(r)
      BY <3>1, <2>1, <2>4 DEF Uncontested
    <3>2. CASE ~InHandler(t) /\ t # r
      BY <3>2, <2>2, <2>3, <2>4 DEF SameKey
    <3>3. CASE ~InHandler(r) /\ t # r
      BY <3>3, <2>2, <2>3, <2>4 DEF SameKey
    <3> QED BY <3>1, <3>2, <3>3
  <2>5. request'[r] \in {"write", "commit"} => key'[AboutOf[r]] = "live"
    <3>1. CASE r = q
      BY <3>1, <1>2, <1>4, TargetKinds
    <3>2. CASE r # q
      BY <3>2, <1>2, <1>4, <2>1, <2>2, TargetKinds DEF Uncontested
    <3> QED BY <3>1, <3>2
  <2> QED BY <2>4, <2>5
<1>9. RotationLeavesOneHeir' /\ StillLive'
  BY <1>2, <1>4, TargetKinds
     DEF IInv, RotationLeavesOneHeir, StillLive, KeyRequests
<1>10. TwinsApart' /\ NoTwinBindings'
  BY <1>2, <1>4, TargetKinds DEF IInv, TwinsApart, NoTwinBindings, Twins
<1>11. OthersRemain'
  BY <1>2, <1>4, TargetKinds DEF IInv, OthersRemain, RemovesAdministrator,
                                 Remaining, Administrative
<1> QED BY <1>3, <1>5, <1>6, <1>7, <1>8, <1>9, <1>10, <1>11 DEF IInv

(* A request that locks its row found it as the commit will need it.       *)
LEMMA LocksKeep ==
    ASSUME IInv, NEW q \in Requests, Locks(q)
    PROVE  IInv'
<1>1. AccessTypeOK /\ LocksHeld /\ FreshKeys /\ FreshBindings
  BY DEF IInv
<1>2. /\ UNCHANGED <<key, owner, successor, heirs, binding, dropped, contested>>
      /\ request' = [request EXCEPT ![q] = "commit"]
      /\ request[q] = IF q \in Rotations THEN "write" ELSE "handle"
      /\ rowLock' = [rowLock EXCEPT ![AboutOf[q]] = q]
      /\ q \notin Grants => rowLock[AboutOf[q]] = Null
      /\ q \notin Issues
      /\ q \notin Removals => UNCHANGED raced
      /\ q \in Revocations => key[AboutOf[q]] = "live"
  BY <1>1, LocksEffect DEF keyVars
<1>3. AccessTypeOK'
  <2>1. raced' \subseteq Removals
    BY <1>1, <1>2 DEF AccessTypeOK, Locks, Remove, RotateKey, RevokeKey, Grant
  <2> QED BY <2>1, <1>1, <1>2, TargetKinds DEF AccessTypeOK
<1>4. /\ \A r \in Requests : r # q => request'[r] = request[r]
      /\ request'[q] = "commit"
      /\ \A r \in Requests : request[r] = "done" => request'[r] = "done"
      /\ \A r \in Requests : request'[r] = "done" => request[r] = "done"
  BY <1>1, <1>2 DEF AccessTypeOK
<1>5. rowLock[AboutOf[q]] = Null
  <2>1. CASE q \in Grants
    <3>1. binding[AboutOf[q]] = "none"
      BY <2>1, <1>1, <1>2, TargetKinds DEF FreshBindings
    <3>2. ASSUME NEW r \in Requests, rowLock[AboutOf[q]] = r PROVE FALSE
      <4>1. request[r] = "commit" /\ AboutOf[r] = AboutOf[q]
        BY <3>2, <1>1, TargetKinds DEF LocksHeld
      <4>2. r \in Grants \cup Removals
        BY <2>1, <4>1, TargetKinds DEF Requests, KeyRequests
      <4>3. r \notin Removals
        BY <3>1, <4>1, <1>1 DEF FreshBindings
      <4>4. r = q
        BY <4>1, <4>2, <4>3, <2>1, AccessAssumption
      <4> QED BY <4>1, <4>4, <2>1, <1>2, TargetKinds
    <3> QED BY <3>2, <1>1, TargetKinds DEF AccessTypeOK
  <2> QED BY <2>1, <1>2
<1>6. LocksHeld'
  BY <1>1, <1>2, <1>4, <1>5, TargetKinds DEF LocksHeld, AccessTypeOK
<1>7. FreshKeys'
  BY <1>1, <1>2, <1>4, TargetKinds DEF FreshKeys, KeyRequests
<1>8. FreshBindings'
  <2>1. q \in Removals => binding[AboutOf[q]] = "active"
    BY TargetKinds DEF Locks, Remove, KeyRequests
  <2> QED BY <2>1, <1>1, <1>2, <1>4, TargetKinds DEF FreshBindings
<1>9. Uncontested'
  <2>1. Uncontested
    BY DEF IInv
  <2>2. \A r \in KeyRequests : InHandler(r)' <=> InHandler(r)
    BY <1>2, <1>4, TargetKinds DEF InHandler
  <2>3. q \in Rotations /\ AboutOf[q] \notin contested =>
          key[AboutOf[q]] = "live"
    BY <2>1, <1>2 DEF Uncontested, InHandler, KeyRequests
  <2> QED BY <2>1, <2>2, <2>3, <1>2, <1>4, TargetKinds
          DEF Uncontested, KeyRequests
<1>10. RotationLeavesOneHeir' /\ NoTwinBindings' /\ StillLive'
  <2>1. StillLive'
    BY <1>2, <1>4, TargetKinds DEF IInv, StillLive, KeyRequests
  <2> QED BY <2>1, <1>2 DEF IInv, RotationLeavesOneHeir, NoTwinBindings, Twins
<1>11. TwinsApart'
  <2>1. TwinsApart
    BY DEF IInv
  <2>2. q \in Grants => \A c \in Twins(AboutOf[q]) :
                           rowLock[c] = Null /\ binding[c] # "active"
    BY TargetKinds DEF Locks, Grant, KeyRequests
  <2>3. q \in Grants => \A r \in Grants : request'[r] = "commit" =>
          /\ AboutOf[r] \notin Twins(AboutOf[q])
          /\ AboutOf[q] \notin Twins(AboutOf[r])
    <3> SUFFICES ASSUME q \in Grants, NEW r \in Grants, request'[r] = "commit"
                 PROVE  /\ AboutOf[r] \notin Twins(AboutOf[q])
                        /\ AboutOf[q] \notin Twins(AboutOf[r])
      OBVIOUS
    <3>1. AboutOf[r] \in Bindings /\ AboutOf[q] \in Bindings
      BY TargetKinds
    <3>2. AboutOf[q] \in Twins(AboutOf[r]) => AboutOf[r] \in Twins(AboutOf[q])
      BY <3>1 DEF Twins
    <3>3. r # q => rowLock[AboutOf[r]] = r
      BY <1>1, <1>4, TargetKinds DEF LocksHeld
    <3>4. AboutOf[r] \notin Twins(AboutOf[q])
      BY <2>2, <3>1, <3>3, TargetKinds DEF Twins
    <3> QED BY <3>2, <3>4
  <2> QED BY <2>1, <2>2, <2>3, <1>2, <1>4, TargetKinds DEF TwinsApart
<1>12. OthersRemain'
  <2>1. OthersRemain
    BY DEF IInv
  <2>2. CASE q \notin Removals
    BY <2>1, <2>2, <1>2, <1>4, TargetKinds
       DEF OthersRemain, RemovesAdministrator, Remaining, Administrative
  <2>3. CASE q \in Removals
    <3>1. /\ MayGo(AboutOf[q])
          /\ raced' = IF \E r \in Removals \ {q} :
                            request[r] = "commit" /\ Administrative(AboutOf[r])
                      THEN raced \cup {q} ELSE raced
      BY <2>3, TargetKinds DEF Locks, Remove, KeyRequests
    <3> SUFFICES ASSUME raced' = {} PROVE OthersRemain'
      BY DEF OthersRemain
    <3>2. /\ raced = {}
          /\ \A r \in Removals \ {q} : ~RemovesAdministrator(r)
      BY <3>1 DEF RemovesAdministrator
    <3>3. \A r \in Removals \ {q} : ~RemovesAdministrator(r)'
      BY <3>2, <1>4, TargetKinds DEF RemovesAdministrator, Administrative
    <3>4. Administrative(AboutOf[q]) => Remaining(AboutOf[q])' # {}
      BY <3>1, <1>2 DEF MayGo, Remaining, Administrative
    <3> QED BY <2>1, <3>2, <3>3, <3>4, <1>2
            DEF OthersRemain, RemovesAdministrator, Administrative, Remaining
  <2> QED BY <2>2, <2>3
<1> QED BY <1>3, <1>6, <1>7, <1>8, <1>9, <1>10, <1>11, <1>12 DEF IInv

(* What a commit changes besides the row it holds: nothing of the others.  *)
LEMMA CommitsKeepLocks ==
    ASSUME IInv, NEW q \in Requests, Commits(q)
    PROVE  /\ LocksHeld'
           /\ rowLock[AboutOf[q]] = q
           /\ \A r \in Requests : r # q => request'[r] = request[r]
           /\ \A r \in Requests \ {q} : request[r] = "commit" =>
                AboutOf[r] # AboutOf[q]
           /\ request'[q] = "done"
           /\ \A r \in KeyRequests : InHandler(r)' => r # q /\ InHandler(r)
<1>1. AccessTypeOK /\ LocksHeld
  BY DEF IInv
<1>2. /\ request' = [request EXCEPT ![q] = "done"] /\ request[q] = "commit"
      /\ rowLock' = [x \in AccessRows |-> IF rowLock[x] = q THEN Null ELSE rowLock[x]]
  BY <1>1, CommitsEffect
<1>3. /\ \A r \in Requests : r # q => request'[r] = request[r]
      /\ request'[q] = "done"
  BY <1>1, <1>2 DEF AccessTypeOK
<1>4. LocksHeld'
  BY <1>1, <1>2, <1>3, TargetKinds DEF LocksHeld, AccessTypeOK
<1>5. rowLock[AboutOf[q]] = q
  BY <1>1, <1>2 DEF LocksHeld
<1>6. \A r \in Requests \ {q} : request[r] = "commit" => AboutOf[r] # AboutOf[q]
  BY <1>1, <1>5 DEF LocksHeld
<1>7. \A r \in KeyRequests : InHandler(r)' => r # q /\ InHandler(r)
  BY <1>3, TargetKinds DEF InHandler
<1> QED BY <1>3, <1>4, <1>5, <1>6, <1>7

LEMMA RotationKeeps ==
    ASSUME IInv, NEW q \in Rotations, CommitRotation(q)
    PROVE  IInv'
<1> DEFINE old == AboutOf[q]
           new == NewKeyOf[q]
<1>1. /\ AccessTypeOK /\ FreshKeys /\ Uncontested /\ RotationLeavesOneHeir
      /\ q \in Requests /\ q \in KeyRequests /\ old \in Keys /\ new \in Keys
      /\ Commits(q)
  BY TargetKinds DEF IInv, Commits, KeyRequests
<1>2. /\ UNCHANGED <<binding, dropped, contested, raced>>
      /\ request' = [request EXCEPT ![q] = "done"] /\ request[q] = "commit"
      /\ rowLock' = [x \in AccessRows |-> IF rowLock[x] = q THEN Null ELSE rowLock[x]]
      /\ key' = [key EXCEPT ![old] = "rotated", ![new] = "live"]
      /\ owner' = [owner EXCEPT ![new] = owner[old]]
      /\ successor' = [successor EXCEPT ![old] = new]
      /\ heirs' = [heirs EXCEPT ![old] = heirs[old] \cup {new}]
  BY <1>1, CommitsEffect DEF CommitRotation
<1>3. AccessTypeOK'
  BY <1>1, <1>2 DEF AccessTypeOK
<1>4. LocksHeld' /\ \A r \in Requests : r # q => request'[r] = request[r]
  BY <1>1, CommitsKeepLocks
<1>5. /\ key[new] = "none" /\ key[old] # "none" /\ new # old
      /\ owner[old] # Null
  BY <1>1, <1>2 DEF FreshKeys
<1>6. /\ key'[new] = "live" /\ key'[old] = "rotated"
      /\ \A k \in Keys \ {new, old} : key'[k] = key[k] /\ owner'[k] = owner[k]
      /\ owner'[new] # Null /\ owner'[old] # Null
  BY <1>1, <1>2, <1>5 DEF AccessTypeOK
<1>7. FreshKeys'
  <2>1. \A r \in Rotations : key'[NewKeyOf[r]] # "none" => request'[r] = "done"
    BY <1>1, <1>2, <1>4, <1>5, <1>6, TargetKinds, AccessAssumption
       DEF FreshKeys, AccessTypeOK
  <2>2. \A r \in Issues : key'[AboutOf[r]] # "none" => request'[r] = "done"
    BY <1>1, <1>2, <1>4, <1>5, <1>6, TargetKinds, AccessAssumption
       DEF FreshKeys, AccessTypeOK
  <2>3. \A r \in KeyRequests :
          request'[r] \in {"write", "commit"} => key'[AboutOf[r]] # "none"
    BY <1>1, <1>2, <1>4, <1>6, TargetKinds DEF FreshKeys, AccessTypeOK
  <2>4. \A k \in Keys : key'[k] = "none" <=> owner'[k] = Null
    BY <1>1, <1>6 DEF FreshKeys
  <2> QED BY <2>1, <2>2, <2>3, <2>4 DEF FreshKeys
<1>8. FreshBindings' /\ TwinsApart' /\ NoTwinBindings' /\ OthersRemain'
  BY <1>1, <1>2, <1>4, TargetKinds
     DEF IInv, FreshBindings, TwinsApart, NoTwinBindings, Twins, OthersRemain,
         RemovesAdministrator, Remaining, Administrative
<1>9. Uncontested'
  <2>1. \A r \in KeyRequests : InHandler(r)' => r # q /\ InHandler(r)
    BY <1>1, CommitsKeepLocks
  <2>2. ASSUME NEW r \in KeyRequests, InHandler(r)', AboutOf[r] \notin contested,
               request'[r] \in {"write", "commit"}
        PROVE  key'[AboutOf[r]] = "live"
    <3>1. r # q /\ InHandler(r) /\ request[r] \in {"write", "commit"}
      BY <2>1, <2>2, <1>4, TargetKinds
    <3>2. key[AboutOf[r]] = "live"
      BY <3>1, <2>2, <1>1 DEF Uncontested
    <3>3. AboutOf[r] # old
      BY <3>1, <2>2, <1>1, <1>2 DEF Uncontested, InHandler
    <3> QED BY <3>2, <3>3, <1>6, TargetKinds
  <2> QED BY <2>1, <2>2, <1>1, <1>2 DEF Uncontested
<1>10. RotationLeavesOneHeir'
  <2>1. ASSUME NEW k \in Keys
        PROVE  /\ key'[k] = "rotated" => successor'[k] \in heirs'[k]
               /\ key'[k] # "rotated" => heirs'[k] = {} /\ successor'[k] = Null
               /\ k \notin contested => heirs'[k] \subseteq {successor'[k]}
    <3>1. CASE k = old
      <4>1. old \notin contested => heirs[old] = {}
        BY <1>1, <1>2 DEF Uncontested, InHandler, RotationLeavesOneHeir
      <4> QED BY <4>1, <3>1, <1>1, <1>2, <1>6 DEF AccessTypeOK
    <3>2. CASE k = new
      BY <3>2, <1>1, <1>2, <1>5, <1>6 DEF RotationLeavesOneHeir, AccessTypeOK
    <3>3. CASE k \notin {old, new}
      BY <3>3, <1>1, <1>2, <1>6 DEF RotationLeavesOneHeir, AccessTypeOK
    <3> QED BY <3>1, <3>2, <3>3
  <2> QED BY <2>1, <1>2 DEF RotationLeavesOneHeir
<1>11. StillLive'
  <2>1. \A r \in Revocations :
          request'[r] = "commit" => r # q /\ request[r] = "commit"
    BY <1>1, <1>2, <1>4, TargetKinds
  <2>2. \A r \in Revocations : request'[r] = "commit" => AboutOf[r] # old
    BY <2>1, <1>1, CommitsKeepLocks, TargetKinds DEF KeyRequests
  <2>3. \A r \in Revocations : request'[r] = "commit" => AboutOf[r] # new
    BY <2>1, <1>5 DEF IInv, StillLive
  <2> QED BY <2>1, <2>2, <2>3, <1>6, TargetKinds DEF IInv, StillLive, KeyRequests
<1> QED BY <1>3, <1>4, <1>7, <1>8, <1>9, <1>10, <1>11 DEF IInv

LEMMA RevocationKeeps ==
    ASSUME IInv, NEW q \in Revocations, CommitRevocation(q)
    PROVE  IInv'
<1>1. /\ AccessTypeOK /\ FreshKeys /\ Uncontested /\ RotationLeavesOneHeir
      /\ q \in Requests /\ q \in KeyRequests /\ AboutOf[q] \in Keys
      /\ Commits(q)
  BY TargetKinds DEF IInv, Commits, KeyRequests
<1>2. /\ UNCHANGED <<owner, successor, heirs, binding, dropped, contested,
                     raced>>
      /\ request' = [request EXCEPT ![q] = "done"] /\ request[q] = "commit"
      /\ rowLock' = [x \in AccessRows |-> IF rowLock[x] = q THEN Null ELSE rowLock[x]]
      /\ key' = [key EXCEPT ![AboutOf[q]] = "revoked"]
  BY <1>1, CommitsEffect DEF CommitRevocation
<1>3. AccessTypeOK'
  BY <1>1, <1>2 DEF AccessTypeOK
<1>4. LocksHeld' /\ \A r \in Requests : r # q => request'[r] = request[r]
  BY <1>1, CommitsKeepLocks
<1>5. /\ key[AboutOf[q]] # "none" /\ key'[AboutOf[q]] = "revoked"
      /\ \A k \in Keys \ {AboutOf[q]} : key'[k] = key[k]
  BY <1>1, <1>2 DEF FreshKeys, AccessTypeOK
<1>6. FreshKeys'
  BY <1>1, <1>2, <1>4, <1>5, TargetKinds DEF FreshKeys, AccessTypeOK
<1>7. FreshBindings' /\ TwinsApart' /\ NoTwinBindings' /\ OthersRemain'
  BY <1>1, <1>2, <1>4, TargetKinds
     DEF IInv, FreshBindings, TwinsApart, NoTwinBindings, Twins, OthersRemain,
         RemovesAdministrator, Remaining, Administrative
<1>8. Uncontested'
  <2>1. \A r \in KeyRequests : InHandler(r)' => r # q /\ InHandler(r)
    BY <1>1, CommitsKeepLocks
  <2>2. ASSUME NEW r \in KeyRequests, InHandler(r)', AboutOf[r] \notin contested,
               request'[r] \in {"write", "commit"}
        PROVE  key'[AboutOf[r]] = "live"
    <3>1. r # q /\ InHandler(r) /\ request[r] \in {"write", "commit"}
      BY <2>1, <2>2, <1>4, TargetKinds
    <3>2. AboutOf[r] # AboutOf[q]
      BY <3>1, <2>2, <1>1, <1>2 DEF Uncontested, InHandler
    <3> QED BY <3>1, <3>2, <2>2, <1>1, <1>5, TargetKinds DEF Uncontested
  <2> QED BY <2>1, <2>2, <1>1, <1>2 DEF Uncontested
<1>9. RotationLeavesOneHeir'
  <2>1. key[AboutOf[q]] = "live"
    BY <1>2 DEF IInv, StillLive
  <2> QED BY <2>1, <1>1, <1>2, <1>5 DEF RotationLeavesOneHeir
<1>10. StillLive'
  <2>1. \A r \in Revocations :
          request'[r] = "commit" => /\ request[r] = "commit"
                                    /\ AboutOf[r] # AboutOf[q]
    BY <1>1, <1>2, <1>4, CommitsKeepLocks, TargetKinds
       DEF KeyRequests
  <2> QED BY <2>1, <1>5, TargetKinds DEF IInv, StillLive, KeyRequests
<1> QED BY <1>3, <1>4, <1>6, <1>7, <1>8, <1>9, <1>10 DEF IInv

LEMMA IssueKeeps ==
    ASSUME IInv, NEW q \in Issues, IssueKey(q)
    PROVE  IInv'
<1>1. /\ AccessTypeOK /\ LocksHeld /\ FreshKeys /\ Uncontested
      /\ q \in Requests /\ q \notin KeyRequests /\ AboutOf[q] \in Keys
      /\ SubjectOf[AboutOf[q]] \in Principals /\ q \notin Grants \cup Removals
  BY TargetKinds, AccessAssumption DEF IInv, AccessRows
<1>2. /\ request[q] = "handle"
      /\ key' = [key EXCEPT ![AboutOf[q]] = "live"]
      /\ owner' = [owner EXCEPT ![AboutOf[q]] = SubjectOf[AboutOf[q]]]
      /\ request' = [request EXCEPT ![q] = "done"]
      /\ UNCHANGED <<successor, heirs, binding, rowLock, dropped, contested,
                     raced>>
  BY DEF IssueKey, Become
<1>3. AccessTypeOK'
  BY <1>1, <1>2 DEF AccessTypeOK
<1>4. /\ \A r \in Requests : r # q => request'[r] = request[r]
      /\ request'[q] = "done"
      /\ key[AboutOf[q]] = "none" /\ key'[AboutOf[q]] = "live"
      /\ \A k \in Keys \ {AboutOf[q]} : key'[k] = key[k] /\ owner'[k] = owner[k]
      /\ owner'[AboutOf[q]] # Null
  BY <1>1, <1>2, TargetKinds DEF AccessTypeOK, FreshKeys
<1>5. LocksHeld'
  BY <1>1, <1>2, <1>4, TargetKinds DEF LocksHeld, AccessTypeOK
<1>6. FreshKeys'
  <2>1. \A r \in Rotations : key'[NewKeyOf[r]] # "none" => request'[r] = "done"
    BY <1>1, <1>4, TargetKinds, AccessAssumption DEF FreshKeys, KeyRequests
  <2>2. \A r \in Issues : key'[AboutOf[r]] # "none" => request'[r] = "done"
    BY <1>1, <1>4, TargetKinds, AccessAssumption DEF FreshKeys
  <2>3. \A r \in KeyRequests :
          request'[r] \in {"write", "commit"} => key'[AboutOf[r]] # "none"
    BY <1>1, <1>4, TargetKinds DEF FreshKeys
  <2>4. \A k \in Keys : key'[k] = "none" <=> owner'[k] = Null
    BY <1>1, <1>4 DEF FreshKeys
  <2> QED BY <2>1, <2>2, <2>3, <2>4 DEF FreshKeys
<1>7. FreshBindings' /\ TwinsApart' /\ NoTwinBindings' /\ OthersRemain'
  BY <1>1, <1>2, <1>4, TargetKinds
     DEF IInv, FreshBindings, TwinsApart, NoTwinBindings, Twins, OthersRemain,
         RemovesAdministrator, Remaining, Administrative
<1>8. Uncontested'
  BY <1>1, <1>2, <1>4, TargetKinds DEF Uncontested, InHandler
<1>9. RotationLeavesOneHeir' /\ StillLive'
  <2>1. StillLive'
    BY <1>1, <1>4, TargetKinds DEF IInv, StillLive, KeyRequests
  <2> QED BY <2>1, <1>1, <1>2, <1>4 DEF IInv, RotationLeavesOneHeir
<1> QED BY <1>3, <1>5, <1>6, <1>7, <1>8, <1>9 DEF IInv

LEMMA BindingCommit ==
    ASSUME IInv, NEW q \in Grants \cup Removals, NEW to \in {"active", "revoked"},
           Commits(q), binding' = [binding EXCEPT ![AboutOf[q]] = to],
           UNCHANGED keyVars
    PROVE  /\ AccessTypeOK' /\ LocksHeld' /\ FreshKeys' /\ Uncontested'
           /\ RotationLeavesOneHeir' /\ StillLive'
           /\ UNCHANGED raced
           /\ \A r \in Requests : r # q => request'[r] = request[r]
           /\ request[q] = "commit" /\ request'[q] = "done"
           /\ binding'[AboutOf[q]] = to
           /\ \A b \in Bindings \ {AboutOf[q]} : binding'[b] = binding[b]
<1>1. /\ AccessTypeOK /\ FreshKeys /\ Uncontested /\ q \in Requests
      /\ q \notin KeyRequests /\ q \notin Issues /\ AboutOf[q] \in Bindings
  BY TargetKinds DEF IInv
<1>2. /\ UNCHANGED <<key, owner, successor, heirs, dropped, contested, raced>>
      /\ request' = [request EXCEPT ![q] = "done"] /\ request[q] = "commit"
      /\ rowLock' = [x \in AccessRows |-> IF rowLock[x] = q THEN Null ELSE rowLock[x]]
  BY <1>1, CommitsEffect DEF keyVars
<1>3. AccessTypeOK'
  BY <1>1, <1>2 DEF AccessTypeOK
<1>4. /\ LocksHeld' /\ \A r \in Requests : r # q => request'[r] = request[r]
      /\ request'[q] = "done"
  BY <1>1, CommitsKeepLocks
<1>5. FreshKeys' /\ Uncontested'
  BY <1>1, <1>2, <1>4, TargetKinds DEF FreshKeys, Uncontested, InHandler
<1>6. RotationLeavesOneHeir' /\ StillLive'
  BY <1>1, <1>2, <1>4, TargetKinds DEF IInv, RotationLeavesOneHeir, StillLive
<1> QED BY <1>1, <1>2, <1>3, <1>4, <1>5, <1>6 DEF AccessTypeOK

LEMMA GrantKeeps ==
    ASSUME IInv, NEW q \in Grants, CommitGrant(q)
    PROVE  IInv'
<1>1. /\ Commits(q) /\ q \in Requests /\ AboutOf[q] \in Bindings
      /\ binding' = [binding EXCEPT ![AboutOf[q]] = "active"]
      /\ UNCHANGED keyVars
  BY TargetKinds DEF Commits, CommitGrant
<1>2. /\ AccessTypeOK' /\ LocksHeld' /\ FreshKeys' /\ Uncontested'
      /\ RotationLeavesOneHeir' /\ StillLive' /\ UNCHANGED raced
      /\ \A r \in Requests : r # q => request'[r] = request[r]
      /\ request[q] = "commit" /\ request'[q] = "done"
      /\ binding'[AboutOf[q]] = "active"
      /\ \A b \in Bindings \ {AboutOf[q]} : binding'[b] = binding[b]
  BY <1>1, BindingCommit
<1>3. /\ FreshBindings /\ TwinsApart /\ NoTwinBindings /\ OthersRemain
      /\ binding[AboutOf[q]] = "none"
  BY <1>2, TargetKinds DEF IInv, FreshBindings
<1>4. FreshBindings'
  <2>1. \A r \in Grants : r # q => AboutOf[r] # AboutOf[q]
    BY AccessAssumption
  <2> QED BY <2>1, <1>2, <1>3, TargetKinds DEF FreshBindings
<1>5. \A c \in Twins(AboutOf[q]) : binding[c] # "active"
  BY <1>2, <1>3 DEF TwinsApart
<1>6. NoTwinBindings'
  BY <1>1, <1>2, <1>3, <1>5 DEF NoTwinBindings, Twins
<1>7. TwinsApart'
  <2>1. ASSUME NEW r \in Grants, request'[r] = "commit", NEW c \in Twins(AboutOf[r])
        PROVE  c # AboutOf[q]
    BY <2>1, <1>2, <1>3, TargetKinds DEF TwinsApart
  <2>2. \A r \in Grants : request'[r] = "commit" => request[r] = "commit"
    BY <1>2, TargetKinds
  <2> QED BY <2>1, <2>2, <1>2, <1>3 DEF TwinsApart, Twins
<1>8. OthersRemain'
  <2>1. \A b \in Bindings : binding[b] = "active" => binding'[b] = "active"
    BY <1>2
  <2>2. \A r \in Removals : RemovesAdministrator(r)' <=> RemovesAdministrator(r)
    BY <1>2, TargetKinds DEF RemovesAdministrator, Administrative
  <2>3. \A b \in Bindings : Remaining(b) \subseteq Remaining(b)'
    BY <2>1 DEF Remaining, Administrative
  <2> SUFFICES ASSUME raced' = {} PROVE OthersRemain'
    BY DEF OthersRemain
  <2>4. /\ \E b \in Bindings : binding[b] = "active" /\ Administrative(b)
        /\ \A r \in Removals : RemovesAdministrator(r) =>
             /\ Remaining(AboutOf[r]) # {}
             /\ \A t \in Removals : RemovesAdministrator(t) => t = r
    BY <1>2, <1>3 DEF OthersRemain
  <2>5. \E b \in Bindings : binding'[b] = "active" /\ Administrative(b)'
    BY <2>1, <2>4 DEF Administrative
  <2>6. \A r \in Removals : RemovesAdministrator(r)' => Remaining(AboutOf[r])' # {}
    BY <2>2, <2>3, <2>4, TargetKinds
  <2> QED BY <2>2, <2>4, <2>5, <2>6 DEF OthersRemain
<1> QED BY <1>2, <1>4, <1>6, <1>7, <1>8 DEF IInv

LEMMA RemovalKeeps ==
    ASSUME IInv, NEW q \in Removals, CommitRemoval(q)
    PROVE  IInv'
<1>1. /\ Commits(q) /\ q \in Requests /\ AboutOf[q] \in Bindings
      /\ binding' = [binding EXCEPT ![AboutOf[q]] = "revoked"]
      /\ UNCHANGED keyVars
  BY TargetKinds DEF Commits, CommitRemoval
<1>2. /\ AccessTypeOK' /\ LocksHeld' /\ FreshKeys' /\ Uncontested'
      /\ RotationLeavesOneHeir' /\ StillLive' /\ UNCHANGED raced
      /\ \A r \in Requests : r # q => request'[r] = request[r]
      /\ request[q] = "commit" /\ request'[q] = "done"
      /\ binding'[AboutOf[q]] = "revoked"
      /\ \A b \in Bindings \ {AboutOf[q]} : binding'[b] = binding[b]
  BY <1>1, BindingCommit
<1>3. /\ FreshBindings /\ TwinsApart /\ NoTwinBindings /\ OthersRemain
      /\ binding[AboutOf[q]] = "active"
  BY <1>2 DEF IInv, FreshBindings
<1>4. \A r \in Requests \ {q} : request[r] = "commit" => AboutOf[r] # AboutOf[q]
  BY <1>1, CommitsKeepLocks
<1>5. FreshBindings'
  BY <1>2, <1>3, <1>4, TargetKinds DEF FreshBindings
<1>6. NoTwinBindings' /\ TwinsApart'
  BY <1>1, <1>2, <1>3, TargetKinds DEF NoTwinBindings, TwinsApart, Twins
<1>7. OthersRemain'
  <2> SUFFICES ASSUME raced' = {} PROVE OthersRemain'
    BY DEF OthersRemain
  <2>1. /\ \E b \in Bindings : binding[b] = "active" /\ Administrative(b)
        /\ \A r \in Removals : RemovesAdministrator(r) =>
             /\ Remaining(AboutOf[r]) # {}
             /\ \A t \in Removals : RemovesAdministrator(t) => t = r
    BY <1>2, <1>3 DEF OthersRemain
  <2>2. \A r \in Removals : RemovesAdministrator(r)' =>
          r # q /\ RemovesAdministrator(r)
    BY <1>2, TargetKinds DEF RemovesAdministrator, Administrative
  <2>3. CASE Administrative(AboutOf[q])
    <3>1. RemovesAdministrator(q)
      BY <2>3, <1>2 DEF RemovesAdministrator
    <3>2. \A r \in Removals : ~RemovesAdministrator(r)'
      BY <3>1, <2>1, <2>2
    <3>3. Remaining(AboutOf[q]) # {}
      BY <3>1, <2>1
    <3>4. \E b \in Bindings : binding'[b] = "active" /\ Administrative(b)'
      BY <3>3, <1>2 DEF Remaining, Administrative
    <3> QED BY <3>2, <3>4 DEF OthersRemain
  <2>4. CASE ~Administrative(AboutOf[q])
    <3>1. \A b \in Bindings : Administrative(b) /\ binding[b] = "active" =>
                              binding'[b] = "active"
      BY <2>4, <1>2
    <3>2. \E b \in Bindings : binding'[b] = "active" /\ Administrative(b)'
      BY <3>1, <2>1 DEF Administrative
    <3>3. \A b \in Bindings : Remaining(b) \subseteq Remaining(b)'
      BY <3>1 DEF Remaining, Administrative
    <3>4. \A r \in Removals : RemovesAdministrator(r)' =>
                              Remaining(AboutOf[r])' # {}
      BY <3>3, <2>1, <2>2, TargetKinds
    <3> QED BY <3>2, <3>4, <2>1, <2>2 DEF OthersRemain
  <2> QED BY <2>3, <2>4
<1> QED BY <1>2, <1>5, <1>6, <1>7 DEF IInv

-----------------------------------------------------------------------------
LEMMA CommitsKeep ==
    ASSUME IInv, NEW q \in Requests, Commits(q)
    PROVE  IInv'
BY RotationKeeps, RevocationKeeps, GrantKeeps, RemovalKeeps DEF Commits

LEMMA NextInvariant == IInv /\ [AccessNext]_accessVars => IInv'
<1> SUFFICES ASSUME IInv, [AccessNext]_accessVars PROVE IInv'
  OBVIOUS
<1>1. CASE AccessNext
  <2>1. PICK q \in Requests :
          Authenticate(q) \/ RequestStep(q) \/ LoseRequest(q)
    BY <1>1 DEF AccessNext
  <2>2. Reads(q) \/ Locks(q) \/ Commits(q) \/ (q \in Issues /\ IssueKey(q))
    BY <2>1, StepKinds
  <2> QED BY <2>2, ReadsKeep, LocksKeep, CommitsKeep, IssueKeeps
<1>2. CASE UNCHANGED accessVars
  BY <1>2 DEF accessVars, keyVars, IInv, AccessTypeOK, LocksHeld, FreshKeys,
     FreshBindings,
              StillLive, Uncontested, InHandler, RotationLeavesOneHeir,
              TwinsApart, Twins,
              NoTwinBindings, OthersRemain, RemovesAdministrator, Remaining,
              Administrative
<1> QED BY <1>1, <1>2

(* Whatever the requests and however they interleave, the parts above hold.*)
THEOREM AccessInvariant == AccessSpec => []IInv
<1> QED BY InitInvariant, NextInvariant, PTL DEF AccessSpec

(* Rows, keys and requests have their types (12-identity-and-access).      *)
THEOREM AccessTypeCorrect == AccessSpec => []AccessTypeOK
<1>1. IInv => AccessTypeOK
  BY DEF IInv
<1> QED BY <1>1, AccessInvariant, PTL

(* refuse_last_administrative_binding keeps a principal who may grant      *)
(* roles, unless removals overlapped or it counted a project's binding.    *)
THEOREM AdministratorKept == AccessSpec => []AdministratorLostOnlyToRace
<1>1. IInv => AdministratorLostOnlyToRace
  <2> SUFFICES ASSUME IInv, raced = {} PROVE AdministratorLostOnlyToRace
    BY DEF AdministratorLostOnlyToRace
  <2>1. PICK b \in Bindings : binding[b] = "active" /\ Administrative(b)
    BY DEF IInv, OthersRemain
  <2>2. SubjectOf[b] \in Principals
    BY AccessAssumption DEF AccessRows
  <2> QED BY <2>1, <2>2 DEF AdministratorLostOnlyToRace, Authorizes
<1> QED BY <1>1, AccessInvariant, PTL

(* Under any race of rotate_api_key and revoke_api_key a key that is not   *)
(* rotated has no heir and a rotated one's row names one of its heirs, the *)
(* only one unless two requests were about the key at once.                *)
THEOREM RotationSingle == AccessSpec => []RotationLeavesOneHeir
<1>1. IInv => RotationLeavesOneHeir
  BY DEF IInv
<1> QED BY <1>1, AccessInvariant, PTL

(* create_role_binding gives no principal the same role twice in one place.*)
THEOREM BindingsUnique == AccessSpec => []NoTwinBindings
<1>1. IInv => NoTwinBindings
  BY DEF IInv
<1> QED BY <1>1, AccessInvariant, PTL

(* Nothing brings a revoked or rotated key back, or hands a key over.      *)
THEOREM DeadKeysStayDead == AccessSpec => KeysOnlyDie
<1> DEFINE Dies == \A k \in Keys :
                     /\ key[k] \in {"revoked", "rotated"} => key'[k] # "live"
                     /\ owner[k] # Null => owner'[k] = owner[k]
<1>1. ASSUME IInv, AccessNext PROVE Dies
  <2>1. PICK q \in Requests :
          Authenticate(q) \/ RequestStep(q) \/ LoseRequest(q)
    BY <1>1 DEF AccessNext
  <2>2. AccessTypeOK /\ FreshKeys
    BY <1>1 DEF IInv
  <2>3. CASE UNCHANGED keyVars
    BY <2>3 DEF keyVars
  <2>4. CASE q \in Rotations /\ CommitRotation(q)
    <3>1. key[NewKeyOf[q]] = "none" /\ AboutOf[q] \in Keys
      BY <2>2, <2>4, TargetKinds DEF FreshKeys, CommitRotation, KeyRequests
    <3> QED BY <3>1, <2>2, <2>4, TargetKinds
            DEF FreshKeys, AccessTypeOK, CommitRotation
  <2>5. CASE q \in Revocations /\ CommitRevocation(q)
    BY <2>2, <2>5, TargetKinds DEF AccessTypeOK, CommitRevocation
  <2>6. CASE q \in Issues /\ IssueKey(q)
    BY <2>2, <2>6, TargetKinds DEF FreshKeys, AccessTypeOK, IssueKey
  <2>7. \/ UNCHANGED keyVars
        \/ q \in Rotations /\ CommitRotation(q)
        \/ q \in Revocations /\ CommitRevocation(q)
        \/ q \in Issues /\ IssueKey(q)
    BY <2>1, <2>2, StepKinds, ReadsEffect, LocksEffect DEF Commits, CommitGrant,
                                                           CommitRemoval
  <2> QED BY <2>3, <2>4, <2>5, <2>6, <2>7
<1>2. IInv /\ [AccessNext]_accessVars => [Dies]_accessVars
  BY <1>1
<1> QED BY <1>1, <1>2, AccessInvariant, PTL DEF AccessSpec, KeysOnlyDie
=============================================================================
