--------------------------- MODULE ScopeBaseline ---------------------------
(***************************************************************************)
(* What a caller who asks for "the approved baseline" of a scope (a        *)
(* project and a suite version) may rely on, whatever is being approved at *)
(* that moment: once a scope has a baseline it always has one; a baseline  *)
(* is replaced by another in one step, and a replaced one never returns.   *)
(*                                                                         *)
(* ReleaseGate implements this specification (its property Implements-     *)
(* Scopes, proved in ReleaseGateProofs).                                   *)
(***************************************************************************)
CONSTANTS Runs,          \* runs that may become baselines
          Scopes,        \* pairs of a project and a suite version
          ScopeOf        \* the scope of a run

VARIABLES current,       \* the approved baselines of each scope
          retired        \* baselines that were replaced

ScopesInit ==
    /\ current = [s \in Scopes |-> {}]
    /\ retired = {}

Replace(r) ==
    /\ r \notin retired \cup current[ScopeOf[r]]
    /\ current' = [current EXCEPT ![ScopeOf[r]] = {r}]
    /\ retired' = retired \cup current[ScopeOf[r]]

ScopesNext == \E r \in Runs : Replace(r)

ScopesSpec == ScopesInit /\ [][ScopesNext]_<<current, retired>>
=============================================================================
