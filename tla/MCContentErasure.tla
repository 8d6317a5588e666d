-------------------------- MODULE MCContentErasure --------------------------
(* Instance of ContentErasure: two runs whose datasets share a content, one*)
(* scheduled; two erasures that overlap on it, one overriding pins, and a  *)
(* third of a single content.                                              *)
EXTENDS ContentErasure

CONSTANTS c1, c2, r1, r2, e1, e2, e3

MCContentOf == [r \in DatasetRuns |-> IF r = r1 THEN {c1, c2} ELSE {c2}]
MCScopeOf == [r \in DatasetRuns |-> "suite"]
MCDigestsOf == [e \in Erasures |-> IF e = e3 THEN {c1} ELSE {c1, c2}]
=============================================================================
