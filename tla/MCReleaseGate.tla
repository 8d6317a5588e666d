--------------------------- MODULE MCReleaseGate ---------------------------
(* Instances of ReleaseGate: runs of one scope, approvals of two of them,  *)
(* one asked for twice, and gates that name a baseline or do not.          *)
EXTENDS ReleaseGate

CONSTANTS n1, n2, f1, a1, a2, a3, g1, g2, v1

OneScope == [r \in Runs |-> f1]
Targets == [a \in Approvals |-> IF a = a1 THEN n1 ELSE n2]
Candidates == [g \in Gates |-> n2]
Named == [g \in Gates |-> IF g = g1 THEN Nobody ELSE n1]
Policies == [g \in Gates |-> v1]
=============================================================================
