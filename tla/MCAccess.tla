------------------------------ MODULE MCAccess ------------------------------
(* Instances of Access: two administrators, whose bindings may be removed  *)
(* and one of whom may also be bound on a project; three requests about one*)
(* key, and two that grant the same role to the same principal.            *)
EXTENDS Access

CONSTANTS p1, p2, k1, k2, k3, k4, k5, b1, b2, b3, b4, b5, i1, t1, t2, w1,
          h1, h2, h3, u1, u2, o1

MCCredential ==
    [q \in Requests |-> IF q \in {t1, u2, h2} THEN k2 ELSE k1]
MCAbout ==
    [q \in Requests |->
       CASE q = i1 -> k3 [] q \in {t1, t2, w1} -> k1
         [] q = h1 -> b4 [] q = h2 -> b5 [] q = h3 -> b3 [] q = u1 -> b1
         [] q = u2 -> b2]
MCNewKey == [q \in Rotations |-> IF q = t1 THEN k4 ELSE k5]
MCSubject == [x \in AccessRows |-> IF x \in {k1, k3, b1, b3} THEN p1 ELSE p2]
MCRole == [b \in Bindings |-> IF b \in {b4, b5} THEN "analyst" ELSE "owner"]
MCProject == [b \in Bindings |-> IF b = b3 THEN o1 ELSE Null]
MCAdminRoles == {"owner"}
=============================================================================
