--------------------------- MODULE MCRunAdmission ---------------------------
(* Instances of RunAdmission: two requests with one key, the second after  *)
(* midnight of a quota period, one other request, and two sweeps of the    *)
(* same minute.                                                            *)
EXTENDS RunAdmission, TLC

CONSTANTS q1, q2, q3, s1, s2, y1, y2, m1

SharedKey == q1 :> y1 @@ q2 :> y1 @@ q3 :> y2
OneMinute == s1 :> 7 @@ s2 :> 7
Midnight == q1 :> 1 @@ q2 :> 2 @@ q3 :> 1 @@ s1 :> 1 @@ s2 :> 1
SameBody == [q \in Posts |-> {m1}]
=============================================================================
