----------------------------- MODULE MCCadence -----------------------------
(* A cadence that names a day of the month and leaves the weekday open.    *)
EXTENDS Cadence

One(n) == {[body |-> <<n, n>>, step |-> {}]}

(* 06:00 on the first of the month, and nothing else.                      *)
MCFirstOfMonth ==
    [minute : {One(0)}, hour : {One(6)}, day : {One(1)}, month : {{Star}},
     weekday : {{Star}}]
=============================================================================
