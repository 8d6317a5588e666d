--------------------------- MODULE MCRunExecution ---------------------------
(* Model-checking instances of RunExecution: two candidates, one of them   *)
(* dearer than the other.                                                  *)
EXTENDS RunExecution, TLC

CONSTANTS c1, c2

TwoPrices == c1 :> 2 @@ c2 :> 1
=============================================================================
