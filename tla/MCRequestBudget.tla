-------------------------- MODULE MCRequestBudget --------------------------
(* Instances of RequestBudget for TLC.                                     *)
EXTENDS RequestBudget, TLC

CONSTANTS p1, p2, a, b

Alone == a :> p1
Apart == a :> p1 @@ b :> p2

\* The two callers, each with its process, are alike.
Swap == {a :> a @@ b :> b @@ p1 :> p1 @@ p2 :> p2,
         a :> b @@ b :> a @@ p1 :> p2 @@ p2 :> p1}
=============================================================================
