---------------------------- MODULE MCEnrollment ----------------------------
(* Instances of Enrollment for TLC.                                        *)
EXTENDS Enrollment, TLC

CONSTANTS m1, m2, p1, p2, p3, p4, r1, e1, e2

Order == [p \in Player |-> CASE p = p1 -> 1 [] p = p2 -> 2 [] p = p3 -> 3 [] OTHER -> 4]

OneMatch == m1 :> {p1, p2, p3}
Chain == m1 :> {p1, p2} @@ m2 :> {p2, p3, p4}
=============================================================================
