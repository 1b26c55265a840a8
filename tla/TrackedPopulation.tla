------------------------- MODULE TrackedPopulation -------------------------
(***************************************************************************)
(* What enrolment promises of the tracked population: players are enrolled *)
(* one by one, each from one source that never changes, never beyond the   *)
(* ceiling of the whole population or that of their source.                *)
(***************************************************************************)
EXTENDS Integers, FiniteSets

CONSTANTS Player, Source, Ceiling, TotalCeiling, None

VARIABLE origin      \* the source each player was enrolled from, or None

Enrolled == {p \in Player : origin[p] # None}
EnrolledFrom(s) == {p \in Player : origin[p] = s}

\* The population an instance starts with is within its ceilings.
Init ==
  /\ origin \in [Player -> Source \cup {None}]
  /\ Cardinality(Enrolled) <= TotalCeiling
  /\ \A s \in Source : Cardinality(EnrolledFrom(s)) <= Ceiling[s]

Enroll(p, s) ==
  /\ origin[p] = None
  /\ Cardinality(Enrolled) < TotalCeiling
  /\ Cardinality(EnrolledFrom(s)) < Ceiling[s]
  /\ origin' = [origin EXCEPT ![p] = s]

Next == \E p \in Player, s \in Source : Enroll(p, s)

Spec == Init /\ [][Next]_origin
=============================================================================
