----------------------- MODULE MCChampionAggregation -----------------------
(* Instances of ChampionAggregation for TLC.                               *)
EXTENDS ChampionAggregation, TLC

CONSTANTS m1, m2, p1, p2, w1, w2

OneMatch == p1 :> m1 @@ p2 :> m1
OneRow == p1 :> m1
TwoMatches == p1 :> m1 @@ p2 :> m2

WriterSymmetry == Permutations(Writer)
=============================================================================
