---------------------------- MODULE MCCollector -----------------------------
(* Instances of CollectorScheduler, with PopulationCollector, for TLC.     *)
EXTENDS CollectorScheduler, TLC

CONSTANTS p1, p2

\* The first run may take two players, the second one.
Batches == 1 :> 2 @@ 2 :> 1

\* The players are alike; the tokens, handed out in order, are not.
PlayerSymmetry == Permutations(Player)
=============================================================================
