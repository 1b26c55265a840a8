-------------------------- MODULE MCMatchIngestion --------------------------
(* Instances of MatchIngestion for TLC.                                    *)
EXTENDS MatchIngestion, TLC

CONSTANTS s1, s2, p, q, x, w1, w2

TwoPlayers == s1 :> p @@ s2 :> q
OtherRows == {s1 :> p @@ s2 :> x}

WorkerSymmetry == Permutations(Worker)
=============================================================================
