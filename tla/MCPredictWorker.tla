-------------------------- MODULE MCPredictWorker --------------------------
(* Two models and two configurations, one due at every tick, the other at  *)
(* every third.                                                            *)
EXTENDS PredictWorker, TLC

CONSTANTS m1, m2

TwoModels  == {m1, m2}
TwoConfigs == {1, 2}
Intervals  == <<1, 3>>

Symmetry == Permutations(TwoModels)
=============================================================================
