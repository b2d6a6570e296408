---------------------------- MODULE MCScoreCycle ----------------------------
(* Instances of ScoreCycle for TLC: four or two predictions of two models. *)
EXTENDS ScoreCycle, TLC

CONSTANTS m1, m2

TwoModels   == {m1, m2}
FourPreds   == 1..4
TwoPreds    == 1..2
Authors     == (1 :> m1) @@ (2 :> m2) @@ (3 :> m1) @@ (4 :> m2)
TwoAuthors  == (1 :> m1) @@ (2 :> m2)
=============================================================================
