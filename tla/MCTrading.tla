----------------------------- MODULE MCTrading -----------------------------
(* A model with positions on two assets, one of which may have a price of   *)
(* zero, beside one that trades the other asset; caps that a signal can     *)
(* exceed on one asset and on both.  The order mode is left out: it differs *)
(* from the delta mode in accepting a size of 0, which does nothing.        *)
EXTENDS Trading

CONSTANTS m1, m2, a1, a2

TwoModels == {m1, m2}
TwoAssets == {a1, a2}
SecondAsset == {a2}
FirstDue  == <<[model |-> m1, asset |-> a1], [model |-> m2, asset |-> a1]>>
SecondDue == <<[model |-> m1, asset |-> a2]>>
TwoBatches == {FirstDue, SecondDue}
TwoModes  == {"delta", "target"}
SomeSignals == {-3, 0, 1}
=============================================================================
