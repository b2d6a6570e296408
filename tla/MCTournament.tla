---------------------------- MODULE MCTournament ----------------------------
(* Two rounds, the first found with the second: "_" in a name matches any   *)
(* character.  One model always answers, the other answers, fails or not.   *)
EXTENDS Tournament

CONSTANTS steady, flaky, r1, r2

TwoModels  == {steady, flaky}
TwoRounds  == {r1, r2}
Wildcard   == [r \in TwoRounds |-> IF r = r1 THEN {r1, r2} ELSE {r2}]
Reactions  == [m \in TwoModels |->
  IF m = steady THEN {"PENDING"} ELSE {"PENDING", "FAILED", "missing"}]

Limit(r, s, c, f) ==
  [requests |-> r, scorings |-> s, cycles |-> c, faults |-> f]

(* One round with both processes, and a fault or a second scoring; two with *)
(* two scorings, or a scoring and a fault.                                  *)
Cases ==
  {Limit(1, 1, 1, 1), Limit(1, 2, 1, 0), Limit(1, 2, 0, 1),
   Limit(2, 2, 0, 0), Limit(2, 1, 0, 1)}
=============================================================================
