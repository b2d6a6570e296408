---------------------------- MODULE MCPublished ----------------------------
(* What the coordinator publishes, in two parts that share no state: a      *)
(* behaviour is of the one its side names.                                  *)
(*   proofs  cycles of one and of five models: a root that is a leaf, an    *)
(*           odd level of leaves and one above it                           *)
(*   replay  two days of records, one with a gap, pulled and replayed       *)
EXTENDS MerkleTree, Backtest

CONSTANTS a, b, raises

AB == {a, b}
SummariesAlike == Permutations(AB)

SomeRecords == {0, 1, 2, 4, 5, 7}
SomePrices  == [t \in 0..7 |-> (t * t) % 7]
SomeOutputs == {-1, raises}
OneAndFive  == {{1}, 1..5}

-----------------------------------------------------------------------------
VARIABLE side

PublishedInit ==
  /\ side \in {"proofs", "replay"}
  /\ Init
  /\ BacktestInit

PublishedNext ==
  \/ side = "proofs" /\ Next /\ UNCHANGED <<side, backtestVars>>
  \/ side = "replay" /\ BacktestNext /\ UNCHANGED <<side, vars>>

PublishedSpec == PublishedInit /\ [][PublishedNext]_<<side, vars, backtestVars>>
=============================================================================
