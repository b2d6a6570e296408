---------------------------- MODULE MCCheckpoints ----------------------------
(* Checkpoints in two parts that share no state: a behaviour is of the one  *)
(* its side names.                                                         *)
(*   row   one checkpoint's row under three threads of the report-worker    *)
(*         and two hashes                                                  *)
(*   race  the score-worker and a checkpoint-worker that both create them,  *)
(*         one model                                                       *)
EXTENDS CheckpointLifecycle, CheckpointRace, TLC

CONSTANTS c1, t1, t2, h1, h2, h3, scoreWorker, checkpointWorker, m1

OneCheckpoint  == {c1}
TwoTxs         == {t1, t2}
ThreeHandlers  == {h1, h2, h3}
BothWorkers    == {scoreWorker, checkpointWorker}
OneModel       == {m1}

Symmetry == Permutations(ThreeHandlers) \cup Permutations(TwoTxs)

VARIABLE side

CheckpointsInit == side \in {"row", "race"} /\ Init /\ RaceInit

CheckpointsNext ==
  \/ side = "row" /\ Next /\ UNCHANGED <<side, raceVars>>
  \/ side = "race" /\ RaceNext /\ UNCHANGED <<side, vars>>

CheckpointsSpec == CheckpointsInit /\ [][CheckpointsNext]_<<side, vars, raceVars>>
=============================================================================
