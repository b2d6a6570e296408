----------------------------- MODULE Ensembles -----------------------------
(***************************************************************************)
(* The ensembles of a score cycle: virtual models whose predictions are     *)
(* weighted averages of the members' scored predictions, saved, scored and  *)
(* summarised after the members' own snapshots and before the Merkle        *)
(* commit, the leaderboard and the checkpoint of the same cycle.            *)
(*                                                                         *)
(* Every cycle computes every ensemble anew over all scored predictions.    *)
(* Each save is a commit of its own; an exception anywhere ends the cycle.  *)
(***************************************************************************)
EXTENDS Averages, FiniteSetsExt, SequencesExt

CONSTANTS
  Members,      \* the competitors' models
  Values,       \* values of a prediction's output
  NoValue,      \* an output without one
  ScoreOf,      \* [output -> score]: the crunch's scoring function
  Configs,      \* the ensembles, in order: [name, strategy, filter]
  Registries,   \* sets of ensembles that have a row among the models
  EnsembleCycles,  \* bound: cycles that score something
  MaxFaults     \* bound: crashes and failed saves

ASSUME EnsemblesAssumption ==
  /\ IsFiniteSet(Members)
  /\ Values \subseteq Int
  /\ EnsembleCycles \in Nat
  /\ MaxFaults \in Nat

VARIABLES
  cycle,        \* the cycle, and the input its predictions are about
  step,         \* the step of the cycle
  config,       \* position of the ensemble being computed
  predictions,  \* scored rows of competitors: [model, input, value]
  metric,       \* [model -> value of its last snapshot], a partial function
  batch,        \* ens_preds: [input -> [value, members]]
  left,         \* inputs of the batch still to be saved or scored
  virtual,      \* [<<ensemble, input>> -> row [value, members, performed_at]]
  scores,       \* [<<ensemble, input>> -> the value that was scored]
  ensembleSnapshots,  \* rows of ensembles: [ensemble, at, count]
  registered,   \* ensembles with a row among the models
  cut,          \* virtual rows a fault may have kept from their score
  faults

tables == <<predictions, metric, virtual, scores, ensembleSnapshots, registered>>
inHand == <<config, batch, left>>
ensembleVars == <<cycle, step, inHand, tables, cut, faults>>

-----------------------------------------------------------------------------
(* Which models take part, with which weights *)

RowsOf(m)   == {p \in predictions : p.model = m}
Predicting  == {p.model : p \in predictions}
MetricOf(m) == IF m \in DOMAIN metric THEN metric[m] ELSE 0

(* apply_model_filter: top_n takes the greatest metrics, whatever the       *)
(* crunch's ranking direction; equal ones come as the database returns      *)
(* them.                                                                    *)
TopN(n) ==
  {S \in kSubset(Min({n, Cardinality(Predicting)}), Predicting) :
     \A m \in S, o \in Predicting \ S : MetricOf(o) <= MetricOf(m)}

Kept(filter) ==
  CASE filter.kind = "all" -> {Predicting}
    [] filter.kind = "top" -> TopN(filter.n)
    [] filter.kind = "min" -> {{m \in Predicting : MetricOf(m) >= filter.threshold}}

(* inverse_variance, over the values the model gave; 1 for a model with     *)
(* fewer than two or with equal ones.  The code then divides every weight   *)
(* by their total, which changes no average.                                *)
InverseVariance(m) ==
  LET given    == {p \in RowsOf(m) : p.value # NoValue}
      n        == Whole(Cardinality(given))
      mean     == Over(SumOver(given, [p \in given |-> Whole(p.value)]), n)
      variance == Over(SumOver(given, [p \in given |-> Square(Minus(Whole(p.value), mean))]), n)
  IN  IF Cardinality(given) < 2 \/ variance[1] = 0 THEN Whole(1) ELSE Over(Whole(1), variance)

Weight(strategy, m) ==
  IF strategy = "equal_weight" THEN Whole(1) ELSE InverseVariance(m)

-----------------------------------------------------------------------------
(* build_ensemble_predictions *)

Given(i, S) == {p \in predictions : p.input = i /\ p.model \in S /\ p.value # NoValue}

Weighed(G, strategy) ==
  SumOver(G, [p \in G |-> Times(Weight(strategy, p.model), Whole(p.value))])
Weights(G, strategy) == SumOver(G, [p \in G |-> Weight(strategy, p.model)])

(* Variant with an error: the weights of absent members count. *)
AverageOverAll(i, S, strategy) ==
  Over(Weighed(Given(i, S), strategy), SumOver(S, [m \in S |-> Weight(strategy, m)]))

(* The members that gave a value for the input, by their weights. *)
Average(i, S, strategy) ==
  Over(Weighed(Given(i, S), strategy), Weights(Given(i, S), strategy))

Batch(S, strategy) ==
  [i \in {i \in 1..cycle : Given(i, S) # {}} |->
     [value |-> Average(i, S, strategy), members |-> S]]

-----------------------------------------------------------------------------
EnsemblesInit ==
  /\ cycle = 0
  /\ step = "idle"
  /\ config = 0
  /\ predictions = {}
  /\ metric = <<>>
  /\ batch = <<>>
  /\ left = {}
  /\ virtual = <<>>
  /\ scores = <<>>
  /\ ensembleSnapshots = {}
  /\ registered \in Registries
  /\ cut = {}
  /\ faults = 0

Name == Configs[config].name

(* A table with a row put in, in place of the one of that key if it has it. *)
With(rows, key, row) ==
  [k \in DOMAIN rows \cup {key} |-> IF k = key THEN row ELSE rows[k]]

(* produce_snapshots: some models' predictions about the cycle's input are  *)
(* scored and their snapshots saved.                                        *)
ScoreMembers ==
  /\ step = "idle"
  /\ cycle < EnsembleCycles
  /\ cycle' = cycle + 1
  /\ \E S \in (SUBSET Members) \ {{}} : \E output \in [S -> Values \cup {NoValue}] :
       /\ predictions' = predictions \cup
            {[model |-> m, input |-> cycle + 1, value |-> output[m]] : m \in S}
       /\ metric' = [m \in S |-> ScoreOf[output[m]]] @@ metric
  /\ step' = "ensembles"
  /\ config' = 1
  /\ UNCHANGED <<batch, left, virtual, scores, ensembleSnapshots, registered, cut, faults>>

(* The next ensemble: its members, their weights and its predictions. *)
Compute ==
  /\ step = "ensembles"
  /\ config \in DOMAIN Configs
  /\ \E S \in Kept(Configs[config].filter) :
       LET b == Batch(S, Configs[config].strategy)
       IN  IF DOMAIN b = {}
           THEN /\ config' = config + 1
                /\ UNCHANGED <<step, batch, left>>
           ELSE /\ step' = "predictions"
                /\ batch' = b
                /\ left' = DOMAIN b
                /\ UNCHANGED config
  /\ UNCHANGED <<cycle, tables, cut, faults>>

(* The rest of the inputs, in their order, or the loop after this one. *)
LeftAfter(i, next) ==
  /\ i = Min(left)
  /\ left' = IF left = {i} THEN DOMAIN batch ELSE left \ {i}
  /\ step' = IF left = {i} THEN next ELSE step

(* An input has one virtual prediction per ensemble: a later cycle gives it *)
(* another value and other weights, and keeps its performed_at.             *)
SavePrediction(i) ==
  /\ step = "predictions"
  /\ i \in left
  /\ Name \in registered
  /\ LET id    == <<Name, i>>
         since == IF id \in DOMAIN virtual THEN virtual[id].performed_at ELSE cycle
     IN  virtual' = With(virtual, id, [value |-> batch[i].value, members |-> batch[i].members,
                                       performed_at |-> since])
  /\ LeftAfter(i, "scores")
  /\ UNCHANGED <<cycle, config, batch, predictions, metric, scores,
                 ensembleSnapshots, registered, cut, faults>>

(* The prediction is resolvable when it is performed: the truth is its      *)
(* input, which its members' rows refer to.                                 *)
SaveScore(i) ==
  /\ step = "scores"
  /\ i \in left
  /\ scores' = With(scores, <<Name, i>>, batch[i].value)
  /\ LeftAfter(i, "snapshot")
  /\ cut' = cut \ {<<Name, i>>}
  /\ UNCHANGED <<cycle, config, batch, predictions, metric, virtual,
                 ensembleSnapshots, registered, faults>>

SaveSnapshot ==
  /\ step = "snapshot"
  /\ ensembleSnapshots' = ensembleSnapshots \cup
       {[ensemble |-> Name, at |-> cycle, count |-> Cardinality(DOMAIN batch)]}
  /\ config' = config + 1
  /\ step' = "ensembles"
  /\ batch' = <<>>
  /\ left' = {}
  /\ UNCHANGED <<cycle, predictions, metric, virtual, scores, registered, cut, faults>>

(* The Merkle commit, the leaderboard and the checkpoint. *)
EndCycle ==
  /\ step = "ensembles"
  /\ config > Len(Configs)
  /\ step' = "idle"
  /\ config' = 0
  /\ UNCHANGED <<cycle, batch, left, predictions, metric, virtual, scores,
                 ensembleSnapshots, registered, cut, faults>>

Abort ==
  /\ step' = "idle"
  /\ config' = 0
  /\ batch' = <<>>
  /\ left' = {}
  /\ UNCHANGED <<cycle, tables>>

(* A row that refers to no model is refused: what is left of the cycle is   *)
(* given up, the leaderboard and the checkpoint with it.                    *)
Refused ==
  /\ step = "predictions"
  /\ Name \notin registered
  /\ Abort
  /\ UNCHANGED <<cut, faults>>

Fails ==
  /\ step \in {"ensembles", "predictions", "scores", "snapshot"}
  /\ faults < MaxFaults
  /\ faults' = faults + 1
  /\ cut' = IF step = "ensembles" THEN cut ELSE cut \cup {<<Name, i>> : i \in DOMAIN batch}
  /\ Abort

EnsemblesNext ==
  \/ ScoreMembers \/ Compute
  \/ \E i \in left : SavePrediction(i) \/ SaveScore(i)
  \/ SaveSnapshot \/ EndCycle \/ Refused \/ Fails

EnsemblesSpec == EnsemblesInit /\ [][EnsemblesNext]_ensembleVars
-----------------------------------------------------------------------------
(* Properties *)

(* Neither in a batch being saved nor left where a fault cut one short. *)
Settled(id) ==
  /\ id \notin cut
  /\ step \in {"predictions", "scores"} => Name # id[1]

Inputs(e) == {id[2] : id \in {id \in DOMAIN virtual : id[1] = e}}

(* README.md:370: an ensemble's prediction is a number and lies between     *)
(* those its members made on the same input, however many of them were      *)
(* absent: their weights do not sum to 0.  Its score is of the value it     *)
(* has, though a later cycle gave it another, unless a fault has cut its    *)
(* saving short; and a snapshot counts no input that the ensemble has no    *)
(* row for.                                                                 *)
EnsemblesFollowMembers ==
  \A id \in DOMAIN virtual :
    LET row    == virtual[id]
        values == {<<p.value, 1>> : p \in Given(id[2], row.members)}
        last   == {s \in ensembleSnapshots : s.ensemble = id[1] /\
                     \A o \in ensembleSnapshots : o.ensemble = id[1] => o.at <= s.at}
    IN  /\ row.value[2] > 0
        /\ \E low, high \in values : AtMost(low, row.value) /\ AtMost(row.value, high)
        /\ Settled(id) => id \in DOMAIN scores /\ scores[id] = row.value
        /\ \A s \in last : s.count \in 1..Cardinality(Inputs(id[1]))
=============================================================================
