------------------------------- MODULE Ranking -------------------------------
(***************************************************************************)
(* Which model is ahead of which: on the leaderboard, rebuilt in each score *)
(* cycle from all snapshots, and in a checkpoint, from the snapshots of its *)
(* period.  Both sort by ranking_key, in ranking_direction.                 *)
(*                                                                         *)
(* A score is a fraction <<num, den>>, computed exactly.  The results of a  *)
(* cycle are the scores of one model's predictions in it; the snapshot row  *)
(* keeps their average (default_aggregate_snapshot) and their number.       *)
(***************************************************************************)
EXTENDS Averages, FiniteSetsExt, SequencesExt

CONSTANTS
  Models,
  Results,      \* the sequences of scores a model can have in a cycle
  RankingKeys,  \* values of aggregation.ranking_key: a window's name, a field's
  Directions,   \* values of aggregation.ranking_direction
  Hours,        \* length of the leaderboard's window
  MaxCycles     \* bound: score cycles in a behaviour

Windows == {"score_recent"}   \* aggregation.windows
Fields  == {"value"}          \* numeric fields of the score type

ASSUME RankingAssumption ==
  /\ IsFiniteSet(Models)
  /\ Results \subseteq Seq(Int) \ {<<>>}
  /\ RankingKeys \subseteq Windows \cup Fields
  /\ Directions \subseteq {"desc", "asc"}
  /\ Hours \in Nat
  /\ MaxCycles \in Nat

VARIABLES
  rankingKey, direction,   \* the configuration
  clock,        \* the current cycle, one hour each
  pc,           \* the step of the cycle
  snapshots,    \* rows: [model, at, results]
  board,        \* models by rank on the stored leaderboard
  checkpoint    \* [from, to, ranking] of the last checkpoint

configuration == <<rankingKey, direction>>
vars == <<configuration, clock, pc, snapshots, board, checkpoint>>

NoCheckpoint == [from |-> 0, to |-> 0, ranking |-> <<>>]

-----------------------------------------------------------------------------
Better(a, b) == IF direction = "desc" THEN Greater(a, b) ELSE Greater(b, a)

(* What the snapshot row holds. *)
Count(s)   == Len(s.results)
Summary(s) == <<SumOf(s.results), Count(s)>>

(* Sums over snapshots. *)
Summaries(S) == SumOver(S, [s \in S |-> Summary(s)])
Counted(S)   == SumOver(S, [s \in S |-> Whole(Count(s))])

Of(S, m)   == {s \in S : s.model = m}
RankedModels(S) == {s.model : s \in S}

-----------------------------------------------------------------------------
(* A ranking by the models' scores is a stable sort: equal scores keep the  *)
(* order in which their models appear among the snapshots, which come by    *)
(* created_at; the database may return rows of one cycle in any order.      *)
FirstSeen(S, m) == Min({s.at : s \in Of(S, m)})

IsRanking(r, S, score) ==
  /\ r \in [1..Cardinality(RankedModels(S)) -> RankedModels(S)]
  /\ IsInjective(r)
  /\ \A i, j \in DOMAIN r : i < j =>
       \/ Better(score[r[i]], score[r[j]])
       \/ /\ ~Better(score[r[j]], score[r[i]])
          /\ FirstSeen(S, r[i]) <= FirstSeen(S, r[j])

Rankings(S, score) ==
  {r \in [1..Cardinality(RankedModels(S)) -> RankedModels(S)] :
     IsRanking(r, S, score)}

-----------------------------------------------------------------------------
(* _aggregate_from_snapshots: a window's metric is the plain average of the *)
(* value field over the snapshots in the window, 0 without one; a field's   *)
(* metric is the latest snapshot's.                                         *)
InWindow(m) == {s \in Of(snapshots, m) : s.at >= clock - Hours}

(* Variant with an error: the sum over the window is divided by the number  *)
(* of all the model's snapshots.                                            *)
WindowAverageOverAll(m) ==
  IF InWindow(m) = {} THEN <<0, 1>>
  ELSE Over(Summaries(InWindow(m)), Whole(Cardinality(Of(snapshots, m))))

WindowAverage(m) ==
  IF InWindow(m) = {} THEN <<0, 1>>
  ELSE Over(Summaries(InWindow(m)), Whole(Cardinality(InWindow(m))))

Latest(m) ==
  CHOOSE s \in Of(snapshots, m) : \A t \in Of(snapshots, m) : t.at <= s.at

BoardScore(m) ==
  IF rankingKey \in Windows THEN WindowAverage(m) ELSE Summary(Latest(m))

(* Variant with an error: each snapshot weighs the same. *)
UnweightedAverage(S) == Over(Summaries(S), Whole(Cardinality(S)))

(* create_checkpoint: the average weighted by prediction count, of the      *)
(* numeric keys the snapshots have; a missing key is worth 0.               *)
WeightedAverage(S) ==
  SumOver(S, [s \in S |-> Times(Summary(s), Over(Whole(Count(s)), Counted(S)))])

CheckpointScore(S) ==
  IF rankingKey \in Fields THEN WeightedAverage(S) ELSE <<0, 1>>

-----------------------------------------------------------------------------
Init ==
  /\ rankingKey \in RankingKeys
  /\ direction \in Directions
  /\ clock = 1
  /\ pc = "score"
  /\ snapshots = {}
  /\ board = <<>>
  /\ checkpoint = NoCheckpoint

(* A cycle writes a snapshot for each model it scored. *)
WriteSnapshots ==
  /\ pc = "score"
  /\ clock <= MaxCycles
  /\ \E S \in (SUBSET Models) \ {{}} : \E results \in [S -> Results] :
       snapshots' = snapshots \cup
         {[model |-> m, at |-> clock, results |-> results[m]] : m \in S}
  /\ pc' = "board"
  /\ UNCHANGED <<configuration, clock, board, checkpoint>>

Rebuild ==
  /\ pc = "board"
  /\ board' \in Rankings(snapshots, [m \in RankedModels(snapshots) |-> BoardScore(m)])
  /\ pc' = "due"
  /\ UNCHANGED <<configuration, clock, snapshots, checkpoint>>

(* The interval has passed or not; the next cycle is an hour later. *)
CreateCheckpoint ==
  /\ pc = "due"
  /\ LET period == {s \in snapshots : s.at > checkpoint.to}
         score  == [m \in RankedModels(period) |-> CheckpointScore(Of(period, m))]
     IN  \E r \in Rankings(period, score) :
           checkpoint' = [from |-> checkpoint.to + 1, to |-> clock, ranking |-> r]
  /\ pc' = "score"
  /\ clock' = clock + 1
  /\ UNCHANGED <<configuration, snapshots, board>>

NotDue ==
  /\ pc = "due"
  /\ pc' = "score"
  /\ clock' = clock + 1
  /\ UNCHANGED <<configuration, snapshots, board, checkpoint>>

Next == WriteSnapshots \/ Rebuild \/ CreateCheckpoint \/ NotDue

Spec == Init /\ [][Next]_vars
-----------------------------------------------------------------------------
(* Properties *)

InPeriod(m) ==
  {s \in Of(snapshots, m) : checkpoint.from <= s.at /\ s.at <= checkpoint.to}

(* The average over a model's predictions themselves, however the cycles    *)
(* grouped them.                                                            *)
PredictionAverage(m) ==
  Over(SumOver(InPeriod(m), [s \in InPeriod(m) |-> Whole(SumOf(s.results))]),
       Counted(InPeriod(m)))

(* With a field as the key, every prediction of the period weighs the same  *)
(* in a checkpoint's ranking, whether it was scored in a busy cycle or      *)
(* alone.                                                                   *)
PredictionsWeighEqually ==
  rankingKey \in Fields =>
    \A i, j \in DOMAIN checkpoint.ranking : i < j =>
      ~Better(PredictionAverage(checkpoint.ranking[j]),
              PredictionAverage(checkpoint.ranking[i]))

UniformlyBetter(a, b, S) ==
  \A s \in Of(S, a), t \in Of(S, b) : Better(Summary(s), Summary(t))

(* On a rebuilt leaderboard, a model all of whose snapshots are better than *)
(* all of another's is ahead of it, with either key, among the models seen  *)
(* in the window, whatever older snapshots left it.                         *)
UniformlyBetterLeads ==
  pc = "due" =>
    \A i, j \in DOMAIN board :
      /\ InWindow(board[i]) # {} /\ InWindow(board[j]) # {}
      /\ UniformlyBetter(board[i], board[j], snapshots)
      => i < j

(* docs/data-pipeline.md:106, a checkpoint "Ranks models using the          *)
(* leaderboard's ranking_key": a model all of whose snapshots of the period *)
(* are better than all of another's is paid ahead of it.                    *)
UniformlyBetterRanksAhead ==
  \A i, j \in DOMAIN checkpoint.ranking :
    UniformlyBetter(checkpoint.ranking[i], checkpoint.ranking[j],
                    InPeriod(checkpoint.ranking[i]) \cup InPeriod(checkpoint.ranking[j]))
    => i < j
=============================================================================
