------------------------------ MODULE Reports ------------------------------
(***************************************************************************)
(* The report-worker's views of what Ranking keeps: the leaderboard, the    *)
(* models' metrics, and the rewards of the last checkpoint in the three     *)
(* forms its readers take them in.                                          *)
(*                                                                         *)
(* The views read and write nothing: each is an operator on the state.  A   *)
(* prediction is performed Lag cycles before the cycle that scores it.      *)
(***************************************************************************)
EXTENDS Ranking

CONSTANTS
  Ensembles,    \* the models that are ensembles
  Week,         \* cycles a view goes back to
  Lag,
  OverviewLimit,  \* snapshots the diversity and ensemble views read
  TotalPrizes     \* values of total_prize

T == INSTANCE EmissionTiers

Include == BOOLEAN   \* include_ensembles

Listed(include) == IF include THEN Models ELSE Models \ Ensembles

-----------------------------------------------------------------------------
(* The leaderboard: ensembles are left out, and leave their ranks empty. *)
get_leaderboard(include) ==
  SelectSeq([i \in DOMAIN board |-> [model |-> board[i], rank |-> i]],
            LAMBDA entry : entry.model \in Listed(include))

(* Snapshots of the last week. *)
Recent(S) == {s \in S : s.at >= clock - Week}

(* By created_at; the views that keep the last row of a model. *)
LastOf(S)  == CHOOSE s \in S : \A t \in S : t.at <= s.at
FirstOf(S) == CHOOSE s \in S : \A t \in S : s.at <= t.at

-----------------------------------------------------------------------------
(* The predictions performed since then, with their scores; ensembles too. *)
(* The n-th score of a cycle is for scope n.                                *)
query_scores(since) ==
  UNION {{[model |-> s.model, scope |-> n, performed |-> s.at - Lag,
           value |-> s.results[n]] : n \in DOMAIN s.results} :
           s \in {s \in snapshots : s.at - Lag >= since}}

(* A window's metric is the average over the predictions in it, 0 without. *)
_compute_window_metrics(P) ==
  LET inWindow == {p \in P : p.performed >= clock - Hours}
  IN  IF inWindow = {} THEN <<0, 1>>
      ELSE <<MapThenSumSet(LAMBDA p : p.value, inWindow), Cardinality(inWindow)>>

(* get_models_global: one row for all the predictions of a model; the       *)
(* fields come from its last snapshot of the week.                          *)
get_models_global(include) ==
  LET predictions == query_scores(clock - Week)
  IN  {[model |-> m, score_recent |-> _compute_window_metrics(Of(predictions, m)),
        value |-> Summary(LastOf(Recent(Of(snapshots, m))))] :
         m \in RankedModels(predictions) \cap Listed(include)}

(* get_models_params: one row for those of each scope. *)
get_models_params(include) ==
  LET predictions == query_scores(clock - Week)
  IN  {[model |-> q.model, scope |-> q.scope,
        score_recent |-> _compute_window_metrics(
                           {p \in Of(predictions, q.model) : p.scope = q.scope})] :
         q \in {q \in predictions : q.model \in Listed(include)}}

(* get_predictions: those of the ensembles are not left out. *)
get_predictions == query_scores(clock - Week)

(* get_models_metrics_timeseries: a row per snapshot of the week, by time:  *)
(* the rows of each cycle.                                                  *)
get_models_metrics_timeseries(include) ==
  [at \in (clock - Week)..clock |->
     {s \in snapshots : s.at = at /\ s.model \in Listed(include)}]

get_models_summary(include) ==
  {[model |-> m, value |-> Summary(LastOf(Recent(Of(snapshots, m))))] :
     m \in {m \in Listed(include) : Recent(Of(snapshots, m)) # {}}}

(* The rows a view with a limit can read: the oldest of the table, those of *)
(* one cycle in any order.                                                  *)
Pages ==
  {S \in kSubset(Min({OverviewLimit, Cardinality(snapshots)}), snapshots) :
     \A s \in S, t \in snapshots \ S : s.at <= t.at}

(* get_diversity_overview: the last row of the page, of each model that     *)
(* is not an ensemble.                                                      *)
get_diversity_overview(S) ==
  {[model |-> m, value |-> Summary(LastOf(Of(S, m)))] :
     m \in RankedModels(S) \ Ensembles}

get_ensemble_history(S) == {s \in S : s.model \in Ensembles}

(* get_model_diversity: its query is for one row, the oldest. *)
get_model_diversity(m) == Summary(FirstOf(Of(snapshots, m)))

-----------------------------------------------------------------------------
(* The rewards of the last checkpoint.  Its emission has one entry per      *)
(* rank, from 0.                                                            *)
Emissions == [n \in 0..Cardinality(Models) |-> T!TierEmission(n)]
Emission  == Emissions[Len(checkpoint.ranking)]

RewardOf(index) == Emission[index + 1]
ModelOf(index)  == checkpoint.ranking[index + 1]
Indices         == 0..(Len(Emission) - 1)

(* n / unit to the nearest integer, halves to the even one. *)
Rounded(n, unit) ==
  LET q == n \div unit
  IN  q + (IF T!RoundsUp(q, n % unit, unit) THEN 1 ELSE 0)

(* Variant with an error: the rank is taken for the index. *)
RewardByRank(rank) ==
  IF rank \in Indices THEN Rounded(RewardOf(rank), 1000) ELSE 0

(* In 1/10000 of a percent. *)
RewardAt(rank) ==
  IF rank - 1 \in Indices THEN Rounded(RewardOf(rank - 1), 1000) ELSE 0

get_checkpoint_rewards ==
  {[model |-> checkpoint.ranking[rank], rank |-> rank, reward_pct |-> RewardAt(rank)] :
     rank \in {rank \in DOMAIN checkpoint.ranking : checkpoint.ranking[rank] \notin Ensembles}}

(* In 1/1000000 of a percent. *)
get_checkpoint_emission_cli_format ==
  [m \in {ModelOf(i) : i \in Indices} |->
     Rounded(RewardOf(CHOOSE i \in Indices : ModelOf(i) = m), 10)]

(* total * reward / FRAC_64_MULTIPLIER, by two halves of the reward. *)
Prize(total, reward) ==
  LET high  == total * (reward \div 10000)
      low   == total * (reward % 10000)
      whole == high + (low \div 10000)
      quotient == whole \div 100000
      rest     == (whole % 100000) * 10000 + (low % 10000)
  IN  quotient + (IF T!RoundsUp(quotient, rest, T!FRAC_64_MULTIPLIER) THEN 1 ELSE 0)

get_checkpoint_prizes(total) ==
  [i \in 1..Len(Emission) |->
     [model |-> ModelOf(i - 1), prize |-> Prize(total, RewardOf(i - 1))]]

-----------------------------------------------------------------------------
(* Properties *)

(* After a rebuild every model of the board that has a snapshot in the week *)
(* has one value in all views: the summary's, the last of its time series,  *)
(* that of the global view, of the board itself when it ranks by the field, *)
(* and of the diversity and ensemble views while all snapshots fit a page;  *)
(* a model's own diversity shows it as long as it is the model's first.     *)
LatestShown ==
  \A include \in Include :
    LET shown  == get_models_summary(include)
        series == get_models_metrics_timeseries(include)
    IN  \A entry \in ToSet(get_leaderboard(include)) :
          Recent(Of(snapshots, entry.model)) # {} =>
            \E row \in shown :
              /\ row.model = entry.model
              /\ \E at \in DOMAIN series :
                   /\ \E s \in Of(series[at], row.model) : Summary(s) = row.value
                   /\ \A later \in DOMAIN series : later > at => Of(series[later], row.model) = {}
              /\ \A g \in get_models_global(include) : g.model = row.model => g.value = row.value
              /\ rankingKey \in Fields => row.value = BoardScore(entry.model)
              /\ Cardinality(snapshots) <= OverviewLimit =>
                   \A S \in Pages :
                     /\ \A d \in get_diversity_overview(S) :
                          d.model = row.model => d.value = row.value
                     /\ row.model \in Ensembles =>
                          row.value = Summary(LastOf(Of(get_ensemble_history(S), row.model)))
              /\ Cardinality(Of(snapshots, row.model)) = 1 =>
                   get_model_diversity(row.model) = row.value

(* The global view and the one by scope show the models of the predictions  *)
(* view, and a model's global average lies between those of its scopes.     *)
ScopesShown ==
  \A include \in Include :
    LET global == get_models_global(include)
        params == get_models_params(include)
    IN  /\ RankedModels(global) = RankedModels(params)
        /\ RankedModels(global) = RankedModels(get_predictions) \cap Listed(include)
        /\ \A g \in global : \E low, high \in Of(params, g.model) :
             /\ ~Greater(low.score_recent, g.score_recent)
             /\ ~Greater(g.score_recent, high.score_recent)

(* The three forms of a checkpoint's rewards name the same models with the  *)
(* same shares; prizes follow the ranks, and their sum differs from the     *)
(* total by no more than the roundings, one half for each model.            *)
RewardsAgree ==
  \A total \in TotalPrizes :
    LET prizes == get_checkpoint_prizes(total)
        cli    == get_checkpoint_emission_cli_format
        sum    == MapThenSumSet(LAMBDA i : prizes[i].prize, DOMAIN prizes)
    IN  /\ \A row \in get_checkpoint_rewards :
             /\ row.reward_pct = Rounded(cli[row.model], 100)
             /\ prizes[row.rank].model = row.model
        /\ {row.model : row \in get_checkpoint_rewards} = DOMAIN cli \ Ensembles
        /\ \A i, j \in DOMAIN prizes : i < j => prizes[i].prize >= prizes[j].prize
        /\ prizes # <<>> =>
             /\ 2 * (sum - total) <= Len(prizes)
             /\ 2 * (total - sum) <= Len(prizes)

ReportsAgree == (pc = "due" => LatestShown /\ ScopesShown) /\ (pc = "score" => RewardsAgree)
=============================================================================
