----------------------------- MODULE MCRewards -----------------------------
(* What the models of a crunch are shown and paid, in three parts that      *)
(* share no state: a behaviour is of the one its side names.                *)
(*   views      rankings, checkpoints and the views of them; three models,  *)
(*              one an ensemble, in cycles with one score or two            *)
(*   shares     both emissions: every number of models the tiers tell apart *)
(*              and two beyond, blends of up to three with the code's floor *)
(*              and with one that is out of reach of some, and six equal    *)
(*              models all at the floor, whose rounding the first one bears *)
(*   ensembles  two members that answer or not, an ensemble of those above  *)
(*              a threshold and one of the best                             *)
EXTENDS Reports, Emission, Ensembles

CONSTANTS m1, m2, m3, none

ThreeModels == {m1, m2, m3}
OneEnsemble == {m3}
BothKeys    == {"score_recent", "value"}
BothWays    == {"desc", "asc"}
SomeResults == {<<-1>>, <<3>>, <<2, 3>>}
SomeBlends ==
  UNION {[contribution : [1..n -> {-1, 0, 2}], correlation : [1..n -> {0, 4, 10}],
          min_pct : {1, 43}] : n \in 1..3}
    \union {[contribution |-> [i \in 1..6 |-> 0], correlation |-> [i \in 1..6 |-> 0],
             min_pct |-> 43]}
SomePrizes  == {7, 9999}
TwoMembers  == {m1, m2}
SomeScores  == (1 :> 1) @@ (4 :> 3) @@ (none :> 0)
TwoConfigs  ==
  <<[name |-> "quality", strategy |-> "inverse_variance",
     filter |-> [kind |-> "min", threshold |-> 1]],
    [name |-> "top", strategy |-> "equal_weight", filter |-> [kind |-> "top", n |-> 1]]>>
SomeRegistries == {{"quality", "top"}, {"quality"}}

-----------------------------------------------------------------------------
VARIABLE side

NoViews ==
  /\ rankingKey = "" /\ direction = "" /\ clock = 0 /\ pc = ""
  /\ snapshots = {} /\ board = <<>> /\ checkpoint = NoCheckpoint
NoShares ==
  /\ strategy = "" /\ contribution = <<>> /\ correlation = <<>> /\ min_pct = 0
  /\ rewards = <<>>
NoEnsembles ==
  /\ cycle = 0 /\ step = "" /\ config = 0 /\ predictions = {} /\ metric = <<>>
  /\ batch = <<>> /\ left = {} /\ virtual = <<>> /\ scores = <<>>
  /\ ensembleSnapshots = {} /\ registered = {} /\ cut = {} /\ faults = 0

RewardsInit ==
  \/ side = "views" /\ Init /\ NoShares /\ NoEnsembles
  \/ side = "shares" /\ NoViews /\ EmissionInit /\ NoEnsembles
  \/ side = "ensembles" /\ NoViews /\ NoShares /\ EnsemblesInit

RewardsNext ==
  \/ side = "views" /\ Next /\ UNCHANGED <<side, emissionVars, ensembleVars>>
  \/ side = "shares" /\ EmissionNext /\ UNCHANGED <<side, vars, ensembleVars>>
  \/ side = "ensembles" /\ EnsemblesNext /\ UNCHANGED <<side, vars, emissionVars>>

RewardsSpec == RewardsInit /\ [][RewardsNext]_<<side, vars, emissionVars, ensembleVars>>

=============================================================================
