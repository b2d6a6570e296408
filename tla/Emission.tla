------------------------------ MODULE Emission ------------------------------
(***************************************************************************)
(* build_emission: how the ranked models of a checkpoint share the reward.  *)
(* Two strategies of the code, the tiers of default_build_emission and the  *)
(* blend of contribution_weighted_emission.                                 *)
(*                                                                         *)
(* The tiers and the rounding are in EmissionTiers.  The three weights add  *)
(* up to 10, and a blend has at least one model.                            *)
(***************************************************************************)
EXTENDS EmissionTiers, FiniteSetsExt

CONSTANTS
  DefaultSizes,       \* numbers of ranked models given to the tiers
  Blends,             \* what the blend is given: the models' contribution and
                      \* model_correlation (in tenths) by rank, and the floor
                      \* min_pct, in percent
  RankWeight, ContributionWeight, DiversityWeight    \* in tenths

ASSUME EmissionAssumption ==
  /\ DefaultSizes \subseteq Nat
  /\ \A b \in Blends :
       /\ b.contribution \in Seq(Int) /\ Len(b.contribution) # 0
       /\ b.correlation \in [DOMAIN b.contribution -> Int]
       /\ b.min_pct \in Nat
  /\ RankWeight \in Nat /\ ContributionWeight \in Nat /\ DiversityWeight \in Nat

VARIABLES
  strategy,      \* the crunch's build_emission
  contribution,  \* [rank -> contribution]
  correlation,   \* [rank -> correlation]
  min_pct,       \* the blend's floor
  rewards        \* reward_pct by rank, <<>> before the emission is built

emissionVars == <<strategy, contribution, correlation, min_pct, rewards>>

-----------------------------------------------------------------------------
(* contribution_weighted_emission *)

LeastValue(v)    == Min({v[i] : i \in DOMAIN v})
GreatestValue(v) == Max({v[i] : i \in DOMAIN v})

(* _normalize: to [0, 1] between the least and the greatest value, as       *)
(* numerators over Spread(v); equal values become 1/n.                      *)
Spread(v) ==
  IF GreatestValue(v) = LeastValue(v) THEN Len(v)
  ELSE GreatestValue(v) - LeastValue(v)

Normalize(v) ==
  [i \in DOMAIN v |->
     IF GreatestValue(v) = LeastValue(v) THEN 1 ELSE v[i] - LeastValue(v)]

(* 1/rank over a common denominator. *)
InverseRanks(n) ==
  LET factorial[k \in 0..n] == IF k = 0 THEN 1 ELSE k * factorial[k - 1]
  IN  [i \in 1..n |-> factorial[n] \div i]

(* Variant with an error: a high correlation is rewarded. *)
DiversityIsCorrelation(cor) == cor

Diversity(cor) == [i \in DOMAIN cor |-> 10 - cor[i]]

(* The weighted sum of the three components, over a denominator that is the *)
(* same for all entries.                                                    *)
Composite(con, cor) ==
  LET r == InverseRanks(Len(con))
      d == Diversity(cor)
  IN  [i \in DOMAIN con |->
           RankWeight * Normalize(r)[i] * Spread(con) * Spread(d)
         + ContributionWeight * Normalize(con)[i] * Spread(r) * Spread(d)
         + DiversityWeight * Normalize(d)[i] * Spread(r) * Spread(con)]

(* Percentages with the floor, as numerators over the composites' total. *)
Floored(comp, floor) ==
  [i \in DOMAIN comp |->
     IF SumOf(comp) = 0 THEN 100 ELSE Max({floor * SumOf(comp), 100 * comp[i]})]

WeightedEmission(con, cor, floor) ==
  LET raw == Floored(Composite(con, cor), floor)
  IN  AdjustFirst([i \in DOMAIN raw |-> pct_to_frac64(100 * raw[i], SumOf(raw))])

-----------------------------------------------------------------------------
EmissionInit ==
  /\ rewards = <<>>
  /\ \/ /\ strategy = "tiers"
        /\ \E n \in DefaultSizes : /\ contribution = [i \in 1..n |-> 0]
                                   /\ correlation = [i \in 1..n |-> 0]
        /\ min_pct = 0
     \/ /\ strategy = "blend"
        /\ \E b \in Blends : /\ contribution = b.contribution
                             /\ correlation = b.correlation
                             /\ min_pct = b.min_pct

BuildEmission ==
  /\ rewards = <<>>
  /\ rewards' = IF strategy = "tiers" THEN TierEmission(Len(contribution))
                ELSE WeightedEmission(contribution, correlation, min_pct)
  /\ UNCHANGED <<strategy, contribution, correlation, min_pct>>

EmissionNext == BuildEmission

EmissionSpec == EmissionInit /\ [][EmissionNext]_emissionVars
-----------------------------------------------------------------------------
(* Properties *)

(* crunch_config.py:501: the rewards of an emission are exactly the whole,   *)
(* whatever the rounding of each, for both strategies.                      *)
SumIsWhole == rewards # <<>> => SumOf(rewards) = FRAC_64_MULTIPLIER

(* crunch_config.py:526, emission_strategies.py:105, :115: a model that is   *)
(* ranked ahead of another, contributes as much and is no more correlated    *)
(* never earns less, and nobody behind the first earns less than nothing.    *)
(* The first one bears the rounding of all, which the floor may leave it no  *)
(* lead for: it can earn less than one behind it, with the same metrics, by  *)
(* at most half a unit for every model.  With the tiers the rank alone       *)
(* decides.                                                                 *)
ShareOrderKept ==
  \A i, j \in DOMAIN rewards :
    (i < j /\ contribution[i] >= contribution[j] /\ correlation[i] <= correlation[j])
      => /\ rewards[j] >= 0
         /\ IF i = 1 THEN 2 * (rewards[j] - rewards[1]) <= Len(rewards)
            ELSE rewards[i] >= rewards[j]
=============================================================================
