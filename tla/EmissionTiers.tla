--------------------------- MODULE EmissionTiers ---------------------------
(***************************************************************************)
(* Percentages in units of 1/FRAC_64_MULTIPLIER, and the tiers of           *)
(* default_build_emission.                                                  *)
(*                                                                         *)
(* The code computes in floating point and rounds to whole units.  Here a   *)
(* percentage is a fraction num/den, computed exactly and rounded to the    *)
(* same units; the products stay below 2^31.                                *)
(***************************************************************************)
EXTENDS Averages

FRAC_64_MULTIPLIER == 1000000000

NextDigit(e, den) == <<10 * e[1] + (10 * e[2]) \div den, (10 * e[2]) % den>>

(* int(round(num/den percent of FRAC_64_MULTIPLIER)), by long division: the *)
(* seven decimal digits after the whole percents, then the rest.            *)
Digits(num, den) ==
  LET d[k \in 0..7] == IF k = 0 THEN <<num \div den, num % den>>
                       ELSE NextDigit(d[k - 1], den)
  IN  d[7]

RoundsUp(quotient, rest, den) ==
  \/ 2 * rest > den
  \/ 2 * rest = den /\ quotient % 2 = 1

pct_to_frac64(num, den) ==
  LET d == Digits(num, den)
  IN  d[1] + (IF RoundsUp(d[1], d[2], den) THEN 1 ELSE 0)

(* Variant with an error: the rounding difference is dropped. *)
KeepRounding(fracs) == fracs

(* The rounding difference goes to the first entry. *)
AdjustFirst(fracs) ==
  [i \in DOMAIN fracs |->
     IF i = 1 THEN fracs[1] + FRAC_64_MULTIPLIER - SumOf(fracs) ELSE fracs[i]]

-----------------------------------------------------------------------------
(* default_build_emission *)

Tier(rank) ==
  CASE rank = 1      -> 35
    [] rank \in 2..5 -> 10
    [] rank \in 6..10 -> 5
    [] OTHER         -> 0

(* What the tiers of n models leave unclaimed is split equally. *)
TierEmission(n) ==
  LET unclaimed == 100 - SumOf([i \in 1..n |-> Tier(i)])
  IN  AdjustFirst([i \in 1..n |-> pct_to_frac64(n * Tier(i) + unclaimed, n)])
=============================================================================
