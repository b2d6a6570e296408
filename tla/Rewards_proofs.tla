---------------------------- MODULE Rewards_proofs ----------------------------
(***************************************************************************)
(* What models are ranked by and paid, proved for every value of the        *)
(* constants.                                                               *)
(*                                                                         *)
(*   shares     what an emission adds up to and how it ranks, for any       *)
(*              number of models, contributions, correlations and weights   *)
(*   rankings   the leaderboard's and the checkpoint's, for any models,     *)
(*              results, windows and numbers of cycles                      *)
(*   ensembles  their predictions, scores and snapshots, for any members,   *)
(*              ensembles, weights and faults                               *)
(*                                                                         *)
(* Sums, factorials and digits are recursive functions over numbers, sums   *)
(* of fractions over finite sets.  What they compute is proved by induction *)
(* over the set of the numbers, or of the subsets, for which it holds.      *)
(***************************************************************************)
EXTENDS Ranking, Emission, Ensembles, FiniteSetTheorems, SequenceTheorems,
        WellFoundedInduction, TLAPS

-----------------------------------------------------------------------------
(* Recursion and induction over the natural numbers *)

(* A set of numbers with 0 and all successors is all of them. *)
LEMMA Induct ==
  ASSUME NEW T \in SUBSET Nat, 0 \in T, \A k \in T : k + 1 \in T
  PROVE  \A n \in Nat : n \in T
<1> DEFINE U == Nat \ T
<1>1. SUFFICES ASSUME U # {} PROVE FALSE
  OBVIOUS
<1>2. PICK m \in U : \A u \in U : <<u, m>> \notin OpToRel(<, Nat)
  BY <1>1, WFMin, NatLessThanWellFounded, Zenon
<1>3. \A u \in U : ~(u < m)
  BY <1>2, Zenon DEF OpToRel
<1>4. m \in U
  BY <1>2, Zenon
<1>5. m \in Nat /\ m # 0 /\ m \notin T
  BY <1>4
<1>6. m - 1 \in Nat /\ m - 1 < m
  BY <1>5
<1>7. m - 1 \in T
  BY <1>3, <1>6
<1>8. (m - 1) + 1 \in T
  BY <1>7
<1> QED BY <1>5, <1>8

(* Numbers that follow from the one before by a factor and a term. *)
LEMMA Recursion ==
  ASSUME NEW n \in Nat, NEW c \in Int, NEW A \in [1 .. n -> Int], NEW B \in [1 .. n -> Int]
  PROVE  \E g \in [0 .. n -> Int] :
           g[0] = c /\ \A k \in 1 .. n : g[k] = A[k] * g[k - 1] + B[k]
<1> DEFINE Goes(m, g) == g[0] = c /\ \A k \in 1 .. m : g[k] = A[k] * g[k - 1] + B[k]
           T == {m \in Nat : m <= n => \E g \in [0 .. m -> Int] : Goes(m, g)}
<1>1. 0 \in T
  <2>1. [k \in 0 .. 0 |-> c] \in [0 .. 0 -> Int] /\ Goes(0, [k \in 0 .. 0 |-> c])
    OBVIOUS
  <2> QED BY <2>1
<1>2. ASSUME NEW m \in T PROVE m + 1 \in T
  <2>0. m \in Nat /\ m + 1 \in Nat /\ (m <= n => \E g \in [0 .. m -> Int] : Goes(m, g))
    OBVIOUS
  <2> SUFFICES ASSUME m + 1 <= n PROVE \E g \in [0 .. m + 1 -> Int] : Goes(m + 1, g)
    BY <2>0
  <2>1. PICK g \in [0 .. m -> Int] : Goes(m, g)
    BY <2>0, SMTT(30)
  <2> DEFINE next == A[m + 1] * g[m] + B[m + 1]
             h == [k \in 0 .. m + 1 |-> IF k <= m THEN g[k] ELSE next]
  <2>2. next \in Int
    <3>1. g[m] \in Int /\ A[m + 1] \in Int /\ B[m + 1] \in Int
      BY <2>0
    <3> QED BY <3>1
  <2>3. h \in [0 .. m + 1 -> Int]
    <3> HIDE DEF next
    <3> QED BY <2>0, <2>2
  <2>4. Goes(m + 1, h)
    <3>1. h[0] = c
      BY <2>0, <2>1
    <3>2. ASSUME NEW k \in 1 .. m + 1 PROVE h[k] = A[k] * h[k - 1] + B[k]
      <4>1. CASE k <= m
        <5>1. h[k] = g[k] /\ h[k - 1] = g[k - 1] /\ k \in 1 .. m
          BY <4>1, <2>0
        <5> QED BY <5>1, <2>1
      <4>2. CASE k = m + 1
        <5>1. h[k] = next /\ h[k - 1] = g[m]
          BY <4>2, <2>0
        <5> QED BY <5>1, <4>2
      <4> QED BY <4>1, <4>2, <2>0
    <3> QED BY <3>1, <3>2
  <2> QED BY <2>3, <2>4
<1>3. n \in T
  <2>1. T \in SUBSET Nat
    OBVIOUS
  <2> HIDE DEF T
  <2> QED BY <2>1, <1>1, <1>2, Induct
<1> QED BY <1>3

LEMMA RunningSums ==
  ASSUME NEW n \in Nat, NEW f \in [1 .. n -> Int]
  PROVE  \E g \in [0 .. n -> Int] :
           g[0] = 0 /\ \A k \in 1 .. n : g[k] = g[k - 1] + f[k]
<1>1. PICK A \in [1 .. n -> Int] : \A k \in 1 .. n : A[k] = 1
  <2>1. [i \in 1 .. n |-> 1] \in [1 .. n -> Int]
    OBVIOUS
  <2> QED BY <2>1
<1>2. 0 \in Int
  OBVIOUS
<1>3. PICK g \in [0 .. n -> Int] :
        g[0] = 0 /\ \A k \in 1 .. n : g[k] = A[k] * g[k - 1] + f[k]
  BY <1>2, Recursion, ZenonT(30)
<1>4. ASSUME NEW k \in 1 .. n PROVE g[k] = g[k - 1] + f[k]
  <2>1. A[k] = 1 /\ g[k - 1] \in Int /\ f[k] \in Int /\ g[k] = A[k] * g[k - 1] + f[k]
    BY <1>1, <1>3
  <2> QED BY <2>1
<1> QED BY <1>3, <1>4

LEMMA LengthIs ==
  ASSUME NEW S, NEW n \in Nat, NEW f \in [1 .. n -> S]
  PROVE  Len(f) = n /\ f \in Seq(S)
<1>1. f \in Seq(S)
  BY SeqDef
<1>2. Len(f) \in Nat /\ 1 .. Len(f) = 1 .. n
  BY <1>1, LenProperties
<1> QED BY <1>1, <1>2

(* The sum of a sequence is where its running sums end. *)
LEMMA SumRuns ==
  ASSUME NEW n \in Nat, NEW f \in [1 .. n -> Int]
  PROVE  \E g \in [0 .. n -> Int] :
           /\ g[0] = 0 /\ \A k \in 1 .. n : g[k] = g[k - 1] + f[k]
           /\ SumOf(f) = g[n]
<1> DEFINE Eq(h) == h = [i \in 0 .. Len(f) |-> IF i = 0 THEN 0 ELSE h[i - 1] + f[i]]
           s == CHOOSE h : Eq(h)
<1>1. PICK g \in [0 .. n -> Int] : g[0] = 0 /\ \A k \in 1 .. n : g[k] = g[k - 1] + f[k]
  BY RunningSums
<1>2. \A k \in 1 .. n : g[k] = g[k - 1] + f[k]
  BY <1>1
<1>. Len(f) = n
  BY LengthIs
<1>3. g = [i \in 0 .. n |-> IF i = 0 THEN 0 ELSE g[i - 1] + f[i]]
  BY <1>1, <1>2
<1>4. Eq(g)
  BY <1>3
<1>5. Eq(s)
  <2> HIDE DEF Eq
  <2> QED BY <1>4
<1>6. s \in [0 .. n -> Int] /\ \A k \in 0 .. n : s[k] = g[k]
  <2> DEFINE T == {k \in Nat : k <= n => s[k] = g[k]}
  <2>0. s = [i \in 0 .. n |-> IF i = 0 THEN 0 ELSE s[i - 1] + f[i]]
    BY <1>5
  <2> HIDE DEF s
  <2>1. 0 \in T
    BY <2>0, <1>1
  <2>2. \A k \in T : k + 1 \in T
    BY <2>0, <1>3
  <2>3. \A k \in Nat : k \in T
    <3>1. T \in SUBSET Nat
      OBVIOUS
    <3> HIDE DEF T
    <3> QED BY <3>1, <2>1, <2>2, Induct
  <2>4. \A k \in 0 .. n : s[k] = g[k]
    BY <2>3
  <2> QED BY <2>0, <2>4
<1>7. SumOf(f) = s[n]
  BY DEF SumOf
<1>8. SumOf(f) = g[n]
  <2> HIDE DEF s
  <2> QED BY <1>6, <1>7
<1> HIDE DEF s
<1> QED BY <1>1, <1>2, <1>8

-----------------------------------------------------------------------------
(* The rewards are the whole *)

(* Whatever the entries are, with the first adjusted they are the whole. *)
LEMMA AdjustedIsWhole ==
  ASSUME NEW n \in Nat \ {0}, NEW f \in [1 .. n -> Int]
  PROVE  AdjustFirst(f) \in [1 .. n -> Int] /\ SumOf(AdjustFirst(f)) = FRAC_64_MULTIPLIER
<1>1. PICK g \in [0 .. n -> Int] :
        /\ g[0] = 0 /\ \A k \in 1 .. n : g[k] = g[k - 1] + f[k]
        /\ SumOf(f) = g[n]
  BY SumRuns
<1>2. SumOf(f) \in Int /\ FRAC_64_MULTIPLIER \in Int
  BY <1>1 DEF FRAC_64_MULTIPLIER
<1> DEFINE rest == FRAC_64_MULTIPLIER - SumOf(f)
           a == AdjustFirst(f)
<1>3. a = [i \in 1 .. n |-> IF i = 1 THEN f[1] + FRAC_64_MULTIPLIER - SumOf(f) ELSE f[i]]
  BY DEF AdjustFirst
<1>4. a \in [1 .. n -> Int] /\ a[1] = f[1] + rest /\ \A i \in 2 .. n : a[i] = f[i]
  <2>1. 1 \in 1 .. n /\ f[1] \in Int /\ \A i \in 1 .. n : f[i] \in Int
    OBVIOUS
  <2>2. PICK x \in Int : x = f[1] + FRAC_64_MULTIPLIER - SumOf(f)
    BY <1>2, <2>1
  <2>3. x = f[1] + rest
    BY <1>2, <2>1, <2>2
  <2>4. a = [i \in 1 .. n |-> IF i = 1 THEN x ELSE f[i]]
    BY <1>3, <2>2
  <2> HIDE DEF rest, a
  <2> QED BY <2>1, <2>3, <2>4
<1>5. rest \in Int
  BY <1>2
<1> HIDE DEF a, rest
<1>6. PICK h \in [0 .. n -> Int] :
        /\ h[0] = 0 /\ \A k \in 1 .. n : h[k] = h[k - 1] + a[k]
        /\ SumOf(a) = h[n]
  BY <1>4, SumRuns
<1> DEFINE T == {k \in Nat : k + 1 <= n => h[k + 1] = g[k + 1] + rest}
<1>7. 0 \in T
  <2>1. h[1] = a[1] /\ g[1] = f[1]
    <3>1. 1 \in 1 .. n /\ a[1] \in Int /\ f[1] \in Int
      BY <1>4
    <3>2. h[1] = h[1 - 1] + a[1] /\ g[1] = g[1 - 1] + f[1]
      BY <1>1, <1>6, <3>1
    <3> QED BY <1>1, <1>6, <3>1, <3>2
  <2> QED BY <2>1, <1>4
<1>8. ASSUME NEW k \in T PROVE k + 1 \in T
  <2> SUFFICES ASSUME k + 2 <= n PROVE h[k + 2] = g[k + 2] + rest
    OBVIOUS
  <2>1. k \in Nat /\ h[k + 1] = g[k + 1] + rest
    OBVIOUS
  <2>2. k + 2 \in 1 .. n /\ k + 2 \in 2 .. n /\ (k + 2) - 1 = k + 1 /\ k + 1 \in 0 .. n
    BY <2>1
  <2>3. h[k + 2] = h[k + 1] + f[k + 2] /\ g[k + 2] = g[k + 1] + f[k + 2]
    BY <2>2, <1>1, <1>4, <1>6
  <2>4. g[k + 1] \in Int /\ f[k + 2] \in Int
    BY <2>2
  <2> QED BY <2>1, <2>3, <2>4, <1>5, SMTT(30)
<1>9. n - 1 \in T
  <2>1. T \in SUBSET Nat /\ n - 1 \in Nat
    OBVIOUS
  <2> HIDE DEF T
  <2> QED BY <2>1, <1>7, <1>8, Induct
<1>10. h[n] = g[n] + rest
  BY <1>9
<1>11. SumOf(a) = SumOf(f) + (FRAC_64_MULTIPLIER - SumOf(f))
  BY <1>1, <1>6, <1>10 DEF rest
<1>12. SumOf(a) = FRAC_64_MULTIPLIER
  BY <1>2, <1>11
<1> QED BY <1>4, <1>12 DEF a

-----------------------------------------------------------------------------
(* Fractions *)

(* The digits of num/den: seven steps of a long division. *)
LEMMA DigitsAre ==
  ASSUME NEW num \in Int, NEW den \in Nat \ {0}
  PROVE  \E e \in [0 .. 7 -> Int \X (0 .. den - 1)] :
           /\ e[0] = <<num \div den, num % den>>
           /\ \A k \in 1 .. 7 : e[k] = NextDigit(e[k - 1], den)
           /\ Digits(num, den) = e[7]
<1> DEFINE P == Int \X (0 .. den - 1)
           N(e) == NextDigit(e, den)
           Eq(d) == d = [k \in 0 .. 7 |-> IF k = 0 THEN <<num \div den, num % den>>
                                          ELSE NextDigit(d[k - 1], den)]
           s == CHOOSE d : Eq(d)
<1>1. <<num \div den, num % den>> \in P
  OBVIOUS
<1>2. ASSUME NEW e \in P PROVE N(e) \in P
  <2>1. e[1] \in Int /\ e[2] \in 0 .. den - 1
    OBVIOUS
  <2>2. (10 * e[2]) \div den \in Int /\ (10 * e[2]) % den \in 0 .. den - 1
    BY <2>1
  <2> QED BY <2>1, <2>2 DEF NextDigit
<1> HIDE DEF P, N
<1>3. PICK e0 \in P : e0 = <<num \div den, num % den>>
  BY <1>1
<1>4. PICK e1 \in P : e1 = N(e0)
  BY <1>2
<1>5. PICK e2 \in P : e2 = N(e1)
  BY <1>2
<1>6. PICK e3 \in P : e3 = N(e2)
  BY <1>2
<1>7. PICK e4 \in P : e4 = N(e3)
  BY <1>2
<1>8. PICK e5 \in P : e5 = N(e4)
  BY <1>2
<1>9. PICK e6 \in P : e6 = N(e5)
  BY <1>2
<1>10. PICK e7 \in P : e7 = N(e6)
  BY <1>2
<1> DEFINE g == [k \in 0 .. 7 |->
                   CASE k = 0 -> e0 [] k = 1 -> e1 [] k = 2 -> e2 [] k = 3 -> e3
                     [] k = 4 -> e4 [] k = 5 -> e5 [] k = 6 -> e6 [] k = 7 -> e7]
<1>11. g \in [0 .. 7 -> P]
  OBVIOUS
<1>12. g[0] = e0 /\ \A k \in 1 .. 7 : g[k] = N(g[k - 1])
  BY <1>4, <1>5, <1>6, <1>7, <1>8, <1>9, <1>10
<1>13. Eq(g)
  <2> HIDE DEF g
  <2>1. \A k \in 0 .. 7 : g[k] = IF k = 0 THEN <<num \div den, num % den>>
                                 ELSE NextDigit(g[k - 1], den)
    BY <1>12, <1>3 DEF N
  <2> QED BY <1>11, <2>1
<1>14. Eq(s)
  <2> HIDE DEF Eq, g
  <2> QED BY <1>13, SMTT(30)
<1>15. s = [k \in 0 .. 7 |-> IF k = 0 THEN <<num \div den, num % den>>
                             ELSE NextDigit(s[k - 1], den)]
  BY <1>14
<1>16. Digits(num, den) = s[7]
  BY DEF Digits
<1> HIDE DEF s, g
<1>17. s[0] = e0 /\ \A k \in 1 .. 7 : s[k] = N(s[k - 1])
  BY <1>15, <1>3 DEF N
<1>18. s[0] \in P
  BY <1>17
<1>19. s[1] \in P
  BY <1>2, <1>17, <1>18
<1>20. s[2] \in P
  BY <1>2, <1>17, <1>19
<1>21. s[3] \in P
  BY <1>2, <1>17, <1>20
<1>22. s[4] \in P
  BY <1>2, <1>17, <1>21
<1>23. s[5] \in P
  BY <1>2, <1>17, <1>22
<1>24. s[6] \in P
  BY <1>2, <1>17, <1>23
<1>25. s[7] \in P
  BY <1>2, <1>17, <1>24
<1>26. \A k \in 0 .. 7 : s[k] \in P
  BY <1>18, <1>19, <1>20, <1>21, <1>22, <1>23, <1>24, <1>25
<1>27. s \in [0 .. 7 -> P]
  BY <1>15, <1>26
<1>28. \A k \in 1 .. 7 : s[k] = NextDigit(s[k - 1], den)
  BY <1>17 DEF N
<1> QED BY <1>3, <1>16, <1>17, <1>27, <1>28 DEF P

(* A fraction in whole units is a number. *)
LEMMA FractionIs ==
  ASSUME NEW num \in Int, NEW den \in Nat \ {0}
  PROVE  pct_to_frac64(num, den) \in Int
<1>1. PICK e \in [0 .. 7 -> Int \X (0 .. den - 1)] : Digits(num, den) = e[7]
  BY DigitsAre
<1>2. e[7][1] \in Int
  OBVIOUS
<1> QED BY <1>1, <1>2 DEF pct_to_frac64

-----------------------------------------------------------------------------
(* The tiers *)

LEMMA TierIs == \A i \in Nat : Tier(i) \in {0, 5, 10, 35}
  BY DEF Tier

LEMMA TiersAreWhole ==
  ASSUME NEW n \in Nat \ {0}
  PROVE  TierEmission(n) \in [1 .. n -> Int] /\ SumOf(TierEmission(n)) = FRAC_64_MULTIPLIER
<1> DEFINE tiers == [i \in 1 .. n |-> Tier(i)]
           unclaimed == 100 - SumOf(tiers)
           fracs == [i \in 1 .. n |-> pct_to_frac64(n * Tier(i) + unclaimed, n)]
<1>1. tiers \in [1 .. n -> Int]
  BY TierIs
<1>2. unclaimed \in Int
  <2>1. PICK g \in [0 .. n -> Int] : SumOf(tiers) = g[n]
    <3> HIDE DEF tiers
    <3> QED BY <1>1, SumRuns
  <2> QED BY <2>1
<1>3. ASSUME NEW i \in 1 .. n PROVE pct_to_frac64(n * Tier(i) + unclaimed, n) \in Int
  <2> HIDE DEF unclaimed
  <2>1. n * Tier(i) + unclaimed \in Int
    BY <1>2, TierIs
  <2> QED BY <2>1, FractionIs
<1>4. fracs \in [1 .. n -> Int]
  <2> HIDE DEF unclaimed
  <2> QED BY <1>3
<1>5. TierEmission(n) = AdjustFirst(fracs)
  BY DEF TierEmission
<1> HIDE DEF fracs
<1> QED BY <1>4, <1>5, AdjustedIsWhole

-----------------------------------------------------------------------------
(* The order of the tiers *)

(* A rounded fraction is half a unit, at most, from the exact one.          *)
Units(percent) == 10000000 * percent

Near(x, y, m) == 2 * x - 2 * y <= m /\ 2 * y - 2 * x <= m

Rounds(f, num, den) == Near(f * den, Units(num), den)

LEMMA Distributes ==
  ASSUME NEW x \in Int, NEW y \in Int, NEW m \in Int
  PROVE  (x + y) * m = x * m + y * m /\ x * m \in Int /\ y * m \in Int
  OBVIOUS

LEMMA UnitsAdd ==
  ASSUME NEW x \in Int, NEW y \in Int
  PROVE  Units(x + y) = Units(x) + Units(y) /\ Units(x) \in Int /\ Units(y) \in Int
  BY SMT DEF Units

LEMMA NearAdds ==
  ASSUME NEW x \in Int, NEW y \in Int, NEW m \in Int, Near(x, y, m),
         NEW u \in Int, NEW v \in Int, NEW k \in Int, Near(u, v, k)
  PROVE  Near(x + u, y + v, m + k)
  BY DEF Near

LEMMA FractionBounds ==
  ASSUME NEW num \in Int, NEW den \in Nat \ {0}
  PROVE  Rounds(pct_to_frac64(num, den), num, den)
<1>1. PICK e \in [0 .. 7 -> Int \X (0 .. den - 1)] :
        /\ e[0] = <<num \div den, num % den>>
        /\ \A k \in 1 .. 7 : e[k] = NextDigit(e[k - 1], den)
        /\ Digits(num, den) = e[7]
  BY DigitsAre
<1> DEFINE Value(d) == d[1] * den + d[2]
<1>2. Value(e[0]) = num
  <2>1. e[0][1] = num \div den /\ e[0][2] = num % den
    BY <1>1
  <2>2. num = (num \div den) * den + (num % den)
    OBVIOUS
  <2> QED BY <2>1, <2>2
<1>3. ASSUME NEW d \in Int \X (0 .. den - 1)
      PROVE  Value(NextDigit(d, den)) = 10 * Value(d)
  <2> DEFINE q == (10 * d[2]) \div den
             r == (10 * d[2]) % den
  <2>1. d[1] \in Int /\ d[2] \in Int /\ 10 * d[2] \in Int
    OBVIOUS
  <2>2. 10 * d[2] = q * den + r /\ q \in Int /\ r \in Int
    <3>1. \A x \in Int : x = (x \div den) * den + (x % den) /\ x \div den \in Int /\ x % den \in Int
      OBVIOUS
    <3> QED BY <2>1, <3>1
  <2>3. NextDigit(d, den)[1] = 10 * d[1] + q /\ NextDigit(d, den)[2] = r
    BY DEF NextDigit
  <2> HIDE DEF q, r
  <2>4. (10 * d[1] + q) * den = 10 * (d[1] * den) + q * den
    BY <2>1, <2>2
  <2>5. d[1] * den \in Int /\ q * den \in Int
    BY <2>1, <2>2
  <2> QED BY <2>1, <2>2, <2>3, <2>4, <2>5
<1>4. \A k \in 0 .. 7 : Value(e[k]) \in Int
  <2> TAKE k \in 0 .. 7
  <2>1. e[k][1] \in Int /\ e[k][2] \in Int
    BY <1>1
  <2> QED BY <2>1
<1>5. \A k \in 0 .. 6 : Value(e[k + 1]) = 10 * Value(e[k])
  <2> TAKE k \in 0 .. 6
  <2>1. e[k] \in Int \X (0 .. den - 1) /\ e[k + 1] = NextDigit(e[k], den)
    BY <1>1
  <2> HIDE DEF Value
  <2> QED BY <2>1, <1>3
<1>6. Value(e[7]) = 10000000 * num
  <2> HIDE DEF Value
  <2>1. /\ Value(e[1]) = 10 * Value(e[0]) /\ Value(e[2]) = 10 * Value(e[1])
        /\ Value(e[3]) = 10 * Value(e[2]) /\ Value(e[4]) = 10 * Value(e[3])
        /\ Value(e[5]) = 10 * Value(e[4]) /\ Value(e[6]) = 10 * Value(e[5])
        /\ Value(e[7]) = 10 * Value(e[6])
    BY <1>5
  <2> QED BY <2>1, <1>2
<1> DEFINE q == e[7][1]
           r == e[7][2]
           up == IF RoundsUp(q, r, den) THEN 1 ELSE 0
<1>7. q \in Int /\ r \in 0 .. den - 1
  BY <1>1
<1>8. pct_to_frac64(num, den) = q + up
  BY <1>1 DEF pct_to_frac64
<1>9. /\ 2 * (up * den) - 2 * r <= den
      /\ 2 * r - 2 * (up * den) <= den
  <2>1. CASE RoundsUp(q, r, den)
    BY <2>1, <1>7 DEF RoundsUp
  <2>2. CASE ~RoundsUp(q, r, den)
    BY <2>2, <1>7 DEF RoundsUp
  <2> QED BY <2>1, <2>2
<1>10. q * den + r = 10000000 * num
  BY <1>6
<1>11. up \in Int
  OBVIOUS
<1> HIDE DEF q, r, up
<1>12. (q + up) * den = q * den + up * den /\ q * den \in Int /\ up * den \in Int
  BY <1>7, <1>11
<1> QED BY <1>7, <1>8, <1>9, <1>10, <1>12 DEF Rounds, Near, Units

(* The tiers fall with the rank.                                            *)
LEMMA TiersFall ==
  ASSUME NEW i \in Nat \ {0}, NEW j \in Nat, i < j
  PROVE  Tier(i) >= Tier(j) /\ Tier(j) <= 10 /\ Tier(1) = 35
  BY DEF Tier

(* They never claim more than the whole.                                    *)
LEMMA TiersLeaveSome ==
  ASSUME NEW n \in Nat
  PROVE  SumOf([i \in 1 .. n |-> Tier(i)]) \in 0 .. 100
<1> DEFINE tiers == [i \in 1 .. n |-> Tier(i)]
           Upto(k) == IF k = 0 THEN 0
                      ELSE IF k <= 5 THEN 25 + 10 * k
                      ELSE IF k <= 10 THEN 50 + 5 * k ELSE 100
<1>1. tiers \in [1 .. n -> Int]
  BY TierIs
<1>2. PICK g \in [0 .. n -> Int] :
        /\ g[0] = 0 /\ \A k \in 1 .. n : g[k] = g[k - 1] + tiers[k]
        /\ SumOf(tiers) = g[n]
  <2> HIDE DEF tiers
  <2> QED BY <1>1, SumRuns
<1> DEFINE T == {k \in Nat : k <= n => g[k] = Upto(k)}
<1>3. 0 \in T
  BY <1>2
<1>4. ASSUME NEW k \in T PROVE k + 1 \in T
  <2> SUFFICES ASSUME k + 1 <= n PROVE g[k + 1] = Upto(k + 1)
    OBVIOUS
  <2>1. k \in Nat /\ k + 1 \in 1 .. n /\ g[k] = Upto(k) /\ tiers[k + 1] = Tier(k + 1)
    OBVIOUS
  <2>2. g[k + 1] = g[k] + Tier(k + 1)
    BY <1>2, <2>1
  <2>3. Upto(k + 1) = Upto(k) + Tier(k + 1)
    <3>1. /\ k = 0 => Tier(k + 1) = 35
          /\ k \in 1 .. 4 => Tier(k + 1) = 10
          /\ k \in 5 .. 9 => Tier(k + 1) = 5
          /\ k > 9 => Tier(k + 1) = 0
      <4> DEFINE i == k + 1
      <4>1. /\ i \in Nat /\ (k = 0 => i = 1) /\ (k \in 1 .. 4 => i \in 2 .. 5)
            /\ (k \in 5 .. 9 => i \in 6 .. 10) /\ (k > 9 => i > 10)
        BY <2>1
      <4> HIDE DEF i
      <4>2. /\ i = 1 => Tier(i) = 35
            /\ i \in 2 .. 5 => Tier(i) = 10
            /\ i \in 6 .. 10 => Tier(i) = 5
            /\ i > 10 => Tier(i) = 0
        BY <4>1, SMTT(30) DEF Tier
      <4> QED BY <4>1, <4>2 DEF i
    <3> HIDE DEF T, tiers
    <3> QED BY <2>1, <3>1
  <2> QED BY <2>1, <2>2, <2>3
<1>5. n \in T
  <2> HIDE DEF T
  <2>1. T \in SUBSET Nat
    BY DEF T
  <2> QED BY <1>3, <1>4, <2>1, Induct
<1>6. g[n] = Upto(n)
  BY <1>5
<1>7. Upto(n) \in 0 .. 100
  OBVIOUS
<1> HIDE DEF Upto, T
<1> QED BY <1>2, <1>6, <1>7

(* One fraction more leaves the running sum at most half a unit further off. *)
LEMMA NextIsNear ==
  ASSUME NEW n \in Nat \ {0}, NEW k \in Nat,
         NEW g \in Int, NEW f \in Int, NEW h \in Int, NEW w \in Int,
         Near(g * n, Units(h), k * n), Rounds(f, w, n)
  PROVE  Near((g + f) * n, Units(h + w), (k + 1) * n)
<1>1. (g + f) * n = g * n + f * n /\ g * n \in Int /\ f * n \in Int
  BY Distributes
<1>2. (k + 1) * n = k * n + n /\ k * n \in Int /\ n \in Int
  OBVIOUS
<1>3. Units(h + w) = Units(h) + Units(w) /\ Units(h) \in Int /\ Units(w) \in Int
  BY UnitsAdd
<1>4. Near(f * n, Units(w), n)
  BY DEF Rounds
<1>5. Near(g * n + f * n, Units(h) + Units(w), k * n + n)
  BY <1>1, <1>2, <1>3, <1>4, NearAdds
<1> QED BY <1>1, <1>2, <1>3, <1>5, Zenon

LEMMA WholeIsNear ==
  ASSUME NEW d \in Nat \ {0}, NEW n \in Nat, NEW s \in Int, Near(s * d, Units(100 * d), n * d)
  PROVE  2 * (s - FRAC_64_MULTIPLIER) <= n /\ 2 * (FRAC_64_MULTIPLIER - s) <= n
<1>1. Units(100 * d) = 1000000000 * d
  BY SMT DEF Units
<1>2. PICK c \in Int : c = s - FRAC_64_MULTIPLIER /\ s = c + 1000000000
  BY SMT DEF FRAC_64_MULTIPLIER
<1>3. s * d = c * d + 1000000000 * d /\ c * d \in Int /\ n * d \in Int
  BY <1>2, SMT
<1>4. 2 * (c * d) <= n * d /\ 0 - 2 * (c * d) <= n * d
  BY <1>1, <1>3, SMT DEF Near
<1>5. \A x \in Int : x * d <= n * d => x <= n
  OBVIOUS
<1>6. (2 * c) * d <= n * d /\ (0 - 2 * c) * d <= n * d
  BY <1>3, <1>4, SMT
<1>7. 2 * c <= n /\ 0 - 2 * c <= n
  BY <1>5, <1>6, SMT
<1> QED BY <1>2, <1>7, SMT DEF FRAC_64_MULTIPLIER

(* The rounding difference of n fractions is at most n/2 units.             *)
LEMMA SharesSum ==
  ASSUME NEW d \in Nat \ {0}, NEW n \in Nat \ {0},
         NEW w \in [1 .. n -> Int], NEW f \in [1 .. n -> Int],
         \A i \in 1 .. n : Rounds(f[i], w[i], d),
         SumOf(w) = 100 * d
  PROVE  /\ 2 * (SumOf(f) - FRAC_64_MULTIPLIER) <= n
         /\ 2 * (FRAC_64_MULTIPLIER - SumOf(f)) <= n
<1>g. PICK g \in [0 .. n -> Int] :
        /\ g[0] = 0 /\ \A k \in 1 .. n : g[k] = g[k - 1] + f[k]
        /\ SumOf(f) = g[n]
  BY SumRuns
<1>h. PICK h \in [0 .. n -> Int] :
         /\ h[0] = 0 /\ \A k \in 1 .. n : h[k] = h[k - 1] + w[k]
         /\ SumOf(w) = h[n]
  BY SumRuns
<1> DEFINE Follows(k) == Near(g[k] * d, Units(h[k]), k * d)
           T == {k \in Nat : k <= n => Follows(k)}
<1>1. 0 \in T
  <2>1. g[0] = 0 /\ h[0] = 0 /\ 0 * d = 0 /\ d \in Nat
    BY <1>g, <1>h
  <2>2. Follows(0)
    BY <2>1, SMT DEF Near, Units
  <2> HIDE DEF Follows
  <2> QED BY <2>2
<1>2. ASSUME NEW k \in T PROVE k + 1 \in T
  <2> HIDE DEF Follows
  <2> SUFFICES ASSUME k + 1 <= n PROVE Follows(k + 1)
    OBVIOUS
  <2>1. k \in Nat /\ k + 1 \in 1 .. n /\ k \in 0 .. n /\ (k + 1) - 1 = k /\ Follows(k)
    OBVIOUS
  <2>2. g[k + 1] = g[k] + f[k + 1] /\ h[k + 1] = h[k] + w[k + 1]
    BY <2>1, <1>g, <1>h
  <2>3. /\ g[k] \in Int /\ f[k + 1] \in Int /\ h[k] \in Int /\ w[k + 1] \in Int
        /\ Rounds(f[k + 1], w[k + 1], d)
    BY <2>1
  <2>4. Near(g[k] * d, Units(h[k]), k * d)
    BY <2>1, Zenon DEF Follows
  <2> HIDE DEF T
  <2>5. Near((g[k] + f[k + 1]) * d, Units(h[k] + w[k + 1]), (k + 1) * d)
    BY <2>1, <2>3, <2>4, NextIsNear
  <2> QED BY <2>2, <2>5, Zenon DEF Follows
<1>3. n \in T
  <2> HIDE DEF T
  <2>1. T \in SUBSET Nat
    BY DEF T
  <2> QED BY <1>1, <1>2, <2>1, Induct
<1>4. Follows(n)
  <2> HIDE DEF Follows
  <2> QED BY <1>3
<1>5. Near(SumOf(f) * d, Units(100 * d), n * d)
  BY <1>g, <1>h, <1>4, Zenon
<1>6. SumOf(f) \in Int
  BY <1>g
<1> QED BY <1>5, <1>6, WholeIsNear

(* What the tiers claim and what each model gets of the rest add up.        *)
TierWeight(n, t, k, u) == n * t + k * u

LEMMA NextWeight ==
  ASSUME NEW n \in Nat, NEW u \in Int
  PROVE  \A k \in Nat, g, t \in Int :
           TierWeight(n, g, k, u) + TierWeight(n, t, 1, u) = TierWeight(n, g + t, k + 1, u)
<1> TAKE k \in Nat, g, t \in Int
<1>1. n * (g + t) = n * g + n * t /\ n * g \in Int /\ n * t \in Int
  OBVIOUS
<1>2. (k + 1) * u = k * u + u /\ k * u \in Int /\ 1 * u = u
  OBVIOUS
<1> QED BY <1>1, <1>2 DEF TierWeight

LEMMA TierWeights ==
  ASSUME NEW n \in Nat \ {0}, NEW u \in Int,
         NEW t \in [1 .. n -> Int], NEW w \in [1 .. n -> Int],
         \A i \in 1 .. n : w[i] = TierWeight(n, t[i], 1, u)
  PROVE  SumOf(t) \in Int /\ SumOf(w) = n * SumOf(t) + n * u
<1>g. PICK g \in [0 .. n -> Int] :
        /\ g[0] = 0 /\ \A k \in 1 .. n : g[k] = g[k - 1] + t[k]
        /\ SumOf(t) = g[n]
  BY SumRuns
<1>h. PICK h \in [0 .. n -> Int] :
         /\ h[0] = 0 /\ \A k \in 1 .. n : h[k] = h[k - 1] + w[k]
         /\ SumOf(w) = h[n]
  BY SumRuns
<1>w. \A k \in Nat, x, y \in Int :
          TierWeight(n, x, k, u) + TierWeight(n, y, 1, u) = TierWeight(n, x + y, k + 1, u)
  BY NextWeight
<1> DEFINE T == {k \in Nat : k <= n => h[k] = TierWeight(n, g[k], k, u)}
<1>1. 0 \in T
  BY <1>g, <1>h DEF TierWeight
<1>2. ASSUME NEW k \in T PROVE k + 1 \in T
  <2> SUFFICES ASSUME k + 1 <= n PROVE h[k + 1] = TierWeight(n, g[k + 1], k + 1, u)
    OBVIOUS
  <2>1. k \in Nat /\ k + 1 \in 1 .. n /\ (k + 1) - 1 = k /\ h[k] = TierWeight(n, g[k], k, u)
    OBVIOUS
  <2>2. /\ g[k + 1] = g[k] + t[k + 1] /\ h[k + 1] = h[k] + w[k + 1]
        /\ w[k + 1] = TierWeight(n, t[k + 1], 1, u)
    BY <2>1, <1>g, <1>h
  <2>3. n \in Nat /\ k \in Nat /\ g[k] \in Int /\ t[k + 1] \in Int
    BY <2>1
  <2> HIDE DEF T
  <2>4. TierWeight(n, g[k], k, u) + TierWeight(n, t[k + 1], 1, u)
          = TierWeight(n, g[k] + t[k + 1], k + 1, u)
    BY <1>w, <2>3, Zenon
  <2> QED BY <2>1, <2>2, <2>4, Zenon
<1>3. n \in T
  <2> HIDE DEF T
  <2>1. T \in SUBSET Nat
    BY DEF T
  <2> QED BY <1>1, <1>2, <2>1, Induct
<1>4. g[n] \in Int /\ h[n] = TierWeight(n, g[n], n, u)
  BY <1>3
<1> QED BY <1>g, <1>h, <1>4 DEF TierWeight

(* A greater fraction is never rounded to less, and one that is a quarter of *)
(* the whole greater is rounded to almost as much more.                     *)
LEMMA FractionsInOrder ==
  ASSUME NEW n \in Nat \ {0}, NEW a \in Int, NEW b \in Int, NEW v \in Int, NEW w \in Int,
         Rounds(a, v, n), Rounds(b, w, n)
  PROVE  /\ (v > w => a >= b)
         /\ (v >= w + 25 * n => a - b >= 249999999)
<1>1. (b - a) * n = b * n - a * n /\ b * n \in Int /\ a * n \in Int
  OBVIOUS
<1>2. (b - a) * n <= n + 10000000 * (w - v)
  BY <1>1 DEF Rounds, Near, Units
<1>3. \A x \in Int : x * n < n => x < 1
  OBVIOUS
<1>4. v > w => a >= b
  BY <1>2, <1>3
<1>5. \A x \in Int : x * n <= (-249999999) * n => x <= -249999999
  OBVIOUS
<1>6. v >= w + 25 * n => a - b >= 249999999
  <2> SUFFICES ASSUME v >= w + 25 * n PROVE a - b >= 249999999
    OBVIOUS
  <2>1. (b - a) * n <= (-249999999) * n
    BY <1>2
  <2> QED BY <2>1, <1>5
<1> QED BY <1>4, <1>6

LEMMA WeightsInOrder ==
  ASSUME NEW n \in Nat \ {0}, NEW u \in Nat
  PROVE  \A s, t \in Int :
           /\ TierWeight(n, s, 1, u) \in Int /\ TierWeight(n, t, 1, u) \in Int
           /\ s > t => TierWeight(n, s, 1, u) > TierWeight(n, t, 1, u)
           /\ s >= t + 25 => TierWeight(n, s, 1, u) >= TierWeight(n, t, 1, u) + 25 * n
           /\ t >= 0 => TierWeight(n, t, 1, u) >= 0
<1> TAKE s, t \in Int
<1>1. TierWeight(n, s, 1, u) = n * s + u /\ TierWeight(n, t, 1, u) = n * t + u
  BY DEF TierWeight
<1>2. n * s \in Int /\ n * t \in Int
  OBVIOUS
<1>3. s > t => n * s > n * t
  OBVIOUS
<1>4. s >= t + 25 => n * s >= n * t + 25 * n
  <2> SUFFICES ASSUME s >= t + 25 PROVE n * s >= n * t + 25 * n
    OBVIOUS
  <2>1. n * (t + 25) = n * t + 25 * n
    OBVIOUS
  <2>2. n * s >= n * (t + 25)
    OBVIOUS
  <2> QED BY <2>1, <2>2
<1>5. t >= 0 => n * t >= 0
  OBVIOUS
<1> QED BY <1>1, <1>2, <1>3, <1>4, <1>5

LEMMA NeverNegative ==
  ASSUME NEW n \in Nat \ {0}, NEW a \in Int, NEW v \in Int, Rounds(a, v, n), v >= 0
  PROVE  a >= 0
<1>1. 2 * (10000000 * v) - 2 * (a * n) <= n /\ 2 * (10000000 * v) >= 0 /\ a * n \in Int
  BY SMT DEF Rounds, Near, Units
<1>2. 0 - 2 * (a * n) <= n
  BY <1>1, SMT
<1> QED BY <1>2

(* Whatever the first entry loses to the rounding of up to MostModels       *)
(* entries, it stays ahead.                                                 *)
MostModels == 100000000

LEMMA FirstStaysAhead ==
  ASSUME NEW n \in Nat, n <= MostModels, NEW a \in Int, NEW b \in Int, NEW s \in Int,
         2 * (s - FRAC_64_MULTIPLIER) <= n, a - b >= 249999999
  PROVE  a + FRAC_64_MULTIPLIER - s >= b
  BY SMT DEF MostModels, FRAC_64_MULTIPLIER

LEMMA TiersInOrder ==
  ASSUME NEW n \in Nat \ {0}
  PROVE  \A i, j \in 1 .. n :
           i < j => /\ TierEmission(n)[j] >= 0
                    /\ IF i = 1 THEN 2 * (TierEmission(n)[j] - TierEmission(n)[1]) <= n
                       ELSE TierEmission(n)[i] >= TierEmission(n)[j]
                    /\ n <= MostModels => TierEmission(n)[i] >= TierEmission(n)[j]
<1> DEFINE t == [i \in 1 .. n |-> Tier(i)]
           u == 100 - SumOf(t)
           w == [i \in 1 .. n |-> n * Tier(i) + u]
           f == [i \in 1 .. n |-> pct_to_frac64(n * Tier(i) + u, n)]
           a == TierEmission(n)
<1>0. n \in Nat \ {0} /\ n \in Nat
  OBVIOUS
<1>1. t \in [1 .. n -> Int]
  BY TierIs
<1>2. SumOf(t) \in 0 .. 100
  BY <1>0, TiersLeaveSome
<1>3. u \in 0 .. 100
  <2> HIDE DEF t
  <2> QED BY <1>2
<1>4. a = AdjustFirst(f)
  BY DEF TierEmission
<1>5. \A i \in 1 .. n : n * Tier(i) + u \in Int
  <2> TAKE i \in 1 .. n
  <2>1. Tier(i) \in Int
    BY TierIs
  <2> HIDE DEF u
  <2> QED BY <2>1, <1>0, <1>3
<1>6. w \in [1 .. n -> Int]
  <2> HIDE DEF u
  <2> QED BY <1>5
<1>7. f \in [1 .. n -> Int]
  <2> HIDE DEF u
  <2> QED BY <1>0, <1>5, FractionIs
<1>8. \A i \in 1 .. n : Rounds(f[i], w[i], n)
  <2> HIDE DEF u
  <2> TAKE i \in 1 .. n
  <2>1. f[i] = pct_to_frac64(w[i], n)
    OBVIOUS
  <2>2. w[i] \in Int
    BY <1>6
  <2> HIDE DEF f, w
  <2> QED BY <2>1, <2>2, <1>0, FractionBounds
<1>9. \A i \in 1 .. n : w[i] = n * t[i] + u
  <2> HIDE DEF u
  <2> QED OBVIOUS
<1> HIDE DEF a, f, w, u
<1>10. SumOf(w) = 100 * n
  <2>1. u \in Int
    BY <1>3
  <2>0. \A i \in 1 .. n : w[i] = TierWeight(n, t[i], 1, u)
    <3> TAKE i \in 1 .. n
    <3>1. w[i] = n * t[i] + u /\ 1 * u = u
      BY <1>9, <2>1
    <3> QED BY <3>1 DEF TierWeight
  <2> HIDE DEF t
  <2>2. SumOf(t) \in Int /\ SumOf(w) = n * SumOf(t) + n * u
    BY <1>1, <1>6, <2>0, <2>1, TierWeights
  <2>3. n * (100 - SumOf(t)) = 100 * n - n * SumOf(t) /\ n * SumOf(t) \in Int
    BY <2>2
  <2> QED BY <2>2, <2>3 DEF u
<1>11. /\ 2 * (SumOf(f) - FRAC_64_MULTIPLIER) <= n
       /\ 2 * (FRAC_64_MULTIPLIER - SumOf(f)) <= n
  <2> HIDE DEF t
  <2> QED BY <1>6, <1>7, <1>8, <1>10, SharesSum
<1>12. /\ SumOf(f) \in Int
       /\ a[1] = f[1] + FRAC_64_MULTIPLIER - SumOf(f)
       /\ \A i \in 2 .. n : a[i] = f[i]
  <2>1. SumOf(f) \in Int
    <3>1. PICK g \in [0 .. n -> Int] : SumOf(f) = g[n]
      BY <1>7, SumRuns
    <3> QED BY <3>1
  <2>2. DOMAIN f = 1 .. n /\ 1 \in 1 .. n /\ 2 .. n \subseteq 1 .. n \ {1}
    BY <1>0, <1>7
  <2>3. a = [i \in 1 .. n |-> IF i = 1 THEN f[1] + FRAC_64_MULTIPLIER - SumOf(f) ELSE f[i]]
    BY <1>4, <2>2 DEF AdjustFirst
  <2>4. a[1] = f[1] + FRAC_64_MULTIPLIER - SumOf(f)
    BY <2>2, <2>3
  <2>5. \A i \in 2 .. n : a[i] = f[i]
    BY <2>2, <2>3
  <2> QED BY <2>1, <2>4, <2>5
<1>13. ASSUME NEW i \in 1 .. n
       PROVE  /\ t[i] = Tier(i) /\ t[i] \in Nat /\ t[i] \in Int /\ f[i] \in Int
              /\ f[i] = pct_to_frac64(n * t[i] + u, n)
              /\ w[i] = TierWeight(n, t[i], 1, u) /\ Rounds(f[i], w[i], n)
  <2>1. t[i] = Tier(i) /\ Tier(i) \in Nat /\ t[i] \in Int
    BY TierIs
  <2>2. f[i] = pct_to_frac64(n * t[i] + u, n)
    BY <2>1 DEF f
  <2>3. w[i] = n * t[i] + u /\ 1 * u = u
    BY <1>3, <1>9
  <2>4. f[i] \in Int /\ Rounds(f[i], w[i], n)
    BY <1>7, <1>8
  <2> HIDE DEF t
  <2> QED BY <2>1, <2>2, <2>3, <2>4, Zenon DEF TierWeight
<1> HIDE DEF t
<1>w. \A x, y \in Int :
         /\ TierWeight(n, x, 1, u) \in Int /\ TierWeight(n, y, 1, u) \in Int
         /\ x > y => TierWeight(n, x, 1, u) > TierWeight(n, y, 1, u)
         /\ x >= y + 25 => TierWeight(n, x, 1, u) >= TierWeight(n, y, 1, u) + 25 * n
         /\ y >= 0 => TierWeight(n, y, 1, u) >= 0
  <2>1. u \in Nat
    BY <1>3
  <2> QED BY <1>0, <2>1, WeightsInOrder, Zenon
<1>14. ASSUME NEW j \in 2 .. n PROVE f[j] >= 0
  <2>1. /\ t[j] \in Int /\ t[j] >= 0 /\ f[j] \in Int
        /\ w[j] = TierWeight(n, t[j], 1, u) /\ Rounds(f[j], w[j], n) /\ u \in Nat
    BY <1>3, <1>13
  <2>2. w[j] \in Int /\ w[j] >= 0
    BY <1>w, <2>1
  <2> QED BY <1>0, <2>1, <2>2, NeverNegative
<1>15. ASSUME NEW i \in 1 .. n, NEW j \in 1 .. n, i < j
       PROVE  /\ f[i] >= f[j]
              /\ i = 1 => f[i] - f[j] >= 249999999
  <2>1. /\ t[i] = Tier(i) /\ t[i] \in Int /\ f[i] \in Int
        /\ f[i] = pct_to_frac64(n * t[i] + u, n)
        /\ w[i] = TierWeight(n, t[i], 1, u) /\ Rounds(f[i], w[i], n)
    BY <1>13
  <2>2. /\ t[j] = Tier(j) /\ t[j] \in Int /\ f[j] \in Int
        /\ f[j] = pct_to_frac64(n * t[j] + u, n)
        /\ w[j] = TierWeight(n, t[j], 1, u) /\ Rounds(f[j], w[j], n)
    BY <1>13
  <2>3. i \in Nat \ {0} /\ j \in Nat /\ u \in Nat
    BY <1>3
  <2>4. Tier(i) >= Tier(j) /\ Tier(j) <= 10 /\ Tier(1) = 35
    BY <1>15, <2>3, TiersFall
  <2>5. /\ w[i] \in Int /\ w[j] \in Int
        /\ t[i] > t[j] => w[i] > w[j]
        /\ t[i] >= t[j] + 25 => w[i] >= w[j] + 25 * n
    BY <1>w, <2>1, <2>2
  <2>6. /\ w[i] > w[j] => f[i] >= f[j]
        /\ w[i] >= w[j] + 25 * n => f[i] - f[j] >= 249999999
    BY <1>0, <2>1, <2>2, <2>5, FractionsInOrder
  <2>7. t[i] = t[j] => f[i] = f[j]
    BY <2>1, <2>2, Zenon
  <2>8. i = 1 => t[i] >= t[j] + 25
    BY <2>1, <2>2, <2>4
  <2>9. t[i] = t[j] \/ t[i] > t[j]
    BY <2>1, <2>2, <2>4
  <2>10. f[i] >= f[j]
    BY <2>1, <2>2, <2>5, <2>6, <2>7, <2>9
  <2> QED BY <2>5, <2>6, <2>8, <2>10
<1>16. ASSUME NEW i \in 1 .. n, NEW j \in 1 .. n, i < j
       PROVE  /\ a[j] >= 0
              /\ IF i = 1 THEN 2 * (a[j] - a[1]) <= n ELSE a[i] >= a[j]
              /\ n <= MostModels => a[i] >= a[j]
  <2>1. j \in 2 .. n /\ f[i] \in Int /\ f[j] \in Int
    BY <1>7, <1>16
  <2>2. a[j] = f[j] /\ f[j] >= 0
    BY <1>12, <1>14, <2>1
  <2>3. CASE i = 1
    <3>1. f[i] - f[j] >= 249999999
      BY <1>15, <1>16, <2>3
    <3>2. a[i] = f[i] + FRAC_64_MULTIPLIER - SumOf(f)
      BY <1>12, <2>3
    <3>3. n <= MostModels => f[i] + FRAC_64_MULTIPLIER - SumOf(f) >= f[j]
      BY <1>0, <1>11, <1>12, <2>1, <3>1, FirstStaysAhead
    <3>4. 2 * (f[j] - (f[i] + FRAC_64_MULTIPLIER - SumOf(f))) <= n
      <4> DEFINE s == SumOf(f)
                 m == FRAC_64_MULTIPLIER
      <4>1. s \in Int /\ m \in Int /\ 2 * (s - m) <= n
        BY <1>11, <1>12 DEF FRAC_64_MULTIPLIER
      <4> HIDE DEF s, m
      <4>2. 2 * (f[j] - (f[i] + m - s)) <= n
        BY <1>0, <2>1, <3>1, <4>1
      <4> QED BY <4>2 DEF s, m
    <3> QED BY <2>2, <2>3, <3>2, <3>3, <3>4
  <2>4. CASE i # 1
    <3>1. i \in 2 .. n /\ f[i] >= f[j]
      BY <2>4, <1>15, <1>16
    <3> QED BY <2>2, <2>4, <3>1, <1>12
  <2> QED BY <2>3, <2>4
<1> QED BY <1>16 DEF a

-----------------------------------------------------------------------------
(* The blend *)

(* A sequence of numbers has a least and a greatest value. *)
LEMMA Extremes ==
  ASSUME NEW n \in Nat \ {0}, NEW v \in [1 .. n -> Int]
  PROVE  /\ LeastValue(v) \in Int /\ GreatestValue(v) \in Int
         /\ \A i \in 1 .. n : LeastValue(v) <= v[i] /\ v[i] <= GreatestValue(v)
         /\ LeastValue(v) <= GreatestValue(v)
         /\ \E a, b \in 1 .. n : LeastValue(v) = v[a] /\ GreatestValue(v) = v[b]
<1> DEFINE T == {k \in Nat : k + 1 <= n =>
                   \E a, b \in 1 .. k + 1 :
                     \A i \in 1 .. k + 1 : v[a] <= v[i] /\ v[i] <= v[b]}
<1>1. 0 \in T
  OBVIOUS
<1>2. ASSUME NEW k \in T PROVE k + 1 \in T
  <2> SUFFICES ASSUME k + 2 <= n
               PROVE  \E a, b \in 1 .. k + 2 :
                        \A i \in 1 .. k + 2 : v[a] <= v[i] /\ v[i] <= v[b]
    OBVIOUS
  <2>1. k \in Nat
    OBVIOUS
  <2>2. PICK a, b \in 1 .. k + 1 : \A i \in 1 .. k + 1 : v[a] <= v[i] /\ v[i] <= v[b]
    OBVIOUS
  <2> HIDE DEF T
  <2>3. PICK c \in 1 .. k + 2 : v[c] <= v[a] /\ v[c] <= v[k + 2] /\ c \in {a, k + 2}
    BY <2>1
  <2>4. PICK d \in 1 .. k + 2 : v[d] >= v[b] /\ v[d] >= v[k + 2] /\ d \in {b, k + 2}
    BY <2>1
  <2>5. ASSUME NEW i \in 1 .. k + 2 PROVE v[c] <= v[i] /\ v[i] <= v[d]
    <3>1. v[i] \in Int /\ v[a] \in Int /\ v[b] \in Int /\ v[c] \in Int /\ v[d] \in Int
      BY <2>1
    <3>2. i \in 1 .. k + 1 \/ i = k + 2
      BY <2>1
    <3> QED BY <3>1, <3>2, <2>2, <2>3, <2>4, SMTT(30)
  <2> QED BY <2>5
<1>3. PICK a, b \in 1 .. n : \A i \in 1 .. n : v[a] <= v[i] /\ v[i] <= v[b]
  <2>1. T \in SUBSET Nat /\ n - 1 \in Nat
    OBVIOUS
  <2>2. n - 1 \in T
    <3> HIDE DEF T
    <3> QED BY <2>1, <1>1, <1>2, Induct
  <2> QED BY <2>2
<1> DEFINE S == {v[i] : i \in DOMAIN v}
<1>4. v[a] \in S /\ v[b] \in S /\ \A x \in S : v[a] <= x /\ x <= v[b] /\ x \in Int
  BY <1>3
<1> HIDE DEF S
<1>5. Min(S) \in S /\ \A x \in S : Min(S) <= x
  BY <1>4 DEF Min
<1>6. Max(S) \in S /\ \A x \in S : Max(S) >= x
  BY <1>4 DEF Max
<1>7. LeastValue(v) = Min(S) /\ GreatestValue(v) = Max(S)
  BY DEF LeastValue, GreatestValue, S
<1>8. \A i \in 1 .. n : v[i] \in S
  BY DEF S
<1>9. Min(S) \in Int /\ Max(S) \in Int
  BY <1>4, <1>5, <1>6
<1>10. \E c, d \in 1 .. n : Min(S) = v[c] /\ Max(S) = v[d]
  BY <1>5, <1>6 DEF S
<1> QED BY <1>4, <1>5, <1>6, <1>7, <1>8, <1>9, <1>10

LEMMA NormalizeIs ==
  ASSUME NEW n \in Nat \ {0}, NEW v \in [1 .. n -> Int]
  PROVE  Spread(v) \in Nat /\ Normalize(v) \in [1 .. n -> Nat]
<1>1. /\ LeastValue(v) \in Int /\ GreatestValue(v) \in Int
      /\ \A i \in 1 .. n : LeastValue(v) <= v[i]
      /\ LeastValue(v) <= GreatestValue(v)
  BY Extremes
<1>2. Len(v) = n
  BY LengthIs
<1> QED BY <1>1, <1>2 DEF Spread, Normalize

LEMMA Factorials ==
  ASSUME NEW n \in Nat
  PROVE  \E g \in [0 .. n -> Int] : g[0] = 1 /\ \A k \in 1 .. n : g[k] = k * g[k - 1]
<1>1. PICK A \in [1 .. n -> Int] : \A k \in 1 .. n : A[k] = k
  <2>1. [k \in 1 .. n |-> k] \in [1 .. n -> Int]
    OBVIOUS
  <2> QED BY <2>1
<1>2. PICK B \in [1 .. n -> Int] : \A k \in 1 .. n : B[k] = 0
  <2>1. [k \in 1 .. n |-> 0] \in [1 .. n -> Int]
    OBVIOUS
  <2> QED BY <2>1
<1>3. 1 \in Int
  OBVIOUS
<1>4. PICK g \in [0 .. n -> Int] :
        g[0] = 1 /\ \A k \in 1 .. n : g[k] = A[k] * g[k - 1] + B[k]
  BY <1>3, Recursion, ZenonT(30)
<1>5. ASSUME NEW k \in 1 .. n PROVE g[k] = k * g[k - 1]
  <2>1. k - 1 \in 0 .. n /\ k \in Int
    OBVIOUS
  <2>2. g[k - 1] \in Int /\ g[k] = A[k] * g[k - 1] + B[k]
    BY <1>4, <2>1
  <2>3. A[k] = k /\ B[k] = 0
    BY <1>1, <1>2
  <2>4. k * g[k - 1] \in Int
    BY <2>1, <2>2
  <2>5. g[k] = k * g[k - 1] + 0
    BY <2>2, <2>3
  <2> QED BY <2>4, <2>5
<1> QED BY <1>4, <1>5

LEMMA FactorialIs ==
  ASSUME NEW n \in Nat
  PROVE  \E f \in Nat \ {0} : InverseRanks(n) = [i \in 1 .. n |-> f \div i]
<1> DEFINE Eq(h) == h = [k \in 0 .. n |-> IF k = 0 THEN 1 ELSE k * h[k - 1]]
           s == CHOOSE h : Eq(h)
<1>1. PICK g \in [0 .. n -> Int] : g[0] = 1 /\ \A k \in 1 .. n : g[k] = k * g[k - 1]
  BY Factorials
<1>2. g = [k \in 0 .. n |-> IF k = 0 THEN 1 ELSE k * g[k - 1]]
  <2> HIDE DEF s, Eq
  <2>1. \A k \in 0 .. n : g[k] = IF k = 0 THEN 1 ELSE k * g[k - 1]
    BY <1>1
  <2> QED BY <2>1
<1>3. Eq(s)
  <2>1. Eq(g)
    BY <1>2
  <2> HIDE DEF Eq
  <2> QED BY <2>1
<1>4. s[n] \in Nat \ {0}
  <2>1. s = [k \in 0 .. n |-> IF k = 0 THEN 1 ELSE k * s[k - 1]]
    BY <1>3
  <2> HIDE DEF s
  <2> DEFINE T == {k \in Nat : k <= n => s[k] \in Nat \ {0}}
  <2>2. 0 \in T
    BY <2>1
  <2>3. ASSUME NEW k \in T PROVE k + 1 \in T
    <3> SUFFICES ASSUME k + 1 <= n PROVE s[k + 1] \in Nat \ {0}
      OBVIOUS
    <3>1. k \in Nat /\ s[k] \in Nat \ {0}
      OBVIOUS
    <3>2. s[k + 1] = (k + 1) * s[k]
      BY <2>1, <3>1
    <3>3. \A x, y \in Nat \ {0} : x * y \in Nat \ {0}
      OBVIOUS
    <3> QED BY <3>1, <3>2, <3>3
  <2>4. T \in SUBSET Nat
    OBVIOUS
  <2>5. n \in T
    <3> HIDE DEF T
    <3> QED BY <2>2, <2>3, <2>4, Induct
  <2> QED BY <2>5
<1>5. InverseRanks(n) = [i \in 1 .. n |-> s[n] \div i]
  BY DEF InverseRanks
<1> HIDE DEF s
<1> QED BY <1>4, <1>5

LEMMA InverseRanksAre ==
  ASSUME NEW n \in Nat
  PROVE  InverseRanks(n) \in [1 .. n -> Int]
<1>1. PICK f \in Nat \ {0} : InverseRanks(n) = [i \in 1 .. n |-> f \div i]
  BY FactorialIs
<1>2. \A i \in 1 .. n : f \div i \in Int
  OBVIOUS
<1> QED BY <1>1, <1>2

LEMMA SumOfNats ==
  ASSUME NEW n \in Nat, NEW f \in [1 .. n -> Nat]
  PROVE  /\ SumOf(f) \in Nat
         /\ \A i \in 1 .. n : f[i] <= SumOf(f)
         /\ (\A i \in 1 .. n : f[i] = 0) => SumOf(f) = 0
<1>1. f \in [1 .. n -> Int]
  OBVIOUS
<1>2. PICK g \in [0 .. n -> Int] :
        /\ g[0] = 0 /\ \A k \in 1 .. n : g[k] = g[k - 1] + f[k]
        /\ SumOf(f) = g[n]
  BY <1>1, SumRuns
<1> DEFINE Bounds(k) == /\ g[k] \in Nat /\ \A i \in 1 .. k : f[i] <= g[k]
                        /\ (\A i \in 1 .. k : f[i] = 0) => g[k] = 0
           T == {k \in Nat : k <= n => Bounds(k)}
<1>3. 0 \in T
  BY <1>2
<1>4. ASSUME NEW k \in T PROVE k + 1 \in T
  <2> SUFFICES ASSUME k + 1 <= n PROVE Bounds(k + 1)
    OBVIOUS
  <2>1. k \in Nat /\ Bounds(k)
    OBVIOUS
  <2>2. g[k + 1] = g[k] + f[k + 1] /\ f[k + 1] \in Nat
    BY <1>2, <2>1
  <2>3. \A i \in 1 .. k + 1 : f[i] \in Nat /\ (i \in 1 .. k \/ i = k + 1)
    BY <2>1
  <2>4. 1 .. k \subseteq 1 .. k + 1 /\ k + 1 \in 1 .. k + 1
    BY <2>1
  <2>5. g[k + 1] \in Nat /\ g[k] \in Nat /\ g[k] <= g[k + 1] /\ f[k + 1] <= g[k + 1]
    BY <2>1, <2>2, SMTT(30)
  <2>6. ASSUME NEW i \in 1 .. k + 1 PROVE f[i] <= g[k + 1]
    <3>1. CASE i = k + 1
      BY <3>1, <2>5
    <3>2. CASE i \in 1 .. k
      <4>1. f[i] <= g[k]
        BY <3>2, <2>1
      <4>2. f[i] \in Nat
        BY <2>3
      <4> HIDE DEF T, Bounds
      <4> QED BY <4>1, <4>2, <2>5
    <3> QED BY <2>3, <3>1, <3>2
  <2>7. ASSUME \A i \in 1 .. k + 1 : f[i] = 0 PROVE g[k + 1] = 0
    <3>1. f[k + 1] = 0 /\ g[k] = 0
      BY <2>1, <2>4, <2>7
    <3> QED BY <3>1, <2>2
  <2> QED BY <2>5, <2>6, <2>7
<1>5. T \in SUBSET Nat
  OBVIOUS
<1>6. n \in T
  <2> HIDE DEF T
  <2> QED BY <1>3, <1>4, <1>5, Induct
<1>7. Bounds(n)
  BY <1>6
<1> QED BY <1>2, <1>7

LEMMA GreaterOfTwo ==
  ASSUME NEW x \in Int, NEW y \in Int
  PROVE  Max({x, y}) \in {x, y} /\ Max({x, y}) >= x /\ Max({x, y}) >= y
<1>1. \E z \in {x, y} : \A w \in {x, y} : z >= w
  OBVIOUS
<1> QED BY <1>1 DEF Max

LEMMA DiversityIs ==
  ASSUME NEW n \in Nat, NEW cor \in [1 .. n -> Int]
  PROVE  Diversity(cor) \in [1 .. n -> Int]
  BY DEF Diversity

LEMMA CompositeIs ==
  ASSUME NEW n \in Nat \ {0}, NEW con \in [1 .. n -> Int], NEW cor \in [1 .. n -> Int]
  PROVE  Composite(con, cor) \in [1 .. n -> Nat]
<1> DEFINE r == InverseRanks(Len(con))
           d == Diversity(cor)
<1>1. r \in [1 .. n -> Int]
  <2>1. Len(con) = n
    BY LengthIs
  <2> QED BY <2>1, InverseRanksAre
<1>2. d \in [1 .. n -> Int]
  BY DiversityIs
<1> HIDE DEF r, d
<1>3. /\ Spread(r) \in Nat /\ Normalize(r) \in [1 .. n -> Nat]
      /\ Spread(d) \in Nat /\ Normalize(d) \in [1 .. n -> Nat]
      /\ Spread(con) \in Nat /\ Normalize(con) \in [1 .. n -> Nat]
  BY <1>1, <1>2, NormalizeIs
<1>4. \A a, b, c, e \in Nat : a * b * c * e \in Nat
  OBVIOUS
<1>5. RankWeight \in Nat /\ ContributionWeight \in Nat /\ DiversityWeight \in Nat
  BY EmissionAssumption
<1> DEFINE x(i) == RankWeight * Normalize(r)[i] * Spread(con) * Spread(d)
           y(i) == ContributionWeight * Normalize(con)[i] * Spread(r) * Spread(d)
           z(i) == DiversityWeight * Normalize(d)[i] * Spread(r) * Spread(con)
<1>6. \A i \in 1 .. n : x(i) \in Nat /\ y(i) \in Nat /\ z(i) \in Nat
  <2> TAKE i \in 1 .. n
  <2>1. Normalize(r)[i] \in Nat /\ Normalize(con)[i] \in Nat /\ Normalize(d)[i] \in Nat
    BY <1>3
  <2> QED BY <2>1, <1>3, <1>4, <1>5
<1> HIDE DEF x, y, z
<1>7. \A i \in 1 .. n : x(i) + y(i) + z(i) \in Nat
  <2>1. \A a, b, c \in Nat : a + b + c \in Nat
    OBVIOUS
  <2> TAKE i \in 1 .. n
  <2> QED BY <2>1, <1>6
<1>8. Composite(con, cor) = [i \in 1 .. n |-> x(i) + y(i) + z(i)]
  <2>1. DOMAIN con = 1 .. n
    OBVIOUS
  <2> QED BY <2>1, Zenon DEF Composite, x, y, z, r, d
<1> QED BY <1>7, <1>8

(* With the floor every blend has a positive total: the fractions of it that *)
(* are paid are defined.                                                    *)
LEMMA FlooredIs ==
  ASSUME NEW n \in Nat \ {0}, NEW comp \in [1 .. n -> Nat], NEW floor \in Nat
  PROVE  /\ Floored(comp, floor) \in [1 .. n -> Nat]
         /\ SumOf(Floored(comp, floor)) \in Nat \ {0}
<1> DEFINE raw == Floored(comp, floor)
<1>1. /\ SumOf(comp) \in Nat
      /\ (\A i \in 1 .. n : comp[i] = 0) => SumOf(comp) = 0
  BY SumOfNats
<1>2. floor * SumOf(comp) \in Nat
  BY <1>1
<1>3. \A i \in 1 .. n : /\ Max({floor * SumOf(comp), 100 * comp[i]}) \in Nat
                        /\ Max({floor * SumOf(comp), 100 * comp[i]}) >= 100 * comp[i]
  <2> TAKE i \in 1 .. n
  <2>1. 100 * comp[i] \in Nat
    OBVIOUS
  <2> DEFINE a == floor * SumOf(comp)
             b == 100 * comp[i]
  <2>2. a \in Nat /\ b \in Nat /\ a \in Int /\ b \in Int
    BY <1>2, <2>1
  <2> HIDE DEF a, b
  <2>3. Max({a, b}) \in {a, b} /\ Max({a, b}) >= b
    BY <2>2, GreaterOfTwo
  <2>4. Max({a, b}) \in Nat /\ Max({a, b}) >= b
    BY <2>2, <2>3
  <2> QED BY <2>4 DEF a, b
<1>4. raw \in [1 .. n -> Nat]
  BY <1>3 DEF Floored
<1>5. PICK i \in 1 .. n : raw[i] >= 100
  <2>1. CASE SumOf(comp) = 0
    BY <2>1 DEF Floored
  <2>2. CASE SumOf(comp) # 0
    <3>1. PICK i \in 1 .. n : comp[i] # 0
      BY <1>1, <2>2
    <3>2. raw[i] = Max({floor * SumOf(comp), 100 * comp[i]})
      BY <2>2 DEF Floored
    <3> QED BY <3>1, <3>2, <1>3
  <2> QED BY <2>1, <2>2
<1> HIDE DEF raw
<1>6. SumOf(raw) \in Nat /\ raw[i] <= SumOf(raw)
  BY <1>4, SumOfNats
<1>7. SumOf(raw) \in Nat \ {0}
  BY <1>4, <1>5, <1>6
<1> QED BY <1>4, <1>7 DEF raw

IsWhole(n, a) == a \in [1 .. n -> Int] /\ SumOf(a) = FRAC_64_MULTIPLIER

LEMMA BlendIsWhole ==
  ASSUME NEW n \in Nat \ {0}, NEW con \in [1 .. n -> Int], NEW cor \in [1 .. n -> Int],
         NEW floor \in Nat
  PROVE  IsWhole(n, WeightedEmission(con, cor, floor))
<1> DEFINE comp == Composite(con, cor)
           raw == Floored(comp, floor)
           fracs == [i \in 1 .. n |-> pct_to_frac64(100 * raw[i], SumOf(raw))]
<1>1. comp \in [1 .. n -> Nat]
  BY CompositeIs
<1> HIDE DEF comp
<1>2. raw \in [1 .. n -> Nat] /\ SumOf(raw) \in Nat \ {0}
  BY <1>1, FlooredIs
<1>3. WeightedEmission(con, cor, floor) = AdjustFirst(fracs)
  <2>1. DOMAIN raw = 1 .. n
    BY <1>2
  <2> QED BY <2>1, Zenon DEF WeightedEmission, comp
<1> HIDE DEF raw
<1>4. \A i \in 1 .. n : 100 * raw[i] \in Int
  BY <1>2, SMTT(30)
<1>5. \A i \in 1 .. n : pct_to_frac64(100 * raw[i], SumOf(raw)) \in Int
  BY <1>2, <1>4, FractionIs
<1>6. fracs \in [1 .. n -> Int]
  BY <1>5
<1> HIDE DEF fracs
<1> QED BY <1>3, <1>6, AdjustedIsWhole DEF IsWhole

(* A sum of multiples, and of entries that are not above a bound. *)
LEMMA SumOfMultiples ==
  ASSUME NEW n \in Nat, NEW c \in Int, NEW f \in [1 .. n -> Int], NEW w \in [1 .. n -> Int],
         \A i \in 1 .. n : w[i] = c * f[i]
  PROVE  SumOf(w) = c * SumOf(f)
<1>g. PICK g \in [0 .. n -> Int] :
        /\ g[0] = 0 /\ \A k \in 1 .. n : g[k] = g[k - 1] + f[k]
        /\ SumOf(f) = g[n]
  BY SumRuns
<1>h. PICK h \in [0 .. n -> Int] :
         /\ h[0] = 0 /\ \A k \in 1 .. n : h[k] = h[k - 1] + w[k]
         /\ SumOf(w) = h[n]
  BY SumRuns
<1> DEFINE T == {k \in Nat : k <= n => h[k] = c * g[k]}
<1>1. 0 \in T
  BY <1>g, <1>h
<1>2. ASSUME NEW k \in T PROVE k + 1 \in T
  <2> SUFFICES ASSUME k + 1 <= n PROVE h[k + 1] = c * g[k + 1]
    OBVIOUS
  <2>1. k \in Nat /\ k + 1 \in 1 .. n /\ k \in 0 .. n /\ (k + 1) - 1 = k /\ h[k] = c * g[k]
    OBVIOUS
  <2>2. g[k + 1] = g[k] + f[k + 1] /\ h[k + 1] = h[k] + w[k + 1] /\ w[k + 1] = c * f[k + 1]
    BY <2>1, <1>g, <1>h
  <2>3. g[k] \in Int /\ f[k + 1] \in Int
    BY <2>1
  <2>4. c * (g[k] + f[k + 1]) = c * g[k] + c * f[k + 1]
    BY <2>3, SMTT(30)
  <2> HIDE DEF T
  <2> QED BY <2>1, <2>2, <2>4
<1>3. n \in T
  <2> HIDE DEF T
  <2>1. T \in SUBSET Nat
    BY DEF T
  <2> QED BY <1>1, <1>2, <2>1, Induct
<1> QED BY <1>3, <1>g, <1>h

LEMMA SumIsAtMost ==
  ASSUME NEW n \in Nat, NEW b \in Int, NEW f \in [1 .. n -> Int],
         \A i \in 1 .. n : f[i] <= b
  PROVE  SumOf(f) <= n * b
<1>g. PICK g \in [0 .. n -> Int] :
        /\ g[0] = 0 /\ \A k \in 1 .. n : g[k] = g[k - 1] + f[k]
        /\ SumOf(f) = g[n]
  BY SumRuns
<1> DEFINE T == {k \in Nat : k <= n => g[k] <= k * b}
<1>1. 0 \in T
  BY <1>g
<1>2. ASSUME NEW k \in T PROVE k + 1 \in T
  <2> SUFFICES ASSUME k + 1 <= n PROVE g[k + 1] <= (k + 1) * b
    OBVIOUS
  <2>1. k \in Nat /\ k + 1 \in 1 .. n /\ k \in 0 .. n /\ (k + 1) - 1 = k /\ g[k] <= k * b
    OBVIOUS
  <2>2. g[k + 1] = g[k] + f[k + 1] /\ f[k + 1] <= b
    BY <2>1, <1>g
  <2>3. g[k] \in Int /\ f[k + 1] \in Int /\ k * b \in Int
    BY <2>1
  <2>4. (k + 1) * b = k * b + b
    BY <2>1
  <2> HIDE DEF T
  <2> QED BY <2>1, <2>2, <2>3, <2>4
<1>3. n \in T
  <2> HIDE DEF T
  <2>1. T \in SUBSET Nat
    BY DEF T
  <2> QED BY <1>1, <1>2, <2>1, Induct
<1> QED BY <1>3, <1>g

(* What is normalized lies between 0 and the spread, in the values' order    *)
(* and as far apart as they are.                                            *)
LEMMA NormalizeKeeps ==
  ASSUME NEW n \in Nat \ {0}, NEW v \in [1 .. n -> Int]
  PROVE  /\ Spread(v) >= 1
         /\ \A i \in 1 .. n : Normalize(v)[i] <= Spread(v)
         /\ \A i, j \in 1 .. n : v[i] >= v[j] => Normalize(v)[i] >= Normalize(v)[j]
         /\ \A i, j \in 1 .. n : v[i] > v[j] => Normalize(v)[i] - Normalize(v)[j] = v[i] - v[j]
<1> DEFINE low == LeastValue(v)
           high == GreatestValue(v)
<1>1. /\ low \in Int /\ high \in Int /\ low <= high
      /\ \A i \in 1 .. n : low <= v[i] /\ v[i] <= high
  BY Extremes
<1>2. Len(v) = n /\ DOMAIN v = 1 .. n
  BY LengthIs
<1>3. Spread(v) = IF high = low THEN n ELSE high - low
  BY <1>2 DEF Spread
<1>4. \A i \in 1 .. n : Normalize(v)[i] = IF high = low THEN 1 ELSE v[i] - low
  BY <1>2 DEF Normalize
<1> HIDE DEF low, high
<1>5. \A i \in 1 .. n : v[i] \in Int
  OBVIOUS
<1> QED BY <1>1, <1>3, <1>4, <1>5

LEMMA DivisionFalls ==
  ASSUME NEW f \in Nat, NEW i \in Nat \ {0}, NEW j \in Nat \ {0}, i < j
  PROVE  /\ f \div i \in Nat /\ f \div j \in Nat
         /\ f \div i >= f \div j
         /\ j * (f \div j) <= f
<1> DEFINE p == f \div i
           q == f \div j
           s == f % i
           t == f % j
<1>1. /\ f = i * p + s /\ p \in Int /\ s \in 0 .. i - 1
      /\ f = j * q + t /\ q \in Int /\ t \in 0 .. j - 1
  OBVIOUS
<1> HIDE DEF p, q, s, t
<1>2. p >= 0
  <2> SUFFICES ASSUME p <= -1 PROVE FALSE
    BY <1>1
  <2>1. i * p <= i * (-1)
    BY <1>1
  <2> QED BY <1>1, <2>1
<1>3. q >= 0
  <2> SUFFICES ASSUME q <= -1 PROVE FALSE
    BY <1>1
  <2>1. j * q <= j * (-1)
    BY <1>1
  <2> QED BY <1>1, <2>1
<1>4. j * q \in Int /\ i * q \in Int /\ i * q <= j * q
  BY <1>1, <1>3
<1>5. p >= q
  <2> SUFFICES ASSUME q >= p + 1 PROVE FALSE
    BY <1>1
  <2>1. i * q >= i * (p + 1) /\ i * (p + 1) = i * p + i /\ i * p \in Int
    BY <1>1
  <2> QED BY <1>1, <1>4, <2>1
<1> QED BY <1>1, <1>2, <1>3, <1>4, <1>5 DEF p, q

(* The first rank's component is the greatest, by half the spread at least.  *)
LEMMA RanksFall ==
  ASSUME NEW n \in Nat, n >= 2, NEW r, r = InverseRanks(n)
  PROVE  /\ r \in [1 .. n -> Int]
         /\ Normalize(r)[1] = Spread(r)
         /\ \A i, j \in 1 .. n : i < j => Normalize(r)[i] >= Normalize(r)[j]
         /\ \A j \in 2 .. n : 2 * (Normalize(r)[1] - Normalize(r)[j]) >= Spread(r)
<1>1. PICK f \in Nat \ {0} : r = [i \in 1 .. n |-> f \div i]
  BY FactorialIs
<1>2. \A i \in 1 .. n : r[i] = f \div i /\ r[i] \in Int /\ r[i] >= 0
  <2> TAKE i \in 1 .. n
  <2>1. f \div i \in Nat
    BY DivisionFalls
  <2> QED BY <1>1, <2>1
<1>3. r \in [1 .. n -> Int]
  BY <1>1, <1>2
<1>4. \A i, j \in 1 .. n : i < j => r[i] >= r[j]
  BY <1>2, DivisionFalls
<1>5. 1 \in 1 .. n /\ 2 \in 1 .. n /\ n \in Nat \ {0} /\ r[1] = f
  <2>1. f \div 1 = f
    OBVIOUS
  <2> QED BY <1>2, <2>1
<1>6. ASSUME NEW j \in 2 .. n PROVE 2 * r[j] <= f
  <2>0. 1 \in Nat \ {0} /\ j \in Nat \ {0} /\ 1 < j /\ f \in Nat /\ r[j] = f \div j
    BY <1>2
  <2>1. j * r[j] <= f
    BY <2>0, DivisionFalls
  <2>2. r[j] \in Int /\ r[j] >= 0
    BY <1>2
  <2>3. 2 * r[j] <= j * r[j] /\ j * r[j] \in Int
    BY <2>2
  <2> QED BY <2>1, <2>2, <2>3
<1>7. PICK a, b \in 1 .. n :
        /\ LeastValue(r) = r[a] /\ GreatestValue(r) = r[b]
        /\ \A i \in 1 .. n : r[a] <= r[i] /\ r[i] <= r[b]
  BY <1>3, <1>5, Extremes, SMTT(30)
<1>8. \A j \in 2 .. n : r[1] > r[j]
  BY <1>2, <1>5, <1>6
<1>9. r[b] = r[1] /\ r[a] >= 0 /\ r[a] <= r[2] /\ r[2] < r[1]
  BY <1>2, <1>5, <1>7, <1>8
<1>10. Spread(r) = f - r[a] /\ Normalize(r)[1] = f - r[a]
  BY <1>3, <1>5, <1>7, <1>9 DEF Spread, Normalize
<1>11. /\ \A i, j \in 1 .. n : r[i] >= r[j] => Normalize(r)[i] >= Normalize(r)[j]
       /\ \A i, j \in 1 .. n : r[i] > r[j] => Normalize(r)[i] - Normalize(r)[j] = r[i] - r[j]
  BY <1>3, <1>5, NormalizeKeeps
<1>12. ASSUME NEW j \in 2 .. n PROVE 2 * (Normalize(r)[1] - Normalize(r)[j]) >= Spread(r)
  <2>1. Normalize(r)[1] - Normalize(r)[j] = f - r[j]
    BY <1>5, <1>8, <1>11
  <2>2. 2 * r[j] <= f /\ r[j] \in Int /\ r[a] \in Int /\ r[a] >= 0
    BY <1>2, <1>6
  <2> QED BY <2>1, <2>2, <1>10
<1> QED BY <1>3, <1>4, <1>10, <1>11, <1>12

(* What a model's components add up to: Largest for one that is first in     *)
(* all of them, weighted 1.                                                 *)
AllWeights == RankWeight + ContributionWeight + DiversityWeight

Term(a, x, b, c) == a * x * b * c

LEMMA TermsInOrder ==
  ASSUME NEW a \in Nat, NEW b \in Nat, NEW c \in Nat
  PROVE  \A x, y \in Int :
           /\ Term(a, x, b, c) \in Int
           /\ x <= y => Term(a, x, b, c) <= Term(a, y, b, c)
           /\ x >= 0 => Term(a, x, b, c) >= 0
           /\ Term(a, 2 * (x - y), b, c) = 2 * (Term(a, x, b, c) - Term(a, y, b, c))
<1> TAKE x, y \in Int
<1>1. \A u, w \in Int, d \in Nat : u <= w => u * d <= w * d /\ u * d \in Int /\ w * d \in Int
  OBVIOUS
<1>2. a * x \in Int /\ a * y \in Int /\ (x <= y => a * x <= a * y) /\ (x >= 0 => a * x >= 0)
  OBVIOUS
<1>3. (a * x) * b \in Int /\ (a * y) * b \in Int
      /\ (x <= y => (a * x) * b <= (a * y) * b) /\ (x >= 0 => (a * x) * b >= 0)
  BY <1>1, <1>2
<1>4. ((a * x) * b) * c \in Int
      /\ (x <= y => ((a * x) * b) * c <= ((a * y) * b) * c) /\ (x >= 0 => ((a * x) * b) * c >= 0)
  BY <1>1, <1>3
<1>5. a * (2 * (x - y)) * b * c = 2 * (a * x * b * c - a * y * b * c)
  OBVIOUS
<1> QED BY <1>4, <1>5 DEF Term

LEMMA ThreeInOrder ==
  ASSUME NEW a \in Int, NEW b \in Int, NEW c \in Int,
         NEW u \in Int, NEW v \in Int, NEW w \in Int, NEW m \in Int,
         a >= u, b >= v, c >= w
  PROVE  /\ a + b + c >= u + v + w
         /\ 2 * (a - u) >= m => 2 * ((a + b + c) - (u + v + w)) >= m
  OBVIOUS

(* The composites' range, and that who is behind in rank and no better in    *)
(* the metrics is behind, far behind the first.                             *)
SpreadBy(most, comp, con, cor) ==
  /\ \A i \in DOMAIN con : comp[i] <= AllWeights * most
  /\ comp[1] >= RankWeight * most
  /\ \A i, j \in DOMAIN con :
       i < j /\ con[i] >= con[j] /\ cor[i] <= cor[j] =>
         /\ comp[i] >= comp[j]
         /\ i = 1 => 2 * (comp[i] - comp[j]) >= RankWeight * most

LEMMA CompositeSpreads ==
  ASSUME NEW n \in Nat, n >= 2, NEW con \in [1 .. n -> Int], NEW cor \in [1 .. n -> Int],
         NEW comp, comp = Composite(con, cor)
  PROVE  \E most \in Nat \ {0} : SpreadBy(most, comp, con, cor)
<1> DEFINE r == InverseRanks(Len(con))
           d == Diversity(cor)
           Nr == Normalize(r)
           Nc == Normalize(con)
           Nd == Normalize(d)
           Sr == Spread(r)
           Sc == Spread(con)
           Sd == Spread(d)
<1>0. n \in Nat \ {0} /\ 1 \in 1 .. n /\ 2 .. n \subseteq 1 .. n /\ Len(con) = n /\ r = InverseRanks(n)
  BY LengthIs
<1>1. /\ r \in [1 .. n -> Int] /\ Nr[1] = Sr
      /\ \A i, j \in 1 .. n : i < j => Nr[i] >= Nr[j]
      /\ \A j \in 2 .. n : 2 * (Nr[1] - Nr[j]) >= Sr
  <2> HIDE DEF r
  <2> QED BY <1>0, RanksFall, Zenon
<1>2. d \in [1 .. n -> Int] /\ \A i, j \in 1 .. n : cor[i] <= cor[j] => d[i] >= d[j]
  <2>1. d \in [1 .. n -> Int]
    BY DiversityIs
  <2>2. \A i \in 1 .. n : d[i] = 10 - cor[i] /\ cor[i] \in Int
    BY DEF Diversity
  <2> HIDE DEF d
  <2> QED BY <2>1, <2>2, SMTT(30)
<1> HIDE DEF r, d
<1>3. /\ Sr \in Nat /\ Sr >= 1 /\ Nr \in [1 .. n -> Nat]
      /\ \A i \in 1 .. n : Nr[i] <= Sr
  BY <1>0, <1>1, NormalizeIs, NormalizeKeeps
<1>4. /\ Sc \in Nat /\ Sc >= 1 /\ Nc \in [1 .. n -> Nat]
      /\ \A i \in 1 .. n : Nc[i] <= Sc
      /\ \A i, j \in 1 .. n : con[i] >= con[j] => Nc[i] >= Nc[j]
  BY <1>0, NormalizeIs, NormalizeKeeps
<1>5. /\ Sd \in Nat /\ Sd >= 1 /\ Nd \in [1 .. n -> Nat]
      /\ \A i \in 1 .. n : Nd[i] <= Sd
      /\ \A i, j \in 1 .. n : d[i] >= d[j] => Nd[i] >= Nd[j]
  BY <1>0, <1>2, NormalizeIs, NormalizeKeeps
<1>6. RankWeight \in Nat /\ ContributionWeight \in Nat /\ DiversityWeight \in Nat
  BY EmissionAssumption
<1> DEFINE x(i) == Term(RankWeight, Nr[i], Sc, Sd)
           y(i) == Term(ContributionWeight, Nc[i], Sr, Sd)
           z(i) == Term(DiversityWeight, Nd[i], Sr, Sc)
           most == Sr * Sc * Sd
<1>7. \A i \in 1 .. n : comp[i] = x(i) + y(i) + z(i)
  <2>1. DOMAIN con = 1 .. n
    OBVIOUS
  <2>2. comp = [i \in 1 .. n |-> x(i) + y(i) + z(i)]
    BY <2>1, Zenon DEF Composite, r, d, Term
  <2> HIDE DEF x, y, z
  <2> QED BY <2>2
<1> HIDE DEF Nr, Nc, Nd, Sr, Sc, Sd
<1>8. most \in Nat \ {0}
  <2>1. \A a, b \in Nat \ {0} : a * b \in Nat \ {0}
    OBVIOUS
  <2>2. Sr \in Nat \ {0} /\ Sc \in Nat \ {0} /\ Sd \in Nat \ {0}
    BY <1>3, <1>4, <1>5, SMTT(30)
  <2>3. Sr * Sc \in Nat \ {0}
    BY <2>1, <2>2
  <2> QED BY <2>1, <2>2, <2>3
<1>9. /\ \A u, w \in Int : /\ Term(RankWeight, u, Sc, Sd) \in Int
                           /\ u <= w => Term(RankWeight, u, Sc, Sd) <= Term(RankWeight, w, Sc, Sd)
                           /\ u >= 0 => Term(RankWeight, u, Sc, Sd) >= 0
                           /\ Term(RankWeight, 2 * (u - w), Sc, Sd)
                                = 2 * (Term(RankWeight, u, Sc, Sd) - Term(RankWeight, w, Sc, Sd))
      /\ \A u, w \in Int : /\ Term(ContributionWeight, u, Sr, Sd) \in Int
                           /\ u <= w => Term(ContributionWeight, u, Sr, Sd)
                                          <= Term(ContributionWeight, w, Sr, Sd)
                           /\ u >= 0 => Term(ContributionWeight, u, Sr, Sd) >= 0
      /\ \A u, w \in Int : /\ Term(DiversityWeight, u, Sr, Sc) \in Int
                           /\ u <= w => Term(DiversityWeight, u, Sr, Sc)
                                          <= Term(DiversityWeight, w, Sr, Sc)
                           /\ u >= 0 => Term(DiversityWeight, u, Sr, Sc) >= 0
  BY <1>3, <1>4, <1>5, <1>6, TermsInOrder, ZenonT(30)
<1>10. /\ Term(RankWeight, Sr, Sc, Sd) = RankWeight * most
       /\ Term(ContributionWeight, Sc, Sr, Sd) = ContributionWeight * most
       /\ Term(DiversityWeight, Sd, Sr, Sc) = DiversityWeight * most
       /\ RankWeight * most \in Nat /\ ContributionWeight * most \in Nat
       /\ DiversityWeight * most \in Nat
       /\ AllWeights * most = RankWeight * most + ContributionWeight * most + DiversityWeight * most
  <2>1. \A a, b, c, e \in Int : /\ a * b * c * e = a * (b * c * e)
                                /\ a * c * b * e = a * (b * c * e)
                                /\ a * e * b * c = a * (b * c * e)
    OBVIOUS
  <2>2. \A a, b \in Nat : a * b \in Nat
    OBVIOUS
  <2>3. \A a, b, c, e \in Int : (a + b + c) * e = a * e + b * e + c * e
    OBVIOUS
  <2>4. /\ Sr \in Int /\ Sc \in Int /\ Sd \in Int
        /\ RankWeight \in Int /\ ContributionWeight \in Int /\ DiversityWeight \in Int
    BY <1>3, <1>4, <1>5, <1>6
  <2>5. /\ Term(RankWeight, Sr, Sc, Sd) = RankWeight * most
        /\ Term(ContributionWeight, Sc, Sr, Sd) = ContributionWeight * most
        /\ Term(DiversityWeight, Sd, Sr, Sc) = DiversityWeight * most
    BY <2>1, <2>4 DEF Term
  <2> HIDE DEF most
  <2> QED BY <2>2, <2>3, <2>4, <2>5, <1>6, <1>8 DEF AllWeights
<1>11. ASSUME NEW i \in 1 .. n
       PROVE  /\ x(i) \in Int /\ y(i) \in Int /\ z(i) \in Int
              /\ x(i) >= 0 /\ y(i) >= 0 /\ z(i) >= 0
              /\ x(i) <= RankWeight * most
              /\ y(i) <= ContributionWeight * most
              /\ z(i) <= DiversityWeight * most
              /\ comp[i] = x(i) + y(i) + z(i)
  <2>1. /\ Nr[i] \in Int /\ Nr[i] >= 0 /\ Nr[i] <= Sr /\ Sr \in Int
        /\ Nc[i] \in Int /\ Nc[i] >= 0 /\ Nc[i] <= Sc /\ Sc \in Int
        /\ Nd[i] \in Int /\ Nd[i] >= 0 /\ Nd[i] <= Sd /\ Sd \in Int
    BY <1>3, <1>4, <1>5
  <2>2. /\ x(i) \in Int /\ x(i) >= 0 /\ x(i) <= Term(RankWeight, Sr, Sc, Sd)
        /\ y(i) \in Int /\ y(i) >= 0 /\ y(i) <= Term(ContributionWeight, Sc, Sr, Sd)
        /\ z(i) \in Int /\ z(i) >= 0 /\ z(i) <= Term(DiversityWeight, Sd, Sr, Sc)
    BY <2>1, <1>9
  <2>3. comp[i] = x(i) + y(i) + z(i)
    BY <1>7
  <2> HIDE DEF x, y, z, most
  <2> QED BY <2>2, <2>3, <1>10
<1>12. ASSUME NEW i \in 1 .. n, NEW j \in 1 .. n, i < j, con[i] >= con[j], cor[i] <= cor[j]
       PROVE  x(i) >= x(j) /\ y(i) >= y(j) /\ z(i) >= z(j)
  <2>1. Nr[j] <= Nr[i] /\ Nr[j] \in Int /\ Nr[i] \in Int
    BY <1>1, <1>3, <1>12 DEF Nr, Sr
  <2>2. Nc[j] <= Nc[i] /\ Nc[j] \in Int /\ Nc[i] \in Int
    BY <1>4, <1>12
  <2>3. Nd[j] <= Nd[i] /\ Nd[j] \in Int /\ Nd[i] \in Int
    BY <1>2, <1>5, <1>12
  <2>4. x(j) <= x(i) /\ y(j) <= y(i) /\ z(j) <= z(i)
    BY <2>1, <2>2, <2>3, <1>9
  <2>5. /\ x(i) \in Int /\ y(i) \in Int /\ z(i) \in Int
        /\ x(j) \in Int /\ y(j) \in Int /\ z(j) \in Int
    BY <1>11
  <2> HIDE DEF x, y, z
  <2> QED BY <2>4, <2>5
<1>13. x(1) = RankWeight * most
  BY <1>1, <1>10 DEF Nr, Sr
<1>14. ASSUME NEW j \in 2 .. n PROVE 2 * (x(1) - x(j)) >= RankWeight * most
  <2>1. /\ Nr[1] \in Int /\ Nr[j] \in Int /\ 2 * (Nr[1] - Nr[j]) \in Int /\ Sr \in Int
        /\ Sr <= 2 * (Nr[1] - Nr[j])
    <3>1. 1 \in 1 .. n /\ j \in 1 .. n /\ Nr \in [1 .. n -> Nat] /\ Sr \in Nat
      BY <1>0, <1>3
    <3>2. Sr <= 2 * (Nr[1] - Nr[j])
      <4>1. 2 * (Nr[1] - Nr[j]) >= Sr
        BY <1>1
      <4> QED BY <3>1, <4>1
    <3> QED BY <3>1, <3>2, SMTT(30)
  <2>2. Term(RankWeight, Sr, Sc, Sd) <= Term(RankWeight, 2 * (Nr[1] - Nr[j]), Sc, Sd)
    BY <2>1, <1>9
  <2>3. Term(RankWeight, 2 * (Nr[1] - Nr[j]), Sc, Sd) = 2 * (x(1) - x(j))
    BY <2>1, <1>9
  <2>4. x(1) \in Int /\ x(j) \in Int
    BY <1>0, <1>11
  <2> HIDE DEF x, most
  <2> QED BY <2>2, <2>3, <2>4, <1>10
<1> HIDE DEF x, y, z, most
<1>15. ASSUME NEW i \in 1 .. n PROVE comp[i] <= AllWeights * most
  <2> DEFINE p == RankWeight * most
             q == ContributionWeight * most
             s == DiversityWeight * most
             t == AllWeights * most
  <2>1. p \in Int /\ q \in Int /\ s \in Int /\ t = p + q + s
    BY <1>10
  <2>2. /\ x(i) \in Int /\ y(i) \in Int /\ z(i) \in Int
        /\ x(i) <= p /\ y(i) <= q /\ z(i) <= s /\ comp[i] = x(i) + y(i) + z(i)
    BY <1>11
  <2> HIDE DEF p, q, s, t
  <2>3. comp[i] <= t
    BY <2>1, <2>2, SMTT(30)
  <2> QED BY <2>3 DEF t
<1>16. comp[1] >= RankWeight * most
  <2>1. /\ x(1) \in Int /\ y(1) \in Int /\ z(1) \in Int /\ y(1) >= 0 /\ z(1) >= 0
        /\ comp[1] = x(1) + y(1) + z(1)
    BY <1>0, <1>11
  <2> QED BY <2>1, <1>13
<1>17. ASSUME NEW i \in 1 .. n, NEW j \in 1 .. n, i < j, con[i] >= con[j], cor[i] <= cor[j]
       PROVE  comp[i] >= comp[j] /\ (i = 1 => 2 * (comp[i] - comp[j]) >= RankWeight * most)
  <2>1. x(i) >= x(j) /\ y(i) >= y(j) /\ z(i) >= z(j)
    BY <1>12, <1>17
  <2>2. /\ x(i) \in Int /\ y(i) \in Int /\ z(i) \in Int /\ comp[i] = x(i) + y(i) + z(i)
    BY <1>11
  <2>3. /\ x(j) \in Int /\ y(j) \in Int /\ z(j) \in Int /\ comp[j] = x(j) + y(j) + z(j)
    BY <1>11
  <2>4. i = 1 => 2 * (x(i) - x(j)) >= RankWeight * most
    <3>1. j \in 2 .. n
      BY <1>17
    <3> QED BY <3>1, <1>14
  <2> DEFINE m == RankWeight * most
  <2>5. m \in Int
    BY <1>10
  <2>6. i = 1 => 2 * (x(i) - x(j)) >= m
    BY <2>4
  <2> HIDE DEF m
  <2>7. /\ x(i) + y(i) + z(i) >= x(j) + y(j) + z(j)
        /\ 2 * (x(i) - x(j)) >= m
             => 2 * ((x(i) + y(i) + z(i)) - (x(j) + y(j) + z(j))) >= m
    BY <2>1, <2>2, <2>3, <2>5, ThreeInOrder
  <2>8. comp[i] >= comp[j] /\ (i = 1 => 2 * (comp[i] - comp[j]) >= m)
    BY <2>2, <2>3, <2>6, <2>7, Zenon
  <2> QED BY <2>8 DEF m
<1>18. SpreadBy(most, comp, con, cor)
  <2>1. DOMAIN con = 1 .. n
    OBVIOUS
  <2> QED BY <2>1, <1>15, <1>16, <1>17, Zenon DEF SpreadBy
<1> QED BY <1>8, <1>18

LEMMA FloorInOrder ==
  ASSUME NEW m \in Int, NEW c \in Int, NEW e \in Int, NEW p \in Int, NEW q \in Int, NEW z \in Int,
         p >= m, p >= 100 * c, q = m \/ q = 100 * e
  PROVE  /\ c >= e => p >= q
         /\ 2 * (c - e) >= z /\ c >= z /\ m <= 50 * z => p - q >= 50 * z
  OBVIOUS

LEMMA FlooredSpreads ==
  ASSUME NEW n \in Nat, n >= 2, NEW comp \in [1 .. n -> Nat],
         NEW min \in Nat,
         NEW y \in Nat, NEW z \in Nat \ {0}, z <= y,
         \A i \in 1 .. n : comp[i] <= y, comp[1] >= z,
         min * (n * y) <= 50 * z,
         NEW raw, raw = Floored(comp, min)
  PROVE  /\ SumOf(raw) <= n * (100 * y)
         /\ \A i, j \in 1 .. n : comp[i] >= comp[j] => raw[i] >= raw[j]
         /\ \A j \in 1 .. n : 2 * (comp[1] - comp[j]) >= z => raw[1] - raw[j] >= 50 * z
<1>0. n \in Nat \ {0} /\ 1 \in 1 .. n /\ comp \in [1 .. n -> Int]
  OBVIOUS
<1>1. /\ SumOf(comp) \in Nat /\ comp[1] <= SumOf(comp) /\ SumOf(comp) <= n * y
      /\ SumOf(comp) # 0
  <2>1. SumOf(comp) \in Nat /\ comp[1] <= SumOf(comp)
    BY <1>0, SumOfNats
  <2>2. SumOf(comp) <= n * y
    <3>1. y \in Int /\ comp \in [1 .. n -> Int] /\ \A i \in 1 .. n : comp[i] <= y
      BY <1>0
    <3> QED BY <3>1, SumIsAtMost, Zenon
  <2>3. comp[1] \in Nat /\ comp[1] >= 1
    BY <1>0
  <2> QED BY <2>1, <2>2, <2>3
<1> DEFINE floor == min * SumOf(comp)
<1>3. floor \in Int /\ floor <= 50 * z
  <2>1. n * y \in Nat /\ min \in Nat
    OBVIOUS
  <2>2. \A a \in Nat, b, c \in Int : b <= c => a * b <= a * c /\ a * b \in Int /\ a * c \in Int
    OBVIOUS
  <2>3. min * SumOf(comp) <= min * (n * y) /\ min * SumOf(comp) \in Int
        /\ min * (n * y) \in Int
    BY <1>1, <2>1, <2>2
  <2> QED BY <2>3
<1>4. \A i \in 1 .. n : raw[i] = Max({floor, 100 * comp[i]})
  BY <1>1 DEF Floored
<1> HIDE DEF floor
<1>5. \A i \in 1 .. n : /\ raw[i] \in {floor, 100 * comp[i]}
                        /\ raw[i] >= floor /\ raw[i] >= 100 * comp[i]
                        /\ raw[i] \in Int /\ comp[i] \in Nat
  <2> TAKE i \in 1 .. n
  <2>1. 100 * comp[i] \in Int /\ comp[i] \in Nat
    OBVIOUS
  <2>2. /\ Max({floor, 100 * comp[i]}) \in {floor, 100 * comp[i]}
        /\ Max({floor, 100 * comp[i]}) >= floor
        /\ Max({floor, 100 * comp[i]}) >= 100 * comp[i]
    BY <1>3, <2>1, GreaterOfTwo, ZenonT(30)
  <2>3. raw[i] = Max({floor, 100 * comp[i]})
    BY <1>4
  <2> HIDE DEF floor
  <2> QED BY <1>3, <2>1, <2>2, <2>3
<1>6. \A i \in 1 .. n : raw[i] <= 100 * y
  <2> TAKE i \in 1 .. n
  <2>1. /\ raw[i] = floor \/ raw[i] = 100 * comp[i]
        /\ comp[i] \in Nat /\ comp[i] <= y /\ floor \in Int /\ floor <= 50 * z
    BY <1>3, <1>5
  <2> QED BY <2>1
<1>7. SumOf(raw) <= n * (100 * y)
  <2>1. raw \in [1 .. n -> Int] /\ 100 * y \in Int
    BY <1>5 DEF Floored
  <2> QED BY <1>6, <2>1, SumIsAtMost
<1>8. ASSUME NEW i \in 1 .. n, NEW j \in 1 .. n
       PROVE  /\ comp[i] >= comp[j] => raw[i] >= raw[j]
              /\ 2 * (comp[i] - comp[j]) >= z /\ comp[i] >= z => raw[i] - raw[j] >= 50 * z
  <2>1. /\ raw[j] = floor \/ raw[j] = 100 * comp[j]
        /\ raw[i] >= floor /\ raw[i] >= 100 * comp[i] /\ raw[i] \in Int /\ raw[j] \in Int
        /\ floor \in Int /\ floor <= 50 * z
    <3>1. raw[j] \in {floor, 100 * comp[j]}
      BY <1>5
    <3> QED BY <1>3, <1>5, <3>1, Zenon
  <2>2. z \in Int /\ comp[i] \in Int /\ comp[j] \in Int
    BY <1>0
  <2> DEFINE c == comp[i]
             e == comp[j]
             p == raw[i]
             q == raw[j]
  <2>3. /\ c \in Int /\ e \in Int /\ p \in Int /\ q \in Int
        /\ p >= floor /\ p >= 100 * c /\ (q = floor \/ q = 100 * e)
    BY <2>1, <2>2
  <2> HIDE DEF c, e, p, q
  <2>4. /\ c >= e => p >= q
        /\ 2 * (c - e) >= z /\ c >= z /\ floor <= 50 * z => p - q >= 50 * z
    BY <2>1, <2>2, <2>3, FloorInOrder, SMTT(30)
  <2> QED BY <2>1, <2>4 DEF c, e, p, q
<1>9. comp[1] >= z
  OBVIOUS
<1> QED BY <1>0, <1>1, <1>7, <1>8, <1>9, Zenon

(* What a model's share leads another's by covers what n entries may lose.   *)
LEMMA SharesApart ==
  ASSUME NEW n \in Nat, NEW d \in Nat \ {0}, NEW y \in Nat, NEW z \in Nat,
         d <= n * (100 * y), (n * (n + 2)) * y <= FRAC_64_MULTIPLIER * z,
         NEW r \in Int, NEW q \in Int, r - q >= 50 * z,
         NEW f \in Int, NEW g \in Int, Rounds(f, 100 * r, d), Rounds(g, 100 * q, d)
  PROVE  2 * (f - g) >= n
<1>1. (n + 2) * d <= 100000000000 * z
  <2>1. (n + 2) * d <= (n + 2) * (n * (100 * y))
    OBVIOUS
  <2>2. (n + 2) * (n * (100 * y)) = 100 * ((n * (n + 2)) * y)
    OBVIOUS
  <2>3. (n + 2) * d \in Int /\ (n * (n + 2)) * y \in Int
    OBVIOUS
  <2> DEFINE a == (n + 2) * d
             b == (n * (n + 2)) * y
             c == (n + 2) * (n * (100 * y))
  <2>4. a <= c /\ c = 100 * b /\ a \in Int /\ b \in Int /\ b <= 1000000000 * z
    BY <2>1, <2>2, <2>3, SMT DEF FRAC_64_MULTIPLIER
  <2> HIDE DEF a, b, c
  <2>5. a <= 100000000000 * z
    BY <2>4
  <2> QED BY <2>5 DEF a
<1>2. f * d \in Int /\ g * d \in Int /\ n * d \in Int /\ (n + 2) * d = n * d + 2 * d
  OBVIOUS
<1>3. 2 * (1000000000 * r) - 2 * (f * d) <= d /\ 2 * (g * d) - 2 * (1000000000 * q) <= d
  BY SMT DEF Rounds, Near, Units
<1>4. 2 * (f * d) - 2 * (g * d) >= n * d
  <2> DEFINE a == f * d
             b == g * d
             c == n * d
  <2>1. a \in Int /\ b \in Int /\ c \in Int /\ c + 2 * d <= 100000000000 * z
        /\ 2 * (1000000000 * r) - 2 * a <= d /\ 2 * b - 2 * (1000000000 * q) <= d
    BY <1>1, <1>2, <1>3
  <2> HIDE DEF a, b, c
  <2>2. 2 * a - 2 * b >= c
    BY <2>1
  <2> QED BY <2>2 DEF a, b, c
<1>5. (2 * (f - g)) * d = 2 * (f * d) - 2 * (g * d)
  OBVIOUS
<1>6. \A x \in Int : n * d <= x * d => n <= x
  OBVIOUS
<1>7. n * d <= (2 * (f - g)) * d
  BY <1>2, <1>4, <1>5
<1> QED BY <1>6, <1>7

LEMMA RoundsInOrder ==
  ASSUME NEW d \in Nat \ {0}, NEW r \in Int, NEW q \in Int, r >= q
  PROVE  pct_to_frac64(100 * r, d) >= pct_to_frac64(100 * q, d)
<1>1. 100 * r \in Int /\ 100 * q \in Int
  OBVIOUS
<1>2. /\ Rounds(pct_to_frac64(100 * r, d), 100 * r, d) /\ pct_to_frac64(100 * r, d) \in Int
      /\ Rounds(pct_to_frac64(100 * q, d), 100 * q, d) /\ pct_to_frac64(100 * q, d) \in Int
  BY <1>1, FractionBounds, FractionIs
<1>3. CASE r = q
  BY <1>2, <1>3
<1>4. CASE r > q
  <2>1. 100 * r > 100 * q
    BY <1>4
  <2> QED BY <1>1, <1>2, <2>1, FractionsInOrder
<1> QED BY <1>3, <1>4

(* The floor keeps the order of what it is put under. *)
LEMMA FlooredKeeps ==
  ASSUME NEW n \in Nat \ {0}, NEW comp \in [1 .. n -> Nat], NEW floor \in Nat,
         NEW raw, raw = Floored(comp, floor),
         NEW i \in 1 .. n, NEW j \in 1 .. n, comp[i] >= comp[j]
  PROVE  raw[i] >= raw[j]
<1>1. CASE SumOf(comp) = 0
  <2>1. raw[i] = 100 /\ raw[j] = 100
    BY <1>1, Zenon DEF Floored
  <2> QED BY <2>1
<1>2. CASE SumOf(comp) # 0
  <2> DEFINE a == floor * SumOf(comp)
             b == 100 * comp[i]
             c == 100 * comp[j]
  <2>1. SumOf(comp) \in Nat
    BY SumOfNats
  <2>2. a \in Int /\ b \in Int /\ c \in Int /\ b >= c
    BY <2>1
  <2>3. raw[i] = Max({a, b}) /\ raw[j] = Max({a, c})
    BY <1>2 DEF Floored
  <2> HIDE DEF a, b, c
  <2>4. /\ Max({a, b}) \in {a, b} /\ Max({a, b}) >= a /\ Max({a, b}) >= b
        /\ Max({a, c}) \in {a, c}
    BY <2>2, GreaterOfTwo, Zenon
  <2> QED BY <2>2, <2>3, <2>4
<1> QED BY <1>1, <1>2

(* The rounded shares of a blend: what they are of, their sum, and what is   *)
(* paid.                                                                    *)
SharesOf(n, raw, f, a) ==
  /\ raw \in [1 .. n -> Nat] /\ SumOf(raw) \in Nat \ {0}
  /\ f \in [1 .. n -> Int] /\ SumOf(f) \in Int
  /\ \A i \in 1 .. n : f[i] >= 0 /\ Rounds(f[i], 100 * raw[i], SumOf(raw))
  /\ \A i, j \in 1 .. n : raw[i] >= raw[j] => f[i] >= f[j]
  /\ 2 * (SumOf(f) - FRAC_64_MULTIPLIER) <= n
  /\ a[1] = f[1] + FRAC_64_MULTIPLIER - SumOf(f)
  /\ \A i \in 2 .. n : a[i] = f[i]

LEMMA BlendShares ==
  ASSUME NEW n \in Nat \ {0}, NEW con \in [1 .. n -> Int], NEW cor \in [1 .. n -> Int],
         NEW floor \in Nat, NEW raw, raw = Floored(Composite(con, cor), floor),
         NEW a, a = WeightedEmission(con, cor, floor)
  PROVE  \E f : SharesOf(n, raw, f, a)
<1>a. PICK comp : comp = Composite(con, cor)
  OBVIOUS
<1>b. raw = Floored(comp, floor)
  BY <1>a
<1> DEFINE d == SumOf(raw)
           f == [i \in 1 .. n |-> pct_to_frac64(100 * raw[i], d)]
           w == [i \in 1 .. n |-> 100 * raw[i]]
<1>0. 1 \in 1 .. n /\ 2 .. n \subseteq 1 .. n
  OBVIOUS
<1>1. comp \in [1 .. n -> Nat]
  BY <1>a, CompositeIs
<1>4. raw \in [1 .. n -> Nat] /\ d \in Nat \ {0}
  <2>1. /\ Floored(comp, floor) \in [1 .. n -> Nat]
        /\ SumOf(Floored(comp, floor)) \in Nat \ {0}
    BY <1>1, FlooredIs, Zenon
  <2> QED BY <1>b, <2>1, Zenon
<1>6. a = AdjustFirst(f)
  <2>1. DOMAIN raw = 1 .. n
    BY <1>4
  <2> QED BY <1>a, <1>b, <2>1, Zenon DEF WeightedEmission
<1> HIDE DEF d
<1>7. \A i \in 1 .. n : /\ 100 * raw[i] \in Int /\ raw[i] \in Nat
                        /\ f[i] = pct_to_frac64(100 * raw[i], d)
                        /\ f[i] \in Int /\ Rounds(f[i], 100 * raw[i], d)
  <2> TAKE i \in 1 .. n
  <2>1. 100 * raw[i] \in Int /\ raw[i] \in Nat
    BY <1>4
  <2>2. f[i] = pct_to_frac64(100 * raw[i], d)
    OBVIOUS
  <2> HIDE DEF f
  <2> QED BY <1>4, <2>1, <2>2, FractionIs, FractionBounds
<1>8. f \in [1 .. n -> Int] /\ w \in [1 .. n -> Int] /\ raw \in [1 .. n -> Int]
      /\ \A i \in 1 .. n : w[i] = 100 * raw[i]
  BY <1>4, <1>7, SMTT(30)
<1> HIDE DEF f, w
<1>9. 2 * (SumOf(f) - FRAC_64_MULTIPLIER) <= n
  <2>1. SumOf(w) = 100 * d
    <3>1. SumOf(w) = 100 * SumOf(raw)
      <4>1. PICK c \in Int : c = 100
        OBVIOUS
      <4>2. SumOf(w) = c * SumOf(raw)
        <5>1. \A i \in 1 .. n : w[i] = c * raw[i]
          BY <4>1, <1>8, Zenon
        <5>2. w \in [1 .. n -> Int] /\ raw \in [1 .. n -> Int]
          BY <1>8
        <5> QED BY <5>1, <5>2, SumOfMultiples, ZenonT(30)
      <4> QED BY <4>1, <4>2, Zenon
    <3> QED BY <3>1 DEF d
  <2>2. \A i \in 1 .. n : Rounds(f[i], w[i], d)
    BY <1>7, <1>8
  <2> QED BY <1>0, <1>4, <1>8, <2>1, <2>2, SharesSum
<1>10. /\ SumOf(f) \in Int
       /\ a[1] = f[1] + FRAC_64_MULTIPLIER - SumOf(f)
       /\ \A i \in 2 .. n : a[i] = f[i]
  <2>1. SumOf(f) \in Int
    <3>1. PICK g \in [0 .. n -> Int] :
            /\ g[0] = 0 /\ \A k \in 1 .. n : g[k] = g[k - 1] + f[k]
            /\ SumOf(f) = g[n]
      BY <1>8, SumRuns
    <3> QED BY <3>1
  <2>2. DOMAIN f = 1 .. n
    BY <1>8
  <2>3. a = [i \in 1 .. n |-> IF i = 1 THEN f[1] + FRAC_64_MULTIPLIER - SumOf(f) ELSE f[i]]
    BY <1>6, <2>2 DEF AdjustFirst
  <2>4. \A i \in 2 .. n : i \in 1 .. n /\ i # 1
    OBVIOUS
  <2> QED BY <1>0, <2>1, <2>3, <2>4
<1>11. ASSUME NEW j \in 1 .. n PROVE f[j] >= 0
  <2>1. 100 * raw[j] >= 0
    BY <1>7
  <2> QED BY <1>4, <1>7, <2>1, NeverNegative
<1>12. ASSUME NEW i \in 1 .. n, NEW j \in 1 .. n, raw[i] >= raw[j] PROVE f[i] >= f[j]
  <2>1. pct_to_frac64(100 * raw[i], d) >= pct_to_frac64(100 * raw[j], d)
    <3>1. raw[i] \in Int /\ raw[j] \in Int
      BY <1>8
    <3> QED BY <1>4, <1>12, <3>1, RoundsInOrder
  <2> QED BY <1>7, <2>1
<1>13. SharesOf(n, raw, f, a)
  <2>1. \A i \in 1 .. n : f[i] >= 0 /\ Rounds(f[i], 100 * raw[i], SumOf(raw))
    BY <1>7, <1>11 DEF d
  <2>2. \A i, j \in 1 .. n : raw[i] >= raw[j] => f[i] >= f[j]
    BY <1>12
  <2>3. SumOf(raw) \in Nat \ {0}
    BY <1>4 DEF d
  <2> QED BY <1>4, <1>8, <1>9, <1>10, <2>1, <2>2, <2>3, Zenon DEF SharesOf
<1> QED BY <1>13

(* Whatever the floor, the ranks' order survives, but for what the first     *)
(* model bears of the rounding.                                             *)
KeepsUpToRounding(n, a, con, cor) ==
  \A i, j \in 1 .. n :
    i < j /\ con[i] >= con[j] /\ cor[i] <= cor[j]
      => /\ a[j] >= 0
         /\ IF i = 1 THEN 2 * (a[j] - a[1]) <= n ELSE a[i] >= a[j]

LEMMA BlendUpToRounding ==
  ASSUME NEW n \in Nat, n >= 2, NEW con \in [1 .. n -> Int], NEW cor \in [1 .. n -> Int],
         NEW floor \in Nat, NEW a, a = WeightedEmission(con, cor, floor)
  PROVE  KeepsUpToRounding(n, a, con, cor)
<1>a. PICK comp : comp = Composite(con, cor)
  OBVIOUS
<1>b. PICK raw : raw = Floored(comp, floor)
  OBVIOUS
<1>0. n \in Nat \ {0} /\ 1 \in 1 .. n
  OBVIOUS
<1>1. comp \in [1 .. n -> Nat]
  BY <1>a, <1>0, CompositeIs
<1>2. \A i, j \in 1 .. n : i < j /\ con[i] >= con[j] /\ cor[i] <= cor[j] => comp[i] >= comp[j]
  <2>1. PICK most \in Nat \ {0} : SpreadBy(most, comp, con, cor)
    BY <1>a, CompositeSpreads
  <2>2. DOMAIN con = 1 .. n
    OBVIOUS
  <2> QED BY <2>1, <2>2, Zenon DEF SpreadBy
<1>3. PICK f : SharesOf(n, raw, f, a)
  <2>1. raw = Floored(Composite(con, cor), floor)
    BY <1>a, <1>b
  <2> QED BY <1>0, <2>1, BlendShares
<1>4. ASSUME NEW i \in 1 .. n, NEW j \in 1 .. n, i < j, con[i] >= con[j], cor[i] <= cor[j]
       PROVE  a[j] >= 0 /\ IF i = 1 THEN 2 * (a[j] - a[1]) <= n ELSE a[i] >= a[j]
  <2>1. f[i] >= f[j]
    <3>1. raw[i] >= raw[j]
      BY <1>0, <1>1, <1>2, <1>4, <1>b, FlooredKeeps, Zenon
    <3> QED BY <1>3, <3>1, Zenon DEF SharesOf
  <2>2. j \in 2 .. n /\ (i # 1 => i \in 2 .. n)
    BY <1>4
  <2>3. /\ f[i] \in Int /\ f[j] \in Int /\ f[j] >= 0 /\ a[j] = f[j] /\ SumOf(f) \in Int
        /\ i # 1 => a[i] = f[i]
        /\ 2 * (SumOf(f) - FRAC_64_MULTIPLIER) <= n
        /\ a[1] = f[1] + FRAC_64_MULTIPLIER - SumOf(f)
    BY <1>3, <2>2 DEF SharesOf
  <2>4. i = 1 => 2 * (a[j] - a[1]) <= n
    <3> SUFFICES ASSUME i = 1 PROVE 2 * (a[j] - a[1]) <= n
      OBVIOUS
    <3> DEFINE s == SumOf(f)
    <3>1. FRAC_64_MULTIPLIER \in Int
      BY DEF FRAC_64_MULTIPLIER
    <3>2. /\ s \in Int /\ f[1] \in Int /\ f[1] >= a[j] /\ a[j] \in Int
          /\ 2 * (s - FRAC_64_MULTIPLIER) <= n /\ a[1] = f[1] + FRAC_64_MULTIPLIER - s
      BY <2>1, <2>3
    <3> HIDE DEF s
    <3> QED BY <3>1, <3>2
  <2> QED BY <2>1, <2>3, <2>4
<1> QED BY <1>4, Zenon DEF KeepsUpToRounding

(* The first model's lead covers the rounding of n models, and the floor does *)
(* not reach it.                                                            *)
BlendKeepsApart(n, floor) ==
  /\ RankWeight > 0
  /\ (floor * n) * AllWeights <= 50 * RankWeight
  /\ (n * (n + 2)) * AllWeights <= FRAC_64_MULTIPLIER * RankWeight

LEMMA BlendLeads ==
  ASSUME NEW n \in Nat, n >= 2, NEW floor \in Nat, BlendKeepsApart(n, floor),
         NEW con \in [1 .. n -> Int], NEW cor \in [1 .. n -> Int],
         NEW a, a = WeightedEmission(con, cor, floor),
         NEW j \in 2 .. n, con[1] >= con[j], cor[1] <= cor[j]
  PROVE  a[1] >= a[j]
<1>a. PICK comp : comp = Composite(con, cor)
  OBVIOUS
<1>b. PICK raw : raw = Floored(comp, floor)
  OBVIOUS
<1> DEFINE d == SumOf(raw)
<1>0. n \in Nat \ {0} /\ 1 \in 1 .. n /\ 2 .. n \subseteq 1 .. n
  OBVIOUS
<1>1. comp \in [1 .. n -> Nat]
  BY <1>a, <1>0, CompositeIs
<1>2. PICK most \in Nat \ {0} :
        /\ \A i \in 1 .. n : comp[i] <= AllWeights * most
        /\ comp[1] >= RankWeight * most
        /\ 2 * (comp[1] - comp[j]) >= RankWeight * most
  <2>1. \E most \in Nat \ {0} : SpreadBy(most, comp, con, cor)
    BY <1>a, CompositeSpreads
  <2>2. DOMAIN con = 1 .. n
    OBVIOUS
  <2>3. j \in 1 .. n /\ 1 < j
    OBVIOUS
  <2> QED BY <1>0, <2>1, <2>2, <2>3, Zenon DEF SpreadBy
<1> DEFINE y == AllWeights * most
           z == RankWeight * most
<1>3. /\ y \in Nat /\ z \in Nat \ {0} /\ z <= y
      /\ floor * (n * y) <= 50 * z
      /\ (n * (n + 2)) * y <= FRAC_64_MULTIPLIER * z
  <2>1. /\ RankWeight \in Nat \ {0} /\ AllWeights \in Nat /\ RankWeight <= AllWeights
        
    BY EmissionAssumption DEF AllWeights, BlendKeepsApart
  <2>2. \A u, v, k \in Nat : u <= v => u * k <= v * k
    OBVIOUS
  <2>3. \A u, v \in Nat : u * v \in Nat /\ (u # 0 /\ v # 0 => u * v # 0)
    OBVIOUS
  <2>4. \A u, v, k, l \in Nat : (u * v) * (k * l) = ((u * v) * k) * l /\ u * (v * (k * l)) = ((u * v) * k) * l
    OBVIOUS
  <2>5. \A u, v, k \in Nat : u * (v * k) = (u * v) * k
    OBVIOUS
  <2>6. y \in Nat /\ z \in Nat \ {0} /\ z <= y
    BY <2>1, <2>2, <2>3
  <2>7. floor * (n * y) <= 50 * z
    <3>1. (floor * n) * AllWeights \in Nat /\ 50 * RankWeight \in Nat
      BY <2>1, <2>3
    <3>2. ((floor * n) * AllWeights) * most <= (50 * RankWeight) * most
      BY <2>2, <3>1 DEF BlendKeepsApart
    <3>3. floor * (n * y) = ((floor * n) * AllWeights) * most
      BY <2>1, <2>4
    <3>4. 50 * z = (50 * RankWeight) * most
      BY <2>1, <2>5
    <3> QED BY <3>2, <3>3, <3>4, Zenon
  <2>8. (n * (n + 2)) * y <= FRAC_64_MULTIPLIER * z
    <3>0. FRAC_64_MULTIPLIER \in Nat
      BY SMT DEF FRAC_64_MULTIPLIER
    <3>1. n * (n + 2) \in Nat /\ (n * (n + 2)) * AllWeights \in Nat
          /\ FRAC_64_MULTIPLIER * RankWeight \in Nat
      BY <2>1, <2>3, <3>0
    <3>2. ((n * (n + 2)) * AllWeights) * most <= (FRAC_64_MULTIPLIER * RankWeight) * most
      BY <2>2, <3>1 DEF BlendKeepsApart
    <3>3. (n * (n + 2)) * y = ((n * (n + 2)) * AllWeights) * most
      BY <2>1, <2>5, <3>1
    <3>4. FRAC_64_MULTIPLIER * z = (FRAC_64_MULTIPLIER * RankWeight) * most
      BY <2>1, <2>5, <3>0
    <3> QED BY <3>2, <3>3, <3>4, Zenon
  <2> QED BY <2>6, <2>7, <2>8
<1> HIDE DEF y, z
<1>4. PICK f : SharesOf(n, raw, f, a)
  <2>1. raw = Floored(Composite(con, cor), floor)
    BY <1>a, <1>b
  <2> QED BY <1>0, <2>1, BlendShares
<1>5. d <= n * (100 * y) /\ raw[1] - raw[j] >= 50 * z
  <2>1. (\A i \in 1 .. n : comp[i] <= y) /\ comp[1] >= z /\ 2 * (comp[1] - comp[j]) >= z
    BY <1>2 DEF y, z
  <2>2. j \in 1 .. n
    OBVIOUS
  <2> QED BY <1>b, <1>1, <1>3, <2>1, <2>2, FlooredSpreads, ZenonT(30)
<1> HIDE DEF d
<1>6. /\ raw[1] \in Int /\ raw[j] \in Int /\ f[1] \in Int /\ f[j] \in Int
      /\ d \in Nat \ {0} /\ Rounds(f[1], 100 * raw[1], d) /\ Rounds(f[j], 100 * raw[j], d)
  <2>1. /\ raw \in [1 .. n -> Nat] /\ f \in [1 .. n -> Int] /\ d \in Nat \ {0}
        /\ \A i \in 1 .. n : Rounds(f[i], 100 * raw[i], d)
    BY <1>4, Zenon DEF SharesOf, d
  <2>2. j \in 1 .. n
    OBVIOUS
  <2> QED BY <1>0, <2>1, <2>2
<1>7. 2 * (f[1] - f[j]) >= n
  <2>1. y \in Nat /\ z \in Nat
    BY <1>3
  <2> QED BY <1>3, <1>5, <1>6, <2>1, SharesApart
<1>8. f[1] + FRAC_64_MULTIPLIER - SumOf(f) >= f[j]
  <2> DEFINE s == SumOf(f)
             m == FRAC_64_MULTIPLIER
             p == f[1]
             q == f[j]
  <2>1. m \in Int
    BY DEF FRAC_64_MULTIPLIER
  <2>2. /\ s \in Int /\ p \in Int /\ q \in Int
        /\ 2 * (s - m) <= n /\ 2 * (p - q) >= n
    BY <1>4, <1>6, <1>7 DEF SharesOf
  <2> HIDE DEF s, m, p, q
  <2>3. p + m - s >= q
    BY <2>1, <2>2
  <2> QED BY <2>3 DEF s, m, p, q
<1> QED BY <1>4, <1>8 DEF SharesOf

-----------------------------------------------------------------------------
(* The emission *)

(* The models of an emission have a contribution and a correlation each; no *)
(* blend is of no model.                                                    *)
Ranked ==
  \E n \in Nat :
    /\ contribution \in [1 .. n -> Int]
    /\ correlation \in [1 .. n -> Int]
    /\ strategy \in {"tiers", "blend"} /\ (strategy = "blend" => n # 0)
    /\ min_pct \in Nat

EmissionInv == Ranked /\ SumIsWhole

LEMMA NobodyIsPaid == TierEmission(0) = << >>
  BY DEF TierEmission, AdjustFirst

LEMMA EmissionInitInv == EmissionInit => EmissionInv
<1> SUFFICES ASSUME EmissionInit PROVE EmissionInv
  OBVIOUS
<1>1. SumIsWhole
  BY DEF EmissionInit, SumIsWhole
<1>2. CASE /\ strategy = "tiers"
           /\ \E n \in DefaultSizes : /\ contribution = [i \in 1 .. n |-> 0]
                                      /\ correlation = [i \in 1 .. n |-> 0]
           /\ min_pct = 0
  <2>1. PICK n \in DefaultSizes : /\ contribution = [i \in 1 .. n |-> 0]
                                  /\ correlation = [i \in 1 .. n |-> 0]
    BY <1>2
  <2>2. n \in Nat /\ [i \in 1 .. n |-> 0] \in [1 .. n -> Int]
    BY EmissionAssumption
  <2>3. Ranked
    BY <1>2, <2>1, <2>2, Zenon DEF Ranked
  <2> QED BY <1>1, <2>3 DEF EmissionInv
<1>3. CASE /\ strategy = "blend"
           /\ \E b \in Blends : /\ contribution = b.contribution
                                /\ correlation = b.correlation
                                /\ min_pct = b.min_pct
  <2>1. PICK b \in Blends : /\ contribution = b.contribution
                            /\ correlation = b.correlation
                            /\ min_pct = b.min_pct
    BY <1>3
  <2>2. /\ contribution \in Seq(Int) /\ Len(contribution) # 0
        /\ correlation \in [DOMAIN contribution -> Int] /\ min_pct \in Nat
    BY <2>1, EmissionAssumption
  <2>3. PICK n \in Nat : n = Len(contribution)
    BY <2>2
  <2>4. /\ n # 0 /\ contribution \in [1 .. n -> Int] /\ correlation \in [1 .. n -> Int]
    BY <2>2, <2>3
  <2>5. Ranked
    BY <1>3, <2>2, <2>4, Zenon DEF Ranked
  <2> QED BY <1>1, <2>5 DEF EmissionInv
<1> QED BY <1>2, <1>3 DEF EmissionInit

LEMMA EmissionNextInv == EmissionInv /\ [EmissionNext]_emissionVars => EmissionInv'
<1> SUFFICES ASSUME EmissionInv, [EmissionNext]_emissionVars PROVE EmissionInv'
  OBVIOUS
<1>1. CASE UNCHANGED emissionVars
  BY <1>1 DEF EmissionInv, Ranked, SumIsWhole, emissionVars
<1>2. CASE BuildEmission
  <2>1. PICK n \in Nat : /\ contribution \in [1 .. n -> Int]
                         /\ correlation \in [1 .. n -> Int]
                         /\ strategy \in {"tiers", "blend"}
                         /\ (strategy = "blend" => n # 0) /\ min_pct \in Nat
    BY DEF EmissionInv, Ranked
  <2>2. UNCHANGED <<strategy, contribution, correlation, min_pct>>
    BY <1>2 DEF BuildEmission
  <2>3. Ranked'
    BY <2>1, <2>2 DEF Ranked
  <2>4. CASE n = 0
    <3>1. Len(contribution) = 0
      BY <2>1, <2>4, LengthIs
    <3>2. rewards' = << >>
      BY <1>2, <2>1, <2>4, <3>1, NobodyIsPaid DEF BuildEmission
    <3> QED BY <2>3, <3>2 DEF EmissionInv, SumIsWhole
  <2>5. CASE n # 0
    <3>1. Len(contribution) = n
      BY <2>1, LengthIs
    <3>2. SumOf(TierEmission(n)) = FRAC_64_MULTIPLIER
      BY <2>5, TiersAreWhole
    <3>3. SumOf(WeightedEmission(contribution, correlation, min_pct)) = FRAC_64_MULTIPLIER
      <4>1. n \in Nat \ {0}
        BY <2>5
      <4>2. IsWhole(n, WeightedEmission(contribution, correlation, min_pct))
        BY <2>1, <4>1, BlendIsWhole
      <4> QED BY <4>2 DEF IsWhole
    <3>4. SumOf(rewards') = FRAC_64_MULTIPLIER
      BY <1>2, <3>1, <3>2, <3>3 DEF BuildEmission
    <3>5. SumIsWhole'
      BY <3>4 DEF SumIsWhole, FRAC_64_MULTIPLIER, SumOf
    <3> QED BY <2>3, <3>5 DEF EmissionInv
  <2> QED BY <2>4, <2>5
<1> QED BY <1>1, <1>2 DEF EmissionNext

(* crunch_config.py:501, :631: whatever the ranked models, their metrics and *)
(* the weights are, the rewards of an emission are exactly the whole: the    *)
(* rounding differences of all the entries go to the first one.              *)
THEOREM EmissionSpecSumIsWhole == EmissionSpec => []SumIsWhole
<1>1. EmissionInv => SumIsWhole
  BY DEF EmissionInv
<1> QED BY EmissionInitInv, EmissionNextInv, <1>1, PTL DEF EmissionSpec

(* What is paid is what the strategy makes of the ranked models. *)
Paid ==
  rewards = << >> \/ rewards = IF strategy = "tiers" THEN TierEmission(Len(contribution))
                               ELSE WeightedEmission(contribution, correlation, min_pct)

OrderInv == EmissionInv /\ Paid

LEMMA OrderInitInv == EmissionInit => OrderInv
<1> SUFFICES ASSUME EmissionInit PROVE OrderInv
  OBVIOUS
<1>1. EmissionInv
  BY EmissionInitInv
<1> QED BY <1>1 DEF OrderInv, Paid, EmissionInit

LEMMA OrderNextInv == OrderInv /\ [EmissionNext]_emissionVars => OrderInv'
<1> SUFFICES ASSUME OrderInv, [EmissionNext]_emissionVars PROVE OrderInv'
  OBVIOUS
<1>1. EmissionInv'
  BY EmissionNextInv DEF OrderInv
<1>2. Paid'
  <2>1. CASE UNCHANGED emissionVars
    BY <2>1 DEF OrderInv, Paid, emissionVars
  <2>2. CASE BuildEmission
    BY <2>2 DEF Paid, BuildEmission
  <2> QED BY <2>1, <2>2 DEF EmissionNext
<1> QED BY <1>1, <1>2 DEF OrderInv

(* The rounding of all the shares stays below what the first model leads by. *)
LeadCoversRounding ==
  IF strategy = "tiers" THEN Len(rewards) <= MostModels
  ELSE BlendKeepsApart(Len(rewards), min_pct)

(* The first one keeps its place too. *)
FirstInOrder ==
  \A j \in DOMAIN rewards :
    (1 < j /\ contribution[1] >= contribution[j] /\ correlation[1] <= correlation[j])
      => rewards[1] >= rewards[j]

LEMMA OrderIsKept == OrderInv => ShareOrderKept /\ (LeadCoversRounding => FirstInOrder)
<1> SUFFICES ASSUME OrderInv PROVE ShareOrderKept /\ (LeadCoversRounding => FirstInOrder)
  OBVIOUS
<1>1. CASE rewards = << >>
  BY <1>1 DEF ShareOrderKept, FirstInOrder
<1>2. PICK n \in Nat : /\ contribution \in [1 .. n -> Int]
                       /\ correlation \in [1 .. n -> Int]
                       /\ strategy \in {"tiers", "blend"}
                       /\ (strategy = "blend" => n # 0) /\ min_pct \in Nat
  BY DEF OrderInv, EmissionInv, Ranked
<1>3. Len(contribution) = n
  BY <1>2, LengthIs
<1>4. CASE rewards # << >> /\ strategy = "tiers"
  <2>1. rewards = TierEmission(n) /\ n # 0
    BY <1>3, <1>4, NobodyIsPaid DEF OrderInv, Paid
  <2>2. rewards \in [1 .. n -> Int]
    BY <2>1, TiersAreWhole
  <2>3. Len(rewards) = n /\ DOMAIN rewards = 1 .. n
    BY <2>2, LengthIs
  <2>4. \A i, j \in 1 .. n :
          i < j => /\ rewards[j] >= 0
                   /\ IF i = 1 THEN 2 * (rewards[j] - rewards[1]) <= n
                      ELSE rewards[i] >= rewards[j]
                   /\ n <= MostModels => rewards[i] >= rewards[j]
    BY <2>1, TiersInOrder
  <2>5. ShareOrderKept
    BY <2>3, <2>4 DEF ShareOrderKept
  <2>6. ASSUME LeadCoversRounding PROVE FirstInOrder
    <3>1. n <= MostModels /\ 1 \in 1 .. n
      BY <1>4, <2>1, <2>3, <2>6 DEF LeadCoversRounding
    <3> QED BY <2>3, <2>4, <3>1 DEF FirstInOrder
  <2> QED BY <2>5, <2>6
<1>5. CASE rewards # << >> /\ strategy = "blend"
  <2>1. rewards = WeightedEmission(contribution, correlation, min_pct) /\ n # 0
    BY <1>2, <1>5 DEF OrderInv, Paid
  <2>2. rewards \in [1 .. n -> Int]
    <3>1. IsWhole(n, rewards)
      BY <1>2, <2>1, BlendIsWhole
    <3> QED BY <3>1 DEF IsWhole
  <2>3. Len(rewards) = n /\ DOMAIN rewards = 1 .. n
    BY <2>2, LengthIs
  <2>4. CASE n = 1
    BY <2>3, <2>4 DEF ShareOrderKept, FirstInOrder
  <2>5. CASE n >= 2
    <3>1. KeepsUpToRounding(n, rewards, contribution, correlation)
      BY <1>2, <2>1, <2>5, BlendUpToRounding
    <3>2. ShareOrderKept
      BY <2>3, <3>1 DEF ShareOrderKept, KeepsUpToRounding
    <3>3. ASSUME LeadCoversRounding PROVE FirstInOrder
      <4>1. BlendKeepsApart(n, min_pct)
        BY <1>5, <2>3, <3>3 DEF LeadCoversRounding
      <4>2. \A j \in 2 .. n : contribution[1] >= contribution[j] /\ correlation[1] <= correlation[j]
                               => rewards[1] >= rewards[j]
        BY <1>2, <2>1, <2>5, <4>1, BlendLeads
      <4> QED BY <2>3, <4>2 DEF FirstInOrder
    <3> QED BY <3>2, <3>3
  <2> QED BY <2>1, <2>4, <2>5
<1> QED BY <1>1, <1>2, <1>4, <1>5

(* crunch_config.py:498, :526, emission_strategies.py:105, :115: a model      *)
(* ranked ahead of another that contributes no less and is no more           *)
(* correlated never earns less, and nobody behind the first earns less than   *)
(* nothing, whatever the number of models, the metrics, the weights and the   *)
(* floor; the first one, which bears the rounding, falls behind such a model  *)
(* by at most half a unit for every one that is ranked.                      *)
THEOREM EmissionSpecKeepsOrder == EmissionSpec => []ShareOrderKept
<1>1. OrderInv => ShareOrderKept
  BY OrderIsKept
<1> QED BY OrderInitInv, OrderNextInv, <1>1, PTL DEF EmissionSpec

(* crunch_config.py:529, emission_strategies.py:115: and it does not fall     *)
(* behind at all under the tiers for any number of models up to MostModels    *)
(* (with five times as many the rounding may exceed the 25 % it is ahead),    *)
(* and under the blend as long as the rank's weight lifts it above the floor  *)
(* by more than the rounding of all (BlendKeepsApart: with the code's weights *)
(* and floor, up to 25 models).                                              *)
THEOREM EmissionSpecFirstInOrder == EmissionSpec => [](LeadCoversRounding => FirstInOrder)
<1>1. OrderInv => (LeadCoversRounding => FirstInOrder)
  BY OrderIsKept
<1> QED BY OrderInitInv, OrderNextInv, <1>1, PTL DEF EmissionSpec

-----------------------------------------------------------------------------
(* Sums over a set are taken element by element. *)

Pick(T) == CHOOSE x \in T : TRUE
Rest(T) == T \ {Pick(T)}

(* g has the sums over the subsets of S. *)
Sums(g, S, f) ==
  /\ g[{}] = Whole(0)
  /\ \A T \in SUBSET S : T # {} => g[T] = Plus(g[Rest(T)], f[Pick(T)])

LEMMA PickIs ==
  ASSUME NEW T, IsFiniteSet(T), T # {}
  PROVE  /\ Pick(T) \in T /\ Rest(T) \subseteq T /\ IsFiniteSet(Rest(T))
         /\ Cardinality(T) \in Nat \ {0} /\ Cardinality(Rest(T)) = Cardinality(T) - 1
<1>1. Pick(T) \in T
  BY DEF Pick
<1>2. IsFiniteSet(Rest(T)) /\ Cardinality(Rest(T)) = Cardinality(T) - 1
  BY <1>1, FS_RemoveElement DEF Rest
<1>3. Cardinality(T) \in Nat /\ Cardinality(T) # 0
  BY FS_CardinalityType, FS_EmptySet
<1> QED BY <1>1, <1>2, <1>3 DEF Rest

Small(S, k) == {T \in SUBSET S : Cardinality(T) <= k}

SumsUp(g, S, f) ==
  g = [T \in SUBSET S |-> IF T = {} THEN Whole(0) ELSE Plus(g[Rest(T)], f[Pick(T)])]

LEMMA SumsExist ==
  ASSUME NEW S, IsFiniteSet(S), NEW f
  PROVE  \E g : SumsUp(g, S, f)
<1> DEFINE Step(g, T) == IF T = {} THEN Whole(0) ELSE Plus(g[Rest(T)], f[Pick(T)])
           Goes(k, g) == \A T \in Small(S, k) : g[T] = Step(g, T)
           K == {k \in Nat : \E g : Goes(k, g)}
<1>0. \A T \in SUBSET S : IsFiniteSet(T) /\ Cardinality(T) \in Nat
                          /\ Cardinality(T) <= Cardinality(S)
  BY FS_Subset, FS_CardinalityType
<1>1. 0 \in K
  <2>1. ASSUME NEW T \in Small(S, 0) PROVE T = {}
    <3>1. T \in SUBSET S /\ Cardinality(T) <= 0
      BY DEF Small
    <3> QED BY <3>1, <1>0, FS_EmptySet
  <2> DEFINE g == [T \in SUBSET S |-> Whole(0)]
  <2>2. Goes(0, g)
    BY <2>1
  <2> HIDE DEF Goes
  <2> QED BY <2>2
<1>2. ASSUME NEW k \in K PROVE k + 1 \in K
  <2>1. k \in Nat /\ k + 1 \in Nat
    OBVIOUS
  <2>2. PICK g : Goes(k, g)
    OBVIOUS
  <2> DEFINE h == [T \in SUBSET S |-> Step(g, T)]
  <2>3. ASSUME NEW T \in Small(S, k + 1) PROVE h[T] = Step(h, T)
    <3>1. T \in SUBSET S /\ Cardinality(T) <= k + 1
      BY DEF Small
    <3>2. CASE T = {}
      BY <3>1, <3>2
    <3>3. CASE T # {}
      <4>1. Rest(T) \in SUBSET S /\ Cardinality(Rest(T)) = Cardinality(T) - 1
            /\ Cardinality(T) \in Nat
        BY <1>0, <3>1, <3>3, PickIs
      <4>2. Rest(T) \in Small(S, k)
        BY <2>1, <3>1, <4>1 DEF Small
      <4>3. g[Rest(T)] = Step(g, Rest(T))
        BY <2>2, <4>2
      <4>4. h[Rest(T)] = g[Rest(T)]
        BY <4>1, <4>3
      <4> QED BY <3>1, <3>3, <4>4
    <3> QED BY <3>2, <3>3
  <2>4. Goes(k + 1, h)
    BY <2>3
  <2> HIDE DEF Goes, h
  <2> QED BY <2>1, <2>4
<1>3. Cardinality(S) \in K
  <2>1. K \in SUBSET Nat /\ Cardinality(S) \in Nat
    BY <1>0
  <2> HIDE DEF K
  <2> QED BY <2>1, <1>1, <1>2, Induct
<1>4. PICK g : Goes(Cardinality(S), g)
  BY <1>3
<1> DEFINE h == [T \in SUBSET S |-> Step(g, T)]
<1>5. \A T \in SUBSET S : g[T] = Step(g, T)
  BY <1>0, <1>4 DEF Small
<1>6. \A T \in SUBSET S : T # {} => Rest(T) \in SUBSET S
  BY DEF Rest
<1>7. h = [T \in SUBSET S |-> Step(h, T)]
  BY <1>5, <1>6
<1> QED BY <1>7 DEF SumsUp

(* What SumOver takes is such a function. *)
LEMMA SumOverIs ==
  ASSUME NEW S, IsFiniteSet(S), NEW f
  PROVE  \E g : Sums(g, S, f) /\ SumOver(S, f) = g[S]
<1> DEFINE s == CHOOSE g : SumsUp(g, S, f)
<1>1. SumsUp(s, S, f)
  BY SumsExist
<1>2. SumOver(S, f) = s[S]
  BY DEF SumOver, SumsUp, Pick, Rest
<1> HIDE DEF s
<1>3. Sums(s, S, f)
  BY <1>1 DEF Sums, SumsUp
<1> QED BY <1>2, <1>3

(* What holds of {}, and of a set when of its rest, holds of all of S. *)
LEMMA OverSubsets ==
  ASSUME NEW S, IsFiniteSet(S), NEW Q, {} \in Q,
         \A T \in SUBSET S : T # {} /\ Rest(T) \in Q => T \in Q
  PROVE  S \in Q
<1> DEFINE K == {k \in Nat : \A T \in Small(S, k) : T \in Q}
<1>0. \A T \in SUBSET S : IsFiniteSet(T) /\ Cardinality(T) \in Nat
                          /\ Cardinality(T) <= Cardinality(S)
  BY FS_Subset, FS_CardinalityType
<1>1. 0 \in K
  <2>1. ASSUME NEW T \in Small(S, 0) PROVE T = {}
    <3>1. T \in SUBSET S /\ Cardinality(T) <= 0
      BY DEF Small
    <3> QED BY <3>1, <1>0, FS_EmptySet
  <2> QED BY <2>1
<1>2. ASSUME NEW k \in K PROVE k + 1 \in K
  <2>1. k \in Nat /\ k + 1 \in Nat
    OBVIOUS
  <2>2. ASSUME NEW T \in Small(S, k + 1) PROVE T \in Q
    <3>1. T \in SUBSET S /\ Cardinality(T) <= k + 1
      BY DEF Small
    <3>2. CASE T # {}
      <4>1. Rest(T) \in SUBSET S /\ Cardinality(Rest(T)) = Cardinality(T) - 1
            /\ Cardinality(T) \in Nat
        BY <1>0, <3>1, <3>2, PickIs
      <4>2. Rest(T) \in Small(S, k)
        BY <2>1, <3>1, <4>1 DEF Small
      <4> QED BY <3>1, <3>2, <4>2
    <3> QED BY <3>2
  <2> QED BY <2>1, <2>2
<1>3. Cardinality(S) \in K
  <2>1. K \in SUBSET Nat /\ Cardinality(S) \in Nat
    BY <1>0
  <2> HIDE DEF K
  <2> QED BY <2>1, <1>1, <1>2, Induct
<1>4. S \in Small(S, Cardinality(S))
  BY <1>0 DEF Small
<1> QED BY <1>3, <1>4

-----------------------------------------------------------------------------
Fraction == Int \X (Nat \ {0})

Fractions(S, f) == \A x \in S : f[x] \in Fraction

LEMMA Positive ==
  ASSUME NEW m \in Nat \ {0}, NEW n \in Nat \ {0}
  PROVE  m * n \in Nat \ {0}
  OBVIOUS

LEMMA PlusIs ==
  ASSUME NEW a \in Fraction, NEW b \in Fraction
  PROVE  Plus(a, b) \in Fraction
<1>1. a[1] \in Int /\ b[1] \in Int /\ a[2] \in Nat \ {0} /\ b[2] \in Nat \ {0}
  BY DEF Fraction
<1>2. a[2] * b[2] \in Nat \ {0}
  BY <1>1, Positive
<1>3. a[1] * b[2] + b[1] * a[2] \in Int
  BY <1>1
<1> QED BY <1>2, <1>3 DEF Plus, Fraction

LEMMA SumIsFraction ==
  ASSUME NEW S, IsFiniteSet(S), NEW f, Fractions(S, f)
  PROVE  SumOver(S, f) \in Fraction
<1>1. PICK g : Sums(g, S, f) /\ SumOver(S, f) = g[S]
  BY SumOverIs
<1> DEFINE Q == {T \in SUBSET S : g[T] \in Fraction}
<1>2. {} \in Q
  <2>1. Whole(0) \in Fraction
    BY DEF Whole, Fraction
  <2> QED BY <1>1, <2>1 DEF Sums
<1>3. ASSUME NEW T \in SUBSET S, T # {}, Rest(T) \in Q PROVE T \in Q
  <2>1. Pick(T) \in S /\ g[T] = Plus(g[Rest(T)], f[Pick(T)])
    BY <1>1, <1>3 DEF Sums, Pick
  <2>2. g[Rest(T)] \in Fraction /\ f[Pick(T)] \in Fraction
    BY <1>3, <2>1 DEF Fractions
  <2> QED BY <2>1, <2>2, PlusIs
<1>4. S \in Q
  <2> HIDE DEF Q
  <2> QED BY <1>2, <1>3, OverSubsets
<1> QED BY <1>1, <1>4

(* How far a is from y times b: as a sum of both goes, and its sign with it. *)
Excess(a, b, y) == a[1] * y[2] * b[2] - y[1] * b[1] * a[2]

LEMMA ProductsAdd ==
  ASSUME NEW p \in Int, NEW q \in Int, NEW u \in Int, NEW v \in Int,
         NEW p2 \in Int, NEW q2 \in Int, NEW u2 \in Int, NEW v2 \in Int,
         NEW y1 \in Int, NEW y2 \in Int
  PROVE  (p * u2 + u * p2) * y2 * (q2 * v2) - y1 * (q * v2 + v * q2) * (p2 * u2)
           = (u2 * v2) * (p * y2 * q2 - y1 * q * p2) + (p2 * q2) * (u * y2 * v2 - y1 * v * u2)
  OBVIOUS

Combines(e, d, total) == \E m, n \in Nat \ {0} : total = m * e + n * d

LEMMA ExcessAdds ==
  ASSUME NEW a \in Fraction, NEW b \in Fraction, NEW u \in Fraction, NEW v \in Fraction,
         NEW y \in Fraction
  PROVE  Combines(Excess(a, b, y), Excess(u, v, y), Excess(Plus(a, u), Plus(b, v), y))
<1>1. /\ a[1] \in Int /\ b[1] \in Int /\ a[2] \in Nat \ {0} /\ b[2] \in Nat \ {0}
      /\ u[1] \in Int /\ v[1] \in Int /\ u[2] \in Nat \ {0} /\ v[2] \in Nat \ {0}
      /\ y[1] \in Int /\ y[2] \in Int
  BY DEF Fraction
<1>2. u[2] * v[2] \in Nat \ {0} /\ a[2] * b[2] \in Nat \ {0}
  BY <1>1, Positive
<1>3. Excess(Plus(a, u), Plus(b, v), y)
        = (a[1] * u[2] + u[1] * a[2]) * y[2] * (b[2] * v[2])
          - y[1] * (b[1] * v[2] + v[1] * b[2]) * (a[2] * u[2])
  BY DEF Excess, Plus
<1>4. a[2] \in Int /\ b[2] \in Int /\ u[2] \in Int /\ v[2] \in Int
  BY <1>1
<1>5. (a[1] * u[2] + u[1] * a[2]) * y[2] * (b[2] * v[2])
          - y[1] * (b[1] * v[2] + v[1] * b[2]) * (a[2] * u[2])
      = (u[2] * v[2]) * (a[1] * y[2] * b[2] - y[1] * b[1] * a[2])
        + (a[2] * b[2]) * (u[1] * y[2] * v[2] - y[1] * v[1] * u[2])
  BY <1>1, <1>4, ProductsAdd
<1>6. Excess(Plus(a, u), Plus(b, v), y)
        = (u[2] * v[2]) * Excess(a, b, y) + (a[2] * b[2]) * Excess(u, v, y)
  BY <1>3, <1>5 DEF Excess
<1> QED BY <1>2, <1>6 DEF Combines

(* If each f1[x] is above y times f2[x], or below it, so is the sum. *)
LEMMA SumsKeepSign ==
  ASSUME NEW S, IsFiniteSet(S), NEW f1, Fractions(S, f1), NEW f2, Fractions(S, f2),
         NEW y \in Fraction, NEW sign \in {1, -1}, NEW least \in {0, 1},
         \A x \in S : sign * Excess(f1[x], f2[x], y) >= least
  PROVE  sign * Excess(SumOver(S, f1), SumOver(S, f2), y) >= IF S = {} THEN 0 ELSE least
<1>1. PICK g1 : Sums(g1, S, f1) /\ SumOver(S, f1) = g1[S]
  BY SumOverIs
<1>2. PICK g2 : Sums(g2, S, f2) /\ SumOver(S, f2) = g2[S]
  BY SumOverIs
<1> DEFINE Q == {T \in SUBSET S :
                   /\ g1[T] \in Fraction /\ g2[T] \in Fraction
                   /\ sign * Excess(g1[T], g2[T], y) >= IF T = {} THEN 0 ELSE least}
<1>3. {} \in Q
  <2>1. Whole(0) \in Fraction /\ Excess(Whole(0), Whole(0), y) = 0
    BY DEF Whole, Fraction, Excess
  <2>2. g1[{}] = Whole(0) /\ g2[{}] = Whole(0)
    BY <1>1, <1>2 DEF Sums
  <2>3. sign * 0 = 0
    OBVIOUS
  <2> QED BY <2>1, <2>2, <2>3
<1>4. ASSUME NEW T \in SUBSET S, T # {}, Rest(T) \in Q PROVE T \in Q
  <2>1. /\ Pick(T) \in S
        /\ g1[T] = Plus(g1[Rest(T)], f1[Pick(T)]) /\ g2[T] = Plus(g2[Rest(T)], f2[Pick(T)])
    BY <1>1, <1>2, <1>4 DEF Sums, Pick
  <2>2. /\ g1[Rest(T)] \in Fraction /\ f1[Pick(T)] \in Fraction
        /\ g2[Rest(T)] \in Fraction /\ f2[Pick(T)] \in Fraction
    BY <1>4, <2>1 DEF Fractions
  <2>3. g1[T] \in Fraction /\ g2[T] \in Fraction
    BY <2>1, <2>2, PlusIs
  <2> DEFINE e == Excess(g1[Rest(T)], g2[Rest(T)], y)
             d == Excess(f1[Pick(T)], f2[Pick(T)], y)
  <2>4. PICK m, n \in Nat \ {0} : Excess(g1[T], g2[T], y) = m * e + n * d
    <3>1. Combines(e, d, Excess(Plus(g1[Rest(T)], f1[Pick(T)]),
                                Plus(g2[Rest(T)], f2[Pick(T)]), y))
      BY <2>2, ExcessAdds
    <3> HIDE DEF e, d
    <3>2. Combines(e, d, Excess(g1[T], g2[T], y))
      BY <2>1, <3>1
    <3> QED BY <3>2 DEF Combines
  <2>5. e \in Int /\ d \in Int
    BY <2>2 DEF Excess, Fraction
  <2>6. sign * e >= 0 /\ sign * d >= least
    <3>1. sign * e >= IF Rest(T) = {} THEN 0 ELSE least
      BY <1>4
    <3> HIDE DEF e, d
    <3>2. sign * e \in Int /\ least >= 0
      BY <2>5
    <3>3. sign * e >= 0
      BY <3>1, <3>2
    <3>4. sign * d >= least
      BY <2>1 DEF d
    <3> QED BY <3>3, <3>4
  <2> HIDE DEF e, d
  <2>7. sign * (m * e + n * d) >= least
    <3>1. CASE sign = 1
      <4>1. e >= 0 /\ d >= least
        BY <2>5, <2>6, <3>1
      <4>2. m * e >= 0 /\ n * d >= d
        BY <2>5, <4>1
      <4> QED BY <2>5, <3>1, <4>1, <4>2
    <3>2. CASE sign = -1
      <4>1. -e >= 0 /\ -d >= least
        BY <2>5, <2>6, <3>2
      <4>2. m * e <= 0 /\ n * d <= d
        BY <2>5, <4>1
      <4> QED BY <2>5, <3>2, <4>1, <4>2
    <3> QED BY <3>1, <3>2
  <2>8. sign * Excess(g1[T], g2[T], y) >= least
    BY <2>4, <2>7
  <2> QED BY <1>4, <2>3, <2>8
<1>5. S \in Q
  <2> HIDE DEF Q
  <2> QED BY <1>3, <1>4, OverSubsets
<1> QED BY <1>1, <1>2, <1>5

(* Whole numbers have a whole sum; of ones it counts the elements. *)
Wholes(S, f) == \A x \in S : \E n \in Nat \ {0} : f[x] = Whole(n)

LEMMA WholesAreFractions ==
  ASSUME NEW S, NEW f, Wholes(S, f)
  PROVE  Fractions(S, f)
<1>1. \A n \in Nat \ {0} : Whole(n) \in Fraction
  BY DEF Whole, Fraction
<1> QED BY <1>1 DEF Wholes, Fractions

LEMMA SumOfWholes ==
  ASSUME NEW S, IsFiniteSet(S), NEW f, Wholes(S, f)
  PROVE  \E n \in Nat : SumOver(S, f) = Whole(n) /\ n >= Cardinality(S)
<1>1. PICK g : Sums(g, S, f) /\ SumOver(S, f) = g[S]
  BY SumOverIs
<1> DEFINE Q == {T \in SUBSET S : \E n \in Nat : g[T] = Whole(n) /\ n >= Cardinality(T)}
<1>2. {} \in Q
  BY <1>1, FS_EmptySet DEF Sums
<1>3. ASSUME NEW T \in SUBSET S, T # {}, Rest(T) \in Q PROVE T \in Q
  <2>1. g[T] = Plus(g[Rest(T)], f[Pick(T)])
    BY <1>1, <1>3 DEF Sums
  <2>2. Pick(T) \in S /\ Cardinality(T) \in Nat /\ Cardinality(Rest(T)) = Cardinality(T) - 1
    BY <1>3, FS_Subset, PickIs
  <2>3. PICK n \in Nat : g[Rest(T)] = Whole(n) /\ n >= Cardinality(T) - 1
    BY <1>3, <2>2
  <2>4. PICK k \in Nat \ {0} : f[Pick(T)] = Whole(k)
    BY <2>2 DEF Wholes
  <2>5. g[T] = Whole(n + k)
    BY <2>1, <2>3, <2>4 DEF Plus, Whole
  <2>6. n + k \in Nat /\ n + k >= Cardinality(T)
    BY <2>2, <2>3, <2>4
  <2> QED BY <1>3, <2>5, <2>6
<1>4. S \in Q
  <2> HIDE DEF Q
  <2> QED BY <1>2, <1>3, OverSubsets
<1> QED BY <1>1, <1>4

LEMMA SumOfOnes ==
  ASSUME NEW S, IsFiniteSet(S), NEW f, \A x \in S : f[x] = Whole(1)
  PROVE  SumOver(S, f) = Whole(Cardinality(S))
<1>1. PICK g : Sums(g, S, f) /\ SumOver(S, f) = g[S]
  BY SumOverIs
<1> DEFINE Q == {T \in SUBSET S : g[T] = Whole(Cardinality(T))}
<1>2. {} \in Q
  BY <1>1, FS_EmptySet DEF Sums
<1>3. ASSUME NEW T \in SUBSET S, T # {}, Rest(T) \in Q PROVE T \in Q
  <2>1. g[T] = Plus(g[Rest(T)], f[Pick(T)])
    BY <1>1, <1>3 DEF Sums
  <2>2. Pick(T) \in S /\ Cardinality(T) \in Nat /\ Cardinality(Rest(T)) = Cardinality(T) - 1
    BY <1>3, FS_Subset, PickIs
  <2>3. g[Rest(T)] = Whole(Cardinality(T) - 1) /\ f[Pick(T)] = Whole(1)
    BY <1>3, <2>2
  <2>4. g[T] = Whole(Cardinality(T))
    BY <2>1, <2>2, <2>3 DEF Plus, Whole
  <2> QED BY <2>4
<1>4. S \in Q
  <2> HIDE DEF Q
  <2> QED BY <1>2, <1>3, OverSubsets
<1> QED BY <1>1, <1>4

(* A finite set, unless empty, has an element whose number is least. *)
LEMMA LeastIn ==
  ASSUME NEW S, IsFiniteSet(S), S # {}, NEW g, \A s \in S : g[s] \in Int
  PROVE  \E s \in S : \A t \in S : g[s] <= g[t]
<1> DEFINE Q == {T \in SUBSET S : T # {} => \E s \in T : \A t \in T : g[s] <= g[t]}
<1>1. {} \in Q
  OBVIOUS
<1>2. ASSUME NEW T \in SUBSET S, T # {}, Rest(T) \in Q PROVE T \in Q
  <2>1. IsFiniteSet(T)
    BY FS_Subset
  <2>2. Pick(T) \in T /\ Rest(T) = T \ {Pick(T)}
    BY <1>2, <2>1, PickIs DEF Rest
  <2>3. CASE Rest(T) = {}
    <3>1. \A t \in T : t = Pick(T)
      BY <2>2, <2>3
    <3>2. g[Pick(T)] <= g[Pick(T)]
      BY <2>2
    <3> QED BY <2>2, <3>1, <3>2
  <2>4. CASE Rest(T) # {}
    <3>1. PICK s \in Rest(T) : \A t \in Rest(T) : g[s] <= g[t]
      BY <1>2, <2>4
    <3>2. s \in T /\ g[s] \in Int /\ g[Pick(T)] \in Int
      BY <2>2
    <3>3. CASE g[s] <= g[Pick(T)]
      BY <2>2, <3>1, <3>2, <3>3
    <3>4. CASE ~(g[s] <= g[Pick(T)])
      <4>1. \A t \in T : g[Pick(T)] <= g[t]
        BY <2>2, <3>1, <3>2, <3>4
      <4> QED BY <2>2, <4>1
    <3> QED BY <3>3, <3>4
  <2> QED BY <2>3, <2>4
<1>3. S \in Q
  <2> HIDE DEF Q
  <2> QED BY <1>1, <1>2, OverSubsets
<1> QED BY <1>3

-----------------------------------------------------------------------------
(* Ranking *)

(* An average of what is better than y is better than y, and of what is      *)
(* worse is worse.                                                          *)
LEMMA BetterIs ==
  ASSUME NEW a \in Fraction, NEW b \in Fraction, direction \in {"desc", "asc"}
  PROVE  \E sign \in {1, -1} :
           /\ sign = IF direction = "desc" THEN 1 ELSE -1
           /\ Better(a, b) <=> sign * (a[1] * b[2] - b[1] * a[2]) >= 1
           /\ Better(b, a) <=> (0 - sign) * (a[1] * b[2] - b[1] * a[2]) >= 1
<1>1. a[1] * b[2] \in Int /\ b[1] * a[2] \in Int
  BY DEF Fraction
<1>2. CASE direction = "desc"
  <2>1. Better(a, b) <=> 1 * (a[1] * b[2] - b[1] * a[2]) >= 1
    BY <1>1, <1>2 DEF Better, Greater
  <2>2. Better(b, a) <=> (0 - 1) * (a[1] * b[2] - b[1] * a[2]) >= 1
    BY <1>1, <1>2 DEF Better, Greater
  <2> QED BY <1>2, <2>1, <2>2
<1>3. CASE direction = "asc"
  <2>1. Better(a, b) <=> (-1) * (a[1] * b[2] - b[1] * a[2]) >= 1
    BY <1>1, <1>3 DEF Better, Greater
  <2>2. Better(b, a) <=> (0 - (-1)) * (a[1] * b[2] - b[1] * a[2]) >= 1
    BY <1>1, <1>3 DEF Better, Greater
  <2> QED BY <1>3, <2>1, <2>2
<1> QED BY <1>2, <1>3

AverageOf(S, f) == Over(SumOver(S, f), Whole(Cardinality(S)))

LEMMA AverageIs ==
  ASSUME NEW S, IsFiniteSet(S), S # {}, NEW f, Fractions(S, f)
  PROVE  /\ AverageOf(S, f) \in Fraction
         /\ \A y \in Fraction :
              AverageOf(S, f)[1] * y[2] - y[1] * AverageOf(S, f)[2]
                = Excess(SumOver(S, f), Whole(Cardinality(S)), y)
<1>1. PICK s \in Fraction : s = SumOver(S, f)
  BY SumIsFraction
<1>2. PICK n \in Nat \ {0} : n = Cardinality(S)
  BY PickIs
<1>3. s[1] \in Int /\ s[2] \in Nat \ {0}
  BY DEF Fraction
<1>4. AverageOf(S, f) = <<s[1], s[2] * n>>
  <2>1. AverageOf(S, f) = <<s[1] * 1, s[2] * n>>
    BY <1>1, <1>2 DEF AverageOf, Over, Whole
  <2> QED BY <2>1, <1>3
<1>5. s[2] * n \in Nat \ {0}
  BY <1>3, Positive
<1>6. ASSUME NEW y \in Fraction
      PROVE  s[1] * y[2] - y[1] * (s[2] * n) = Excess(s, Whole(n), y)
  <2>1. y[1] \in Int /\ y[2] \in Int
    BY DEF Fraction
  <2>2. Excess(s, Whole(n), y) = s[1] * y[2] * 1 - y[1] * n * s[2]
    BY DEF Excess, Whole
  <2>3. \A p, q, r, t, k \in Int : p * r * 1 - t * k * q = p * r - t * (q * k)
    OBVIOUS
  <2>4. s[2] \in Int /\ n \in Int
    BY <1>3
  <2> QED BY <2>1, <2>2, <2>3, <2>4, <1>3
<1> QED BY <1>1, <1>2, <1>3, <1>4, <1>5, <1>6 DEF Fraction

LEMMA AverageIsBetter ==
  ASSUME direction \in {"desc", "asc"}, NEW S, IsFiniteSet(S), S # {}, NEW f, Fractions(S, f),
         NEW y \in Fraction
  PROVE  /\ (\A x \in S : Better(f[x], y)) => Better(AverageOf(S, f), y)
         /\ (\A x \in S : Better(y, f[x])) => Better(y, AverageOf(S, f))
<1> DEFINE a == AverageOf(S, f)
           ones == [x \in S |-> Whole(1)]
           sign == IF direction = "desc" THEN 1 ELSE -1
<1>1. a \in Fraction /\ a[1] * y[2] - y[1] * a[2] = Excess(SumOver(S, f), Whole(Cardinality(S)), y)
  BY AverageIs
<1>2. SumOver(S, ones) = Whole(Cardinality(S)) /\ Fractions(S, ones)
  <2>1. \A x \in S : ones[x] = Whole(1)
    OBVIOUS
  <2>2. Whole(1) \in Fraction
    BY DEF Whole, Fraction
  <2> HIDE DEF ones
  <2> QED BY <2>1, <2>2, SumOfOnes DEF Fractions
<1>3. \A x \in S : Excess(f[x], ones[x], y) = f[x][1] * y[2] - y[1] * f[x][2]
  <2> TAKE x \in S
  <2>1. f[x][1] \in Int /\ f[x][2] \in Int /\ y[1] \in Int /\ y[2] \in Int
    BY DEF Fractions, Fraction
  <2>2. Excess(f[x], ones[x], y) = f[x][1] * y[2] * 1 - y[1] * 1 * f[x][2]
    BY DEF Excess, Whole
  <2> QED BY <2>1, <2>2
<1>4. sign \in {1, -1} /\ 0 - sign \in {1, -1}
  <2>1. sign = 1 \/ sign = -1
    OBVIOUS
  <2>2. 0 - 1 = -1 /\ 0 - (-1) = 1
    OBVIOUS
  <2> HIDE DEF sign
  <2> QED BY <2>1, <2>2
<1> HIDE DEF ones, sign, a
<1>5. ASSUME NEW s \in {1, -1}, \A x \in S : s * (f[x][1] * y[2] - y[1] * f[x][2]) >= 1
      PROVE  s * (a[1] * y[2] - y[1] * a[2]) >= 1
  <2>1. \A x \in S : s * Excess(f[x], ones[x], y) >= 1
    BY <1>3, <1>5
  <2>2. s * Excess(SumOver(S, f), SumOver(S, ones), y) >= IF S = {} THEN 0 ELSE 1
    BY <2>1, <1>2, SumsKeepSign
  <2> QED BY <2>2, <1>1, <1>2
<1>6. ASSUME NEW b \in Fraction
      PROVE  /\ Better(b, y) <=> sign * (b[1] * y[2] - y[1] * b[2]) >= 1
             /\ Better(y, b) <=> (0 - sign) * (b[1] * y[2] - y[1] * b[2]) >= 1
  BY BetterIs DEF sign
<1>7. ASSUME \A x \in S : Better(f[x], y) PROVE Better(a, y)
  <2>1. \A x \in S : sign * (f[x][1] * y[2] - y[1] * f[x][2]) >= 1
    BY <1>6, <1>7 DEF Fractions
  <2> QED BY <2>1, <1>1, <1>4, <1>5, <1>6
<1>8. ASSUME \A x \in S : Better(y, f[x]) PROVE Better(y, a)
  <2>1. \A x \in S : (0 - sign) * (f[x][1] * y[2] - y[1] * f[x][2]) >= 1
    BY <1>6, <1>8 DEF Fractions
  <2>2. PICK s \in {1, -1} : s = 0 - sign
    BY <1>4
  <2>3. s * (a[1] * y[2] - y[1] * a[2]) >= 1
    BY <2>1, <2>2, <1>5
  <2> QED BY <2>2, <2>3, <1>1, <1>6
<1> QED BY <1>7, <1>8 DEF a

LEMMA BetterIsStrict ==
  ASSUME NEW a \in Fraction, NEW b \in Fraction, Better(a, b)
  PROVE  ~Better(b, a)
<1>1. a[1] * b[2] \in Int /\ b[1] * a[2] \in Int
  BY DEF Fraction
<1> QED BY <1>1 DEF Better, Greater

(* Snapshots are of the past and of this cycle, the last checkpoint's period *)
(* is over.                                                                 *)
RankingType ==
  /\ rankingKey \in RankingKeys /\ direction \in {"desc", "asc"}
  /\ clock \in Nat /\ checkpoint.to \in Nat /\ checkpoint.to < clock
  /\ IsFiniteSet(snapshots)
  /\ \A s \in snapshots : s.results \in Results /\ s.at \in Nat /\ s.at <= clock

(* While a checkpoint may be due the board is a ranking of the snapshots. *)
BoardRanks ==
  pc = "due" =>
    IsRanking(board, snapshots, [m \in RankedModels(snapshots) |-> BoardScore(m)])

RankingInv == RankingType /\ BoardRanks /\ PredictionsWeighEqually

LEMMA SummaryIs ==
  ASSUME NEW s, s.results \in Results
  PROVE  /\ SumOf(s.results) \in Int /\ Count(s) \in Nat \ {0}
         /\ Summary(s) = <<SumOf(s.results), Count(s)>> /\ Summary(s) \in Fraction
<1>1. s.results \in Seq(Int) /\ s.results # << >>
  BY RankingAssumption
<1>2. Len(s.results) \in Nat /\ s.results \in [1 .. Len(s.results) -> Int]
  BY <1>1, LenProperties
<1>3. PICK g \in [0 .. Len(s.results) -> Int] : SumOf(s.results) = g[Len(s.results)]
  BY <1>2, SumRuns
<1>4. SumOf(s.results) \in Int
  BY <1>2, <1>3
<1>5. Len(s.results) # 0
  BY <1>1, EmptySeq
<1> QED BY <1>2, <1>4, <1>5 DEF Summary, Count, Fraction

LEMMA RankingInitInv == ASSUME Init PROVE RankingInv
<1>1. RankingType
  <2>1. IsFiniteSet(snapshots) /\ snapshots = {}
    BY FS_EmptySet DEF Init
  <2>2. checkpoint.to = 0 /\ clock = 1
    BY DEF Init, NoCheckpoint
  <2> QED BY <2>1, <2>2, RankingAssumption DEF RankingType, Init
<1>2. BoardRanks
  BY DEF Init, BoardRanks
<1>3. PredictionsWeighEqually
  <2>1. checkpoint.ranking = << >>
    BY DEF Init, NoCheckpoint
  <2> QED BY <2>1 DEF PredictionsWeighEqually
<1> QED BY <1>1, <1>2, <1>3 DEF RankingInv

LEMMA WriteSnapshotsInv == ASSUME RankingInv, WriteSnapshots PROVE RankingInv'
<1>0. PICK S \in (SUBSET Models) \ {{}} :
        \E results \in [S -> Results] :
          snapshots' = snapshots \cup
            {[model |-> m, at |-> clock, results |-> results[m]] : m \in S}
  BY DEF WriteSnapshots
<1>1. PICK results \in [S -> Results] :
        snapshots' = snapshots \cup
          {[model |-> m, at |-> clock, results |-> results[m]] : m \in S}
  BY <1>0
<1> DEFINE new == {[model |-> m, at |-> clock, results |-> results[m]] : m \in S}
<1>2. IsFiniteSet(new)
  <2>1. S \in SUBSET Models /\ IsFiniteSet(Models)
    BY RankingAssumption
  <2>2. IsFiniteSet(S)
    BY <2>1, FS_Subset
  <2> DEFINE row == [m \in S |-> [model |-> m, at |-> clock, results |-> results[m]]]
  <2>3. row \in Surjection(S, new)
    BY DEF Surjection
  <2> HIDE DEF row, new
  <2> QED BY <2>2, <2>3, FS_Surjection
<1>3. \A s \in new : s.at = clock /\ s.results \in Results
  OBVIOUS
<1> HIDE DEF new
<1>4. snapshots' = snapshots \cup new
  BY <1>1 DEF new
<1>5. /\ UNCHANGED <<rankingKey, direction, clock, board, checkpoint>> /\ pc' = "board"
  BY DEF WriteSnapshots, configuration
<1>6. IsFiniteSet(snapshots')
  BY <1>2, <1>4, FS_Union DEF RankingInv, RankingType
<1>7. RankingType'
  BY <1>3, <1>4, <1>5, <1>6 DEF RankingInv, RankingType
<1>8. BoardRanks'
  BY <1>5 DEF BoardRanks
<1>9. ASSUME NEW m PROVE InPeriod(m)' = InPeriod(m)
  <2>1. \A s \in new : ~(s.at <= checkpoint.to)
    BY <1>3 DEF RankingInv, RankingType
  <2> QED BY <2>1, <1>4, <1>5 DEF InPeriod, Of
<1>10. PredictionsWeighEqually'
  <2>1. \A m : PredictionAverage(m)' = PredictionAverage(m)
    BY <1>9 DEF PredictionAverage, Counted, Count
  <2> QED BY <2>1, <1>5 DEF RankingInv, PredictionsWeighEqually, Better
<1> QED BY <1>7, <1>8, <1>10 DEF RankingInv

(* Nothing that the averages of the last period are of has changed. *)
LEMMA PeriodStays ==
  ASSUME PredictionsWeighEqually, UNCHANGED <<rankingKey, direction, snapshots, checkpoint>>
  PROVE  PredictionsWeighEqually'
<1>1. \A m : PredictionAverage(m)' = PredictionAverage(m)
  BY DEF PredictionAverage, Counted, Count, InPeriod, Of
<1> QED BY <1>1 DEF PredictionsWeighEqually, Better

LEMMA RebuildInv == ASSUME RankingInv, Rebuild PROVE RankingInv'
<1>1. UNCHANGED <<rankingKey, direction, clock, snapshots, checkpoint>> /\ pc' = "due"
  BY DEF Rebuild, configuration
<1>2. RankingType'
  BY <1>1 DEF RankingInv, RankingType
<1>3. IsRanking(board', snapshots, [m \in RankedModels(snapshots) |-> BoardScore(m)])
  BY DEF Rebuild, Rankings
<1>4. BoardRanks'
  <2>1. \A m : BoardScore(m)' = BoardScore(m)
    BY <1>1 DEF BoardScore, WindowAverage, InWindow, Latest, Of
  <2>2. [m \in RankedModels(snapshots) |-> BoardScore(m)]'
          = [m \in RankedModels(snapshots) |-> BoardScore(m)]
    BY <2>1, <1>1 DEF RankedModels
  <2> QED BY <2>2, <1>1, <1>3 DEF BoardRanks, IsRanking, Better, FirstSeen, Of, RankedModels
<1>5. PredictionsWeighEqually'
  BY <1>1, PeriodStays DEF RankingInv
<1> QED BY <1>2, <1>4, <1>5 DEF RankingInv

LEMMA NotDueInv == ASSUME RankingInv, NotDue PROVE RankingInv'
<1>1. /\ UNCHANGED <<rankingKey, direction, snapshots, checkpoint>>
      /\ pc' = "score" /\ clock' = clock + 1
  BY DEF NotDue, configuration
<1>2. RankingType'
  BY <1>1 DEF RankingInv, RankingType
<1>3. BoardRanks'
  BY <1>1 DEF BoardRanks
<1>4. PredictionsWeighEqually'
  BY <1>1, PeriodStays DEF RankingInv
<1> QED BY <1>2, <1>3, <1>4 DEF RankingInv

-----------------------------------------------------------------------------
(* The checkpoint's average weighs each prediction the same. *)
OfPredictions(S) ==
  Over(SumOver(S, [s \in S |-> Whole(SumOf(s.results))]), Counted(S))

(* Two fractions of one value. *)
Same(a, b) == a[1] * b[2] = b[1] * a[2]

LEMMA CrossProducts ==
  ASSUME NEW a1 \in Int, NEW a2 \in Nat \ {0}, NEW b1 \in Int, NEW b2 \in Nat \ {0},
         NEW c1 \in Int, NEW c2 \in Nat \ {0}, NEW d1 \in Int, NEW d2 \in Nat \ {0},
         a1 * c2 = c1 * a2, b1 * d2 = d1 * b2
  PROVE  (c2 * d2) * (a1 * b2 - b1 * a2) = (a2 * b2) * (c1 * d2 - d1 * c2)
<1>1. (c2 * d2) * (a1 * b2 - b1 * a2) = (a1 * c2) * (b2 * d2) - (b1 * d2) * (a2 * c2)
  OBVIOUS
<1>2. (a2 * b2) * (c1 * d2 - d1 * c2) = (c1 * a2) * (b2 * d2) - (d1 * b2) * (a2 * c2)
  OBVIOUS
<1> QED BY <1>1, <1>2

LEMMA SameSign ==
  ASSUME NEW m \in Nat \ {0}, NEW n \in Nat \ {0}, NEW d \in Int, NEW e \in Int,
         m * d = n * e
  PROVE  d > 0 <=> e > 0
<1>1. d > 0 => m * d > 0
  OBVIOUS
<1>2. e > 0 => n * e > 0
  OBVIOUS
<1>3. d <= 0 => m * d <= 0
  OBVIOUS
<1>4. e <= 0 => n * e <= 0
  OBVIOUS
<1> QED BY <1>1, <1>2, <1>3, <1>4

LEMMA GreaterIsOfValues ==
  ASSUME NEW a \in Fraction, NEW b \in Fraction, NEW c \in Fraction, NEW d \in Fraction,
         Same(a, c), Same(b, d)
  PROVE  Greater(a, b) <=> Greater(c, d)
<1>1. PICK a1 \in Int, a2 \in Nat \ {0} : a = <<a1, a2>>
  BY DEF Fraction
<1>2. PICK b1 \in Int, b2 \in Nat \ {0} : b = <<b1, b2>>
  BY DEF Fraction
<1>3. PICK c1 \in Int, c2 \in Nat \ {0} : c = <<c1, c2>>
  BY DEF Fraction
<1>4. PICK d1 \in Int, d2 \in Nat \ {0} : d = <<d1, d2>>
  BY DEF Fraction
<1> DEFINE x == a1 * b2 - b1 * a2
           y == c1 * d2 - d1 * c2
           m == c2 * d2
           n == a2 * b2
<1>5. a1 * c2 = c1 * a2 /\ b1 * d2 = d1 * b2
  BY <1>1, <1>2, <1>3, <1>4 DEF Same
<1>6. m * x = n * y
  BY <1>5, CrossProducts
<1>7. m \in Nat \ {0} /\ n \in Nat \ {0}
  BY Positive
<1>8. x \in Int /\ y \in Int
  OBVIOUS
<1>9. (Greater(a, b) <=> x > 0) /\ (Greater(c, d) <=> y > 0)
  BY <1>1, <1>2, <1>3, <1>4 DEF Greater
<1> HIDE DEF x, y, m, n
<1> QED BY <1>6, <1>7, <1>8, <1>9, SameSign

LEMMA BetterIsOfValues ==
  ASSUME NEW a \in Fraction, NEW b \in Fraction, NEW c \in Fraction, NEW d \in Fraction,
         Same(a, c), Same(b, d)
  PROVE  Better(a, b) <=> Better(c, d)
  BY GreaterIsOfValues DEF Better

LEMMA WeightedTerm ==
  ASSUME NEW sum \in Int, NEW count \in Nat \ {0}, NEW n \in Nat \ {0}
  PROVE  /\ Times(<<sum, count>>, Over(Whole(count), Whole(n))) \in Fraction
         /\ Excess(Times(<<sum, count>>, Over(Whole(count), Whole(n))), Whole(sum), <<1, n>>) = 0
<1>1. Times(<<sum, count>>, Over(Whole(count), Whole(n))) = <<sum * (count * 1), count * (1 * n)>>
  BY DEF Times, Over, Whole
<1>2. sum * (count * 1) = sum * count /\ count * (1 * n) = count * n
  OBVIOUS
<1>3. sum * count \in Int /\ count * n \in Nat \ {0}
  BY Positive
<1>4. Times(<<sum, count>>, Over(Whole(count), Whole(n))) = <<sum * count, count * n>>
  BY <1>1, <1>2
<1>5. sum * count * n * 1 - 1 * sum * (count * n) = 0
  OBVIOUS
<1>6. Excess(<<sum * count, count * n>>, Whole(sum), <<1, n>>) = 0
  BY <1>5 DEF Excess, Whole
<1> QED BY <1>3, <1>4, <1>6 DEF Fraction

LEMMA CountedIs ==
  ASSUME NEW S, IsFiniteSet(S), S # {}, \A s \in S : s.results \in Results
  PROVE  \E n \in Nat \ {0} : Counted(S) = Whole(n)
<1> DEFINE counts == [s \in S |-> Whole(Count(s))]
<1>1. Wholes(S, counts)
  BY SummaryIs DEF Wholes
<1>2. Counted(S) = SumOver(S, counts)
  BY DEF Counted
<1> HIDE DEF counts
<1>3. PICK n \in Nat : SumOver(S, counts) = Whole(n) /\ n >= Cardinality(S)
  BY <1>1, SumOfWholes
<1>4. Cardinality(S) \in Nat /\ Cardinality(S) # 0
  BY FS_CardinalityType, FS_EmptySet
<1> QED BY <1>2, <1>3, <1>4

LEMMA WeightedAverageIs ==
  ASSUME NEW S, IsFiniteSet(S), S # {}, \A s \in S : s.results \in Results
  PROVE  /\ WeightedAverage(S) \in Fraction /\ OfPredictions(S) \in Fraction
         /\ Same(WeightedAverage(S), OfPredictions(S))
<1>1. PICK n \in Nat \ {0} : Counted(S) = Whole(n)
  BY CountedIs
<1> DEFINE weighed == [s \in S |-> Times(Summary(s), Over(Whole(Count(s)), Counted(S)))]
           sums    == [s \in S |-> Whole(SumOf(s.results))]
           y       == <<1, n>>
<1>2. ASSUME NEW s \in S
      PROVE  /\ weighed[s] \in Fraction /\ sums[s] \in Fraction
             /\ Excess(weighed[s], sums[s], y) = 0
  <2>1. /\ SumOf(s.results) \in Int /\ Count(s) \in Nat \ {0}
        /\ Summary(s) = <<SumOf(s.results), Count(s)>>
    BY SummaryIs
  <2>2. weighed[s] = Times(<<SumOf(s.results), Count(s)>>, Over(Whole(Count(s)), Whole(n)))
    BY <1>1, <2>1
  <2>3. sums[s] = Whole(SumOf(s.results))
    OBVIOUS
  <2>4. Whole(SumOf(s.results)) \in Fraction
    BY <2>1 DEF Whole, Fraction
  <2> QED BY <2>1, <2>2, <2>3, <2>4, WeightedTerm
<1>3. WeightedAverage(S) = SumOver(S, weighed)
  BY DEF WeightedAverage
<1>4. OfPredictions(S) = Over(SumOver(S, sums), Whole(n))
  BY <1>1 DEF OfPredictions
<1>5. y \in Fraction
  BY DEF Fraction
<1> HIDE DEF weighed, sums
<1>6. Fractions(S, weighed) /\ Fractions(S, sums)
  BY <1>2 DEF Fractions
<1>7. SumOver(S, weighed) \in Fraction /\ SumOver(S, sums) \in Fraction
  BY <1>6, SumIsFraction
<1> DEFINE e == Excess(SumOver(S, weighed), SumOver(S, sums), y)
<1>8. e = 0
  <2>1. \A s \in S : 1 * Excess(weighed[s], sums[s], y) >= 0
    BY <1>2
  <2>2. \A s \in S : (-1) * Excess(weighed[s], sums[s], y) >= 0
    BY <1>2
  <2>3. 1 * e >= 0
    BY <2>1, <1>5, <1>6, SumsKeepSign
  <2>4. (-1) * e >= 0
    BY <2>2, <1>5, <1>6, SumsKeepSign
  <2>5. e \in Int
    BY <1>7 DEF Excess, Fraction
  <2> HIDE DEF e
  <2> QED BY <2>3, <2>4, <2>5
<1>9. PICK a \in Int, b \in Nat \ {0} : SumOver(S, weighed) = <<a, b>>
  BY <1>7 DEF Fraction
<1>10. PICK c \in Int, d \in Nat \ {0} : SumOver(S, sums) = <<c, d>>
  BY <1>7 DEF Fraction
<1>11. OfPredictions(S) = <<c * 1, d * n>>
  BY <1>4, <1>10 DEF Over, Whole
<1>12. a * n * d - 1 * c * b = 0
  BY <1>8, <1>9, <1>10 DEF Excess
<1>13. a * (d * n) = (c * 1) * b
  BY <1>12
<1>14. c * 1 \in Int /\ d * n \in Nat \ {0}
  BY Positive
<1> QED BY <1>3, <1>7, <1>9, <1>11, <1>13, <1>14 DEF Same, Fraction

LEMMA CreateCheckpointInv == ASSUME RankingInv, CreateCheckpoint PROVE RankingInv'
<1> DEFINE period == {s \in snapshots : s.at > checkpoint.to}
           score  == [m \in RankedModels(period) |-> CheckpointScore(Of(period, m))]
<1>1. PICK r \in Rankings(period, score) :
        checkpoint' = [from |-> checkpoint.to + 1, to |-> clock, ranking |-> r]
  BY DEF CreateCheckpoint
<1>2. /\ UNCHANGED <<rankingKey, direction, snapshots>>
      /\ pc' = "score" /\ clock' = clock + 1
  BY DEF CreateCheckpoint, configuration
<1>3. RankingType
  BY DEF RankingInv
<1>4. RankingType'
  BY <1>1, <1>2, <1>3 DEF RankingType
<1>5. BoardRanks'
  BY <1>2 DEF BoardRanks
<1>6. ASSUME NEW m PROVE InPeriod(m)' = Of(period, m)
  <2>1. checkpoint'.from = checkpoint.to + 1 /\ checkpoint'.to = clock
    BY <1>1
  <2>2. \A s \in snapshots :
          s.at > checkpoint.to <=> checkpoint.to + 1 <= s.at /\ s.at <= clock
    BY <1>3 DEF RankingType
  <2> QED BY <2>1, <2>2, <1>2 DEF InPeriod, Of
<1>7. ASSUME NEW m PROVE PredictionAverage(m)' = OfPredictions(Of(period, m))
  BY <1>6 DEF PredictionAverage, OfPredictions, Counted, Count
<1>8. ASSUME NEW m \in RankedModels(period)
      PROVE  /\ IsFiniteSet(Of(period, m)) /\ Of(period, m) # {}
             /\ \A s \in Of(period, m) : s.results \in Results
  <2>1. Of(period, m) \in SUBSET snapshots
    BY DEF Of
  <2>2. IsFiniteSet(Of(period, m))
    BY <2>1, <1>3, FS_Subset DEF RankingType
  <2>3. Of(period, m) # {}
    BY DEF Of, RankedModels
  <2> QED BY <2>1, <2>2, <2>3, <1>3 DEF RankingType
<1>9. IsRanking(r, period, score)
  BY DEF Rankings
<1>10. ASSUME rankingKey \in Fields, NEW i \in DOMAIN r, NEW j \in DOMAIN r, i < j
       PROVE  ~Better(OfPredictions(Of(period, r[j])), OfPredictions(Of(period, r[i])))
  <2>1. r[i] \in RankedModels(period) /\ r[j] \in RankedModels(period)
    BY <1>9 DEF IsRanking
  <2> DEFINE P == Of(period, r[i])
             Q == Of(period, r[j])
  <2>2. score[r[i]] = WeightedAverage(P) /\ score[r[j]] = WeightedAverage(Q)
    BY <2>1, <1>10 DEF CheckpointScore
  <2>3. Better(score[r[i]], score[r[j]]) \/ ~Better(score[r[j]], score[r[i]])
    BY <1>9, <1>10 DEF IsRanking
  <2>4. /\ IsFiniteSet(P) /\ P # {} /\ \A s \in P : s.results \in Results
        /\ IsFiniteSet(Q) /\ Q # {} /\ \A s \in Q : s.results \in Results
    BY <1>8, <2>1
  <2> HIDE DEF P, Q, score
  <2>5. /\ WeightedAverage(P) \in Fraction /\ OfPredictions(P) \in Fraction
        /\ Same(WeightedAverage(P), OfPredictions(P))
    BY <2>4, WeightedAverageIs
  <2>6. /\ WeightedAverage(Q) \in Fraction /\ OfPredictions(Q) \in Fraction
        /\ Same(WeightedAverage(Q), OfPredictions(Q))
    BY <2>4, WeightedAverageIs
  <2>7. ~Better(WeightedAverage(Q), WeightedAverage(P))
    BY <2>2, <2>3, <2>5, <2>6, BetterIsStrict
  <2>8. ~Better(OfPredictions(Q), OfPredictions(P))
    BY <2>5, <2>6, <2>7, BetterIsOfValues
  <2> QED BY <2>8 DEF P, Q
<1> HIDE DEF period, score
<1>11. PredictionsWeighEqually'
  <2>1. checkpoint'.ranking = r
    BY <1>1
  <2>2. \A i, j \in DOMAIN r : rankingKey \in Fields /\ i < j =>
          ~Better(PredictionAverage(r[j])', PredictionAverage(r[i])')
    BY <1>7, <1>10
  <2>3. \A a, b : Better(a, b)' <=> Better(a, b)
    BY <1>2 DEF Better
  <2> QED BY <2>1, <2>2, <2>3, <1>2 DEF PredictionsWeighEqually, Better
<1> QED BY <1>4, <1>5, <1>11 DEF RankingInv

LEMMA BoardStays ==
  ASSUME BoardRanks, UNCHANGED <<rankingKey, direction, clock, pc, snapshots, board>>
  PROVE  BoardRanks'
<1> DEFINE score == [m \in RankedModels(snapshots) |-> BoardScore(m)]
<1>1. \A m : BoardScore(m)' = BoardScore(m)
  BY DEF BoardScore, WindowAverage, InWindow, Latest, Of
<1>2. score' = score
  BY <1>1 DEF RankedModels
<1>3. \A r, S, f : IsRanking(r, S, f)' <=> IsRanking(r, S, f)
  BY DEF IsRanking, Better
<1>4. BoardRanks <=> (pc = "due" => IsRanking(board, snapshots, score))
  BY DEF BoardRanks
<1>5. BoardRanks' <=> (pc' = "due" => IsRanking(board, snapshots, score)')
  BY DEF BoardRanks
<1>6. IsRanking(board, snapshots, score)' <=> IsRanking(board, snapshots, score)
  <2> HIDE DEF score
  <2> QED BY <1>2, <1>3 DEF IsRanking, Better, FirstSeen, Of, RankedModels
<1> QED BY <1>4, <1>5, <1>6

LEMMA RankingNextInv == ASSUME RankingInv, [Next]_vars PROVE RankingInv'
<1>1. CASE WriteSnapshots
  BY <1>1, WriteSnapshotsInv
<1>2. CASE Rebuild
  BY <1>2, RebuildInv
<1>3. CASE CreateCheckpoint
  BY <1>3, CreateCheckpointInv
<1>4. CASE NotDue
  BY <1>4, NotDueInv
<1>5. CASE UNCHANGED vars
  <2>1. UNCHANGED <<rankingKey, direction, clock, pc, snapshots, board, checkpoint>>
    BY <1>5 DEF vars, configuration
  <2>2. RankingType'
    BY <2>1 DEF RankingInv, RankingType
  <2>3. PredictionsWeighEqually'
    BY <2>1, PeriodStays DEF RankingInv
  <2>4. BoardRanks'
    BY <2>1, BoardStays DEF RankingInv
  <2> QED BY <2>2, <2>3, <2>4 DEF RankingInv
<1> QED BY <1>1, <1>2, <1>3, <1>4, <1>5 DEF Next

-----------------------------------------------------------------------------
(* A finite set of snapshots, unless empty, has one that none is later than. *)
LEMMA LatestExists ==
  ASSUME NEW S, IsFiniteSet(S), S # {}, \A s \in S : s.at \in Nat
  PROVE  \E s \in S : \A t \in S : t.at <= s.at
<1> DEFINE g == [s \in S |-> 0 - s.at]
<1>1. \A s \in S : g[s] = 0 - s.at /\ g[s] \in Int
  OBVIOUS
<1> HIDE DEF g
<1>2. PICK s \in S : \A t \in S : g[s] <= g[t]
  BY <1>1, LeastIn
<1>3. \A t \in S : t.at <= s.at
  BY <1>1, <1>2
<1> QED BY <1>3

LEMMA WindowAverageIs ==
  ASSUME RankingType, NEW m, InWindow(m) # {}
  PROVE  /\ IsFiniteSet(InWindow(m)) /\ WindowAverage(m) \in Fraction
         /\ WindowAverage(m) = AverageOf(InWindow(m), [s \in InWindow(m) |-> Summary(s)])
         /\ Fractions(InWindow(m), [s \in InWindow(m) |-> Summary(s)])
<1> DEFINE S == InWindow(m)
           f == [s \in S |-> Summary(s)]
<1>1. S \in SUBSET snapshots
  BY DEF InWindow, Of
<1>2. IsFiniteSet(S)
  BY <1>1, FS_Subset DEF RankingType
<1>3. \A s \in S : Summary(s) \in Fraction
  BY <1>1, SummaryIs DEF RankingType
<1>4. Fractions(S, f)
  BY <1>3 DEF Fractions
<1>5. WindowAverage(m) = AverageOf(S, f)
  BY DEF WindowAverage, AverageOf, Summaries
<1> HIDE DEF S, f
<1>6. S # {}
  BY DEF S
<1>7. AverageOf(S, f) \in Fraction
  BY <1>2, <1>4, <1>6, AverageIs
<1> QED BY <1>2, <1>4, <1>5, <1>7 DEF S, f

LEMMA UniformlyBetterScores ==
  ASSUME RankingType, NEW a, NEW b, InWindow(a) # {}, InWindow(b) # {},
         UniformlyBetter(a, b, snapshots)
  PROVE  /\ Better(BoardScore(a), BoardScore(b))
         /\ BoardScore(a) \in Fraction /\ BoardScore(b) \in Fraction
<1>0. direction \in {"desc", "asc"}
  BY DEF RankingType
<1>1. /\ InWindow(a) \subseteq Of(snapshots, a) /\ Of(snapshots, a) \in SUBSET snapshots
      /\ InWindow(b) \subseteq Of(snapshots, b) /\ Of(snapshots, b) \in SUBSET snapshots
  BY DEF InWindow, Of
<1>2. \A s \in snapshots : Summary(s) \in Fraction
  BY SummaryIs DEF RankingType
<1>3. CASE rankingKey \in Windows
  <2> DEFINE S == InWindow(a)
             T == InWindow(b)
             f == [s \in S |-> Summary(s)]
             g == [s \in T |-> Summary(s)]
  <2>1. /\ IsFiniteSet(S) /\ WindowAverage(a) \in Fraction
        /\ WindowAverage(a) = AverageOf(S, f) /\ Fractions(S, f)
    BY WindowAverageIs
  <2>2. /\ IsFiniteSet(T) /\ WindowAverage(b) \in Fraction
        /\ WindowAverage(b) = AverageOf(T, g) /\ Fractions(T, g)
    BY WindowAverageIs
  <2>3. \A t \in T : \A s \in S : Better(f[s], g[t])
    BY <1>1 DEF UniformlyBetter
  <2>4. S # {} /\ T # {}
    OBVIOUS
  <2> HIDE DEF S, T, f, g
  <2>5. ASSUME NEW t \in T PROVE Better(WindowAverage(a), g[t])
    <3>1. g[t] \in Fraction
      BY <2>2 DEF Fractions
    <3>2. \A s \in S : Better(f[s], g[t])
      BY <2>3
    <3>3. Better(AverageOf(S, f), g[t])
      BY <1>0, <2>1, <2>4, <3>1, <3>2, AverageIsBetter
    <3> QED BY <3>3, <2>1
  <2>6. \A t \in T : Better(WindowAverage(a), g[t])
    BY <2>5
  <2>7. Better(WindowAverage(a), AverageOf(T, g))
    BY <1>0, <2>1, <2>2, <2>4, <2>6, AverageIsBetter
  <2> QED BY <1>3, <2>1, <2>2, <2>7 DEF BoardScore
<1>4. CASE rankingKey \notin Windows
  <2>1. ASSUME NEW m, Of(snapshots, m) # {} PROVE Latest(m) \in Of(snapshots, m)
    <3>1. Of(snapshots, m) \in SUBSET snapshots
      BY DEF Of
    <3>2. IsFiniteSet(Of(snapshots, m)) /\ \A s \in Of(snapshots, m) : s.at \in Nat
      BY <3>1, FS_Subset DEF RankingType
    <3>3. \E s \in Of(snapshots, m) : \A t \in Of(snapshots, m) : t.at <= s.at
      BY <2>1, <3>2, LatestExists
    <3> QED BY <3>3 DEF Latest
  <2>2. Latest(a) \in Of(snapshots, a) /\ Latest(b) \in Of(snapshots, b)
    BY <1>1, <2>1
  <2>3. Better(Summary(Latest(a)), Summary(Latest(b)))
    BY <2>2 DEF UniformlyBetter
  <2> QED BY <1>1, <1>2, <1>4, <2>2, <2>3 DEF BoardScore
<1> QED BY <1>3, <1>4

LEMMA BoardRanksLeads == ASSUME RankingType, BoardRanks PROVE UniformlyBetterLeads
<1> SUFFICES ASSUME pc = "due", NEW i \in DOMAIN board, NEW j \in DOMAIN board,
                    InWindow(board[i]) # {}, InWindow(board[j]) # {},
                    UniformlyBetter(board[i], board[j], snapshots)
             PROVE  i < j
  BY DEF UniformlyBetterLeads
<1> DEFINE score == [m \in RankedModels(snapshots) |-> BoardScore(m)]
<1>1. IsRanking(board, snapshots, score)
  BY DEF BoardRanks
<1>2. /\ board[i] \in RankedModels(snapshots) /\ board[j] \in RankedModels(snapshots)
      /\ i \in 1 .. Cardinality(RankedModels(snapshots))
      /\ j \in 1 .. Cardinality(RankedModels(snapshots))
  BY <1>1 DEF IsRanking
<1>3. score[board[i]] = BoardScore(board[i]) /\ score[board[j]] = BoardScore(board[j])
  BY <1>2
<1> HIDE DEF score
<1>4. /\ Better(score[board[i]], score[board[j]])
      /\ score[board[i]] \in Fraction /\ score[board[j]] \in Fraction
  BY <1>3, UniformlyBetterScores
<1>5. ~Better(score[board[j]], score[board[i]])
  BY <1>4, BetterIsStrict
<1>6. i # j
  BY <1>4, <1>5
<1>7. ~(j < i)
  BY <1>1, <1>4, <1>5 DEF IsRanking
<1>8. i \in Int /\ j \in Int
  BY <1>2
<1> QED BY <1>6, <1>7, <1>8

-----------------------------------------------------------------------------
(* With a field as the key, every prediction of the period weighs the same in *)
(* the checkpoint's ranking, however the cycles grouped them: the snapshots'  *)
(* averages, weighted by their prediction counts, sum to the average over the *)
(* predictions themselves.                                                    *)
THEOREM RankingSpecPredictionsWeighEqually == Spec => []PredictionsWeighEqually
<1>1. Init => RankingInv
  BY RankingInitInv
<1>2. RankingInv /\ [Next]_vars => RankingInv'
  BY RankingNextInv
<1>3. RankingInv => PredictionsWeighEqually
  BY DEF RankingInv
<1> QED BY <1>1, <1>2, <1>3, PTL DEF Spec

(* A model all of whose snapshots are better than all of another's is ahead of *)
(* it on the rebuilt leaderboard, with a window or a field as the key and in   *)
(* either direction.                                                          *)
THEOREM RankingSpecUniformlyBetterLeads == Spec => []UniformlyBetterLeads
<1>1. Init => RankingInv
  BY RankingInitInv
<1>2. RankingInv /\ [Next]_vars => RankingInv'
  BY RankingNextInv
<1>3. RankingInv => UniformlyBetterLeads
  BY BoardRanksLeads DEF RankingInv
<1> QED BY <1>1, <1>2, <1>3, PTL DEF Spec

-----------------------------------------------------------------------------
(* Ensembles *)

NotNegative == {a \in Fraction : a[1] >= 0}
Positives   == {a \in Fraction : a[1] >= 1}

LEMMA SumIsNotNegative ==
  ASSUME NEW S, IsFiniteSet(S), NEW f, \A x \in S : f[x] \in NotNegative
  PROVE  SumOver(S, f) \in NotNegative
<1> DEFINE zero == <<0, 1>>
           sum  == SumOver(S, f)
<1>1. Fractions(S, f) /\ zero \in Fraction
  BY DEF Fractions, Fraction, NotNegative
<1>2. sum \in Fraction
  BY <1>1, SumIsFraction
<1>3. ASSUME NEW a \in Fraction PROVE Excess(a, a, zero) = a[1] * a[2]
  <2>1. a[1] \in Int /\ a[2] \in Nat
    BY DEF Fraction
  <2>2. Excess(a, a, zero) = a[1] * 1 * a[2] - 0 * a[1] * a[2]
    BY DEF Excess
  <2> QED BY <2>1, <2>2
<1>4. ASSUME NEW m \in Nat, NEW n \in Nat PROVE 1 * (m * n) >= 0
  OBVIOUS
<1>5. \A x \in S : 1 * Excess(f[x], f[x], zero) >= 0
  <2> TAKE x \in S
  <2>1. f[x] \in Fraction /\ f[x][1] \in Nat /\ f[x][2] \in Nat
    BY DEF NotNegative, Fraction
  <2> QED BY <2>1, <1>3, <1>4
<1> HIDE DEF sum, zero
<1>6. 1 * Excess(sum, sum, zero) >= 0
  BY <1>1, <1>5, SumsKeepSign DEF sum
<1>7. PICK m \in Int, n \in Nat \ {0} : sum = <<m, n>>
  BY <1>2 DEF Fraction
<1>8. m * n >= 0
  BY <1>2, <1>3, <1>6, <1>7
<1>9. m < 0 => m * n < 0
  OBVIOUS
<1>10. m >= 0
  BY <1>8, <1>9
<1> QED BY <1>2, <1>7, <1>10 DEF NotNegative, sum

LEMMA SumIsPositive ==
  ASSUME NEW S, IsFiniteSet(S), S # {}, NEW f, \A x \in S : f[x] \in Positives
  PROVE  SumOver(S, f) \in Positives
<1> DEFINE zero == <<0, 1>>
           sum  == SumOver(S, f)
<1>1. Fractions(S, f) /\ zero \in Fraction
  BY DEF Fractions, Fraction, Positives
<1>2. sum \in Fraction
  BY <1>1, SumIsFraction
<1>3. ASSUME NEW a \in Fraction PROVE Excess(a, a, zero) = a[1] * a[2]
  <2>1. a[1] \in Int /\ a[2] \in Nat
    BY DEF Fraction
  <2>2. Excess(a, a, zero) = a[1] * 1 * a[2] - 0 * a[1] * a[2]
    BY DEF Excess
  <2> QED BY <2>1, <2>2
<1>4. ASSUME NEW m \in Nat \ {0}, NEW n \in Nat \ {0} PROVE 1 * (m * n) >= 1
  BY Positive
<1>5. \A x \in S : 1 * Excess(f[x], f[x], zero) >= 1
  <2> TAKE x \in S
  <2>1. f[x] \in Fraction /\ f[x][1] \in Nat \ {0} /\ f[x][2] \in Nat \ {0}
    BY DEF Positives, Fraction
  <2> QED BY <2>1, <1>3, <1>4
<1> HIDE DEF sum, zero
<1>6. 1 * Excess(sum, sum, zero) >= 1
  BY <1>1, <1>5, SumsKeepSign DEF sum
<1>7. PICK m \in Int, n \in Nat \ {0} : sum = <<m, n>>
  BY <1>2 DEF Fraction
<1>8. m * n >= 1
  BY <1>2, <1>3, <1>6, <1>7
<1>9. m <= 0 => m * n <= 0
  OBVIOUS
<1>10. m >= 1
  BY <1>8, <1>9
<1> QED BY <1>2, <1>7, <1>10 DEF Positives, sum

LEMMA OverIs ==
  ASSUME NEW a \in Fraction, NEW n \in Nat \ {0}
  PROVE  Over(a, Whole(n)) \in Fraction /\ (a[1] >= 0 => Over(a, Whole(n))[1] >= 0)
<1>1. Over(a, Whole(n)) = <<a[1] * 1, a[2] * n>>
  BY DEF Over, Whole
<1>2. a[1] * 1 = a[1] /\ a[2] * n \in Nat \ {0} /\ a[1] \in Int
  BY Positive DEF Fraction
<1> QED BY <1>1, <1>2 DEF Fraction

LEMMA SquareIs ==
  ASSUME NEW v \in Int, NEW a \in Fraction
  PROVE  Square(Minus(Whole(v), a)) \in NotNegative
<1>1. PICK m \in Int, n \in Nat \ {0} : a = <<m, n>>
  BY DEF Fraction
<1> DEFINE d == v * n - m * 1
           e == 1 * n
<1>2. Minus(Whole(v), a) = <<d, e>>
  BY <1>1 DEF Minus, Whole
<1>3. d \in Int /\ e \in Nat \ {0}
  OBVIOUS
<1> HIDE DEF d, e
<1>4. Square(<<d, e>>) = <<d * d, e * e>>
  BY DEF Square, Times
<1>5. e * e \in Nat \ {0} /\ d * d \in Int /\ d * d >= 0
  <2>1. e * e \in Nat \ {0}
    BY <1>3, Positive
  <2>2. d * d \in Int
    BY <1>3
  <2>3. d * d >= 0
    BY <1>3
  <2> QED BY <2>1, <2>2, <2>3
<1> QED BY <1>2, <1>4, <1>5 DEF NotNegative, Fraction

PredictionsType ==
  IsFiniteSet(predictions) /\ \A p \in predictions : p.value \in Values \cup {NoValue}

LEMMA WeightIs ==
  ASSUME PredictionsType, NEW s, NEW m
  PROVE  Weight(s, m) \in Positives
<1> DEFINE given == {p \in RowsOf(m) : p.value # NoValue}
           n == Cardinality(given)
           values == [p \in given |-> Whole(p.value)]
           mean == Over(SumOver(given, values), Whole(n))
           squares == [p \in given |-> Square(Minus(Whole(p.value), mean))]
           variance == Over(SumOver(given, squares), Whole(n))
<1>1. Whole(1) \in Positives
  BY DEF Whole, Positives, Fraction
<1>2. given \in SUBSET predictions /\ \A p \in given : p.value \in Int
  BY EnsemblesAssumption DEF PredictionsType, RowsOf
<1>3. IsFiniteSet(given)
  BY <1>2, FS_Subset DEF PredictionsType
<1>4. InverseVariance(m) =
        IF n < 2 \/ variance[1] = 0 THEN Whole(1) ELSE Over(Whole(1), variance)
  BY DEF InverseVariance
<1> HIDE DEF given
<1>5. n \in Nat
  BY <1>3, FS_CardinalityType
<1>6. ASSUME n >= 2 PROVE variance \in NotNegative
  <2>1. n \in Nat \ {0}
    BY <1>5, <1>6
  <2>2. Fractions(given, values)
    BY <1>2 DEF Fractions, Fraction, Whole
  <2> HIDE DEF n, values
  <2>3. SumOver(given, values) \in Fraction
    BY <1>3, <2>2, SumIsFraction
  <2>4. mean \in Fraction
    BY <2>1, <2>3, OverIs
  <2> HIDE DEF mean
  <2>5. \A p \in given : squares[p] \in NotNegative
    BY <1>2, <2>4, SquareIs
  <2> HIDE DEF squares
  <2>6. SumOver(given, squares) \in NotNegative
    BY <1>3, <2>5, SumIsNotNegative
  <2> QED BY <2>1, <2>6, OverIs DEF NotNegative
<1> HIDE DEF n, variance
<1>7. ASSUME n >= 2, variance[1] # 0 PROVE Over(Whole(1), variance) \in Positives
  <2>1. PICK a \in Nat \ {0}, b \in Nat \ {0} : variance = <<a, b>>
    BY <1>6, <1>7 DEF NotNegative, Fraction
  <2>2. Over(Whole(1), variance) = <<1 * b, 1 * a>>
    BY <2>1 DEF Over, Whole
  <2> QED BY <2>2 DEF Positives, Fraction
<1>8. InverseVariance(m) \in Positives
  BY <1>1, <1>4, <1>5, <1>7
<1> QED BY <1>1, <1>8 DEF Weight

(* A weighted average lies between two of the values, if no weight is       *)
(* negative.                                                                *)
LEMMA WeighedTerm ==
  ASSUME NEW v \in Int, NEW w \in NotNegative, NEW bound \in Int
  PROVE  /\ Times(w, Whole(v)) \in Fraction
         /\ v >= bound => 1 * Excess(Times(w, Whole(v)), w, <<bound, 1>>) >= 0
         /\ bound >= v => (-1) * Excess(Times(w, Whole(v)), w, <<bound, 1>>) >= 0
<1>1. PICK m \in Nat, n \in Nat \ {0} : w = <<m, n>>
  BY DEF NotNegative, Fraction
<1>2. Times(w, Whole(v)) = <<m * v, n * 1>> /\ m * v \in Int /\ n * 1 \in Nat \ {0}
  BY <1>1 DEF Times, Whole
<1>3. Excess(Times(w, Whole(v)), w, <<bound, 1>>) = (m * v) * 1 * n - bound * m * (n * 1)
  BY <1>1, <1>2 DEF Excess
<1>4. (m * v) * 1 * n - bound * m * (n * 1) = (m * n) * (v - bound)
  OBVIOUS
<1>5. m * n \in Nat
  OBVIOUS
<1> DEFINE k == m * n
           d == v - bound
<1>6. k \in Nat /\ d \in Int /\ (v >= bound => d >= 0) /\ (bound >= v => 0 - d >= 0)
  BY <1>5
<1>7. Excess(Times(w, Whole(v)), w, <<bound, 1>>) = k * d
  BY <1>3, <1>4
<1> HIDE DEF k, d
<1>8. d >= 0 => 1 * (k * d) >= 0
  BY <1>6
<1>9. 0 - d >= 0 => (-1) * (k * d) >= 0
  <2>1. (-1) * (k * d) = k * (0 - d)
    BY <1>6
  <2> QED BY <1>6, <2>1
<1> QED BY <1>2, <1>6, <1>7, <1>8, <1>9 DEF Fraction

LEMMA AverageLies ==
  ASSUME NEW a \in Fraction, NEW b \in Fraction, NEW bound \in Int
  PROVE  /\ 1 * Excess(a, b, <<bound, 1>>) >= 0 => AtMost(<<bound, 1>>, Over(a, b))
         /\ (-1) * Excess(a, b, <<bound, 1>>) >= 0 => AtMost(Over(a, b), <<bound, 1>>)
<1>1. PICK m \in Int, n \in Nat \ {0} : a = <<m, n>>
  BY DEF Fraction
<1>2. PICK u \in Int, v \in Nat \ {0} : b = <<u, v>>
  BY DEF Fraction
<1>3. Over(a, b) = <<m * v, n * u>>
  BY <1>1, <1>2 DEF Over
<1>4. Excess(a, b, <<bound, 1>>) = m * 1 * v - bound * u * n
  BY <1>1, <1>2 DEF Excess
<1>5. AtMost(<<bound, 1>>, Over(a, b)) <=> bound * (n * u) <= (m * v) * 1
  BY <1>3 DEF AtMost
<1>6. AtMost(Over(a, b), <<bound, 1>>) <=> (m * v) * 1 <= bound * (n * u)
  BY <1>3 DEF AtMost
<1>7. bound * u * n = bound * (n * u) /\ m * 1 * v = (m * v) * 1
  OBVIOUS
<1>8. bound * (n * u) \in Int /\ (m * v) * 1 \in Int
  OBVIOUS
<1> QED BY <1>4, <1>5, <1>6, <1>7, <1>8

LEMMA AverageLiesBetween ==
  ASSUME PredictionsType, NEW i, NEW S, NEW s, Given(i, S) # {}
  PROVE  /\ Average(i, S, s)[2] > 0
         /\ \E low, high \in Given(i, S) : /\ AtMost(<<low.value, 1>>, Average(i, S, s))
                                           /\ AtMost(Average(i, S, s), <<high.value, 1>>)
<1> DEFINE G == Given(i, S)
           value == [p \in G |-> p.value]
           minus == [p \in G |-> 0 - p.value]
           weight == [p \in G |-> Weight(s, p.model)]
           weighed == [p \in G |-> Times(Weight(s, p.model), Whole(p.value))]
<1>1. G \in SUBSET predictions /\ \A p \in G : p.value \in Int
  BY EnsemblesAssumption DEF PredictionsType, Given
<1>2. IsFiniteSet(G)
  BY <1>1, FS_Subset DEF PredictionsType
<1>3. Average(i, S, s) = Over(SumOver(G, weighed), SumOver(G, weight))
  BY DEF Average, Weighed, Weights
<1>4. G # {}
  OBVIOUS
<1>5. \A p \in G : weight[p] \in Positives /\ weighed[p] = Times(weight[p], Whole(p.value))
  BY WeightIs
<1>6. \A p \in G : value[p] = p.value /\ minus[p] = 0 - p.value
  OBVIOUS
<1> HIDE DEF G, value, minus, weight, weighed
<1>6a. \A p \in G : weight[p] \in NotNegative
  BY <1>5 DEF Positives, NotNegative, Fraction
<1>7. PICK low \in G : \A p \in G : low.value <= p.value
  <2>1. \A p \in G : value[p] \in Int
    BY <1>1, <1>6
  <2>2. \E p \in G : \A q \in G : value[p] <= value[q]
    BY <1>2, <1>4, <2>1, LeastIn
  <2> QED BY <1>6, <2>2
<1>8. PICK high \in G : \A p \in G : p.value <= high.value
  <2>1. \A p \in G : minus[p] \in Int
    BY <1>1, <1>6
  <2>2. \E p \in G : \A q \in G : minus[p] <= minus[q]
    BY <1>2, <1>4, <2>1, LeastIn
  <2>3. PICK p \in G : \A q \in G : 0 - p.value <= 0 - q.value
    BY <1>6, <2>2
  <2>4. \A q \in G : q.value <= p.value
    BY <1>1, <2>3
  <2> QED BY <2>4
<1>9. Fractions(G, weight) /\ Fractions(G, weighed)
  BY <1>1, <1>5, <1>6a, WeighedTerm DEF Fractions, NotNegative
<1>10. SumOver(G, weight) \in Fraction /\ SumOver(G, weighed) \in Fraction
  BY <1>2, <1>9, SumIsFraction
<1>11. low.value \in Int /\ high.value \in Int
  BY <1>1
<1>12. <<low.value, 1>> \in Fraction /\ <<high.value, 1>> \in Fraction
  BY <1>11 DEF Fraction
<1>13. 1 * Excess(SumOver(G, weighed), SumOver(G, weight), <<low.value, 1>>) >= 0
  <2>1. \A p \in G : 1 * Excess(weighed[p], weight[p], <<low.value, 1>>) >= 0
    BY <1>1, <1>5, <1>7, <1>11, <1>6a, WeighedTerm
  <2> QED BY <1>2, <1>9, <1>12, <2>1, SumsKeepSign
<1>14. (-1) * Excess(SumOver(G, weighed), SumOver(G, weight), <<high.value, 1>>) >= 0
  <2>1. \A p \in G : (-1) * Excess(weighed[p], weight[p], <<high.value, 1>>) >= 0
    BY <1>1, <1>5, <1>8, <1>11, <1>6a, WeighedTerm
  <2> QED BY <1>2, <1>9, <1>12, <2>1, SumsKeepSign
<1>15. /\ AtMost(<<low.value, 1>>, Average(i, S, s))
       /\ AtMost(Average(i, S, s), <<high.value, 1>>)
  BY <1>3, <1>10, <1>11, <1>13, <1>14, AverageLies
<1>16. Average(i, S, s)[2] > 0
  <2>1. SumOver(G, weight) \in Positives
    BY <1>2, <1>4, <1>5, SumIsPositive
  <2>2. PICK m \in Nat \ {0}, n \in Nat \ {0} : SumOver(G, weight) = <<m, n>>
    BY <2>1 DEF Positives, Fraction
  <2>3. PICK u \in Int, v \in Nat \ {0} : SumOver(G, weighed) = <<u, v>>
    BY <1>10 DEF Fraction
  <2>4. Average(i, S, s) = <<u * n, v * m>>
    BY <1>3, <2>2, <2>3 DEF Over
  <2>5. v * m > 0
    BY Positive
  <2> QED BY <2>4, <2>5
<1> QED BY <1>15, <1>16 DEF G

-----------------------------------------------------------------------------
(* The cycle of the ensembles.                                              *)
(*                                                                         *)
(* A row lies between its members' values: those of its input are never    *)
(* taken back.  A row whose score may be of another value is of the batch  *)
(* being saved, already saved and not yet scored, or was when a fault cut   *)
(* that batch short.  A batch that no row may be saved of is given up whole *)
(* before its first row.                                                    *)
IsPair(id) == id = <<id[1], id[2]>>

EnsembleType ==
  /\ PredictionsType /\ cycle \in Nat
  /\ step \in {"idle", "ensembles", "predictions", "scores", "snapshot"}
  /\ IsFiniteSet(DOMAIN batch) /\ left \subseteq DOMAIN batch
  /\ step \in {"predictions", "scores", "snapshot"} => DOMAIN batch # {}
  /\ IsFiniteSet(DOMAIN virtual) /\ \A id \in DOMAIN virtual : IsPair(id)

(* The value is a number and lies between two that the members gave for the input, of the   *)
(* predictions P.                                                           *)
Middle(P, value, members, i) ==
  /\ value[2] > 0
  /\ \E low, high \in {p \in P : p.input = i /\ p.model \in members /\ p.value # NoValue} :
       AtMost(<<low.value, 1>>, value) /\ AtMost(value, <<high.value, 1>>)

Between ==
  /\ \A i \in DOMAIN batch : Middle(predictions, batch[i].value, batch[i].members, i)
  /\ \A id \in DOMAIN virtual :
       Middle(predictions, virtual[id].value, virtual[id].members, id[2])

IsSaved(i) ==
  <<Name, i>> \in DOMAIN virtual /\ virtual[<<Name, i>>].value = batch[i].value

Saves ==
  /\ step \in {"scores", "snapshot"} => \A i \in DOMAIN batch : IsSaved(i)
  /\ step = "predictions" => \A i \in DOMAIN batch \ left : IsSaved(i)
  /\ step = "predictions" /\ Name \notin registered => left = DOMAIN batch

Current(id) == id \in DOMAIN scores /\ scores[id] = virtual[id].value

Open(id) ==
  \/ step = "predictions" /\ id[1] = Name /\ id[2] \in DOMAIN batch \ left
  \/ step = "scores" /\ id[1] = Name /\ id[2] \in left

ScoresFollow == \A id \in DOMAIN virtual : id \in cut \/ Current(id) \/ Open(id)

CountsHold == \A s \in ensembleSnapshots : s.count \in 1 .. Cardinality(Inputs(s.ensemble))

EnsembleInv == EnsembleType /\ Between /\ Saves /\ ScoresFollow /\ CountsHold

(* With more predictions, what lies in the middle stays there. *)
LEMMA MiddleStays ==
  ASSUME NEW P, NEW Q, P \subseteq Q, NEW v, NEW S, NEW i, Middle(P, v, S, i)
  PROVE  Middle(Q, v, S, i)
BY DEF Middle

LEMMA InputsAreFinite ==
  ASSUME NEW V, IsFiniteSet(V), NEW e
  PROVE  IsFiniteSet({id[2] : id \in {id \in V : id[1] = e}})
<1> DEFINE D == {id \in V : id[1] = e}
           I == {id[2] : id \in D}
           f == [id \in D |-> id[2]]
<1>1. D \in SUBSET V
  OBVIOUS
<1>2. IsFiniteSet(D)
  BY <1>1, FS_Subset
<1>3. f \in Surjection(D, I)
  BY DEF Surjection
<1> HIDE DEF f, I, D
<1>4. IsFiniteSet(I)
  BY <1>2, <1>3, FS_Surjection
<1> QED BY <1>4 DEF D, I

(* More rows: the counts stay within the inputs. *)
LEMMA CountsStay ==
  ASSUME EnsembleType', CountsHold, UNCHANGED ensembleSnapshots,
         DOMAIN virtual \subseteq DOMAIN virtual'
  PROVE  CountsHold'
<1> SUFFICES ASSUME NEW s \in ensembleSnapshots
             PROVE  s.count \in 1 .. Cardinality(Inputs(s.ensemble)')
  BY DEF CountsHold
<1>1. s.count \in 1 .. Cardinality(Inputs(s.ensemble))
  BY DEF CountsHold
<1>2. Inputs(s.ensemble) \in SUBSET Inputs(s.ensemble)'
  BY DEF Inputs
<1>3. IsFiniteSet(Inputs(s.ensemble)')
  BY InputsAreFinite DEF EnsembleType, Inputs
<1>4. /\ Cardinality(Inputs(s.ensemble)) <= Cardinality(Inputs(s.ensemble)')
      /\ IsFiniteSet(Inputs(s.ensemble))
  BY <1>2, <1>3, FS_Subset
<1>5. Cardinality(Inputs(s.ensemble)) \in Nat /\ Cardinality(Inputs(s.ensemble)') \in Nat
  BY <1>3, <1>4, FS_CardinalityType
<1> QED BY <1>1, <1>4, <1>5

LEMMA EnsemblesInitInv == ASSUME EnsemblesInit PROVE EnsembleInv
<1>1. DOMAIN << >> = {}
  OBVIOUS
<1>2. EnsembleType
  BY <1>1, FS_EmptySet DEF EnsemblesInit, EnsembleType, PredictionsType
<1>3. Between /\ Saves /\ ScoresFollow /\ CountsHold
  BY <1>1 DEF EnsemblesInit, Between, Saves, ScoresFollow, CountsHold
<1> QED BY <1>2, <1>3 DEF EnsembleInv

LEMMA ScoreMembersInv == ASSUME EnsembleInv, ScoreMembers PROVE EnsembleInv'
<1>1. PICK S \in (SUBSET Members) \ {{}} :
        \E output \in [S -> Values \cup {NoValue}] :
          predictions' = predictions \cup
            {[model |-> m, input |-> cycle + 1, value |-> output[m]] : m \in S}
  BY DEF ScoreMembers
<1>2. PICK output \in [S -> Values \cup {NoValue}] :
        predictions' = predictions \cup
          {[model |-> m, input |-> cycle + 1, value |-> output[m]] : m \in S}
  BY <1>1
<1> DEFINE new == {[model |-> m, input |-> cycle + 1, value |-> output[m]] : m \in S}
<1>3. IsFiniteSet(new)
  <2>1. S \in SUBSET Members /\ IsFiniteSet(Members)
    BY EnsemblesAssumption
  <2>2. IsFiniteSet(S)
    BY <2>1, FS_Subset
  <2> DEFINE row == [m \in S |-> [model |-> m, input |-> cycle + 1, value |-> output[m]]]
  <2>3. row \in Surjection(S, new)
    BY DEF Surjection
  <2> HIDE DEF row, new
  <2> QED BY <2>2, <2>3, FS_Surjection
<1>4. \A p \in new : p.value \in Values \cup {NoValue}
  OBVIOUS
<1>5. predictions' = predictions \cup new
  BY <1>2
<1> HIDE DEF new
<1>6. /\ step = "idle" /\ step' = "ensembles"
      /\ UNCHANGED <<batch, left, virtual, scores, ensembleSnapshots, registered, cut>>
      /\ cycle' = cycle + 1
  BY DEF ScoreMembers
<1>7. PredictionsType'
  <2>1. IsFiniteSet(predictions')
    BY <1>3, <1>5, FS_Union DEF EnsembleInv, EnsembleType, PredictionsType
  <2> QED BY <2>1, <1>4, <1>5 DEF EnsembleInv, EnsembleType, PredictionsType
<1>8. EnsembleType'
  BY <1>6, <1>7 DEF EnsembleInv, EnsembleType
<1>9. Between'
  <2>1. predictions \subseteq predictions'
    BY <1>5
  <2> QED BY <2>1, <1>6, MiddleStays DEF EnsembleInv, Between
<1>10. Saves'
  BY <1>6 DEF Saves
<1>11. ScoresFollow'
  BY <1>6 DEF EnsembleInv, ScoresFollow, Current, Open
<1>12. CountsHold'
  BY <1>6, <1>8, CountsStay DEF EnsembleInv
<1> QED BY <1>8, <1>9, <1>10, <1>11, <1>12 DEF EnsembleInv

LEMMA BatchIsFinite ==
  ASSUME cycle \in Nat, NEW S
  PROVE  IsFiniteSet({i \in 1 .. cycle : Given(i, S) # {}})
<1>1. {i \in 1 .. cycle : Given(i, S) # {}} \in SUBSET (1 .. cycle) /\ IsFiniteSet(1 .. cycle)
  BY FS_Interval
<1> QED BY <1>1, FS_Subset

LEMMA ComputeInv == ASSUME EnsembleInv, Compute PROVE EnsembleInv'
<1>1. PICK S \in Kept(Configs[config].filter) :
        LET b == Batch(S, Configs[config].strategy)
        IN  IF DOMAIN b = {}
            THEN /\ config' = config + 1
                 /\ UNCHANGED <<step, batch, left>>
            ELSE /\ step' = "predictions"
                 /\ batch' = b
                 /\ left' = DOMAIN b
                 /\ UNCHANGED config
  BY DEF Compute
<1> DEFINE s == Configs[config].strategy
           b == Batch(S, s)
<1>2. /\ step = "ensembles"
      /\ UNCHANGED <<cycle, predictions, virtual, scores, ensembleSnapshots, registered, cut>>
  BY DEF Compute, tables
<1>3. CASE DOMAIN b = {}
  <2>1. UNCHANGED <<step, batch, left>>
    BY <1>1, <1>3
  <2>2. EnsembleType'
    BY <1>2, <2>1 DEF EnsembleInv, EnsembleType, PredictionsType
  <2>3. Between'
    BY <1>2, <2>1 DEF EnsembleInv, Between
  <2>4. Saves'
    BY <1>2, <2>1 DEF Saves
  <2>5. ScoresFollow'
    BY <1>2, <2>1 DEF EnsembleInv, ScoresFollow, Current, Open
  <2>6. CountsHold'
    BY <1>2, <2>2, CountsStay DEF EnsembleInv
  <2> QED BY <2>2, <2>3, <2>4, <2>5, <2>6 DEF EnsembleInv
<1>4. CASE DOMAIN b # {}
  <2>1. step' = "predictions" /\ batch' = b /\ left' = DOMAIN b /\ UNCHANGED config
    BY <1>1, <1>4
  <2>2. /\ DOMAIN b = {i \in 1 .. cycle : Given(i, S) # {}}
        /\ \A i \in DOMAIN b : b[i].value = Average(i, S, s) /\ b[i].members = S
    BY DEF Batch
  <2>3. IsFiniteSet(DOMAIN b)
    BY <2>2, BatchIsFinite DEF EnsembleInv, EnsembleType
  <2> HIDE DEF b, s
  <2>4. EnsembleType'
    BY <1>2, <1>4, <2>1, <2>3 DEF EnsembleInv, EnsembleType, PredictionsType
  <2>5. \A i \in DOMAIN b : Middle(predictions, b[i].value, b[i].members, i)
    <3> TAKE i \in DOMAIN b
    <3>1. PredictionsType /\ Given(i, S) # {}
      BY <2>2 DEF EnsembleInv, EnsembleType
    <3>1a. Average(i, S, s)[2] > 0
      BY <3>1, AverageLiesBetween
    <3>2. PICK low \in Given(i, S), high \in Given(i, S) :
            /\ AtMost(<<low.value, 1>>, Average(i, S, s))
            /\ AtMost(Average(i, S, s), <<high.value, 1>>)
      BY <3>1, AverageLiesBetween
    <3>3. b[i].value = Average(i, S, s) /\ b[i].members = S
      BY <2>2
    <3>4. Given(i, S) = {p \in predictions : p.input = i /\ p.model \in S /\ p.value # NoValue}
      BY DEF Given
    <3>5. Middle(predictions, Average(i, S, s), S, i)
      BY <3>2, <3>4, <3>1a DEF Middle
    <3> QED BY <3>3, <3>5
  <2>6. Between'
    BY <1>2, <2>1, <2>5 DEF EnsembleInv, Between
  <2>7. Saves'
    BY <2>1 DEF Saves
  <2>8. ScoresFollow'
    BY <1>2, <2>1 DEF EnsembleInv, ScoresFollow, Current, Open
  <2>9. CountsHold'
    BY <1>2, <2>4, CountsStay DEF EnsembleInv
  <2> QED BY <2>4, <2>6, <2>7, <2>8, <2>9 DEF EnsembleInv
<1> QED BY <1>3, <1>4

LEMMA SavePredictionInv ==
  ASSUME EnsembleInv, NEW i, SavePrediction(i) PROVE EnsembleInv'
<1> DEFINE id == <<Name, i>>
           row(t) == [value |-> batch[i].value, members |-> batch[i].members, performed_at |-> t]
<1>1. PICK since : virtual' = With(virtual, id, row(since))
  BY DEF SavePrediction
<1>2. /\ step = "predictions" /\ i \in left /\ Name \in registered
      /\ UNCHANGED <<cycle, config, batch, predictions, scores, ensembleSnapshots,
                     registered, cut>>
      /\ left' = IF left = {i} THEN DOMAIN batch ELSE left \ {i}
      /\ step' = IF left = {i} THEN "scores" ELSE step
  BY DEF SavePrediction, LeftAfter
<1>3. /\ DOMAIN virtual' = DOMAIN virtual \cup {id}
      /\ virtual'[id].value = batch[i].value /\ virtual'[id].members = batch[i].members
      /\ \A k \in DOMAIN virtual : k # id => virtual'[k] = virtual[k]
  <2> DEFINE new == row(since)
  <2>2. virtual' = With(virtual, id, new) /\ new.value = batch[i].value
        /\ new.members = batch[i].members
    BY <1>1
  <2> HIDE DEF id, row, new
  <2>3. /\ DOMAIN With(virtual, id, new) = DOMAIN virtual \cup {id}
        /\ With(virtual, id, new)[id] = new
        /\ \A k \in DOMAIN virtual : k # id => With(virtual, id, new)[k] = virtual[k]
    BY DEF With
  <2>4. /\ DOMAIN virtual' = DOMAIN virtual \cup {id} /\ virtual'[id] = new
        /\ \A k \in DOMAIN virtual : k # id => virtual'[k] = virtual[k]
    BY <2>2, <2>3, Zenon
  <2> QED BY <2>2, <2>4
<1>4. i \in DOMAIN batch
  BY <1>2 DEF EnsembleInv, EnsembleType
<1>5. Name' = Name
  BY <1>2 DEF Name
<1>6. id[1] = Name /\ id[2] = i
  OBVIOUS
<1>7. EnsembleType'
  <2>1. IsFiniteSet(DOMAIN virtual')
    BY <1>3, FS_AddElement DEF EnsembleInv, EnsembleType
  <2>2. IsPair(id)
    BY DEF IsPair
  <2> QED BY <1>2, <1>3, <2>1, <2>2 DEF EnsembleInv, EnsembleType, PredictionsType, IsPair
<1> HIDE DEF id
<1>8. Between'
  <2>1. \A k \in DOMAIN virtual' :
          Middle(predictions, virtual'[k].value, virtual'[k].members, k[2])
    <3> TAKE k \in DOMAIN virtual'
    <3>1. CASE k = id
      <4>1. Middle(predictions, batch[i].value, batch[i].members, i)
        BY <1>4 DEF EnsembleInv, Between
      <4> QED BY <1>3, <1>6, <3>1, <4>1
    <3>2. CASE k # id
      <4>1. k \in DOMAIN virtual /\ virtual'[k] = virtual[k]
        BY <1>3, <3>2
      <4>2. Middle(predictions, virtual[k].value, virtual[k].members, k[2])
        BY <4>1 DEF EnsembleInv, Between
      <4> QED BY <4>1, <4>2
    <3> QED BY <3>1, <3>2
  <2> QED BY <1>2, <2>1 DEF EnsembleInv, Between
<1>9. IsSaved(i)'
  BY <1>2, <1>3, <1>5 DEF IsSaved, id
<1>10. \A j \in DOMAIN batch \ left : IsSaved(j)'
  <2> TAKE j \in DOMAIN batch \ left
  <2>1. <<Name, j>> \in DOMAIN virtual /\ virtual[<<Name, j>>].value = batch[j].value
    BY <1>2 DEF EnsembleInv, Saves, IsSaved
  <2>2. <<Name, j>> # id
    BY <1>2 DEF id
  <2> QED BY <1>2, <1>3, <1>5, <2>1, <2>2 DEF IsSaved
<1>11. Saves'
  <2>1. CASE left = {i}
    <3>1. \A j \in DOMAIN batch : j = i \/ j \in DOMAIN batch \ left
      BY <2>1
    <3> QED BY <1>2, <1>9, <1>10, <2>1, <3>1 DEF Saves
  <2>2. CASE left # {i}
    <3>1. \A j \in DOMAIN batch \ left' : j = i \/ j \in DOMAIN batch \ left
      BY <1>2, <2>2
    <3> QED BY <1>2, <1>5, <1>9, <1>10, <2>2, <3>1 DEF Saves
  <2> QED BY <2>1, <2>2
<1>12. ScoresFollow'
  <2> SUFFICES ASSUME NEW k \in DOMAIN virtual'
               PROVE  k \in cut' \/ Current(k)' \/ Open(k)'
    BY DEF ScoresFollow
  <2>1. CASE k = id
    BY <1>2, <1>4, <1>5, <1>6, <2>1 DEF Open
  <2>2. CASE k # id
    <3>1. k \in DOMAIN virtual /\ virtual'[k] = virtual[k]
      BY <1>3, <2>2
    <3>2. k \in cut \/ Current(k) \/ Open(k)
      BY <3>1 DEF EnsembleInv, ScoresFollow
    <3>3. Open(k) => Open(k)'
      BY <1>2, <1>5 DEF Open
    <3> QED BY <1>2, <3>1, <3>2, <3>3 DEF Current
  <2> QED BY <2>1, <2>2
<1>13. CountsHold'
  BY <1>2, <1>3, <1>7, CountsStay DEF EnsembleInv
<1> QED BY <1>7, <1>8, <1>11, <1>12, <1>13 DEF EnsembleInv

LEMMA SaveScoreInv ==
  ASSUME EnsembleInv, NEW i, SaveScore(i) PROVE EnsembleInv'
<1> DEFINE id == <<Name, i>>
<1>1. /\ step = "scores" /\ i \in left
      /\ scores' = With(scores, id, batch[i].value)
      /\ UNCHANGED <<cycle, config, batch, predictions, virtual, ensembleSnapshots,
                     registered>>
      /\ left' = IF left = {i} THEN DOMAIN batch ELSE left \ {i}
      /\ step' = IF left = {i} THEN "snapshot" ELSE step
      /\ cut' = cut \ {id}
  BY DEF SaveScore, LeftAfter
<1>2. /\ DOMAIN scores' = DOMAIN scores \cup {id} /\ scores'[id] = batch[i].value
      /\ \A k \in DOMAIN scores : k # id => scores'[k] = scores[k]
  <2> DEFINE value == batch[i].value
  <2>1. scores' = With(scores, id, value)
    BY <1>1
  <2> HIDE DEF id, value
  <2>2. /\ DOMAIN With(scores, id, value) = DOMAIN scores \cup {id}
        /\ With(scores, id, value)[id] = value
        /\ \A k \in DOMAIN scores : k # id => With(scores, id, value)[k] = scores[k]
    BY DEF With
  <2>3. /\ DOMAIN scores' = DOMAIN scores \cup {id} /\ scores'[id] = value
        /\ \A k \in DOMAIN scores : k # id => scores'[k] = scores[k]
    BY <2>1, <2>2, Zenon
  <2> QED BY <2>3 DEF value
<1>3. i \in DOMAIN batch
  BY <1>1 DEF EnsembleInv, EnsembleType
<1>4. Name' = Name
  BY <1>1 DEF Name
<1>5. id \in DOMAIN virtual /\ virtual[id].value = batch[i].value
  BY <1>1, <1>3 DEF EnsembleInv, Saves, IsSaved
<1>6. EnsembleType'
  BY <1>1 DEF EnsembleInv, EnsembleType, PredictionsType
<1>7. Between'
  BY <1>1 DEF EnsembleInv, Between
<1>8. Saves'
  BY <1>1, <1>4 DEF EnsembleInv, Saves, IsSaved
<1>9. ScoresFollow'
  <2> SUFFICES ASSUME NEW k \in DOMAIN virtual
               PROVE  k \in cut' \/ Current(k)' \/ Open(k)'
    BY <1>1 DEF ScoresFollow
  <2>1. CASE k = id
    BY <1>1, <1>2, <1>5, <2>1 DEF Current
  <2>2. CASE k # id
    <3>1. k \in cut \/ Current(k) \/ Open(k)
      BY DEF EnsembleInv, ScoresFollow
    <3>2. Current(k) => Current(k)'
      BY <1>1, <1>2, <2>2 DEF Current
    <3>3. Open(k) => Open(k)'
      <4> SUFFICES ASSUME Open(k) PROVE Open(k)'
        OBVIOUS
      <4>1. k[1] = Name /\ k[2] \in left
        BY <1>1 DEF Open
      <4>2. k = <<k[1], k[2]>>
        BY DEF EnsembleInv, EnsembleType, IsPair
      <4>3. k[2] # i
        BY <2>2, <4>1, <4>2
      <4> QED BY <1>1, <1>4, <4>1, <4>3 DEF Open
    <3> QED BY <1>1, <2>2, <3>1, <3>2, <3>3
  <2> QED BY <2>1, <2>2
<1>10. CountsHold'
  BY <1>1, <1>6, CountsStay DEF EnsembleInv
<1> QED BY <1>6, <1>7, <1>8, <1>9, <1>10 DEF EnsembleInv

LEMMA SaveSnapshotInv == ASSUME EnsembleInv, SaveSnapshot PROVE EnsembleInv'
<1> DEFINE new == [ensemble |-> Name, at |-> cycle, count |-> Cardinality(DOMAIN batch)]
<1>1. /\ step = "snapshot" /\ step' = "ensembles" /\ batch' = << >> /\ left' = {}
      /\ ensembleSnapshots' = ensembleSnapshots \cup {new}
      /\ UNCHANGED <<cycle, predictions, virtual, scores, registered, cut>>
  BY DEF SaveSnapshot
<1>2. DOMAIN batch' = {}
  BY <1>1
<1>3. EnsembleType'
  BY <1>1, <1>2, FS_EmptySet DEF EnsembleInv, EnsembleType, PredictionsType
<1>4. Between'
  BY <1>1, <1>2 DEF EnsembleInv, Between
<1>5. Saves'
  BY <1>1 DEF Saves
<1>6. ScoresFollow'
  BY <1>1 DEF EnsembleInv, ScoresFollow, Current, Open
<1>7. new.count \in 1 .. Cardinality(Inputs(Name))
  <2> DEFINE D == DOMAIN batch
             I == Inputs(Name)
  <2>1. D # {} /\ IsFiniteSet(D)
    BY <1>1 DEF EnsembleInv, EnsembleType
  <2>2. IsFiniteSet(I)
    BY InputsAreFinite DEF EnsembleInv, EnsembleType, Inputs
  <2>3. D \in SUBSET I
    <3> SUFFICES ASSUME NEW i \in D PROVE i \in I
      OBVIOUS
    <3>1. <<Name, i>> \in DOMAIN virtual
      BY <1>1 DEF EnsembleInv, Saves, IsSaved
    <3>2. <<Name, i>>[1] = Name /\ <<Name, i>>[2] = i
      OBVIOUS
    <3> QED BY <3>1, <3>2 DEF Inputs
  <2>4. new.count = Cardinality(D)
    OBVIOUS
  <2> HIDE DEF D, I, new
  <2>5. Cardinality(D) <= Cardinality(I) /\ Cardinality(D) \in Nat /\ Cardinality(I) \in Nat
    BY <2>1, <2>2, <2>3, FS_Subset, FS_CardinalityType
  <2>6. Cardinality(D) # 0
    BY <2>1, FS_EmptySet
  <2> QED BY <2>4, <2>5, <2>6 DEF I
<1>8. CountsHold'
  <2> SUFFICES ASSUME NEW s \in ensembleSnapshots \cup {new}
               PROVE  s.count \in 1 .. Cardinality(Inputs(s.ensemble))
    BY <1>1 DEF CountsHold, Inputs
  <2>1. CASE s \in ensembleSnapshots
    BY <2>1 DEF EnsembleInv, CountsHold
  <2>2. CASE s = new
    <3>1. s.ensemble = Name
      BY <2>2
    <3> QED BY <1>7, <2>2, <3>1
  <2> QED BY <2>1, <2>2
<1> QED BY <1>3, <1>4, <1>5, <1>6, <1>8 DEF EnsembleInv

(* What a cycle ends with, as it should or not: no batch, and no row left   *)
(* with a score of another value.                                           *)
LEMMA GivenUp ==
  ASSUME EnsembleInv, step' = "idle", batch' = << >>, left' = {},
         UNCHANGED <<cycle, predictions, virtual, scores, ensembleSnapshots>>,
         cut \subseteq cut', \A id \in DOMAIN virtual : Open(id) => id \in cut'
  PROVE  EnsembleInv'
<1>1. DOMAIN batch' = {}
  OBVIOUS
<1>2. EnsembleType'
  BY <1>1, FS_EmptySet DEF EnsembleInv, EnsembleType, PredictionsType
<1>3. Between'
  BY <1>1 DEF EnsembleInv, Between
<1>4. Saves'
  BY DEF Saves
<1>5. ScoresFollow'
  BY DEF EnsembleInv, ScoresFollow, Current
<1>6. CountsHold'
  BY <1>2, CountsStay DEF EnsembleInv
<1> QED BY <1>2, <1>3, <1>4, <1>5, <1>6 DEF EnsembleInv

LEMMA EndCycleInv == ASSUME EnsembleInv, EndCycle PROVE EnsembleInv'
<1>1. /\ step = "ensembles" /\ step' = "idle"
      /\ UNCHANGED <<cycle, batch, left, predictions, virtual, scores, ensembleSnapshots,
                     registered, cut>>
  BY DEF EndCycle
<1>2. EnsembleType'
  BY <1>1 DEF EnsembleInv, EnsembleType, PredictionsType
<1>3. Between'
  BY <1>1 DEF EnsembleInv, Between
<1>4. Saves'
  BY <1>1 DEF Saves
<1>5. ScoresFollow'
  BY <1>1 DEF EnsembleInv, ScoresFollow, Current, Open
<1>6. CountsHold'
  BY <1>1, <1>2, CountsStay DEF EnsembleInv
<1> QED BY <1>2, <1>3, <1>4, <1>5, <1>6 DEF EnsembleInv

LEMMA RefusedInv == ASSUME EnsembleInv, Refused PROVE EnsembleInv'
<1>1. /\ step' = "idle" /\ batch' = << >> /\ left' = {}
      /\ UNCHANGED <<cycle, predictions, virtual, scores, ensembleSnapshots, cut>>
  BY DEF Refused, Abort, tables
<1>2. \A id : ~Open(id)
  BY DEF Refused, Open, EnsembleInv, Saves
<1> QED BY <1>1, <1>2, GivenUp

LEMMA FailsInv == ASSUME EnsembleInv, Fails PROVE EnsembleInv'
<1>1. /\ step' = "idle" /\ batch' = << >> /\ left' = {}
      /\ UNCHANGED <<cycle, predictions, virtual, scores, ensembleSnapshots>>
      /\ cut' = IF step = "ensembles" THEN cut
                ELSE cut \cup {<<Name, i>> : i \in DOMAIN batch}
  BY DEF Fails, Abort, tables
<1>2. ASSUME NEW id \in DOMAIN virtual, Open(id) PROVE id \in cut'
  <2>1. step # "ensembles" /\ id[1] = Name /\ id[2] \in DOMAIN batch
    BY <1>2 DEF Open, EnsembleInv, EnsembleType
  <2>2. id = <<Name, id[2]>>
    BY <2>1 DEF EnsembleInv, EnsembleType, IsPair
  <2>3. id \in {<<Name, i>> : i \in DOMAIN batch}
    BY <2>1, <2>2
  <2> QED BY <1>1, <2>1, <2>3
<1> QED BY <1>1, <1>2, GivenUp

LEMMA EnsemblesNextInv ==
  ASSUME EnsembleInv, [EnsemblesNext]_ensembleVars PROVE EnsembleInv'
<1>1. CASE ScoreMembers
  BY <1>1, ScoreMembersInv
<1>2. CASE Compute
  BY <1>2, ComputeInv
<1>3. ASSUME NEW i \in left, SavePrediction(i) PROVE EnsembleInv'
  BY <1>3, SavePredictionInv
<1>4. ASSUME NEW i \in left, SaveScore(i) PROVE EnsembleInv'
  BY <1>4, SaveScoreInv
<1>5. CASE SaveSnapshot
  BY <1>5, SaveSnapshotInv
<1>6. CASE EndCycle
  BY <1>6, EndCycleInv
<1>7. CASE Refused
  BY <1>7, RefusedInv
<1>8. CASE Fails
  BY <1>8, FailsInv
<1>9. CASE UNCHANGED ensembleVars
  <2>1. UNCHANGED <<cycle, step, config, batch, left, predictions, virtual, scores,
                    ensembleSnapshots, registered, cut>>
    BY <1>9 DEF ensembleVars, inHand, tables
  <2>2. EnsembleType'
    BY <2>1 DEF EnsembleInv, EnsembleType, PredictionsType
  <2>3. Between'
    BY <2>1 DEF EnsembleInv, Between
  <2>4. Saves'
    BY <2>1 DEF EnsembleInv, Saves, IsSaved, Name
  <2>5. ScoresFollow'
    BY <2>1 DEF EnsembleInv, ScoresFollow, Current, Open, Name
  <2>6. CountsHold'
    BY <2>1, <2>2, CountsStay DEF EnsembleInv
  <2> QED BY <2>2, <2>3, <2>4, <2>5, <2>6 DEF EnsembleInv
<1> QED BY <1>1, <1>2, <1>3, <1>4, <1>5, <1>6, <1>7, <1>8, <1>9 DEF EnsemblesNext

LEMMA MembersFollowed == ASSUME EnsembleInv PROVE EnsemblesFollowMembers
<1> SUFFICES ASSUME NEW id \in DOMAIN virtual
    PROVE  LET row    == virtual[id]
               values == {<<p.value, 1>> : p \in Given(id[2], row.members)}
               last   == {s \in ensembleSnapshots : s.ensemble = id[1] /\
                            \A o \in ensembleSnapshots : o.ensemble = id[1] => o.at <= s.at}
           IN  /\ row.value[2] > 0
               /\ \E low, high \in values : AtMost(low, row.value) /\ AtMost(row.value, high)
               /\ Settled(id) => id \in DOMAIN scores /\ scores[id] = row.value
               /\ \A s \in last : s.count \in 1..Cardinality(Inputs(id[1]))
  BY DEF EnsemblesFollowMembers
<1> DEFINE row    == virtual[id]
           given  == Given(id[2], row.members)
           values == {<<p.value, 1>> : p \in given}
<1>1. /\ row.value[2] > 0
      /\ \E low, high \in values : AtMost(low, row.value) /\ AtMost(row.value, high)
  <2>1. Middle(predictions, row.value, row.members, id[2])
    BY DEF EnsembleInv, Between
  <2>2. given = {p \in predictions : p.input = id[2] /\ p.model \in row.members
                                       /\ p.value # NoValue}
    BY DEF Given
  <2>3. PICK low \in given, high \in given :
          AtMost(<<low.value, 1>>, row.value) /\ AtMost(row.value, <<high.value, 1>>)
    BY <2>1, <2>2 DEF Middle
  <2>4. row.value[2] > 0
    BY <2>1 DEF Middle
  <2> QED BY <2>3, <2>4
<1>2. ASSUME Settled(id) PROVE Current(id)
  <2>1. ~Open(id)
    BY <1>2 DEF Settled, Open
  <2> QED BY <1>2, <2>1 DEF Settled, EnsembleInv, ScoresFollow
<1>3. \A s \in ensembleSnapshots : s.ensemble = id[1] => s.count \in 1 .. Cardinality(Inputs(id[1]))
  BY DEF EnsembleInv, CountsHold
<1> QED BY <1>1, <1>2, <1>3 DEF Current

-----------------------------------------------------------------------------
(* An ensemble's prediction lies between those its members made on the same *)
(* input, for any members, weights and absences; its score is of the value  *)
(* it has, unless a fault has cut its saving short; and a snapshot counts   *)
(* no input that the ensemble has no row for.                               *)
THEOREM EnsemblesSpecFollowMembers == EnsemblesSpec => []EnsemblesFollowMembers
<1>1. EnsemblesInit => EnsembleInv
  BY EnsemblesInitInv
<1>2. EnsembleInv /\ [EnsemblesNext]_ensembleVars => EnsembleInv'
  BY EnsemblesNextInv
<1>3. EnsembleInv => EnsemblesFollowMembers
  BY MembersFollowed
<1> QED BY <1>1, <1>2, <1>3, PTL DEF EnsemblesSpec
=============================================================================
