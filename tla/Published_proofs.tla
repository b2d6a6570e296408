--------------------------- MODULE Published_proofs ---------------------------
(***************************************************************************)
(* The trees over a cycle's snapshots and a checkpoint's cycles, and the    *)
(* proofs read back from what was saved of them, for any number of leaves,  *)
(* cycles, failures and rewrites.                                           *)
(*                                                                         *)
(* And the replay of the records the coordinator serves, for any records,   *)
(* pages, periods and failed downloads.                                     *)
(*                                                                         *)
(* Levels, paths and the replay's loop are recursive functions over         *)
(* numbers.  What they compute is proved by induction over the set of the   *)
(* numbers for which it holds.                                              *)
(***************************************************************************)
EXTENDS MerkleTree, Backtest, FiniteSetTheorems, SequenceTheorems, WellFoundedInduction, TLAPS

-----------------------------------------------------------------------------
(* Recursion and induction over the natural numbers *)

(* A set of numbers with 0 and all successors is all of them. *)
LEMMA Induct ==
  ASSUME NEW T \in SUBSET Nat, 0 \in T, \A k \in T : k + 1 \in T
  PROVE  \A n \in Nat : n \in T
<1> DEFINE U == Nat \ T
<1>1. SUFFICES ASSUME U # {} PROVE FALSE
  OBVIOUS
<1>2. PICK m \in U : \A u \in U : <<u, m>> \notin OpToRel(<, Nat)
  BY <1>1, WFMin, NatLessThanWellFounded, Zenon
<1>3. \A u \in U : ~(u < m)
  BY <1>2, Zenon DEF OpToRel
<1>4. m \in U
  BY <1>2, Zenon
<1>5. m \in Nat /\ m # 0 /\ m \notin T
  BY <1>4
<1>6. m - 1 \in Nat /\ m - 1 < m
  BY <1>5
<1>7. m - 1 \in T
  BY <1>3, <1>6
<1>8. (m - 1) + 1 \in T
  BY <1>7
<1> QED BY <1>5, <1>8

LEMMA LengthIs ==
  ASSUME NEW S, NEW n \in Nat, NEW f \in [1 .. n -> S]
  PROVE  Len(f) = n /\ f \in Seq(S)
<1>1. f \in Seq(S)
  BY SeqDef
<1>2. Len(f) \in Nat /\ 1 .. Len(f) = 1 .. n
  BY <1>1, LenProperties
<1> QED BY <1>1, <1>2

-----------------------------------------------------------------------------
(* From the first value on, each value by a step from the one before. *)
Steps(n, V, F) == \A k \in 1 .. n : \A v \in V : F[k][v] \in V

Runs(g, n, V, c, F) ==
  /\ g \in [1 .. n -> V]
  /\ n # 0 => g[1] = c
  /\ \A k \in 2 .. n : g[k] = F[k][g[k - 1]]

LEMMA Iterate ==
  ASSUME NEW n \in Nat, NEW V, NEW c \in V, NEW F, Steps(n, V, F)
  PROVE  \E g : Runs(g, n, V, c, F)
<1> DEFINE Goes(m, g) == \A k \in 1 .. m : g[k] = IF k = 1 THEN c ELSE F[k][g[k - 1]]
           T == {m \in Nat : m <= n => \E g \in [1 .. m -> V] : Goes(m, g)}
<1>1. 0 \in T
  <2>1. [k \in 1 .. 0 |-> c] \in [1 .. 0 -> V] /\ Goes(0, [k \in 1 .. 0 |-> c])
    OBVIOUS
  <2> QED BY <2>1
<1>2. ASSUME NEW m \in T PROVE m + 1 \in T
  <2>0. m \in Nat /\ m + 1 \in Nat /\ (m <= n => \E g \in [1 .. m -> V] : Goes(m, g))
    OBVIOUS
  <2> SUFFICES ASSUME m + 1 <= n PROVE \E g \in [1 .. m + 1 -> V] : Goes(m + 1, g)
    BY <2>0
  <2>1. PICK g \in [1 .. m -> V] : Goes(m, g)
    BY <2>0
  <2> DEFINE next == IF m = 0 THEN c ELSE F[m + 1][g[m]]
             h == [k \in 1 .. m + 1 |-> IF k <= m THEN g[k] ELSE next]
  <2>2. next \in V
    <3>1. CASE m = 0
      BY <3>1
    <3>2. CASE m # 0
      <4>1. g[m] \in V /\ m + 1 \in 1 .. n
        BY <2>0, <3>2
      <4> QED BY <4>1, <3>2 DEF Steps
    <3> QED BY <3>1, <3>2
  <2>3. h \in [1 .. m + 1 -> V]
    <3> HIDE DEF next
    <3> QED BY <2>0, <2>2
  <2>4. Goes(m + 1, h)
    <3>2. ASSUME NEW k \in 1 .. m + 1
          PROVE  h[k] = IF k = 1 THEN c ELSE F[k][h[k - 1]]
      <4>1. CASE k <= m
        <5>1. h[k] = g[k] /\ k \in 1 .. m
          BY <4>1, <2>0
        <5>2. k # 1 => h[k - 1] = g[k - 1]
          BY <4>1, <2>0
        <5> QED BY <5>1, <5>2, <2>1
      <4>2. CASE k = m + 1
        <5>1. h[k] = next
          BY <4>2, <2>0
        <5>2. m # 0 => h[k - 1] = g[m]
          BY <4>2, <2>0
        <5> QED BY <5>1, <5>2, <4>2, <2>0
      <4> QED BY <4>1, <4>2, <2>0
    <3> QED BY <3>2
  <2> QED BY <2>3, <2>4
<1>3. n \in T
  <2>1. T \in SUBSET Nat
    OBVIOUS
  <2> HIDE DEF T
  <2> QED BY <2>1, <1>1, <1>2, Induct
<1>4. PICK g \in [1 .. n -> V] : Goes(n, g)
  BY <1>3
<1>5. n # 0 => g[1] = c
  BY <1>4
<1>6. \A k \in 2 .. n : g[k] = F[k][g[k - 1]]
  BY <1>4
<1> QED BY <1>5, <1>6 DEF Runs

-----------------------------------------------------------------------------
(* The shape of a tree *)

LEMMA HalfIs == \A v \in Nat : (v + 1) \div 2 \in Nat
  OBVIOUS

LEMMA WidthsAre ==
  ASSUME NEW n \in Nat
  PROVE  /\ Widths(n) \in [1 .. n -> Nat]
         /\ \A k \in 1 .. n :
              Widths(n)[k] = IF k = 1 THEN n ELSE (Widths(n)[k - 1] + 1) \div 2
<1> DEFINE Eq(h) == h = [k \in 1 .. n |-> IF k = 1 THEN n ELSE (h[k - 1] + 1) \div 2]
           s == CHOOSE h : Eq(h)
<1>1. PICK F : \A k \in 1 .. n, v \in Nat : F[k][v] = (v + 1) \div 2
  <2> DEFINE G == [k \in 1 .. n |-> [v \in Nat |-> (v + 1) \div 2]]
  <2>1. \A k \in 1 .. n, v \in Nat : G[k][v] = (v + 1) \div 2
    OBVIOUS
  <2> HIDE DEF G
  <2> QED BY <2>1
<1>1a. Steps(n, Nat, F)
  BY <1>1 DEF Steps
<1>2. PICK g \in [1 .. n -> Nat] :
        /\ n # 0 => g[1] = n
        /\ \A k \in 2 .. n : g[k] = F[k][g[k - 1]]
  <2> HIDE DEF Eq, s
  <2>1. n \in Nat
    OBVIOUS
  <2>2. \E g : Runs(g, n, Nat, n, F)
    BY Iterate, <2>1, <1>1a
  <2> QED BY <2>2 DEF Runs
<1>3. g = [k \in 1 .. n |-> IF k = 1 THEN n ELSE (g[k - 1] + 1) \div 2]
  <2>1. ASSUME NEW k \in 1 .. n PROVE g[k] = IF k = 1 THEN n ELSE (g[k - 1] + 1) \div 2
    <3>1. CASE k = 1
      BY <1>2, <3>1
    <3>2. CASE k # 1
      <4>1. k - 1 \in 1 .. n /\ k \in 2 .. n
        BY <3>2
      <4>2. g[k - 1] \in Nat
        BY <4>1
      <4>3. g[k] = F[k][g[k - 1]]
        BY <4>1, <1>2
      <4> QED BY <4>2, <4>3, <3>2, <1>1
    <3> QED BY <3>1, <3>2
  <2> QED BY <2>1
<1>4. Eq(s)
  <2>1. Eq(g)
    BY <1>3
  <2> HIDE DEF Eq
  <2> QED BY <2>1
<1>5. Widths(n) = s
  BY DEF Widths
<1>6. s = [k \in 1 .. n |-> IF k = 1 THEN n ELSE (s[k - 1] + 1) \div 2]
  BY <1>4
<1>6a. \A k \in 1 .. n : s[k] = IF k = 1 THEN n ELSE (s[k - 1] + 1) \div 2
  BY <1>6
<1> HIDE DEF s
<1> DEFINE T == {k \in Nat : k \in 1 .. n => s[k] \in Nat}
<1>7. 0 \in T
  OBVIOUS
<1>8. ASSUME NEW k \in T PROVE k + 1 \in T
  <2>1. k \in Nat /\ (k \in 1 .. n => s[k] \in Nat)
    OBVIOUS
  <2> SUFFICES ASSUME k + 1 <= n PROVE s[k + 1] \in Nat
    BY <2>1
  <2>2. CASE k = 0
    BY <2>2, <1>6
  <2>3. CASE k # 0
    <3>1. s[k + 1] = (s[(k + 1) - 1] + 1) \div 2
      <4>1. k + 1 \in 1 .. n /\ k + 1 # 1
        BY <2>1, <2>3
      <4> QED BY <4>1, <1>6a, Zenon
    <3>2. (k + 1) - 1 = k /\ s[k] \in Nat
      BY <2>1, <2>3
    <3> QED BY <3>1, <3>2, HalfIs
  <2> QED BY <2>2, <2>3
<1>9. \A k \in Nat : k \in T
  <2>1. T \in SUBSET Nat
    OBVIOUS
  <2> HIDE DEF T
  <2> QED BY <2>1, <1>7, <1>8, Induct
<1>10. \A k \in 1 .. n : s[k] \in Nat
  BY <1>9
<1>11. s \in [1 .. n -> Nat]
  BY <1>6, <1>10
<1>12. \A k \in 1 .. n : s[k] = IF k = 1 THEN n ELSE (s[k - 1] + 1) \div 2
  BY <1>6
<1> QED BY <1>5, <1>11, <1>12

LEMMA Halved ==
  ASSUME NEW v \in Nat, v # 0
  PROVE  /\ (v + 1) \div 2 \in Nat \ {0}
         /\ v > 1 => (v + 1) \div 2 < v
         /\ v = 1 => (v + 1) \div 2 = 1
  OBVIOUS

(* Each level is at least one node and shrinks until it is one. *)
LEMMA WidthsShrink ==
  ASSUME NEW n \in Nat \ {0}
  PROVE  \A k \in 1 .. n : /\ Widths(n)[k] \in Nat \ {0}
                           /\ Widths(n)[k] = 1 \/ Widths(n)[k] <= n - k + 1
<1> DEFINE w == Widths(n)
           P(k) == w[k] \in Nat \ {0} /\ (w[k] = 1 \/ w[k] <= n - k + 1)
           T == {k \in Nat : k \in 1 .. n => P(k)}
<1>1. /\ \A k \in 1 .. n : w[k] = IF k = 1 THEN n ELSE (w[k - 1] + 1) \div 2
      /\ w \in [1 .. n -> Nat]
  BY WidthsAre
<1> HIDE DEF w
<1>2. 0 \in T
  OBVIOUS
<1>3. ASSUME NEW k \in T PROVE k + 1 \in T
  <2>1. k \in Nat /\ (k \in 1 .. n => P(k))
    OBVIOUS
  <2> SUFFICES ASSUME k + 1 <= n PROVE P(k + 1)
    BY <2>1
  <2>2. CASE k = 0
    BY <2>2, <1>1
  <2>3. CASE k # 0
    <3>1. w[k + 1] = (w[k] + 1) \div 2 /\ P(k)
      BY <2>1, <2>3, <1>1, SMTT(30)
    <3>2. /\ w[k + 1] \in Nat \ {0}
          /\ w[k] > 1 => w[k + 1] < w[k]
          /\ w[k] = 1 => w[k + 1] = 1
      BY <3>1, Halved
    <3> QED BY <3>1, <3>2, <2>1
  <2> QED BY <2>2, <2>3
<1>4. \A k \in Nat : k \in T
  <2>1. T \in SUBSET Nat
    OBVIOUS
  <2> HIDE DEF T
  <2> QED BY <2>1, <1>2, <1>3, Induct
<1>5. \A k \in 1 .. n : P(k)
  BY <1>4
<1> QED BY <1>5 DEF w

(* The root's level is the first of one node. *)
LEMMA HeightIs ==
  ASSUME NEW n \in Nat \ {0}
  PROVE  /\ Height(n) \in 1 .. n
         /\ Widths(n)[Height(n)] = 1
         /\ \A k \in 1 .. n : k < Height(n) => Widths(n)[k] > 1
<1> DEFINE w == Widths(n)
           One(k) == k \in 1 .. n /\ w[k] = 1
           T == {m \in Nat : \A k \in 1 .. m : ~One(k)}
<1>1. \A k \in 1 .. n : w[k] \in Nat \ {0} /\ (w[k] = 1 \/ w[k] <= n - k + 1)
  BY WidthsShrink
<1>2. \E k \in 1 .. n : w[k] = 1 /\ \A l \in 1 .. n : w[l] = 1 => k <= l
  <2> HIDE DEF w
  <2>1. One(n)
    BY <1>1
  <2>2. SUFFICES ASSUME \A k \in 1 .. n : w[k] = 1 => \E l \in 1 .. n : w[l] = 1 /\ l < k
                 PROVE  FALSE
    <3>1. PICK k \in 1 .. n : w[k] = 1 /\ \A l \in 1 .. n : ~(w[l] = 1 /\ l < k)
      BY <2>2
    <3> QED BY <3>1
  <2>3. 0 \in T
    OBVIOUS
  <2>4. ASSUME NEW m \in T PROVE m + 1 \in T
    BY <2>2
  <2>5. n \in T
    <3>1. T \in SUBSET Nat
      OBVIOUS
    <3> HIDE DEF T
    <3> QED BY <3>1, <2>3, <2>4, Induct
  <2> QED BY <2>1, <2>5
<1>3. Height(n) \in 1 .. n /\ w[Height(n)] = 1 /\ \A l \in 1 .. n : w[l] = 1 => Height(n) <= l
  BY <1>2 DEF Height
<1>4. ASSUME NEW k \in 1 .. n, k < Height(n) PROVE w[k] > 1
  <2>1. w[k] # 1
    BY <1>3, <1>4
  <2> QED BY <2>1, <1>1
<1> QED BY <1>3, <1>4

(* A sequence of n leaves. *)
OfLength(leaves, n) == Len(leaves) = n /\ leaves = [i \in 1 .. n |-> leaves[i]]

(* A level is made of pairs of the one below. *)
Paired(below, width, above) ==
  [i \in 1 .. above |-> <<below[Left(i)], below[Right(i, width)]>>]

LEMMA LevelsAre ==
  ASSUME NEW n \in Nat \ {0}, NEW leaves, OfLength(leaves, n)
  PROVE  /\ Levels(leaves)[1] = leaves
         /\ \A k \in 2 .. n :
              Levels(leaves)[k] = Paired(Levels(leaves)[k - 1], Widths(n)[k - 1], Widths(n)[k])
<1> DEFINE w == Widths(n)
           Up(k, below) == Paired(below, w[k - 1], w[k])
           Is(h, m) == \A k \in 1 .. m : h[k] = IF k = 1 THEN leaves ELSE Up(k, h[k - 1])
           Eq(h) == h = [k \in 1 .. n |-> IF k = 1 THEN leaves ELSE Up(k, h[k - 1])]
           s == CHOOSE h : Eq(h)
           T == {m \in Nat : \E h : Is(h, m)}
<1>0. Len(leaves) = n
  BY DEF OfLength
<1>1. Levels(leaves) = s
  <2> HIDE DEF w
  <2>1. w = Widths(Len(leaves))
    BY <1>0 DEF w
  <2> QED BY <1>0, <2>1 DEF Levels, Paired
<1> HIDE DEF Up
<1>2. 0 \in T
  OBVIOUS
<1>3. ASSUME NEW m \in T PROVE m + 1 \in T
  <2>0. m \in Nat
    OBVIOUS
  <2>1. PICK h : Is(h, m)
    OBVIOUS
  <2> DEFINE next == IF m = 0 THEN leaves ELSE Up(m + 1, h[m])
             g == [k \in 1 .. m + 1 |-> IF k <= m THEN h[k] ELSE next]
  <2>2. ASSUME NEW k \in 1 .. m + 1
        PROVE  g[k] = IF k = 1 THEN leaves ELSE Up(k, g[k - 1])
    <3>1. CASE k <= m
      <4>1. g[k] = h[k] /\ k \in 1 .. m
        BY <3>1, <2>0
      <4>2. k # 1 => g[k - 1] = h[k - 1]
        BY <3>1, <2>0
      <4> QED BY <4>1, <4>2, <2>1
    <3>2. CASE k = m + 1
      <4>1. g[k] = next
        BY <3>2, <2>0
      <4>2. m # 0 => g[k - 1] = h[m]
        BY <3>2, <2>0
      <4> QED BY <4>1, <4>2, <3>2, <2>0
    <3> QED BY <3>1, <3>2, <2>0
  <2> HIDE DEF g
  <2>3. Is(g, m + 1)
    BY <2>2
  <2> QED BY <2>0, <2>3
<1>4. n \in T
  <2>1. T \in SUBSET Nat
    OBVIOUS
  <2> HIDE DEF T
  <2> QED BY <2>1, <1>2, <1>3, Induct
<1>5. PICK h : Is(h, n)
  BY <1>4
<1>6. Eq([k \in 1 .. n |-> h[k]])
  <2> DEFINE g == [k \in 1 .. n |-> h[k]]
  <2>1. ASSUME NEW k \in 1 .. n PROVE h[k] = IF k = 1 THEN leaves ELSE Up(k, g[k - 1])
    <3>1. k # 1 => g[k - 1] = h[k - 1]
      OBVIOUS
    <3> HIDE DEF g
    <3> QED BY <3>1, <1>5
  <2>2. [k \in 1 .. n |-> h[k]] = [k \in 1 .. n |-> IF k = 1 THEN leaves ELSE Up(k, g[k - 1])]
    <3> HIDE DEF g
    <3> QED BY <2>1
  <2> QED BY <2>2
<1>7. Eq(s)
  <2> HIDE DEF Eq
  <2> QED BY <1>6
<1>8. s = [k \in 1 .. n |-> IF k = 1 THEN leaves ELSE Up(k, s[k - 1])]
  BY <1>7
<1> HIDE DEF s
<1>9. \A k \in 1 .. n : s[k] = IF k = 1 THEN leaves ELSE Up(k, s[k - 1])
  BY <1>8
<1>10. s[1] = leaves
  <2>1. 1 \in 1 .. n
    OBVIOUS
  <2> QED BY <2>1, <1>9
<1>11. ASSUME NEW k \in 2 .. n PROVE s[k] = Paired(s[k - 1], w[k - 1], w[k])
  <2>1. k \in 1 .. n /\ k # 1
    OBVIOUS
  <2>2. s[k] = Up(k, s[k - 1])
    BY <2>1, <1>9
  <2> QED BY <2>2 DEF Up
<1> QED BY <1>1, <1>10, <1>11

LEMMA Neighbours ==
  ASSUME NEW v \in Nat \ {0}, NEW i \in 1 .. (v + 1) \div 2
  PROVE  /\ Left(i) \in 1 .. v /\ Right(i, v) \in 1 .. v /\ Left(i) <= Right(i, v)
         /\ \A j \in 1 .. v : j \in {Left(i), Right(i, v)} <=> i = (j + 1) \div 2
BY DEF Left, Right

LEMMA ParentPlace ==
  ASSUME NEW v \in Nat \ {0}, NEW j \in 1 .. v
  PROVE  (j + 1) \div 2 \in 1 .. (v + 1) \div 2
  OBVIOUS

LEMMA RowAt ==
  ASSUME NEW n \in Nat \ {0}, NEW leaves, OfLength(leaves, n), NEW tree, NEW of,
         NEW k \in 1 .. Height(n), NEW i \in 1 .. Widths(n)[k]
  PROVE  /\ NodeRow(tree, leaves, k, i, of) \in Rows(tree, leaves, of)
         /\ NodeRow(tree, leaves, k, i, of).level = k
         /\ NodeRow(tree, leaves, k, i, of).position = i
<1>0. Len(leaves) = n
  BY DEF OfLength
<1>1. Height(n) \in 1 .. n
  BY HeightIs
<1>2. k \in 1 .. n
  BY <1>1
<1>3. Widths(n)[k] \in Nat \ {0} /\ (Widths(n)[k] = 1 \/ Widths(n)[k] <= n - k + 1)
  BY <1>2, WidthsShrink
<1>4. i \in 1 .. n
  BY <1>2, <1>3
<1>5. <<k, i>> \in Places(n)
  BY <1>2, <1>4, <1>1 DEF Places
<1>6. NodeRow(tree, leaves, k, i, of) \in Rows(tree, leaves, of)
  BY <1>5, <1>0 DEF Rows
<1> QED BY <1>6 DEF NodeRow

LEMMA RowIs ==
  ASSUME NEW n \in Nat \ {0}, NEW leaves, OfLength(leaves, n), NEW tree, NEW of,
         NEW r \in Rows(tree, leaves, of)
  PROVE  /\ r = NodeRow(tree, leaves, r.level, r.position, of)
         /\ r.tree = tree
         /\ r.level \in 1 .. Height(n)
         /\ r.level \in 1 .. n
         /\ r.position \in 1 .. Widths(n)[r.level]
         /\ r.hash = Levels(leaves)[r.level][r.position]
         /\ r.left = IF r.level = 1 THEN 0 ELSE Left(r.position)
         /\ r.right = IF r.level = 1 THEN 0 ELSE Right(r.position, Widths(n)[r.level - 1])
         /\ r.snapshot = IF r.level = 1 THEN of[r.position] ELSE << >>
<1>0. Len(leaves) = n
  BY DEF OfLength
<1>1. PICK p \in Places(n) : r = NodeRow(tree, leaves, p[1], p[2], of)
  BY <1>0 DEF Rows
<1>2. p[1] \in 1 .. Height(n) /\ p[2] \in 1 .. Widths(n)[p[1]]
  <2>1. PICK k \in 1 .. Height(n) : p \in {k} \X (1 .. Widths(n)[k])
    BY <1>1 DEF Places
  <2>2. p[1] = k /\ p[2] \in 1 .. Widths(n)[k]
    BY <2>1
  <2> QED BY <2>2
<1>3. Height(n) \in 1 .. n
  BY HeightIs
<1>5. r.level = p[1] /\ r.position = p[2]
  BY <1>1 DEF NodeRow
<1>6. r.level \in 1 .. Height(n) /\ r.level \in 1 .. n /\ r.position \in 1 .. Widths(n)[r.level]
  BY <1>2, <1>3, <1>5
<1>7. r = NodeRow(tree, leaves, r.level, r.position, of)
  BY <1>1, <1>5
<1>8. /\ r.tree = tree
      /\ r.hash = Levels(leaves)[r.level][r.position]
      /\ r.left = IF r.level = 1 THEN 0 ELSE Left(r.position)
      /\ r.right = IF r.level = 1 THEN 0 ELSE Right(r.position, Widths(n)[r.level - 1])
      /\ r.snapshot = IF r.level = 1 THEN of[r.position] ELSE << >>
  BY <1>1, <1>5, <1>0 DEF NodeRow
<1> QED BY <1>6, <1>7, <1>8

(* A row's hash alone. *)
LEMMA RowHash ==
  ASSUME NEW n \in Nat \ {0}, NEW leaves, OfLength(leaves, n), NEW tree, NEW of,
         NEW r \in Rows(tree, leaves, of)
  PROVE  r.hash = Levels(leaves)[r.level][r.position]
BY RowIs


(* The one parent of a row below the root. *)
LEMMA ParentIs ==
  ASSUME NEW n \in Nat \ {0}, NEW leaves, OfLength(leaves, n), NEW tree, NEW of,
         NEW r \in Rows(tree, leaves, of), NEW p \in Rows(tree, leaves, of),
         p \in ParentsOf(Rows(tree, leaves, of), r)
  PROVE  LET w == Widths(n)[r.level]  level == Levels(leaves)[r.level]
         IN  /\ p.level = r.level + 1
             /\ r.level < Height(n)
             /\ w \in Nat \ {0}
             /\ p.position \in 1 .. (w + 1) \div 2
             /\ p.left = Left(p.position) /\ p.right = Right(p.position, w)
             /\ r.position \in {p.left, p.right}
             /\ p.hash = <<level[p.left], level[p.right]>>
<1> DEFINE w == Widths(n)[r.level]
           level == Levels(leaves)[r.level]
<1>1. p.level = r.level + 1 /\ r.position \in {p.left, p.right}
  BY DEF ParentsOf
<1>2. r.level \in 1 .. n /\ r.level \in 1 .. Height(n) /\ r.position \in 1 .. w
  BY RowIs
<1>3. p.level \in 1 .. n /\ p.level \in 1 .. Height(n) /\ p.position \in 1 .. Widths(n)[p.level]
  BY RowIs
<1>4. Height(n) \in 1 .. n
  BY HeightIs
<1>5. r.level < Height(n) /\ p.level # 1 /\ p.level - 1 = r.level /\ p.level \in 2 .. n
  BY <1>1, <1>2, <1>3, <1>4
<1>6. w \in Nat \ {0}
  BY <1>2, WidthsShrink
<1>7. Widths(n)[p.level] = (w + 1) \div 2
  <2>1. Widths(n)[p.level] = (Widths(n)[p.level - 1] + 1) \div 2
    BY <1>3, <1>5, WidthsAre
  <2> QED BY <2>1, <1>5
<1>8. p.left = Left(p.position) /\ p.right = Right(p.position, w)
  <2>1. /\ p.left = IF p.level = 1 THEN 0 ELSE Left(p.position)
        /\ p.right = IF p.level = 1 THEN 0 ELSE Right(p.position, Widths(n)[p.level - 1])
    BY RowIs
  <2> QED BY <2>1, <1>5
<1>9. p.hash = <<level[p.left], level[p.right]>>
  <2>1. p.hash = Levels(leaves)[p.level][p.position]
    BY RowIs
  <2>2. Levels(leaves)[p.level] = Paired(level, w, (w + 1) \div 2)
    <3>1. Levels(leaves)[p.level] =
            Paired(Levels(leaves)[p.level - 1], Widths(n)[p.level - 1], Widths(n)[p.level])
      BY <1>5, LevelsAre
    <3> QED BY <3>1, <1>5, <1>7
  <2>3. p.position \in 1 .. (w + 1) \div 2
    BY <1>3, <1>7
  <2> HIDE DEF w, level
  <2> QED BY <2>1, <2>2, <2>3, <1>8 DEF Paired
<1>10. p.position \in 1 .. (w + 1) \div 2
  BY <1>3, <1>7
<1> QED BY <1>1, <1>5, <1>6, <1>8, <1>9, <1>10

LEMMA HasParent ==
  ASSUME NEW n \in Nat \ {0}, NEW leaves, OfLength(leaves, n), NEW tree, NEW of,
         NEW r \in Rows(tree, leaves, of), r.level < Height(n)
  PROVE  ParentsOf(Rows(tree, leaves, of), r) # {}
<1> DEFINE w == Widths(n)[r.level]
           k == r.level + 1
           i == (r.position + 1) \div 2
           p == NodeRow(tree, leaves, k, i, of)
<1>1. r.level \in 1 .. n /\ r.level \in 1 .. Height(n) /\ r.position \in 1 .. w
  BY RowIs
<1>2. Height(n) \in 1 .. n
  BY HeightIs
<1>3. k \in 1 .. Height(n) /\ k \in 1 .. n /\ k # 1 /\ k - 1 = r.level
  BY <1>1, <1>2
<1>4. w \in Nat \ {0}
  BY <1>1, WidthsShrink
<1>5. Widths(n)[k] = (w + 1) \div 2
  <2> HIDE DEF k
  <2>1. Widths(n)[k] = (Widths(n)[k - 1] + 1) \div 2
    BY <1>3, WidthsAre
  <2> QED BY <2>1, <1>3
<1>6. i \in 1 .. (w + 1) \div 2
  <2> HIDE DEF w
  <2> QED BY <1>1, <1>4, ParentPlace
<1>7. p \in Rows(tree, leaves, of) /\ p.level = k /\ p.position = i
  <2> HIDE DEF k, i
  <2> QED BY <1>3, <1>5, <1>6, RowAt
<1>8. p.left = Left(i) /\ p.right = Right(i, w)
  <2> HIDE DEF i
  <2>1. /\ p.left = IF p.level = 1 THEN 0 ELSE Left(p.position)
        /\ p.right = IF p.level = 1 THEN 0 ELSE Right(p.position, Widths(n)[p.level - 1])
    <3> HIDE DEF p
    <3> QED BY <1>7, RowIs
  <2> HIDE DEF p, k
  <2> QED BY <2>1, <1>7, <1>3
<1>9. r.position \in {p.left, p.right}
  <2> HIDE DEF p, w
  <2>1. r.position \in {Left(i), Right(i, w)}
    BY <1>1, <1>4, <1>6, Neighbours
  <2> QED BY <2>1, <1>8
<1>10. p \in ParentsOf(Rows(tree, leaves, of), r)
  <2> HIDE DEF p, i
  <2> QED BY <1>7, <1>9 DEF ParentsOf
<1> QED BY <1>10

-----------------------------------------------------------------------------
(* Proofs over the rows that were saved *)

(* Rows in the order of saving, up to some row. *)
SavedInOrder(rows, all) ==
  /\ rows \subseteq all
  /\ \A n \in rows, m \in all : Earlier(m, n) => m \in rows

(* A step of a proof: with the sibling's hash on its side, a row's hash      *)
(* becomes its parent's.                                                     *)
LEMMA SiblingIs ==
  ASSUME NEW n \in Nat \ {0}, NEW leaves, OfLength(leaves, n), NEW tree, NEW of,
         NEW rows, SavedInOrder(rows, Rows(tree, leaves, of)),
         NEW r \in rows, NEW p \in ParentsOf(rows, r)
  PROVE  p.hash = IF Sibling(rows, p, r).side = "right"
                  THEN <<r.hash, Sibling(rows, p, r).hash>>
                  ELSE <<Sibling(rows, p, r).hash, r.hash>>
<1> DEFINE all == Rows(tree, leaves, of)
           w == Widths(n)[r.level]
           level == Levels(leaves)[r.level]
           isLeft == p.left = r.position
           other == IF isLeft THEN p.right ELSE p.left
           Is(q) == q.level = r.level /\ q.position = other
           s == CHOOSE q \in rows : Is(q)
<1>1. p \in rows /\ rows \subseteq all /\ r \in all /\ p \in all
  BY DEF SavedInOrder, ParentsOf
<1>2. p \in ParentsOf(all, r)
  BY <1>1 DEF ParentsOf
<1>3. /\ p.level = r.level + 1
      /\ w \in Nat \ {0}
      /\ p.position \in 1 .. (w + 1) \div 2
      /\ p.left = Left(p.position) /\ p.right = Right(p.position, w)
      /\ r.position \in {p.left, p.right}
      /\ p.hash = <<level[p.left], level[p.right]>>
  BY <1>1, <1>2, ParentIs
<1>4. p.left \in 1 .. w /\ p.right \in 1 .. w
  <2> HIDE DEF w
  <2> QED BY <1>3, Neighbours
<1>5. other \in 1 .. w /\ r.level \in 1 .. Height(n)
  BY <1>1, <1>4, RowIs
<1>6. \E q \in all : Is(q)
  <2> HIDE DEF other
  <2> QED BY <1>5, RowAt
<1>7. ASSUME NEW q \in all, Is(q) PROVE q \in rows
  <2>1. q.level < p.level
    <3>1. r.level \in Nat
      BY <1>5
    <3> QED BY <3>1, <1>3, <1>7
  <2>2. Earlier(q, p)
    BY <2>1 DEF Earlier
  <2> QED BY <2>2, <1>1, <1>7 DEF SavedInOrder
<1>8. s \in rows /\ Is(s)
  <2> HIDE DEF Is
  <2> QED BY <1>6, <1>7
<1>9. s.hash = level[other]
  <2>1. s.hash = Levels(leaves)[s.level][s.position]
    <3> HIDE DEF s
    <3> QED BY <1>8, <1>1, RowIs
  <2> HIDE DEF s
  <2> QED BY <2>1, <1>8
<1>10. r.hash = level[r.position]
  <2>1. r \in Rows(tree, leaves, of)
    BY <1>1
  <2>2. r.hash = Levels(leaves)[r.level][r.position]
    <3> HIDE DEF all, w, level, isLeft, other, Is, s
    <3> QED BY <2>1, RowHash
  <2> QED BY <2>2
<1>11. /\ Sibling(rows, p, r).hash = s.hash
       /\ Sibling(rows, p, r).side = IF isLeft THEN "right" ELSE "left"
  BY DEF Sibling
<1> HIDE DEF s, level
<1>12. CASE isLeft
  BY <1>12, <1>3, <1>9, <1>10, <1>11
<1>13. CASE ~isLeft
  BY <1>13, <1>3, <1>9, <1>10, <1>11
<1> QED BY <1>12, <1>13

(* The way up from a row: a parent as long as there is one. *)
Climb(up, rows, leaf, highest) ==
  /\ up \in [1 .. highest -> rows]
  /\ up[1] = leaf
  /\ \A k \in 2 .. highest : up[k] = Above(rows, up[k - 1])

LEMMA AboveIs ==
  ASSUME NEW rows, NEW r \in rows
  PROVE  /\ Above(rows, r) \in rows
         /\ ParentsOf(rows, r) # {} => Above(rows, r) \in ParentsOf(rows, r)
         /\ ParentsOf(rows, r) = {} => Above(rows, r) = r
<1>1. ParentsOf(rows, r) \subseteq rows
  BY DEF ParentsOf
<1> QED BY <1>1 DEF Above

Highest(rows) == Max({r.level : r \in rows})

SiblingsUp(up, rows, s) == [k \in 1 .. s - 1 |-> Sibling(rows, up[k + 1], up[k])]

LEMMA PathIs ==
  ASSUME NEW rows, NEW leaf \in rows, NEW highest \in Nat \ {0}, highest = Highest(rows)
  PROVE  \E up : /\ Climb(up, rows, leaf, highest)
                 /\ Path(rows, leaf) = SiblingsUp(up, rows, up[highest].level)
<1> DEFINE Eq(h) == h = [k \in 1 .. highest |-> IF k = 1 THEN leaf ELSE Above(rows, h[k - 1])]
           s == CHOOSE h : Eq(h)
<1>1. PICK F : \A k \in 1 .. highest : \A r \in rows : F[k][r] = Above(rows, r)
  <2> DEFINE G == [k \in 1 .. highest |-> [r \in rows |-> Above(rows, r)]]
  <2>1. \A k \in 1 .. highest : \A r \in rows : G[k][r] = Above(rows, r)
    OBVIOUS
  <2> HIDE DEF G
  <2> QED BY <2>1
<1>2. Steps(highest, rows, F)
  BY <1>1, AboveIs DEF Steps
<1>3. PICK g : Runs(g, highest, rows, leaf, F)
  <2> HIDE DEF Eq, s
  <2>1. highest \in Nat
    OBVIOUS
  <2> QED BY Iterate, <2>1, <1>2
<1>4. Climb(g, rows, leaf, highest)
  <2>1. ASSUME NEW k \in 2 .. highest PROVE g[k] = Above(rows, g[k - 1])
    <3>1. k - 1 \in 1 .. highest /\ k \in 1 .. highest
      OBVIOUS
    <3>2. g[k - 1] \in rows /\ g[k] = F[k][g[k - 1]]
      BY <3>1, <1>3 DEF Runs
    <3> QED BY <3>1, <3>2, <1>1
  <2> QED BY <2>1, <1>3 DEF Climb, Runs
<1>5. Eq(g)
  <2>1. ASSUME NEW k \in 1 .. highest
        PROVE  g[k] = IF k = 1 THEN leaf ELSE Above(rows, g[k - 1])
    BY <1>4 DEF Climb
  <2> QED BY <2>1, <1>4 DEF Climb
<1>6. Eq(s)
  <2> HIDE DEF Eq
  <2> QED BY <1>5
<1>7. s = [k \in 1 .. highest |-> IF k = 1 THEN leaf ELSE Above(rows, s[k - 1])]
  BY <1>6
<1>8. Path(rows, leaf) = SiblingsUp(s, rows, s[highest].level)
  BY DEF Path, Highest, SiblingsUp
<1> HIDE DEF s, Eq
<1>9. \A k \in 1 .. highest : s[k] = IF k = 1 THEN leaf ELSE Above(rows, s[k - 1])
  BY <1>7
<1> DEFINE T == {k \in Nat : k \in 1 .. highest => s[k] \in rows}
<1>10. 0 \in T
  OBVIOUS
<1>11. ASSUME NEW k \in T PROVE k + 1 \in T
  <2> SUFFICES ASSUME k + 1 \in 1 .. highest PROVE s[k + 1] \in rows
    OBVIOUS
  <2>1. k \in Nat /\ (k \in 1 .. highest => s[k] \in rows)
    OBVIOUS
  <2>2. s[k + 1] = IF k + 1 = 1 THEN leaf ELSE Above(rows, s[(k + 1) - 1])
    BY <1>9, Zenon
  <2>3. CASE k = 0
    BY <2>2, <2>3
  <2>4. CASE k # 0
    <3>1. s[k + 1] = Above(rows, s[k]) /\ s[k] \in rows
      BY <2>1, <2>2, <2>4
    <3> QED BY <3>1, AboveIs
  <2> QED BY <2>3, <2>4
<1>12. \A k \in Nat : k \in T
  <2>1. T \in SUBSET Nat
    OBVIOUS
  <2> HIDE DEF T
  <2> QED BY <2>1, <1>10, <1>11, Induct
<1>13. Climb(s, rows, leaf, highest)
  <2>1. \A k \in 1 .. highest : s[k] \in rows
    BY <1>12
  <2>2. s \in [1 .. highest -> rows]
    BY <2>1, <1>7
  <2>3. 1 \in 1 .. highest
    OBVIOUS
  <2>4. s[1] = leaf
    BY <2>3, <1>9
  <2>5. \A k \in 2 .. highest : s[k] = Above(rows, s[k - 1])
    BY <1>9
  <2> QED BY <2>2, <2>4, <2>5 DEF Climb
<1> QED BY <1>8, <1>13

(* Up to some level every row is the parent of the one before; from there   *)
(* the climb stays.                                                         *)
Climbed(up, rows, s, k) ==
  /\ s \in 1 .. k
  /\ \A j \in 1 .. s : up[j].level = j
  /\ \A j \in 1 .. s - 1 : up[j + 1] \in ParentsOf(rows, up[j])
  /\ up[k] = up[s]
  /\ s < k => ParentsOf(rows, up[s]) = {}

LEMMA ClimbEnds ==
  ASSUME NEW rows, NEW leaf \in rows, leaf.level = 1, NEW highest \in Nat \ {0},
         NEW up, Climb(up, rows, leaf, highest)
  PROVE  \E s : Climbed(up, rows, s, highest)
<1> DEFINE T == {k \in Nat : k \in 1 .. highest => \E s : Climbed(up, rows, s, k)}
<1>1. up \in [1 .. highest -> rows] /\ up[1] = leaf
  BY DEF Climb
<1>2. 0 \in T
  OBVIOUS
<1>3. ASSUME NEW k \in T PROVE k + 1 \in T
  <2>0. k \in Nat /\ (k \in 1 .. highest => \E s : Climbed(up, rows, s, k))
    OBVIOUS
  <2> SUFFICES ASSUME k + 1 \in 1 .. highest PROVE \E s : Climbed(up, rows, s, k + 1)
    BY <2>0
  <2>1. CASE k = 0
    <3>1. Climbed(up, rows, 1, 1)
      BY <1>1 DEF Climbed
    <3> QED BY <3>1, <2>1
  <2>2. CASE k # 0
    <3>1. k \in 1 .. highest /\ k + 1 \in 2 .. highest
      BY <2>0, <2>2
    <3>2. PICK s : Climbed(up, rows, s, k)
      BY <2>0, <3>1
    <3>3. up[k + 1] = Above(rows, up[k])
      <4>1. up[k + 1] = Above(rows, up[(k + 1) - 1])
        BY <3>1 DEF Climb
      <4>2. (k + 1) - 1 = k
        BY <2>0
      <4> QED BY <4>1, <4>2
    <3>4. /\ s \in 1 .. k
          /\ \A j \in 1 .. s : up[j].level = j
          /\ \A j \in 1 .. s - 1 : up[j + 1] \in ParentsOf(rows, up[j])
          /\ up[k] = up[s]
          /\ s < k => ParentsOf(rows, up[s]) = {}
      BY <3>2 DEF Climbed
    <3>5. up[k] \in rows
      BY <1>1, <3>1
    <3>6. CASE ParentsOf(rows, up[k]) = {}
      <4>1. up[k + 1] = up[k]
        BY <3>3, <3>5, <3>6, AboveIs
      <4>2. Climbed(up, rows, s, k + 1)
        BY <4>1, <3>4, <3>6, <2>0 DEF Climbed
      <4> QED BY <4>2
    <3>7. CASE ParentsOf(rows, up[k]) # {}
      <4>1. s = k
        BY <3>4, <3>7, <2>0
      <4>2. up[k + 1] \in ParentsOf(rows, up[k])
        BY <3>3, <3>5, <3>7, AboveIs
      <4>3. up[k + 1].level = k + 1
        <5>1. up[k + 1].level = up[k].level + 1
          BY <4>2 DEF ParentsOf
        <5>2. k \in 1 .. s
          BY <4>1, <3>1
        <5> QED BY <5>1, <5>2, <3>4
      <4>4. Climbed(up, rows, k + 1, k + 1)
        <5>1. k + 1 \in 1 .. k + 1
          BY <2>0
        <5>2. ASSUME NEW j \in 1 .. k + 1 PROVE up[j].level = j
          <6>1. j = k + 1 \/ j \in 1 .. s
            BY <4>1, <2>0
          <6> QED BY <6>1, <4>3, <3>4
        <5>3. ASSUME NEW j \in 1 .. (k + 1) - 1 PROVE up[j + 1] \in ParentsOf(rows, up[j])
          <6>1. j = k \/ j \in 1 .. s - 1
            BY <4>1, <2>0
          <6> QED BY <6>1, <4>2, <3>4
        <5> QED BY <5>1, <5>2, <5>3, <2>0 DEF Climbed
      <4> QED BY <4>4
    <3> QED BY <3>6, <3>7
  <2> QED BY <2>1, <2>2
<1>4. highest \in T
  <2>1. T \in SUBSET Nat /\ highest \in Nat
    OBVIOUS
  <2> HIDE DEF T
  <2> QED BY <2>1, <1>2, <1>3, Induct
<1> QED BY <1>4

(* What is folded along a path. *)
FoldStep(step, below) ==
  IF step.side = "right" THEN <<below, step.hash>> ELSE <<step.hash, below>>

LEMMA FoldedIs ==
  ASSUME NEW m \in Nat, NEW hash, NEW path, Len(path) = m, NEW g,
         g[0] = hash, \A i \in 1 .. m : g[i] = FoldStep(path[i], g[i - 1])
  PROVE  Folded(hash, path) = g[m]
<1> DEFINE Step(i, below) == FoldStep(path[i], below)
           Eq(h) == h = [i \in 0 .. m |-> IF i = 0 THEN hash ELSE Step(i, h[i - 1])]
           s == CHOOSE h : Eq(h)
<1>1. Folded(hash, path) = s[m]
  BY DEF Folded, FoldStep
<1> HIDE DEF Step
<1>2. \A i \in 1 .. m : g[i] = Step(i, g[i - 1])
  BY DEF Step
<1>3. Eq([i \in 0 .. m |-> g[i]])
  <2> DEFINE f == [i \in 0 .. m |-> g[i]]
  <2>1. ASSUME NEW i \in 0 .. m PROVE g[i] = IF i = 0 THEN hash ELSE Step(i, f[i - 1])
    <3>1. i # 0 => f[i - 1] = g[i - 1] /\ i \in 1 .. m
      OBVIOUS
    <3> HIDE DEF f
    <3> QED BY <3>1, <1>2
  <2> HIDE DEF Step
  <2>2. f = [i \in 0 .. m |-> IF i = 0 THEN hash ELSE Step(i, f[i - 1])]
    <3>1. [i \in 0 .. m |-> g[i]] = [i \in 0 .. m |-> IF i = 0 THEN hash ELSE Step(i, f[i - 1])]
      <4> HIDE DEF f
      <4> QED BY <2>1
    <3> QED BY <3>1
  <2> QED BY <2>2
<1>4. Eq(s)
  <2> HIDE DEF Eq
  <2> QED BY <1>3
<1>5. s = [i \in 0 .. m |-> IF i = 0 THEN hash ELSE Step(i, s[i - 1])]
  BY <1>4
<1> HIDE DEF s, Eq
<1>6. \A i \in 0 .. m : s[i] = IF i = 0 THEN hash ELSE Step(i, s[i - 1])
  BY <1>5
<1> DEFINE T == {i \in Nat : i <= m => s[i] = g[i]}
<1>7. 0 \in T
  BY <1>6
<1>8. ASSUME NEW i \in T PROVE i + 1 \in T
  <2>1. i \in Nat /\ (i <= m => s[i] = g[i])
    OBVIOUS
  <2> SUFFICES ASSUME i + 1 <= m PROVE s[i + 1] = g[i + 1]
    BY <2>1
  <2>2. i + 1 \in 1 .. m /\ i + 1 \in 0 .. m /\ i + 1 # 0 /\ (i + 1) - 1 = i
    BY <2>1
  <2>3. s[i + 1] = Step(i + 1, s[i])
    BY <2>2, <1>6
  <2>4. g[i + 1] = Step(i + 1, g[i])
    BY <2>2, <1>2
  <2> QED BY <2>1, <2>3, <2>4
<1>9. m \in T
  <2>1. T \in SUBSET Nat
    OBVIOUS
  <2> HIDE DEF T
  <2> QED BY <2>1, <1>7, <1>8, Induct
<1> QED BY <1>1, <1>9

(* Min and Max of numbers up to a bound. *)
LEMMA MaxIs ==
  ASSUME NEW h \in Nat, NEW S, S # {}, S \subseteq 1 .. h
  PROVE  Max(S) \in S /\ \A x \in S : x <= Max(S)
<1> DEFINE T == {m \in Nat : \A X \in SUBSET (1 .. m) : X # {} => \E x \in X : \A y \in X : x >= y}
<1>1. 0 \in T
  <2>1. 1 .. 0 = {}
    OBVIOUS
  <2> QED BY <2>1
<1>2. ASSUME NEW m \in T PROVE m + 1 \in T
  <2>0. /\ m \in Nat
        /\ \A X \in SUBSET (1 .. m) : X # {} => \E x \in X : \A y \in X : x >= y
    OBVIOUS
  <2> SUFFICES ASSUME NEW X \in SUBSET (1 .. m + 1), X # {}
               PROVE  \E x \in X : \A y \in X : x >= y
    BY <2>0
  <2>1. CASE m + 1 \in X
    <3>1. \A y \in X : m + 1 >= y
      BY <2>0
    <3> QED BY <2>1, <3>1
  <2>2. CASE m + 1 \notin X
    <3>1. X \in SUBSET (1 .. m)
      BY <2>0, <2>2
    <3> QED BY <3>1, <2>0
  <2> QED BY <2>1, <2>2
<1>3. h \in T
  <2>1. T \in SUBSET Nat
    OBVIOUS
  <2> HIDE DEF T
  <2> QED BY <2>1, <1>1, <1>2, Induct
<1>4. \E x \in S : \A y \in S : x >= y
  BY <1>3
<1>5. Max(S) \in S /\ \A y \in S : Max(S) >= y
  BY <1>4 DEF Max
<1> QED BY <1>5

LEMMA RootRow ==
  ASSUME NEW n \in Nat \ {0}, NEW leaves, OfLength(leaves, n), NEW tree, NEW of,
         NEW r \in Rows(tree, leaves, of), r.level = Height(n)
  PROVE  r = NodeRow(tree, leaves, Height(n), 1, of) /\ r.hash = Root(leaves)
<1>1. Widths(n)[Height(n)] = 1
  BY HeightIs
<1>2. r.position \in 1 .. 1
  <2>1. r.position \in 1 .. Widths(n)[r.level]
    BY RowIs
  <2> QED BY <2>1, <1>1
<1>3. r.position = 1
  BY <1>2
<1>4. r = NodeRow(tree, leaves, r.level, r.position, of)
  BY RowIs
<1>5. r.hash = Levels(leaves)[r.level][r.position]
  BY RowIs
<1>6. Len(leaves) = n
  BY DEF OfLength
<1> QED BY <1>3, <1>4, <1>5, <1>6 DEF Root

(* Read back from the rows that were saved, a leaf's path leads to a row    *)
(* that was saved, and to the root if it was.                               *)
LEMMA PathLeads ==
  ASSUME NEW n \in Nat \ {0}, NEW leaves, OfLength(leaves, n), NEW tree, NEW of,
         NEW rows, SavedInOrder(rows, Rows(tree, leaves, of)),
         NEW leaf \in rows, leaf.level = 1
  PROVE  \E r \in rows :
           /\ Folded(leaf.hash, Path(rows, leaf)) = r.hash
           /\ (\E m \in rows : m.level = Height(n)) => r.hash = Root(leaves)
<1> DEFINE all == Rows(tree, leaves, of)
           levels == {r.level : r \in rows}
           highest == Max(levels)
<1>1. rows \subseteq all
  BY DEF SavedInOrder
<1>2. Height(n) \in 1 .. n
  BY HeightIs
<1>3. levels # {} /\ levels \subseteq 1 .. Height(n)
  BY <1>1, RowIs
<1>4. highest \in levels /\ \A x \in levels : x <= highest
  <2> HIDE DEF levels
  <2>1. Height(n) \in Nat
    BY <1>2
  <2> QED BY <1>3, <2>1, MaxIs
<1>5. highest \in 1 .. Height(n) /\ highest \in Nat \ {0}
  BY <1>2, <1>3, <1>4
<1>6. PICK up : /\ Climb(up, rows, leaf, highest)
               /\ Path(rows, leaf) = SiblingsUp(up, rows, up[highest].level)
  <2>1. highest = Highest(rows)
    BY DEF Highest
  <2>2. leaf \in rows /\ highest \in Nat \ {0}
    BY <1>5
  <2> HIDE DEF highest, levels, all
  <2> QED BY <2>1, <2>2, PathIs
<1> HIDE DEF highest, levels
<1>7. PICK s : Climbed(up, rows, s, highest)
  BY <1>5, <1>6, ClimbEnds
<1>8. /\ s \in 1 .. highest
      /\ \A j \in 1 .. s : up[j].level = j
      /\ \A j \in 1 .. s - 1 : up[j + 1] \in ParentsOf(rows, up[j])
      /\ up[highest] = up[s]
      /\ s < highest => ParentsOf(rows, up[s]) = {}
  BY <1>7 DEF Climbed
<1>9. up \in [1 .. highest -> rows] /\ up[1] = leaf
  BY <1>6 DEF Climb
<1>10. up[highest].level = s /\ up[s] \in rows
  BY <1>5, <1>8, <1>9
<1> DEFINE path == [k \in 1 .. s - 1 |-> Sibling(rows, up[k + 1], up[k])]
           g == [i \in 0 .. s - 1 |-> up[i + 1].hash]
<1>11. Path(rows, leaf) = path
  BY <1>6, <1>10 DEF SiblingsUp
<1>12. s - 1 \in Nat
  BY <1>5, <1>8
<1>13. Len(path) = s - 1
  BY <1>12
<1>14. ASSUME NEW i \in 1 .. s - 1 PROVE g[i] = FoldStep(path[i], g[i - 1])
  <2>1. i \in 1 .. highest /\ i - 1 \in 0 .. s - 1 /\ i \in 0 .. s - 1 /\ (i - 1) + 1 = i
    BY <1>5, <1>8
  <2>2. up[i] \in rows /\ up[i + 1] \in ParentsOf(rows, up[i])
    BY <2>1, <1>8, <1>9
  <2>3. path[i] = Sibling(rows, up[i + 1], up[i])
    OBVIOUS
  <2>4. g[i] = up[i + 1].hash /\ g[i - 1] = up[i].hash
    BY <2>1
  <2>5. up[i + 1].hash = FoldStep(Sibling(rows, up[i + 1], up[i]), up[i].hash)
    <3> DEFINE p == up[i + 1]
               r == up[i]
    <3>1. r \in rows /\ p \in ParentsOf(rows, r)
      BY <2>2
    <3> HIDE DEF p, r, path, g, all
    <3>2. p.hash = IF Sibling(rows, p, r).side = "right"
                   THEN <<r.hash, Sibling(rows, p, r).hash>>
                   ELSE <<Sibling(rows, p, r).hash, r.hash>>
      BY <3>1, SiblingIs
    <3>3. p.hash = FoldStep(Sibling(rows, p, r), r.hash)
      BY <3>2 DEF FoldStep
    <3> QED BY <3>3 DEF p, r
  <2> HIDE DEF path, g
  <2> QED BY <2>3, <2>4, <2>5
<1>15. Folded(leaf.hash, path) = g[s - 1]
  <2>1. g[0] = leaf.hash
    BY <1>9, <1>12
  <2> HIDE DEF path, g
  <2> QED BY <1>12, <1>13, <1>14, <2>1, FoldedIs
<1>16. g[s - 1] = up[s].hash
  <2>1. s - 1 \in 0 .. s - 1 /\ (s - 1) + 1 = s
    BY <1>5, <1>8
  <2> QED BY <2>1
<1>17. ASSUME NEW m \in rows, m.level = Height(n) PROVE up[s].hash = Root(leaves)
  <2>1. highest = Height(n)
    <3>1. Height(n) \in levels
      BY <1>17 DEF levels
    <3> QED BY <3>1, <1>2, <1>4, <1>5
  <2>2. m = NodeRow(tree, leaves, Height(n), 1, of)
    BY <1>1, <1>17, RootRow
  <2>3. ASSUME NEW r \in all PROVE r \in rows
    <3>1. r.level \in 1 .. Height(n)
      BY RowIs
    <3>2. CASE r.level = Height(n)
      BY <3>2, <2>2, RootRow
    <3>3. CASE r.level # Height(n)
      <4>1. Earlier(r, m)
        BY <3>1, <3>3, <1>2, <1>17 DEF Earlier
      <4> QED BY <4>1, <1>17 DEF SavedInOrder
    <3> QED BY <3>2, <3>3
  <2>4. rows = all
    BY <2>3, <1>1
  <2>5. s = Height(n)
    <3>1. SUFFICES ASSUME s < Height(n) PROVE FALSE
      BY <1>2, <1>5, <1>8, <2>1
    <3>2. up[s] \in all /\ up[s].level = s
      BY <1>1, <1>8, <1>10
    <3>3. ParentsOf(all, up[s]) # {}
      BY <3>1, <3>2, HasParent
    <3> QED BY <3>1, <3>3, <2>1, <2>4, <1>8
  <2>6. up[s] \in all /\ up[s].level = Height(n)
    BY <1>1, <1>10, <1>8, <2>5
  <2> QED BY <2>6, RootRow
<1>18. Folded(leaf.hash, Path(rows, leaf)) = up[s].hash
  <2> HIDE DEF path, g
  <2> QED BY <1>11, <1>15, <1>16
<1> QED BY <1>10, <1>17, <1>18

(* Hashes of contents are no hashes of pairs, so no two levels share a hash. *)
LEMMA HashAbove ==
  ASSUME NEW n \in Nat \ {0}, NEW leaves, OfLength(leaves, n),
         NEW k \in 1 .. n, k + 1 <= n, NEW i \in 1 .. Widths(n)[k + 1]
  PROVE  /\ Left(i) \in 1 .. Widths(n)[k]
         /\ Levels(leaves)[k + 1][i] =
              <<Levels(leaves)[k][Left(i)], Levels(leaves)[k][Right(i, Widths(n)[k])]>>
<1>1. k + 1 \in 2 .. n /\ k + 1 \in 1 .. n /\ k + 1 # 1 /\ (k + 1) - 1 = k
  OBVIOUS
<1>2. Levels(leaves)[k + 1] = Paired(Levels(leaves)[k], Widths(n)[k], Widths(n)[k + 1])
  <2>1. Levels(leaves)[k + 1] =
          Paired(Levels(leaves)[(k + 1) - 1], Widths(n)[(k + 1) - 1], Widths(n)[k + 1])
    BY <1>1, LevelsAre
  <2> QED BY <2>1, <1>1
<1>3. Widths(n)[k] \in Nat \ {0}
  BY WidthsShrink
<1>4. Widths(n)[k + 1] = (Widths(n)[k] + 1) \div 2
  <2>1. Widths(n)[k + 1] = (Widths(n)[(k + 1) - 1] + 1) \div 2
    BY <1>1, WidthsAre
  <2> QED BY <2>1, <1>1
<1>5. Left(i) \in 1 .. Widths(n)[k]
  BY <1>3, <1>4, Neighbours
<1> QED BY <1>2, <1>5 DEF Paired

LEMMA LevelsDiffer ==
  ASSUME NEW n \in Nat \ {0}, NEW leaves, OfLength(leaves, n),
         \A i \in 1 .. n : \E content : leaves[i] = <<content>>
  PROVE  \A k \in 1 .. n : \A l \in 1 .. n : k < l =>
           \A i \in 1 .. Widths(n)[k], j \in 1 .. Widths(n)[l] :
              Levels(leaves)[k][i] # Levels(leaves)[l][j]
<1> DEFINE L == Levels(leaves)
           w == Widths(n)
           P(k) == \A l \in 1 .. n : k < l =>
                     \A i \in 1 .. w[k], j \in 1 .. w[l] : L[k][i] # L[l][j]
           T == {k \in Nat : k \in 1 .. n => P(k)}
<1>1. \A k \in 1 .. n : k + 1 <= n => \A i \in 1 .. w[k + 1] :
         Left(i) \in 1 .. w[k] /\ L[k + 1][i] = <<L[k][Left(i)], L[k][Right(i, w[k])]>>
  BY HashAbove
<1>2. L[1] = leaves
  BY LevelsAre
<1>3. w[1] = n
  <2>1. 1 \in 1 .. n
    OBVIOUS
  <2> QED BY <2>1, WidthsAre
<1> HIDE DEF L, w
<1>4. P(1)
  <2> SUFFICES ASSUME NEW l \in 1 .. n, 1 < l, NEW i \in 1 .. w[1], NEW j \in 1 .. w[l]
               PROVE  L[1][i] # L[l][j]
    OBVIOUS
  <2>1. PICK content : L[1][i] = <<content>>
    BY <1>2, <1>3
  <2>2. l - 1 \in 1 .. n /\ (l - 1) + 1 = l
    OBVIOUS
  <2>3. L[l][j] = <<L[l - 1][Left(j)], L[l - 1][Right(j, w[l - 1])]>>
    BY <2>2, <1>1
  <2> QED BY <2>1, <2>3
<1>5. 0 \in T
  OBVIOUS
<1>6. ASSUME NEW k \in T PROVE k + 1 \in T
  <2>0. k \in Nat /\ (k \in 1 .. n => P(k))
    OBVIOUS
  <2> SUFFICES ASSUME k + 1 \in 1 .. n PROVE P(k + 1)
    BY <2>0
  <2>1. CASE k = 0
    BY <2>1, <1>4
  <2>2. CASE k # 0
    <3> SUFFICES ASSUME NEW l \in 1 .. n, k + 1 < l, NEW i \in 1 .. w[k + 1], NEW j \in 1 .. w[l],
                        L[k + 1][i] = L[l][j]
                 PROVE  FALSE
      OBVIOUS
    <3>1. k \in 1 .. n /\ k + 1 <= n /\ l - 1 \in 1 .. n /\ (l - 1) + 1 = l /\ k < l - 1
      BY <2>0, <2>2
    <3>2. Left(i) \in 1 .. w[k] /\ L[k + 1][i] = <<L[k][Left(i)], L[k][Right(i, w[k])]>>
      BY <3>1, <1>1
    <3>3. /\ Left(j) \in 1 .. w[l - 1]
          /\ L[l][j] = <<L[l - 1][Left(j)], L[l - 1][Right(j, w[l - 1])]>>
      <4> DEFINE m == l - 1
      <4>1. m \in 1 .. n /\ m + 1 <= n /\ j \in 1 .. w[m + 1] /\ m + 1 = l
        BY <3>1
      <4> HIDE DEF m
      <4>2. Left(j) \in 1 .. w[m] /\ L[m + 1][j] = <<L[m][Left(j)], L[m][Right(j, w[m])]>>
        BY <4>1, <1>1
      <4> QED BY <4>1, <4>2 DEF m
    <3>4. L[k][Left(i)] = L[l - 1][Left(j)]
      <4>1. <<L[k][Left(i)], L[k][Right(i, w[k])]>> =
            <<L[l - 1][Left(j)], L[l - 1][Right(j, w[l - 1])]>>
        BY <3>2, <3>3
      <4> QED BY <4>1
    <3>5. P(k)
      BY <2>0, <3>1
    <3> QED BY <3>1, <3>2, <3>3, <3>4, <3>5
  <2> QED BY <2>1, <2>2
<1>7. \A k \in Nat : k \in T
  <2>1. T \in SUBSET Nat
    OBVIOUS
  <2> HIDE DEF T
  <2> QED BY <2>1, <1>5, <1>6, Induct
<1>8. \A k \in 1 .. n : P(k)
  BY <1>7
<1> QED BY <1>8 DEF L, w

LEMMA RootIsOnce ==
  ASSUME NEW n \in Nat \ {0}, NEW leaves, OfLength(leaves, n),
         \A i \in 1 .. n : \E content : leaves[i] = <<content>>,
         NEW tree, NEW of, NEW r \in Rows(tree, leaves, of), r.hash = Root(leaves)
  PROVE  r.level = Height(n)
<1>1. Height(n) \in 1 .. n /\ Widths(n)[Height(n)] = 1
  BY HeightIs
<1>2. /\ r.level \in 1 .. n /\ r.level \in 1 .. Height(n)
      /\ r.position \in 1 .. Widths(n)[r.level]
      /\ r.hash = Levels(leaves)[r.level][r.position]
  BY RowIs
<1>3. Root(leaves) = Levels(leaves)[Height(n)][1] /\ 1 \in 1 .. Widths(n)[Height(n)]
  BY <1>1 DEF Root, OfLength
<1>4. ASSUME r.level < Height(n) PROVE FALSE
  <2>1. Levels(leaves)[r.level][r.position] # Levels(leaves)[Height(n)][1]
    BY <1>1, <1>2, <1>3, <1>4, LevelsDiffer
  <2> QED BY <2>1, <1>2, <1>3
<1> QED BY <1>1, <1>2, <1>4

-----------------------------------------------------------------------------
(* The records *)

IsList(s) == Len(s) \in Nat /\ OfLength(s, Len(s))

LEMMA EmptyList == IsList(<< >>) /\ Len(<< >>) = 0
BY DEF IsList, OfLength

LEMMA EmptyIff == ASSUME NEW s, IsList(s) PROVE s = << >> <=> Len(s) = 0
<1>1. ASSUME Len(s) = 0 PROVE s = << >>
  <2>1. s = [i \in 1 .. 0 |-> s[i]] /\ 1 .. 0 = {}
    BY <1>1 DEF IsList, OfLength
  <2>2. s \in [1 .. 0 -> {}]
    BY <2>1
  <2>3. s \in Seq({})
    BY <2>2, LengthIs
  <2> QED BY <2>3, <1>1, EmptySeq
<1> QED BY <1>1, EmptyList

LEMMA ListIs ==
  ASSUME NEW s, IsList(s)
  PROVE  Len(s) \in Nat /\ DOMAIN s = 1 .. Len(s) /\ s \in Seq({s[i] : i \in 1 .. Len(s)})
<1>1. Len(s) \in Nat /\ s = [i \in 1 .. Len(s) |-> s[i]]
  BY DEF IsList, OfLength
<1>2. s \in [1 .. Len(s) -> {s[i] : i \in 1 .. Len(s)}] /\ DOMAIN s = 1 .. Len(s)
  BY <1>1
<1> QED BY <1>1, <1>2, LengthIs

LEMMA SeqIsList ==
  ASSUME NEW S, NEW s \in Seq(S)
  PROVE  IsList(s)
BY LenProperties DEF IsList, OfLength

LEMMA AppendIs ==
  ASSUME NEW s, IsList(s), NEW x
  PROVE  /\ IsList(Append(s, x))
         /\ Len(Append(s, x)) = Len(s) + 1
         /\ \A i \in 1 .. Len(s) : Append(s, x)[i] = s[i]
         /\ Append(s, x)[Len(s) + 1] = x
<1> DEFINE S == {s[i] : i \in 1 .. Len(s)} \cup {x}
<1>1. s \in Seq(S)
  <2>1. Len(s) \in Nat /\ s = [i \in 1 .. Len(s) |-> s[i]]
    BY DEF IsList, OfLength
  <2>2. s \in [1 .. Len(s) -> S]
    BY <2>1
  <2> HIDE DEF S
  <2> QED BY <2>1, <2>2, LengthIs
<1>2. x \in S
  OBVIOUS
<1> HIDE DEF S
<1>3. /\ Append(s, x) \in Seq(S)
      /\ Len(Append(s, x)) = Len(s) + 1
      /\ \A i \in 1 .. Len(s) : Append(s, x)[i] = s[i]
      /\ Append(s, x)[Len(s) + 1] = x
  BY <1>1, <1>2, AppendProperties
<1>4. IsList(Append(s, x))
  BY <1>3, SeqIsList, Zenon
<1> QED BY <1>3, <1>4, Zenon

LEMMA ExceptIs ==
  ASSUME NEW s, IsList(s), NEW k \in 1 .. Len(s), NEW x
  PROVE  /\ IsList([s EXCEPT ![k] = x])
         /\ Len([s EXCEPT ![k] = x]) = Len(s)
         /\ [s EXCEPT ![k] = x][k] = x
         /\ \A i \in 1 .. Len(s) : i # k => [s EXCEPT ![k] = x][i] = s[i]
<1> DEFINE S == {s[i] : i \in 1 .. Len(s)} \cup {x}
<1>1. s \in Seq(S)
  <2>1. Len(s) \in Nat /\ s = [i \in 1 .. Len(s) |-> s[i]]
    BY DEF IsList, OfLength
  <2>2. s \in [1 .. Len(s) -> S]
    BY <2>1
  <2> HIDE DEF S
  <2> QED BY <2>1, <2>2, LengthIs
<1>2. x \in S
  OBVIOUS
<1> HIDE DEF S
<1>3. /\ [s EXCEPT ![k] = x] \in Seq(S)
      /\ Len([s EXCEPT ![k] = x]) = Len(s)
      /\ \A i \in 1 .. Len(s) : [s EXCEPT ![k] = x][i] = IF i = k THEN x ELSE s[i]
  BY <1>1, <1>2, ExceptSeq
<1>4. IsList([s EXCEPT ![k] = x])
  <2> DEFINE t == [s EXCEPT ![k] = x]
  <2>1. t \in Seq(S)
    BY <1>3
  <2> HIDE DEF t
  <2>2. IsList(t)
    BY <2>1, SeqIsList, Zenon
  <2> QED BY <2>2 DEF t
<1> QED BY <1>3, <1>4

(* What is saved of a tree: its rows in order, and while it is being saved  *)
(* the rest is still to come.                                               *)
Kept(tree, leaves, of) ==
  /\ SavedInOrder(NodesOf(tree), Rows(tree, leaves, of))
  /\ (\E n \in unsaved : n.tree = tree) =>
       unsaved = Rows(tree, leaves, of) \ NodesOf(tree)

(* A cycle's tree is over the hashes of what was committed, in its second.  *)
CycleTree(i, leaves, ids) ==
  /\ IsList(leaves) /\ Len(leaves) # 0
  /\ \A j \in 1 .. Len(leaves) : /\ ids[j] \in DOMAIN committed
                                 /\ ids[j][2] = cycles[i].at
                                 /\ leaves[j] = CanonicalHash(committed[ids[j]])
  /\ cycles[i].root = Root(leaves)
  /\ Kept(<<"cycle", i>>, leaves, ids)

(* A checkpoint's tree has a leaf for each cycle of its period, and its root *)
(* is stored when all of it is saved.                                        *)
CheckpointTree(k, leaves, of) ==
  /\ IsList(leaves) /\ Len(leaves) # 0
  /\ \A j \in 1 .. Len(leaves) : of[j] = << >>
  /\ \A i \in 1 .. Len(cycles) :
       cycles[i].at \in checkpoints[k].from .. checkpoints[k].to =>
         \E j \in 1 .. Len(leaves) : leaves[j] = cycles[i].chained
  /\ Kept(<<"checkpoint", k>>, leaves, of)
  /\ checkpoints[k].root # << >> =>
       /\ checkpoints[k].root = Root(leaves)
       /\ NodesOf(<<"checkpoint", k>>) = Rows(<<"checkpoint", k>>, leaves, of)

Times ==
  /\ clock \in Nat
  /\ \A i \in 1 .. Len(cycles) : cycles[i].at \in Nat /\ cycles[i].at <= clock
  /\ \A i, j \in 1 .. Len(cycles) : i <= j => cycles[i].at <= cycles[j].at
  /\ \A k \in 1 .. Len(checkpoints) :
       /\ checkpoints[k].from \in Int
       /\ checkpoints[k].to \in Nat
       /\ checkpoints[k].to <= LastTo
  /\ LastTo \in Nat /\ LastTo <= clock

(* Every node row is of a tree whose cycle or checkpoint has a row. *)
OfRecord(n) ==
  \/ \E i \in 1 .. Len(cycles) : n.tree = <<"cycle", i>>
  \/ \E k \in 1 .. Len(checkpoints) : n.tree = <<"checkpoint", k>>

Lists ==
  /\ IsList(cycles) /\ IsList(checkpoints)
  /\ \A k \in 1 .. Len(checkpoints) : DOMAIN checkpoints[k] = {"from", "to", "root"}
Recorded == \A n \in nodes \cup unsaved : OfRecord(n)
Named == \A id \in DOMAIN snapshots : id # << >>
Linked ==
  \A i \in 1 .. Len(cycles) : cycles[i].chained = Chained(cycles[i].previous, cycles[i].root)
CyclesKept == \A i \in 1 .. Len(cycles) : \E leaves, ids : CycleTree(i, leaves, ids)
CheckpointsKept ==
  \A k \in 1 .. Len(checkpoints) : \E leaves, of : CheckpointTree(k, leaves, of)

MerkleInv ==
  /\ Lists /\ Times /\ Recorded /\ Named /\ Linked
  /\ CyclesKept /\ CheckpointsKept

LEMMA InitInv == Init => MerkleInv
<1> SUFFICES ASSUME Init PROVE MerkleInv
  OBVIOUS
<1>1. IsList(cycles) /\ IsList(checkpoints) /\ Len(cycles) = 0 /\ Len(checkpoints) = 0
  BY EmptyList DEF Init
<1>2. Times
  BY <1>1 DEF Times, Init, LastTo
<1>3. nodes \cup unsaved = {} /\ DOMAIN snapshots = {}
  BY DEF Init
<1> QED BY <1>1, <1>2, <1>3
        DEF MerkleInv, Lists, Recorded, Named, Linked, CyclesKept, CheckpointsKept

LEMMA KeptStays ==
  ASSUME NEW tree, NEW leaves, NEW of, Kept(tree, leaves, of),
         NodesOf(tree)' = NodesOf(tree),
         \A n \in unsaved' : n.tree = tree => unsaved' = unsaved
  PROVE  Kept(tree, leaves, of)'
BY DEF Kept

LEMMA CycleTreeStays ==
  ASSUME NEW i, NEW leaves, NEW ids, CycleTree(i, leaves, ids), Kept(<<"cycle", i>>, leaves, ids)',
         cycles'[i] = cycles[i],
         \A id \in DOMAIN committed : id[2] = cycles[i].at =>
            id \in DOMAIN committed' /\ committed'[id] = committed[id]
  PROVE  CycleTree(i, leaves, ids)'
<1>1. ASSUME NEW j \in 1 .. Len(leaves)
      PROVE  /\ ids[j] \in DOMAIN committed'
             /\ ids[j][2] = cycles'[i].at
             /\ leaves[j] = CanonicalHash(committed'[ids[j]])
  <2>1. /\ ids[j] \in DOMAIN committed
        /\ ids[j][2] = cycles[i].at
        /\ leaves[j] = CanonicalHash(committed[ids[j]])
    BY DEF CycleTree
  <2> QED BY <2>1
<1> QED BY <1>1 DEF CycleTree

LEMMA CheckpointTreeStays ==
  ASSUME NEW k, NEW leaves, NEW of, CheckpointTree(k, leaves, of),
         Kept(<<"checkpoint", k>>, leaves, of)',
         NodesOf(<<"checkpoint", k>>)' = NodesOf(<<"checkpoint", k>>),
         checkpoints'[k] = checkpoints[k],
         \A i \in 1 .. Len(cycles') :
            cycles'[i].at \in checkpoints[k].from .. checkpoints[k].to =>
              i \in 1 .. Len(cycles) /\ cycles'[i] = cycles[i]
  PROVE  CheckpointTree(k, leaves, of)'
<1>1. ASSUME NEW i \in 1 .. Len(cycles'),
             cycles'[i].at \in checkpoints'[k].from .. checkpoints'[k].to
      PROVE  \E j \in 1 .. Len(leaves) : leaves[j] = cycles'[i].chained
  <2>1. i \in 1 .. Len(cycles) /\ cycles'[i] = cycles[i]
    BY <1>1
  <2>2. cycles[i].at \in checkpoints[k].from .. checkpoints[k].to
    BY <1>1, <2>1
  <2>3. \E j \in 1 .. Len(leaves) : leaves[j] = cycles[i].chained
    BY <2>1, <2>2 DEF CheckpointTree
  <2> QED BY <2>1, <2>3
<1> QED BY <1>1 DEF CheckpointTree

(* A step that saves no node and commits nothing. *)
LEMMA QuietInv ==
  ASSUME MerkleInv, UNCHANGED <<cycles, checkpoints, nodes, committed>>,
         unsaved' = unsaved \/ unsaved' = {},
         clock' \in Nat, clock' >= clock, Named'
  PROVE  MerkleInv'
<1>1. Lists' /\ Times' /\ Linked' /\ Recorded'
  <2>1. Lists' /\ Linked'
    BY DEF MerkleInv, Lists, Linked
  <2>2. LastTo' = LastTo
    BY DEF LastTo
  <2>3. Times
    BY DEF MerkleInv
  <2>4. Times'
    <3>1. ASSUME NEW i \in 1 .. Len(cycles') PROVE cycles'[i].at \in Nat /\ cycles'[i].at <= clock'
      <4>1. cycles[i].at \in Nat /\ cycles[i].at <= clock /\ clock \in Nat /\ cycles' = cycles
        BY <2>3 DEF Times
      <4> QED BY <4>1
    <3>2. LastTo' \in Nat /\ LastTo' <= clock'
      BY <2>2, <2>3 DEF Times
    <3> QED BY <2>2, <2>3, <3>1, <3>2 DEF Times
  <2>5. Recorded'
    <3>1. ASSUME NEW n \in nodes' \cup unsaved' PROVE OfRecord(n)'
      <4>1. n \in nodes \cup unsaved
        OBVIOUS
      <4>2. OfRecord(n)
        BY <4>1 DEF MerkleInv, Recorded
      <4> QED BY <4>2 DEF OfRecord
    <3> QED BY <3>1 DEF Recorded
  <2> QED BY <2>1, <2>4, <2>5
<1>2. \A tree : NodesOf(tree)' = NodesOf(tree)
  BY DEF NodesOf
<1>3. ASSUME NEW tree, NEW leaves, NEW of, Kept(tree, leaves, of)
      PROVE  Kept(tree, leaves, of)'
  BY <1>2, <1>3, KeptStays
<1>4. CyclesKept'
  <2>1. ASSUME NEW i \in 1 .. Len(cycles') PROVE \E leaves, ids : CycleTree(i, leaves, ids)'
    <3>1. PICK leaves, ids : CycleTree(i, leaves, ids)
      BY DEF MerkleInv, CyclesKept
    <3>2. Kept(<<"cycle", i>>, leaves, ids)'
      BY <3>1, <1>3 DEF CycleTree
    <3> QED BY <3>1, <3>2, CycleTreeStays
  <2> QED BY <2>1 DEF CyclesKept
<1>5. CheckpointsKept'
  <2>1. ASSUME NEW k \in 1 .. Len(checkpoints') PROVE \E leaves, of : CheckpointTree(k, leaves, of)'
    <3>1. PICK leaves, of : CheckpointTree(k, leaves, of)
      BY DEF MerkleInv, CheckpointsKept
    <3>2. Kept(<<"checkpoint", k>>, leaves, of)'
      BY <3>1, <1>3 DEF CheckpointTree
    <3> QED BY <3>1, <3>2, <1>2, CheckpointTreeStays
  <2> QED BY <2>1 DEF CheckpointsKept
<1> QED BY <1>1, <1>4, <1>5 DEF MerkleInv

LEMMA LastToIs ==
  ASSUME IsList(checkpoints)
  PROVE  LastTo = IF Len(checkpoints) = 0 THEN 0 ELSE checkpoints[Len(checkpoints)].to
BY EmptyIff DEF LastTo, Last

LEMMA TreeOfRow ==
  ASSUME NEW tree, NEW leaves, NEW of, NEW r \in Rows(tree, leaves, of)
  PROVE  r.tree = tree
BY DEF Rows, NodeRow

(* The next row of a tree is saved, or a row of another tree. *)
LEMMA KeptSaved ==
  ASSUME NEW tree, NEW leaves, NEW of, Kept(tree, leaves, of),
         NEW n \in unsaved, \A m \in unsaved : ~Earlier(m, n),
         nodes' = nodes \cup {n}, unsaved' = unsaved \ {n}
  PROVE  /\ Kept(tree, leaves, of)'
         /\ n.tree = tree =>
              /\ n \in Rows(tree, leaves, of)
              /\ unsaved = Rows(tree, leaves, of) \ NodesOf(tree)
              /\ NodesOf(tree)' = NodesOf(tree) \cup {n}
         /\ n.tree # tree => NodesOf(tree)' = NodesOf(tree)
<1> DEFINE all == Rows(tree, leaves, of)
<1>1. SavedInOrder(NodesOf(tree), all)
  BY DEF Kept
<1>2. CASE n.tree = tree
  <2>1. unsaved = all \ NodesOf(tree)
    BY <1>2 DEF Kept
  <2>2. NodesOf(tree)' = NodesOf(tree) \cup {n}
    BY <1>2 DEF NodesOf
  <2>3. SavedInOrder(NodesOf(tree) \cup {n}, all)
    <3> HIDE DEF all
    <3>1. NodesOf(tree) \cup {n} \subseteq all
      BY <1>1, <2>1 DEF SavedInOrder
    <3>2. ASSUME NEW x \in NodesOf(tree) \cup {n}, NEW m \in all, Earlier(m, x)
          PROVE  m \in NodesOf(tree) \cup {n}
      BY <3>2, <1>1, <2>1 DEF SavedInOrder
    <3> QED BY <3>1, <3>2 DEF SavedInOrder
  <2>4. unsaved' = all \ NodesOf(tree)'
    BY <2>1, <2>2
  <2>5. Kept(tree, leaves, of)'
    <3>1. SavedInOrder(NodesOf(tree)', all)
      BY <2>2, <2>3
    <3> QED BY <3>1, <2>4 DEF Kept
  <2> QED BY <2>1, <2>2, <2>5, <1>2
<1>3. CASE n.tree # tree
  <2>1. NodesOf(tree)' = NodesOf(tree)
    BY <1>3 DEF NodesOf
  <2>2. ~\E m \in unsaved : m.tree = tree
    <3>1. SUFFICES ASSUME \E m \in unsaved : m.tree = tree PROVE FALSE
      OBVIOUS
    <3>2. n \in all
      BY <3>1 DEF Kept
    <3> QED BY <3>2, <1>3, TreeOfRow
  <2>3. ~\E m \in unsaved' : m.tree = tree
    BY <2>2
  <2>4. Kept(tree, leaves, of)'
    BY <1>1, <2>1, <2>3 DEF Kept
  <2> QED BY <2>1, <2>4, <1>3
<1> QED BY <1>2, <1>3

(* The last row of a tree to be saved is its root. *)
LEMMA RootLast ==
  ASSUME NEW n \in Nat \ {0}, NEW leaves, OfLength(leaves, n), NEW tree, NEW of,
         NEW rows, SavedInOrder(rows, Rows(tree, leaves, of)),
         NEW r, Rows(tree, leaves, of) \ rows = {r}
  PROVE  r.hash = Root(leaves)
<1> DEFINE all == Rows(tree, leaves, of)
           q == NodeRow(tree, leaves, Height(n), 1, of)
<1>1. Height(n) \in 1 .. n /\ Widths(n)[Height(n)] = 1
  BY HeightIs
<1>2. q \in all /\ q.level = Height(n)
  <2>1. Height(n) \in 1 .. Height(n) /\ 1 \in 1 .. Widths(n)[Height(n)]
    BY <1>1
  <2> QED BY <2>1, RowAt
<1>3. r \in all /\ r \notin rows
  OBVIOUS
<1>4. q \notin rows
  <2>1. SUFFICES ASSUME q \in rows PROVE FALSE
    OBVIOUS
  <2>2. CASE r.level = Height(n)
    BY <2>1, <2>2, <1>3, RootRow
  <2>3. CASE r.level # Height(n)
    <3>1. r.level \in 1 .. Height(n)
      BY <1>3, RowIs
    <3>2. Earlier(r, q)
      <4> HIDE DEF q
      <4> QED BY <3>1, <2>3, <1>1, <1>2 DEF Earlier
    <3> QED BY <3>2, <2>1, <1>3 DEF SavedInOrder
  <2> QED BY <2>2, <2>3
<1>5. q = r
  <2> HIDE DEF q
  <2> QED BY <1>2, <1>4
<1> QED BY <1>2, <1>3, <1>5, RootRow

(* What a saved node leaves of the rows of checkpoints. *)
LEMMA StoredRoot ==
  ASSUME Lists, NEW n, OfRecord(n),
         checkpoints' = IF n.tree[1] = "checkpoint" /\ unsaved = {n}
                        THEN [checkpoints EXCEPT ![n.tree[2]].root = n.hash]
                        ELSE checkpoints,
         cycles' = cycles
  PROVE  /\ Lists'
         /\ Len(checkpoints') = Len(checkpoints)
         /\ \A k \in 1 .. Len(checkpoints) :
              /\ checkpoints'[k].from = checkpoints[k].from
              /\ checkpoints'[k].to = checkpoints[k].to
              /\ \/ checkpoints'[k].root = checkpoints[k].root
                 \/ /\ n.tree = <<"checkpoint", k>> /\ unsaved = {n}
                    /\ checkpoints'[k].root = n.hash
<1>1. CASE checkpoints' = checkpoints
  BY <1>1 DEF Lists
<1>2. CASE n.tree[1] = "checkpoint" /\ unsaved = {n}
  <2>1. PICK k \in 1 .. Len(checkpoints) : n.tree = <<"checkpoint", k>>
    BY <1>2 DEF OfRecord
  <2> DEFINE row == [checkpoints[k] EXCEPT !.root = n.hash]
  <2>2. checkpoints' = [checkpoints EXCEPT ![k] = row]
    BY <1>2, <2>1
  <2>3. /\ DOMAIN row = {"from", "to", "root"}
        /\ row.from = checkpoints[k].from
        /\ row.to = checkpoints[k].to
        /\ row.root = n.hash
    BY DEF Lists
  <2> HIDE DEF row
  <2>4. /\ IsList(checkpoints')
        /\ Len(checkpoints') = Len(checkpoints)
        /\ \A j \in 1 .. Len(checkpoints) :
              checkpoints'[j] = IF j = k THEN row ELSE checkpoints[j]
    <3>1. IsList(checkpoints)
      BY DEF Lists
    <3>2. /\ IsList([checkpoints EXCEPT ![k] = row])
          /\ Len([checkpoints EXCEPT ![k] = row]) = Len(checkpoints)
          /\ [checkpoints EXCEPT ![k] = row][k] = row
          /\ \A j \in 1 .. Len(checkpoints) :
               j # k => [checkpoints EXCEPT ![k] = row][j] = checkpoints[j]
      BY <3>1, ExceptIs
    <3> QED BY <2>2, <3>2
  <2>5. Lists'
    <3>1. ASSUME NEW j \in 1 .. Len(checkpoints')
          PROVE  DOMAIN checkpoints'[j] = {"from", "to", "root"}
      BY <2>3, <2>4 DEF Lists
    <3> QED BY <2>4, <3>1 DEF Lists
  <2>6. ASSUME NEW j \in 1 .. Len(checkpoints)
        PROVE  /\ checkpoints'[j].from = checkpoints[j].from
               /\ checkpoints'[j].to = checkpoints[j].to
               /\ \/ checkpoints'[j].root = checkpoints[j].root
                  \/ /\ n.tree = <<"checkpoint", j>> /\ unsaved = {n}
                     /\ checkpoints'[j].root = n.hash
    BY <1>2, <2>1, <2>3, <2>4
  <2> QED BY <2>4, <2>5, <2>6
<1> QED BY <1>1, <1>2

LEMMA SaveNodeInv ==
  ASSUME MerkleInv, SaveNode
  PROVE  MerkleInv'
<1>1. PICK n \in unsaved :
        /\ \A m \in unsaved : ~Earlier(m, n)
        /\ nodes' = nodes \cup {n}
        /\ unsaved' = unsaved \ {n}
        /\ checkpoints' = IF n.tree[1] = "checkpoint" /\ unsaved = {n}
                          THEN [checkpoints EXCEPT ![n.tree[2]].root = n.hash]
                          ELSE checkpoints
  BY DEF SaveNode
<1>2. UNCHANGED <<clock, snapshots, cycles, committed, faults, rewrites>>
  BY DEF SaveNode
<1>3. OfRecord(n)
  BY DEF MerkleInv, Recorded
<1>4. /\ Lists'
      /\ Len(checkpoints') = Len(checkpoints)
      /\ \A k \in 1 .. Len(checkpoints) :
           /\ checkpoints'[k].from = checkpoints[k].from
           /\ checkpoints'[k].to = checkpoints[k].to
           /\ \/ checkpoints'[k].root = checkpoints[k].root
              \/ /\ n.tree = <<"checkpoint", k>> /\ unsaved = {n}
                 /\ checkpoints'[k].root = n.hash
  BY <1>1, <1>2, <1>3, StoredRoot DEF MerkleInv
<1>5. Times'
  <2>1. Times /\ Lists
    BY DEF MerkleInv
  <2>2. Len(checkpoints) \in Nat /\ IsList(checkpoints) /\ IsList(checkpoints')
    BY <2>1, <1>4 DEF Lists, IsList
  <2>3. LastTo' = LastTo
    <3>1. /\ LastTo = IF Len(checkpoints) = 0 THEN 0 ELSE checkpoints[Len(checkpoints)].to
          /\ LastTo' = IF Len(checkpoints') = 0 THEN 0 ELSE checkpoints'[Len(checkpoints')].to
      <4>1. LastTo = IF Len(checkpoints) = 0 THEN 0 ELSE checkpoints[Len(checkpoints)].to
        BY <2>2, LastToIs
      <4>2. (checkpoints = << >>)' <=> (Len(checkpoints) = 0)'
        BY <2>2, EmptyIff
      <4>3. LastTo' = IF Len(checkpoints') = 0 THEN 0 ELSE checkpoints'[Len(checkpoints')].to
        BY <4>2 DEF LastTo, Last
      <4> QED BY <4>1, <4>3
    <3> QED BY <3>1, <1>4, <2>2
  <2>4. ASSUME NEW k \in 1 .. Len(checkpoints')
        PROVE  checkpoints'[k].from \in Int /\ checkpoints'[k].to \in Nat /\ checkpoints'[k].to <= LastTo'
    BY <2>1, <2>3, <1>4 DEF Times
  <2> QED BY <2>1, <2>3, <2>4, <1>2 DEF Times
<1>6. Recorded'
  <2>1. ASSUME NEW m \in nodes' \cup unsaved' PROVE OfRecord(m)'
    <3>1. OfRecord(m)
      BY <1>1 DEF MerkleInv, Recorded
    <3> QED BY <3>1, <1>2, <1>4 DEF OfRecord
  <2> QED BY <2>1 DEF Recorded
<1>7. Named' /\ Linked'
  BY <1>2 DEF MerkleInv, Named, Linked
<1>8. ASSUME NEW tree, NEW leaves, NEW of, Kept(tree, leaves, of)
      PROVE  /\ Kept(tree, leaves, of)'
             /\ n.tree = tree =>
                  /\ n \in Rows(tree, leaves, of)
                  /\ unsaved = Rows(tree, leaves, of) \ NodesOf(tree)
                  /\ NodesOf(tree)' = NodesOf(tree) \cup {n}
             /\ n.tree # tree => NodesOf(tree)' = NodesOf(tree)
  BY <1>1, <1>8, KeptSaved
<1>9. CyclesKept'
  <2>1. ASSUME NEW i \in 1 .. Len(cycles') PROVE \E leaves, ids : CycleTree(i, leaves, ids)'
    <3>1. PICK leaves, ids : CycleTree(i, leaves, ids)
      BY <1>2 DEF MerkleInv, CyclesKept
    <3>2. Kept(<<"cycle", i>>, leaves, ids)'
      BY <3>1, <1>8 DEF CycleTree
    <3> QED BY <3>1, <3>2, <1>2, CycleTreeStays
  <2> QED BY <2>1 DEF CyclesKept
<1>10. CheckpointsKept'
  <2>1. ASSUME NEW k \in 1 .. Len(checkpoints')
        PROVE  \E leaves, of : CheckpointTree(k, leaves, of)'
    <3> DEFINE tree == <<"checkpoint", k>>
    <3>1. PICK leaves, of : CheckpointTree(k, leaves, of)
      BY <1>4 DEF MerkleInv, CheckpointsKept
    <3> DEFINE all == Rows(tree, leaves, of)
    <3>2. Kept(tree, leaves, of)
      BY <3>1 DEF CheckpointTree
    <3>3. /\ Kept(tree, leaves, of)'
          /\ n.tree = tree =>
               /\ n \in all
               /\ unsaved = all \ NodesOf(tree)
               /\ NodesOf(tree)' = NodesOf(tree) \cup {n}
          /\ n.tree # tree => NodesOf(tree)' = NodesOf(tree)
      BY <3>2, <1>8
    <3>4. /\ IsList(leaves) /\ Len(leaves) # 0
          /\ \A j \in 1 .. Len(leaves) : of[j] = << >>
          /\ \A i \in 1 .. Len(cycles) :
               cycles[i].at \in checkpoints[k].from .. checkpoints[k].to =>
                 \E j \in 1 .. Len(leaves) : leaves[j] = cycles[i].chained
          /\ checkpoints[k].root # << >> =>
               checkpoints[k].root = Root(leaves) /\ NodesOf(tree) = all
      BY <3>1 DEF CheckpointTree
    <3>5. k \in 1 .. Len(checkpoints)
      BY <1>4
    <3>6. ASSUME checkpoints'[k].root # << >>
          PROVE  checkpoints'[k].root = Root(leaves) /\ NodesOf(tree)' = all
      <4>1. CASE checkpoints'[k].root = checkpoints[k].root
        <5>1. checkpoints[k].root = Root(leaves) /\ NodesOf(tree) = all
          BY <3>4, <3>6, <4>1
        <5>2. NodesOf(tree)' = all
          BY <3>3, <5>1
        <5> QED BY <4>1, <5>1, <5>2
      <4>2. CASE n.tree = tree /\ unsaved = {n} /\ checkpoints'[k].root = n.hash
        <5>1. all \ NodesOf(tree) = {n} /\ SavedInOrder(NodesOf(tree), all)
          BY <3>2, <3>3, <4>2 DEF Kept
        <5>2. NodesOf(tree) \cup {n} = all
          BY <5>1 DEF SavedInOrder
        <5>3. n.hash = Root(leaves)
          <6>1. Len(leaves) \in Nat \ {0} /\ OfLength(leaves, Len(leaves))
            BY <3>4 DEF IsList
          <6> HIDE DEF tree
          <6> QED BY <5>1, <6>1, RootLast
        <5> QED BY <3>3, <4>2, <5>2, <5>3
      <4> QED BY <4>1, <4>2, <1>4, <3>5
    <3>7. \A i \in 1 .. Len(cycles') :
            cycles'[i].at \in checkpoints'[k].from .. checkpoints'[k].to =>
              \E j \in 1 .. Len(leaves) : leaves[j] = cycles'[i].chained
      BY <3>4, <3>5, <1>2, <1>4
    <3>8. CheckpointTree(k, leaves, of)'
      BY <3>3, <3>4, <3>6, <3>7 DEF CheckpointTree
    <3> QED BY <3>8
  <2> QED BY <2>1 DEF CheckpointsKept
<1> QED BY <1>4, <1>5, <1>6, <1>7, <1>9, <1>10 DEF MerkleInv

LEMMA SaveAllIs ==
  ASSUME NEW rows, NEW saved
  PROVE  /\ DOMAIN SaveAll(rows, saved) = DOMAIN saved \cup DOMAIN rows
         /\ \A id \in DOMAIN saved : SaveAll(rows, saved)[id] = saved[id]
         /\ \A id \in DOMAIN rows : id \notin DOMAIN saved => SaveAll(rows, saved)[id] = rows[id]
BY DEF SaveAll

(* The tree of a new commit: nothing of it is saved yet. *)
LEMMA KeptNew ==
  ASSUME NEW tree, NEW leaves, NEW of, nodes' = nodes,
         \A n \in nodes : n.tree # tree,
         unsaved' = Rows(tree, leaves, of)
  PROVE  Kept(tree, leaves, of)' /\ NodesOf(tree)' = {}
<1>1. NodesOf(tree)' = {}
  BY DEF NodesOf
<1>2. SavedInOrder({}, Rows(tree, leaves, of))
  BY DEF SavedInOrder
<1> QED BY <1>1, <1>2 DEF Kept

(* The trees that were there are as they were. *)
LEMMA KeptBefore ==
  ASSUME NEW tree, NEW leaves, NEW of, NEW other, NEW leaves2, NEW of2, nodes' = nodes,
         Kept(tree, leaves, of), tree # other, unsaved' = Rows(other, leaves2, of2)
  PROVE  Kept(tree, leaves, of)' /\ NodesOf(tree)' = NodesOf(tree)
<1>1. NodesOf(tree)' = NodesOf(tree)
  BY DEF NodesOf
<1>2. \A n \in unsaved' : n.tree # tree
  BY TreeOfRow
<1> QED BY <1>1, <1>2, KeptStays

LEMMA CommitCycleInv ==
  ASSUME MerkleInv, CommitCycle
  PROVE  MerkleInv'
<1>1. PICK S \in Batches : \E models \in Sorted(S), summary \in Summaries :
        LET ids    == [i \in DOMAIN models |-> <<models[i], clock>>]
            leaves == [i \in DOMAIN models |-> CanonicalHash(Content(ids[i], summary))]
            saved  == [id \in S \X {clock} |-> Content(id, summary)]
        IN  /\ snapshots' = SaveAll(snapshots, saved)
            /\ committed' = SaveAll(committed, saved)
            /\ cycles' = Append(cycles, CycleRow(Root(leaves)))
            /\ unsaved' = Rows(<<"cycle", Len(cycles) + 1>>, leaves, ids)
  BY DEF CommitCycle
<1>2. PICK models \in Sorted(S), summary \in Summaries :
        LET ids    == [i \in DOMAIN models |-> <<models[i], clock>>]
            leaves == [i \in DOMAIN models |-> CanonicalHash(Content(ids[i], summary))]
            saved  == [id \in S \X {clock} |-> Content(id, summary)]
        IN  /\ snapshots' = SaveAll(snapshots, saved)
            /\ committed' = SaveAll(committed, saved)
            /\ cycles' = Append(cycles, CycleRow(Root(leaves)))
            /\ unsaved' = Rows(<<"cycle", Len(cycles) + 1>>, leaves, ids)
  BY <1>1
<1>2a. PICK new, ids, leaves, saved :
        /\ new = Len(cycles) + 1
        /\ ids = [i \in DOMAIN models |-> <<models[i], clock>>]
        /\ leaves = [i \in DOMAIN models |-> CanonicalHash(Content(ids[i], summary))]
        /\ saved = [id \in S \X {clock} |-> Content(id, summary)]
  OBVIOUS
<1> DEFINE c == Cardinality(S)
           tree == <<"cycle", new>>
<1>3. /\ snapshots' = SaveAll(snapshots, saved)
      /\ committed' = SaveAll(committed, saved)
      /\ cycles' = Append(cycles, CycleRow(Root(leaves)))
      /\ unsaved' = Rows(tree, leaves, ids)
  BY <1>2, <1>2a
<1>4. UNCHANGED <<clock, nodes, checkpoints>> /\ NewCycle
  BY DEF CommitCycle
<1>5. Lists /\ Times /\ Recorded /\ Named /\ Linked
  BY DEF MerkleInv
<1>6. IsList(cycles) /\ Len(cycles) \in Nat
  BY <1>5 DEF Lists, IsList
<1>7. c \in Nat \ {0} /\ models \in [1 .. c -> S]
  <2>1. S # {} /\ IsFiniteSet(S)
    BY MerkleAssumption
  <2>2. c \in Nat \ {0}
    BY <2>1, FS_CardinalityType, FS_EmptySet
  <2> QED BY <2>2 DEF Sorted
<1>8. \A i \in 1 .. Len(cycles) : cycles[i].at \in Nat /\ cycles[i].at < clock
  <2>1. ASSUME NEW i \in 1 .. Len(cycles) PROVE cycles[i].at \in Nat /\ cycles[i].at < clock
    <3>1. cycles # << >> /\ Len(cycles) \in 1 .. Len(cycles) /\ i <= Len(cycles)
      BY <1>6, EmptyIff
    <3>2. Last(cycles).at < clock /\ Last(cycles) = cycles[Len(cycles)]
      BY <3>1, <1>4 DEF NewCycle, Last
    <3>3. /\ cycles[i].at \in Nat /\ cycles[Len(cycles)].at \in Nat /\ clock \in Nat
          /\ cycles[i].at <= cycles[Len(cycles)].at
      BY <3>1, <1>5 DEF Times
    <3> QED BY <3>2, <3>3
  <2> QED BY <2>1
<1>9. LastTo < clock
  BY <1>4 DEF NewCycle
<1>10. /\ ids = [i \in 1 .. c |-> <<models[i], clock>>]
       /\ leaves = [i \in 1 .. c |-> CanonicalHash(Content(ids[i], summary))]
  BY <1>2a, <1>7
<1>11. IsList(leaves) /\ Len(leaves) = c
  <2>1. leaves \in [1 .. c -> {leaves[i] : i \in 1 .. c}]
    BY <1>10
  <2>2. Len(leaves) = c /\ leaves \in Seq({leaves[i] : i \in 1 .. c})
    BY <2>1, <1>7, LengthIs
  <2> QED BY <2>2, SeqIsList
<1>12. ASSUME NEW j \in 1 .. c
       PROVE  /\ ids[j] \in DOMAIN saved
              /\ ids[j][2] = clock
              /\ leaves[j] = CanonicalHash(saved[ids[j]])
  <2>1. ids[j] = <<models[j], clock>> /\ models[j] \in S
    BY <1>7, <1>10
  <2>2. ids[j] \in S \X {clock}
    BY <2>1
  <2>3. saved[ids[j]] = Content(ids[j], summary) /\ ids[j] \in DOMAIN saved
    BY <2>2, <1>2a
  <2>4. leaves[j] = CanonicalHash(Content(ids[j], summary))
    BY <1>10
  <2> QED BY <2>1, <2>3, <2>4
<1>13. DOMAIN saved = S \X {clock} /\ new = Len(cycles) + 1
  BY <1>2a
<1> HIDE DEF c
<1>14. /\ IsList(cycles')
       /\ Len(cycles') = new
       /\ \A i \in 1 .. Len(cycles) : cycles'[i] = cycles[i]
       /\ cycles'[new] = CycleRow(Root(leaves))
  BY <1>3, <1>6, <1>13, AppendIs
<1>15. cycles'[new].at = clock /\ cycles'[new].root = Root(leaves)
  BY <1>14 DEF CycleRow
<1>16. \A i \in 1 .. Len(cycles') : i \in 1 .. Len(cycles) \/ i = new
  BY <1>6, <1>13, <1>14
<1>17. Lists'
  BY <1>4, <1>5, <1>14 DEF Lists
<1>18. Times'
  <2>1. LastTo' = LastTo
    BY <1>4 DEF LastTo
  <2>2. \A i \in 1 .. Len(cycles') : cycles'[i].at \in Nat /\ cycles'[i].at <= clock
    BY <1>5, <1>8, <1>14, <1>15, <1>16 DEF Times
  <2>3. ASSUME NEW i \in 1 .. Len(cycles'), NEW j \in 1 .. Len(cycles'), i <= j
        PROVE  cycles'[i].at <= cycles'[j].at
    <3>1. CASE j = new
      BY <3>1, <2>2, <1>15
    <3>2. CASE j # new
      <4>1. i \in 1 .. Len(cycles) /\ j \in 1 .. Len(cycles)
        BY <3>2, <2>3, <1>6, <1>13, <1>16
      <4> QED BY <4>1, <2>3, <1>5, <1>14 DEF Times
    <3> QED BY <3>1, <3>2
  <2> QED BY <2>1, <2>2, <2>3, <1>4, <1>5 DEF Times
<1>19. Recorded'
  <2>1. ASSUME NEW n \in nodes' \cup unsaved' PROVE OfRecord(n)'
    <3>1. CASE n \in nodes
      <4>1. OfRecord(n)
        BY <3>1, <1>5 DEF Recorded
      <4>2. \A i \in 1 .. Len(cycles) : i \in 1 .. Len(cycles')
        BY <1>6, <1>13, <1>14
      <4> QED BY <4>1, <4>2, <1>4 DEF OfRecord
    <3>2. CASE n \in unsaved'
      <4>1. n.tree = tree
        BY <3>2, <1>3, TreeOfRow
      <4>2. new \in 1 .. Len(cycles')
        BY <1>6, <1>13, <1>14
      <4> QED BY <4>1, <4>2 DEF OfRecord
    <3> QED BY <3>1, <3>2, <1>4
  <2> QED BY <2>1 DEF Recorded
<1>20. Named'
  <2>1. DOMAIN snapshots' = (S \X {clock}) \cup DOMAIN snapshots
    BY <1>3, <1>13, SaveAllIs
  <2>2. \A id \in S \X {clock} : id # << >>
    OBVIOUS
  <2> QED BY <2>1, <2>2, <1>5 DEF Named
<1>21. Linked'
  <2>1. cycles'[new].chained = Chained(cycles'[new].previous, cycles'[new].root)
    BY <1>14 DEF CycleRow
  <2> QED BY <2>1, <1>5, <1>14, <1>16 DEF Linked
<1>22. CyclesKept'
  <2>1. \A n \in nodes : n.tree # tree
    <3>1. SUFFICES ASSUME NEW n \in nodes, n.tree = tree PROVE FALSE
      OBVIOUS
    <3>2. OfRecord(n)
      BY <1>5 DEF Recorded
    <3> QED BY <3>1, <3>2, <1>6, <1>13 DEF OfRecord
  <2>2. CycleTree(new, leaves, ids)'
    <3>1. Kept(tree, leaves, ids)'
      <4> HIDE DEF tree
      <4> QED BY <2>1, <1>3, <1>4, KeptNew
    <3>2. ASSUME NEW j \in 1 .. Len(leaves)
          PROVE  /\ ids[j] \in DOMAIN committed'
                 /\ ids[j][2] = cycles'[new].at
                 /\ leaves[j] = CanonicalHash(committed'[ids[j]])
      <4>1. /\ ids[j] \in DOMAIN saved
            /\ ids[j][2] = clock
            /\ leaves[j] = CanonicalHash(saved[ids[j]])
        BY <1>11, <1>12
      <4>2. ids[j] \in DOMAIN committed' /\ committed'[ids[j]] = saved[ids[j]]
        <5>1. /\ DOMAIN SaveAll(committed, saved) = DOMAIN saved \cup DOMAIN committed
              /\ \A id \in DOMAIN saved : SaveAll(committed, saved)[id] = saved[id]
          BY SaveAllIs, ZenonT(30)
        <5> QED BY <5>1, <4>1, <1>3
      <4> QED BY <4>1, <4>2, <1>15
    <3> QED BY <3>1, <3>2, <1>7, <1>11, <1>15 DEF CycleTree
  <2>3. ASSUME NEW i \in 1 .. Len(cycles) PROVE \E l, d : CycleTree(i, l, d)'
    <3>1. PICK l, d : CycleTree(i, l, d)
      BY DEF MerkleInv, CyclesKept
    <3>2. Kept(<<"cycle", i>>, l, d)'
      <4>1. <<"cycle", i>> # tree
        BY <1>6, <1>13
      <4>2. Kept(<<"cycle", i>>, l, d)
        BY <3>1 DEF CycleTree
      <4> HIDE DEF tree
      <4> QED BY <4>1, <4>2, <1>3, <1>4, KeptBefore
    <3>3. ASSUME NEW id \in DOMAIN committed, id[2] = cycles[i].at
          PROVE  id \in DOMAIN committed' /\ committed'[id] = committed[id]
      <4>1. id \notin DOMAIN saved
        <5>1. \A x \in S \X {clock} : x[2] = clock
          OBVIOUS
        <5>2. id[2] # clock
          BY <3>3, <1>8
        <5> QED BY <5>1, <5>2, <1>13
      <4>2. /\ DOMAIN SaveAll(committed, saved) = DOMAIN saved \cup DOMAIN committed
            /\ \A x \in DOMAIN committed : x \notin DOMAIN saved =>
                 SaveAll(committed, saved)[x] = committed[x]
        BY SaveAllIs
      <4> HIDE DEF tree
      <4> QED BY <4>1, <4>2, <1>3
    <3>4. cycles'[i] = cycles[i]
      BY <1>14
    <3> QED BY <3>1, <3>2, <3>3, <3>4, CycleTreeStays
  <2> QED BY <2>2, <2>3, <1>16 DEF CyclesKept
<1>23. CheckpointsKept'
  <2>1. ASSUME NEW k \in 1 .. Len(checkpoints) PROVE \E l, d : CheckpointTree(k, l, d)'
    <3>1. PICK l, d : CheckpointTree(k, l, d)
      BY DEF MerkleInv, CheckpointsKept
    <3>2. Kept(<<"checkpoint", k>>, l, d)' /\ NodesOf(<<"checkpoint", k>>)' = NodesOf(<<"checkpoint", k>>)
      <4>1. <<"checkpoint", k>> # tree
        OBVIOUS
      <4>2. Kept(<<"checkpoint", k>>, l, d)
        BY <3>1 DEF CheckpointTree
      <4> HIDE DEF tree
      <4> QED BY <4>1, <4>2, <1>3, <1>4, KeptBefore
    <3>3. ASSUME NEW i \in 1 .. Len(cycles'),
                 cycles'[i].at \in checkpoints[k].from .. checkpoints[k].to
          PROVE  i \in 1 .. Len(cycles) /\ cycles'[i] = cycles[i]
      <4>1. i # new
        <5>1. /\ checkpoints[k].to \in Nat /\ checkpoints[k].to <= LastTo /\ LastTo \in Nat
              /\ clock \in Nat
          BY <1>5 DEF Times
        <5>2. ~(clock <= checkpoints[k].to)
          BY <5>1, <1>9
        <5> QED BY <5>1, <5>2, <3>3, <1>15
      <4> QED BY <4>1, <1>14, <1>16
    <3>4. checkpoints'[k] = checkpoints[k]
      BY <1>4
    <3> QED BY <3>1, <3>2, <3>3, <3>4, CheckpointTreeStays
  <2> QED BY <2>1, <1>4 DEF CheckpointsKept
<1> QED BY <1>17, <1>18, <1>19, <1>20, <1>21, <1>22, <1>23 DEF MerkleInv

LEMMA MinIs ==
  ASSUME NEW h \in Nat, NEW S, S # {}, S \subseteq 1 .. h
  PROVE  Min(S) \in S /\ \A x \in S : Min(S) <= x
<1> DEFINE R == {h + 1 - x : x \in S}
<1>1. R # {} /\ R \subseteq 1 .. h
  <2>1. \A x \in S : h + 1 - x \in 1 .. h
    OBVIOUS
  <2> QED BY <2>1
<1>2. Max(R) \in R /\ \A y \in R : y <= Max(R)
  <2> HIDE DEF R
  <2> QED BY <1>1, MaxIs
<1>3. PICK x \in S : Max(R) = h + 1 - x
  BY <1>2
<1>4. ASSUME NEW y \in S PROVE x <= y
  <2>1. h + 1 - y <= h + 1 - x
    BY <1>2, <1>3
  <2>2. x \in Nat /\ y \in Nat
    OBVIOUS
  <2> QED BY <2>1, <2>2
<1> HIDE DEF R
<1>5. \E z \in S : \A y \in S : z <= y
  BY <1>4
<1> QED BY <1>5 DEF Min

(* The cycles of from .. to are a list that is not empty and misses none. *)
Covered(from, to) ==
  /\ IsList(CyclesIn(from, to)) /\ Len(CyclesIn(from, to)) # 0
  /\ \A i \in 1 .. Len(cycles) : cycles[i].at >= from /\ cycles[i].at <= to =>
       \E j \in 1 .. Len(CyclesIn(from, to)) : CyclesIn(from, to)[j] = cycles[i]


(* The cycles of a period are a stretch of the table, with each of them.    *)
LEMMA PeriodIs ==
  ASSUME IsList(cycles), NEW from, NEW to,
         NEW i0 \in 1 .. Len(cycles), cycles[i0].at >= from, cycles[i0].at <= to
  PROVE  Covered(from, to)
<1> DEFINE I == {i \in DOMAIN cycles : cycles[i].at >= from /\ cycles[i].at <= to}
           m == Min(I)
           n == Max(I)
           period == SubSeq(cycles, m, n)
           S == {cycles[i] : i \in 1 .. Len(cycles)}
<1>1. Len(cycles) \in Nat /\ DOMAIN cycles = 1 .. Len(cycles)
  BY ListIs
<1>2. I # {} /\ I \subseteq 1 .. Len(cycles)
  BY <1>1
<1>3. CyclesIn(from, to) = period
  BY <1>2 DEF CyclesIn, Stretch
<1>4. /\ m \in I /\ \A i \in I : m <= i
      /\ n \in I /\ \A i \in I : i <= n
  <2> HIDE DEF I
  <2> QED BY <1>1, <1>2, MinIs, MaxIs
<1> HIDE DEF m, n
<1>5. m \in Int /\ n \in Int /\ m \in 1 .. Len(cycles) /\ n \in 1 .. Len(cycles) /\ m <= n
  <2> HIDE DEF I
  <2> QED BY <1>1, <1>2, <1>4
<1>6. \A i \in m .. n : cycles[i] \in S
  BY <1>1, <1>5
<1> HIDE DEF S
<1>7. /\ period \in Seq(S)
      /\ Len(period) = n - m + 1
      /\ \A j \in 1 .. n - m + 1 : period[j] = cycles[m + j - 1]
  <2>1. /\ SubSeq(cycles, m, n) \in Seq(S)
        /\ Len(SubSeq(cycles, m, n)) = IF m <= n THEN n - m + 1 ELSE 0
        /\ \A j \in 1 .. n - m + 1 : SubSeq(cycles, m, n)[j] = cycles[m + j - 1]
    BY <1>5, <1>6, SubSeqProperties
  <2> QED BY <2>1, <1>5
<1> HIDE DEF period
<1>8. IsList(period) /\ Len(period) # 0
  BY <1>5, <1>7, SeqIsList
<1>9. ASSUME NEW i \in 1 .. Len(cycles), cycles[i].at >= from, cycles[i].at <= to
      PROVE  \E j \in 1 .. Len(period) : period[j] = cycles[i]
  <2>1. i \in I
    BY <1>1, <1>9
  <2>2. m <= i /\ i <= n /\ i \in Int
    <3> HIDE DEF I
    <3> QED BY <2>1, <1>1, <1>4
  <2>3. i - m + 1 \in 1 .. n - m + 1 /\ m + (i - m + 1) - 1 = i
    BY <2>2, <1>5
  <2>4. period[i - m + 1] = cycles[m + (i - m + 1) - 1]
    BY <2>3, <1>7
  <2> QED BY <2>3, <2>4, <1>7
<1> QED BY <1>3, <1>8, <1>9 DEF Covered

LEMMA CommitCheckpointInv ==
  ASSUME MerkleInv, CommitCheckpoint
  PROVE  MerkleInv'
<1>1. PICK new, from, to, period, leaves, of :
        /\ new = Len(checkpoints) + 1 /\ from = PeriodStart /\ to = clock
        /\ period = CyclesIn(PeriodStart, clock)
        /\ leaves = [i \in DOMAIN period |-> period[i].chained]
        /\ of = [i \in DOMAIN leaves |-> << >>]
  OBVIOUS
<1> DEFINE tree == <<"checkpoint", new>>
           row == [from |-> from, to |-> to, root |-> << >>]
<1>2. /\ cycles # << >>
      /\ Last(cycles).at >= PeriodStart
      /\ checkpoints' = Append(checkpoints, row)
      /\ unsaved' = IF leaves = << >> THEN {} ELSE Rows(tree, leaves, of)
      /\ UNCHANGED <<clock, snapshots, cycles, nodes, committed, faults, rewrites>>
  BY <1>1 DEF CommitCheckpoint
<1>3. Lists /\ Times /\ Recorded /\ Named /\ Linked
  BY DEF MerkleInv
<1>4. /\ IsList(cycles) /\ Len(cycles) \in Nat
      /\ IsList(checkpoints) /\ Len(checkpoints) \in Nat
  BY <1>3 DEF Lists, IsList
<1>5. /\ IsList(period) /\ Len(period) # 0
      /\ \A i \in 1 .. Len(cycles) : cycles[i].at >= from /\ cycles[i].at <= to =>
           \E j \in 1 .. Len(period) : period[j] = cycles[i]
  <2>1. Len(cycles) \in 1 .. Len(cycles)
    BY <1>2, <1>4, EmptyIff
  <2>2. cycles[Len(cycles)].at >= from /\ cycles[Len(cycles)].at <= to
    BY <2>1, <1>1, <1>2, <1>3 DEF Last, Times
  <2>3. /\ IsList(CyclesIn(from, to)) /\ Len(CyclesIn(from, to)) # 0
        /\ \A i \in 1 .. Len(cycles) : cycles[i].at >= from /\ cycles[i].at <= to =>
             \E j \in 1 .. Len(CyclesIn(from, to)) : CyclesIn(from, to)[j] = cycles[i]
    <3>1. Covered(from, to)
      <4> HIDE DEF tree, row
      <4> QED BY <2>1, <2>2, <1>4, PeriodIs
    <3> QED BY <3>1 DEF Covered
  <2>4. period = CyclesIn(from, to)
    BY <1>1
  <2> QED BY <2>3, <2>4
<1>6. IsList(leaves) /\ Len(leaves) = Len(period)
  <2>1. Len(period) \in Nat /\ DOMAIN period = 1 .. Len(period)
    BY <1>5, ListIs
  <2>2. leaves \in [1 .. Len(period) -> {leaves[i] : i \in 1 .. Len(period)}]
    BY <2>1, <1>1
  <2>3. Len(leaves) = Len(period) /\ leaves \in Seq({leaves[i] : i \in 1 .. Len(period)})
    BY <2>1, <2>2, LengthIs
  <2> QED BY <2>3, SeqIsList
<1>7. \A j \in 1 .. Len(leaves) : leaves[j] = period[j].chained /\ of[j] = << >>
  BY <1>1, <1>5, <1>6, ListIs
<1>8. unsaved' = Rows(tree, leaves, of)
  <2>1. leaves # << >>
    BY <1>5, <1>6, EmptyIff
  <2> QED BY <2>1, <1>2
<1>9. /\ IsList(checkpoints')
      /\ Len(checkpoints') = new
      /\ \A k \in 1 .. Len(checkpoints) : checkpoints'[k] = checkpoints[k]
      /\ checkpoints'[new] = row
  BY <1>1, <1>2, <1>4, AppendIs
<1>10. \A k \in 1 .. Len(checkpoints') : k \in 1 .. Len(checkpoints) \/ k = new
  BY <1>1, <1>4, <1>9
<1>11. Lists'
  <2>1. ASSUME NEW k \in 1 .. Len(checkpoints')
        PROVE  DOMAIN checkpoints'[k] = {"from", "to", "root"}
    <3>1. DOMAIN row = {"from", "to", "root"}
      OBVIOUS
    <3> HIDE DEF row
    <3> QED BY <3>1, <1>3, <1>9, <1>10 DEF Lists
  <2> QED BY <2>1, <1>2, <1>3, <1>9 DEF Lists
<1>12. LastTo' = clock
  <2>1. checkpoints' # << >>
    BY <1>1, <1>4, <1>9, EmptyList
  <2> QED BY <2>1, <1>1, <1>9 DEF LastTo, Last
<1>13. Times'
  <2>1. /\ clock \in Nat /\ LastTo \in Nat /\ LastTo <= clock
        /\ \A k \in 1 .. Len(checkpoints) :
             checkpoints[k].from \in Int /\ checkpoints[k].to \in Nat /\ checkpoints[k].to <= LastTo
    BY <1>3 DEF Times
  <2>a. from \in Int
    BY <2>1, <1>1, MerkleAssumption DEF PeriodStart
  <2>2. ASSUME NEW k \in 1 .. Len(checkpoints')
        PROVE  checkpoints'[k].from \in Int /\ checkpoints'[k].to \in Nat /\ checkpoints'[k].to <= LastTo'
    BY <2>1, <2>a, <1>1, <1>9, <1>10, <1>12
  <2>3. /\ \A i \in 1 .. Len(cycles') : cycles'[i].at \in Nat /\ cycles'[i].at <= clock'
        /\ \A i, j \in 1 .. Len(cycles') : i <= j => cycles'[i].at <= cycles'[j].at
    BY <1>2, <1>3 DEF Times
  <2> QED BY <2>1, <2>2, <2>3, <1>2, <1>12, SMTT(30) DEF Times
<1>14. Recorded'
  <2>1. ASSUME NEW n \in nodes' \cup unsaved' PROVE OfRecord(n)'
    <3>1. CASE n \in nodes
      <4>1. OfRecord(n)
        BY <3>1, <1>3 DEF Recorded
      <4>2. \A k \in 1 .. Len(checkpoints) : k \in 1 .. Len(checkpoints')
        BY <1>1, <1>4, <1>9
      <4> QED BY <4>1, <4>2, <1>2 DEF OfRecord
    <3>2. CASE n \in unsaved'
      <4>1. n.tree = tree
        BY <3>2, <1>8, TreeOfRow
      <4>2. new \in 1 .. Len(checkpoints')
        BY <1>1, <1>4, <1>9
      <4> QED BY <4>1, <4>2 DEF OfRecord
    <3> QED BY <3>1, <3>2, <1>2
  <2> QED BY <2>1 DEF Recorded
<1>15. Named' /\ Linked'
  BY <1>2, <1>3 DEF Named, Linked
<1>16. CyclesKept'
  <2>1. ASSUME NEW i \in 1 .. Len(cycles') PROVE \E l, d : CycleTree(i, l, d)'
    <3>1. PICK l, d : CycleTree(i, l, d)
      BY <1>2 DEF MerkleInv, CyclesKept
    <3>2. Kept(<<"cycle", i>>, l, d)'
      <4>1. <<"cycle", i>> # tree
        OBVIOUS
      <4>2. Kept(<<"cycle", i>>, l, d)
        BY <3>1 DEF CycleTree
      <4> HIDE DEF tree
      <4> QED BY <4>1, <4>2, <1>2, <1>8, KeptBefore
    <3> QED BY <3>1, <3>2, <1>2, CycleTreeStays
  <2> QED BY <2>1 DEF CyclesKept
<1>17. CheckpointsKept'
  <2>1. \A n \in nodes : n.tree # tree
    <3>1. SUFFICES ASSUME NEW n \in nodes, n.tree = tree PROVE FALSE
      OBVIOUS
    <3>2. OfRecord(n)
      BY <1>3 DEF Recorded
    <3> QED BY <3>1, <3>2, <1>1, <1>4 DEF OfRecord
  <2>2. CheckpointTree(new, leaves, of)'
    <3>1. Kept(tree, leaves, of)'
      <4> HIDE DEF tree
      <4> QED BY <2>1, <1>2, <1>8, KeptNew
    <3>2. ASSUME NEW i \in 1 .. Len(cycles'),
                 cycles'[i].at \in checkpoints'[new].from .. checkpoints'[new].to
          PROVE  \E j \in 1 .. Len(leaves) : leaves[j] = cycles'[i].chained
      <4>1. /\ i \in 1 .. Len(cycles) /\ cycles'[i] = cycles[i]
            /\ cycles[i].at >= from /\ cycles[i].at <= to
        BY <3>2, <1>1, <1>2, <1>3, <1>9 DEF Times
      <4>2. PICK j \in 1 .. Len(period) : period[j] = cycles[i]
        BY <4>1, <1>5
      <4>3. j \in 1 .. Len(leaves) /\ leaves[j] = cycles'[i].chained
        BY <4>1, <4>2, <1>6, <1>7
      <4> QED BY <4>3
    <3>3. checkpoints'[new].root = << >>
      BY <1>9
    <3>4. \A j \in 1 .. Len(leaves) : of[j] = << >>
      BY <1>7
    <3> QED BY <3>1, <3>2, <3>3, <3>4, <1>5, <1>6 DEF CheckpointTree
  <2>3. ASSUME NEW k \in 1 .. Len(checkpoints) PROVE \E l, d : CheckpointTree(k, l, d)'
    <3>1. PICK l, d : CheckpointTree(k, l, d)
      BY DEF MerkleInv, CheckpointsKept
    <3>2. Kept(<<"checkpoint", k>>, l, d)' /\ NodesOf(<<"checkpoint", k>>)' = NodesOf(<<"checkpoint", k>>)
      <4>1. <<"checkpoint", k>> # tree
        BY <1>1, <1>4
      <4>2. Kept(<<"checkpoint", k>>, l, d)
        BY <3>1 DEF CheckpointTree
      <4> HIDE DEF tree
      <4> QED BY <4>1, <4>2, <1>2, <1>8, KeptBefore
    <3> QED BY <3>1, <3>2, <1>2, <1>9, CheckpointTreeStays
  <2> QED BY <2>2, <2>3, <1>10 DEF CheckpointsKept
<1> QED BY <1>11, <1>13, <1>14, <1>15, <1>16, <1>17 DEF MerkleInv

LEMMA NextInv == MerkleInv /\ [Next]_vars => MerkleInv'
<1> SUFFICES ASSUME MerkleInv, [Next]_vars PROVE MerkleInv'
  OBVIOUS
<1>0. clock \in Nat /\ Named
  BY DEF MerkleInv, Times
<1>1. CASE Tick
  BY <1>0, <1>1, QuietInv DEF Tick, Named
<1>2. CASE CommitCycle
  BY <1>2, CommitCycleInv
<1>3. CASE SaveNode
  BY <1>3, SaveNodeInv
<1>4. CASE CommitCheckpoint
  BY <1>4, CommitCheckpointInv
<1>5. CASE CommitFails
  BY <1>0, <1>5, QuietInv DEF CommitFails, Named
<1>6. CASE SaveOutsideCycle
  <2>1. PICK m \in RoundModels, summary \in Summaries :
          snapshots' = SaveAll(snapshots, [id \in {<<m, clock>>} |-> Content(id, summary)])
    BY <1>6 DEF SaveOutsideCycle
  <2>2. DOMAIN snapshots' = {<<m, clock>>} \cup DOMAIN snapshots
    BY <2>1, SaveAllIs
  <2>3. Named'
    BY <2>2, <1>0 DEF Named
  <2> QED BY <2>3, <1>0, <1>6, QuietInv DEF SaveOutsideCycle
<1>7. CASE UNCHANGED vars
  BY <1>0, <1>7, QuietInv DEF vars, Named
<1> QED BY <1>1, <1>2, <1>3, <1>4, <1>5, <1>6, <1>7 DEF Next

LEMMA SpecInv == Spec => []MerkleInv
BY InitInv, NextInv, PTL DEF Spec

LEMMA BindsCycles == MerkleInv => RootsBindCycles
<1> SUFFICES ASSUME MerkleInv,
                    NEW k \in DOMAIN checkpoints, checkpoints[k].root # << >>,
                    NEW i \in DOMAIN cycles,
                    cycles[i].at \in checkpoints[k].from .. checkpoints[k].to
             PROVE  LET c == cycles[i]
                        rows == NodesOf(<<"checkpoint", k>>)
                        leaf == CHOOSE n \in rows : n.level = 1 /\ n.hash = c.chained
                    IN  /\ k \in CheckpointsOf(c)
                        /\ VerifyProof(c.chained, Path(rows, leaf), checkpoints[k].root)
  BY DEF RootsBindCycles, ToSet
<1> DEFINE tree == <<"checkpoint", k>>
           rows == NodesOf(tree)
           hash == cycles[i].chained
           leaf == CHOOSE n \in rows : n.level = 1 /\ n.hash = hash
<1>1. k \in 1 .. Len(checkpoints) /\ i \in 1 .. Len(cycles)
  BY ListIs DEF MerkleInv, Lists
<1>2. PICK leaves, of : CheckpointTree(k, leaves, of)
  BY <1>1 DEF MerkleInv, CheckpointsKept
<1>3. /\ Len(leaves) \in Nat \ {0} /\ OfLength(leaves, Len(leaves))
      /\ checkpoints[k].root = Root(leaves)
      /\ rows = Rows(tree, leaves, of)
      /\ SavedInOrder(rows, Rows(tree, leaves, of))
  BY <1>2 DEF CheckpointTree, IsList, Kept
<1>4. PICK j \in 1 .. Len(leaves) : leaves[j] = hash
  BY <1>1, <1>2 DEF CheckpointTree
<1> HIDE DEF tree, rows, hash
<1> DEFINE n == Len(leaves)
           q == NodeRow(tree, leaves, 1, j, of)
           r == NodeRow(tree, leaves, Height(n), 1, of)
<1>5. Height(n) \in 1 .. n /\ Widths(n)[Height(n)] = 1 /\ Widths(n)[1] = n
  <2>1. 1 \in 1 .. n
    BY <1>3
  <2> QED BY <2>1, <1>3, HeightIs, WidthsAre
<1>6. q \in rows /\ q.level = 1 /\ q.position = j
  <2>1. 1 \in 1 .. Height(n) /\ j \in 1 .. Widths(n)[1]
    BY <1>3, <1>4, <1>5
  <2> QED BY <2>1, <1>3, RowAt
<1>7. q.hash = hash
  <2>1. q.hash = Levels(leaves)[q.level][q.position]
    <3> HIDE DEF q
    <3> QED BY <1>3, <1>6, RowIs
  <2>2. Levels(leaves)[1] = leaves
    BY <1>3, LevelsAre
  <2> HIDE DEF q
  <2> QED BY <2>1, <2>2, <1>4, <1>6
<1>8. r \in rows /\ r.level = Height(n)
  <2>1. Height(n) \in 1 .. Height(n) /\ 1 \in 1 .. Widths(n)[Height(n)]
    BY <1>3, <1>5
  <2> QED BY <2>1, <1>3, RowAt
<1> HIDE DEF q, r
<1>9. leaf \in rows /\ leaf.level = 1 /\ leaf.hash = hash
  BY <1>6, <1>7
<1> HIDE DEF leaf
<1>10. k \in CheckpointsOf(cycles[i])
  <2>1. q \in nodes /\ q.tree = <<"checkpoint", k>>
    BY <1>6 DEF rows, tree, NodesOf
  <2> QED BY <2>1, <1>6, <1>7 DEF CheckpointsOf, hash
<1>11. Folded(hash, Path(rows, leaf)) = Root(leaves)
  <2>1. PICK x \in rows :
          /\ Folded(leaf.hash, Path(rows, leaf)) = x.hash
          /\ (\E m \in rows : m.level = Height(n)) => x.hash = Root(leaves)
    BY <1>3, <1>9, PathLeads
  <2> QED BY <2>1, <1>8, <1>9
<1> QED BY <1>3, <1>10, <1>11 DEF VerifyProof, leaf, rows, tree, hash

THEOREM MerkleSpecRootsBindCycles == Spec => []RootsBindCycles
BY SpecInv, BindsCycles, PTL

(* The leaf found for a snapshot is of the tree of one cycle and has the    *)
(* hash of what was committed.                                              *)
LEMMA LeafIs ==
  ASSUME MerkleInv, NEW id \in DOMAIN snapshots, NEW n \in nodes, n.snapshot = id
  PROVE  \E i \in 1 .. Len(cycles) : \E leaves, ids :
           /\ n.tree = <<"cycle", i>> /\ CycleTree(i, leaves, ids)
           /\ n \in NodesOf(n.tree) /\ n.level = 1
           /\ id \in DOMAIN committed /\ n.hash = CanonicalHash(committed[id])
<1>1. id # << >> /\ OfRecord(n)
  BY DEF MerkleInv, Named, Recorded
<1>2. n \in NodesOf(n.tree)
  BY DEF NodesOf
<1>3. ASSUME NEW k \in 1 .. Len(checkpoints), n.tree = <<"checkpoint", k>> PROVE FALSE
  <2> DEFINE tree == <<"checkpoint", k>>
  <2>1. PICK leaves, of : CheckpointTree(k, leaves, of)
    BY DEF MerkleInv, CheckpointsKept
  <2>2. /\ Len(leaves) \in Nat \ {0} /\ OfLength(leaves, Len(leaves))
        /\ \A j \in 1 .. Len(leaves) : of[j] = << >>
        /\ n \in Rows(tree, leaves, of)
    BY <2>1, <1>2, <1>3 DEF CheckpointTree, IsList, Kept, SavedInOrder
  <2>3. /\ n.snapshot = IF n.level = 1 THEN of[n.position] ELSE << >>
        /\ n.position \in 1 .. Widths(Len(leaves))[n.level]
    <3> HIDE DEF tree
    <3> QED BY <2>2, RowIs
  <2>4. Widths(Len(leaves))[1] = Len(leaves)
    <3>1. 1 \in 1 .. Len(leaves)
      BY <2>2
    <3> QED BY <3>1, <2>2, WidthsAre
  <2> QED BY <2>2, <2>3, <2>4, <1>1
<1>4. ASSUME NEW i \in 1 .. Len(cycles), n.tree = <<"cycle", i>>
      PROVE  \E leaves, ids : /\ CycleTree(i, leaves, ids) /\ n.level = 1
                              /\ id \in DOMAIN committed
                              /\ n.hash = CanonicalHash(committed[id])
  <2> DEFINE tree == <<"cycle", i>>
  <2>1. PICK leaves, ids : CycleTree(i, leaves, ids)
    BY DEF MerkleInv, CyclesKept
  <2>2. /\ Len(leaves) \in Nat \ {0} /\ OfLength(leaves, Len(leaves))
        /\ \A j \in 1 .. Len(leaves) : /\ ids[j] \in DOMAIN committed
                                       /\ leaves[j] = CanonicalHash(committed[ids[j]])
        /\ n \in Rows(tree, leaves, ids)
    BY <2>1, <1>2, <1>4 DEF CycleTree, IsList, Kept, SavedInOrder
  <2>3. /\ n.snapshot = IF n.level = 1 THEN ids[n.position] ELSE << >>
        /\ n.position \in 1 .. Widths(Len(leaves))[n.level]
        /\ n.hash = Levels(leaves)[n.level][n.position]
    <3> HIDE DEF tree
    <3> QED BY <2>2, RowIs
  <2>4. Widths(Len(leaves))[1] = Len(leaves)
    <3>1. 1 \in 1 .. Len(leaves)
      BY <2>2
    <3> QED BY <3>1, <2>2, WidthsAre
  <2>5. Levels(leaves)[1] = leaves
    BY <2>2, LevelsAre
  <2>6. n.level = 1
    BY <2>3, <1>1
  <2>7. n.position \in 1 .. Len(leaves) /\ n.hash = leaves[n.position] /\ ids[n.position] = id
    BY <2>3, <2>4, <2>5, <2>6
  <2>8. id \in DOMAIN committed /\ n.hash = CanonicalHash(committed[id])
    BY <2>2, <2>7
  <2> QED BY <2>1, <2>6, <2>8
<1>5. PICK i \in 1 .. Len(cycles) : n.tree = <<"cycle", i>>
  BY <1>1, <1>3 DEF OfRecord
<1>6. PICK leaves, ids : /\ CycleTree(i, leaves, ids) /\ n.level = 1
                        /\ id \in DOMAIN committed
                        /\ n.hash = CanonicalHash(committed[id])
  BY <1>4, <1>5
<1> QED BY <1>2, <1>5, <1>6

(* Times are kept with their zone, which is what makes a shown content      *)
(* another one.                                                             *)
Zoned(rows) ==
  \A id \in DOMAIN rows : \E model, at, summary :
    rows[id] = [model |-> model, at |-> at, zone |-> TRUE, summary |-> summary]

LEMMA ZonesKept == Init /\ [][Next]_vars => [](Zoned(snapshots) /\ Zoned(committed))
<1> DEFINE Inv == Zoned(snapshots) /\ Zoned(committed)
<1>1. Init => Inv
  BY DEF Init, Zoned
<1>2. ASSUME Inv, [Next]_vars PROVE Inv'
  <2>1. ASSUME NEW rows, Zoned(rows), NEW S, NEW summary
        PROVE  Zoned(SaveAll(rows, [id \in S |-> Content(id, summary)]))
    <3> DEFINE saved == [id \in S |-> Content(id, summary)]
               new == SaveAll(rows, saved)
    <3>1. /\ DOMAIN new = S \cup DOMAIN rows
          /\ \A id \in S : new[id] = Content(id, summary)
          /\ \A id \in DOMAIN rows : id \notin S => new[id] = rows[id]
      BY DEF SaveAll
    <3> HIDE DEF new
    <3>2. ASSUME NEW id \in DOMAIN new
          PROVE  \E model, at, other :
                   new[id] = [model |-> model, at |-> at, zone |-> TRUE, summary |-> other]
      <4>1. CASE id \in S
        <5>1. new[id] = [model |-> id[1], at |-> id[2], zone |-> TRUE, summary |-> summary]
          BY <3>1, <4>1 DEF Content
        <5> QED BY <5>1, Zenon
      <4>2. CASE id \notin S
        <5>1. id \in DOMAIN rows /\ new[id] = rows[id]
          BY <3>1, <3>2, <4>2
        <5> QED BY <2>1, <5>1, Zenon DEF Zoned
      <4> QED BY <4>1, <4>2
    <3> QED BY <3>2 DEF Zoned, new
  <2>2. CASE CommitCycle
    <3>1. PICK S, summary :
            /\ snapshots' = SaveAll(snapshots, [id \in S |-> Content(id, summary)])
            /\ committed' = SaveAll(committed, [id \in S |-> Content(id, summary)])
      BY <2>2 DEF CommitCycle
    <3> QED BY <1>2, <2>1, <3>1
  <2>3. CASE SaveOutsideCycle
    <3>1. PICK S, summary :
            /\ snapshots' = SaveAll(snapshots, [id \in S |-> Content(id, summary)])
            /\ committed' = committed
      BY <2>3 DEF SaveOutsideCycle
    <3> QED BY <1>2, <2>1, <3>1
  <2>4. CASE UNCHANGED <<snapshots, committed>>
    BY <1>2, <2>4 DEF Zoned
  <2> QED
    BY <1>2, <2>2, <2>3, <2>4
       DEF Next, vars, Tick, SaveNode, CommitCheckpoint, CommitFails
<1> QED BY <1>1, <1>2, PTL

LEMMA SeesChange == MerkleInv /\ Zoned(snapshots) /\ Zoned(committed) => ChangeIsSeen
<1> SUFFICES ASSUME MerkleInv, Zoned(snapshots), Zoned(committed), NEW id \in DOMAIN snapshots, HasProof(id), OnPage(id)
             PROVE  /\ Checks(id, InZone(StripTz(snapshots[id])))
                         <=> RootSaved(id) /\ snapshots[id] = committed[id]
                    /\ ~Passes(id)
  BY DEF ChangeIsSeen
<1> DEFINE n == LeafOf(id)
           rows == NodesOf(n.tree)
           hash == CanonicalHash(snapshots[id])
<1>1. n \in nodes /\ n.snapshot = id
  BY DEF HasProof, LeavesOf, LeafOf
<1>2a. PICK i \in 1 .. Len(cycles) : \E leaves, ids :
        /\ n.tree = <<"cycle", i>> /\ CycleTree(i, leaves, ids)
        /\ n \in NodesOf(n.tree) /\ n.level = 1
        /\ id \in DOMAIN committed /\ n.hash = CanonicalHash(committed[id])
  <2> HIDE DEF n
  <2> QED BY <1>1, LeafIs
<1>2. PICK leaves, ids :
        /\ n.tree = <<"cycle", i>> /\ CycleTree(i, leaves, ids)
        /\ n \in NodesOf(n.tree) /\ n.level = 1
        /\ id \in DOMAIN committed /\ n.hash = CanonicalHash(committed[id])
  BY <1>2a
<1>3. CycleOf(id) = cycles[i] /\ ProofOf(id) = Path(rows, n)
  BY <1>2 DEF CycleOf, ProofOf
<1>4. /\ Len(leaves) \in Nat \ {0} /\ OfLength(leaves, Len(leaves))
      /\ \A j \in 1 .. Len(leaves) : leaves[j] = CanonicalHash(committed[ids[j]])
      /\ cycles[i].root = Root(leaves)
      /\ SavedInOrder(rows, Rows(<<"cycle", i>>, leaves, ids))
  BY <1>2 DEF CycleTree, IsList, Kept
<1> HIDE DEF n, rows
<1>5. n \in rows
  BY <1>2 DEF rows
<1>6. PICK x \in rows :
        /\ Folded(n.hash, Path(rows, n)) = x.hash
        /\ (\E m \in rows : m.level = Height(Len(leaves))) => x.hash = Root(leaves)
  BY <1>2, <1>4, <1>5, PathLeads
<1>7. RootSaved(id) <=> \E m \in rows : m.hash = Root(leaves)
  BY <1>3, <1>4 DEF RootSaved, rows, n
<1>8. hash = n.hash <=> snapshots[id] = committed[id]
  <2>1. \A a, b : <<a>> = <<b>> <=> a = b
    OBVIOUS
  <2> QED BY <2>1, <1>2 DEF CanonicalHash
<1>9. cycles[i].chained = Chained(cycles[i].previous, cycles[i].root)
  BY DEF MerkleInv, Linked
<1> HIDE DEF hash
<1>a. /\ InZone(StripTz(snapshots[id])) = snapshots[id]
      /\ StripTz(snapshots[id]) # committed[id]
  <2>1. PICK m, t, v : snapshots[id] = [model |-> m, at |-> t, zone |-> TRUE, summary |-> v]
    BY DEF Zoned
  <2>2. PICK n1, t1, v1 :
          committed[id] = [model |-> n1, at |-> t1, zone |-> TRUE, summary |-> v1]
    BY <1>2 DEF Zoned
  <2>3. StripTz(snapshots[id]).zone = FALSE
    BY <2>1 DEF StripTz
  <2>4. committed[id].zone = TRUE
    BY <2>2
  <2>5. InZone(StripTz(snapshots[id])) = snapshots[id]
    <3>1. /\ snapshots[id] \in [model : {m}, at : {t}, zone : BOOLEAN, summary : {v}]
          /\ snapshots[id].zone = TRUE
      BY <2>1
    <3> QED BY <3>1 DEF StripTz, InZone
  <2> QED BY <2>3, <2>4, <2>5
<1>10. Checks(id, InZone(StripTz(snapshots[id]))) <=>
         /\ hash = n.hash
         /\ Folded(hash, Path(rows, n)) = Root(leaves)
  BY <1>3, <1>4, <1>9, <1>a DEF Checks, VerifyProof, hash, n
<1>11. ASSUME hash = n.hash, Folded(hash, Path(rows, n)) = Root(leaves)
       PROVE  \E m \in rows : m.hash = Root(leaves)
  BY <1>6, <1>11
<1>12. ASSUME hash = n.hash, NEW m \in rows, m.hash = Root(leaves)
       PROVE  Folded(hash, Path(rows, n)) = Root(leaves)
  <2>1. m \in Rows(<<"cycle", i>>, leaves, ids)
    BY <1>4 DEF SavedInOrder
  <2>2. \A j \in 1 .. Len(leaves) : \E content : leaves[j] = <<content>>
    BY <1>4 DEF CanonicalHash
  <2>3. m.level = Height(Len(leaves))
    BY <2>1, <2>2, <1>4, <1>12, RootIsOnce
  <2> QED BY <2>3, <1>6, <1>12
<1>13. ~Passes(id)
  <2>1. CanonicalHash(StripTz(snapshots[id])) # CanonicalHash(committed[id])
    BY <1>a DEF CanonicalHash
  <2> QED BY <2>1, <1>2 DEF Passes, Checks, n
<1> QED BY <1>7, <1>8, <1>10, <1>11, <1>12, <1>13

THEOREM MerkleSpecChangeIsSeen == Spec => []ChangeIsSeen
BY SpecInv, ZonesKept, SeesChange, PTL DEF Spec

-----------------------------------------------------------------------------
(* backtest.py: the records of a replay, in order *)
(* The elements of a finite set in their order are all of them, once each.   *)
LEMMA InOrderIs ==
  ASSUME NEW S \in SUBSET Int, IsFiniteSet(S), NEW s, s = InOrder(S)
  PROVE  /\ Cardinality(S) \in Nat
         /\ s \in [1 .. Cardinality(S) -> S]
         /\ \A i, j \in 1 .. Cardinality(S) : i < j => s[i] < s[j]
         /\ \A t \in S : \E i \in 1 .. Cardinality(S) : s[i] = t
<1> DEFINE n == Cardinality(S)
           Below(t) == {u \in S : u <= t}
           r == [t \in S |-> Cardinality(Below(t))]
<1>1. n \in Nat /\ IsFiniteSet(1 .. n) /\ Cardinality(1 .. n) = n
  <2>1. n \in Nat
    BY FS_CardinalityType
  <2> HIDE DEF n
  <2> QED BY <2>1, FS_Interval
<1>2. \A t \in S : /\ IsFiniteSet(Below(t)) /\ Cardinality(Below(t)) \in 1 .. n
                   /\ r[t] = Cardinality(Below(t))
  <2> TAKE t \in S
  <2>1. Below(t) \in SUBSET S /\ t \in Below(t)
    OBVIOUS
  <2>2. IsFiniteSet(Below(t)) /\ Cardinality(Below(t)) <= n
    BY <2>1, FS_Subset
  <2>3. Cardinality(Below(t)) \in Nat /\ Cardinality(Below(t)) # 0
    BY <2>1, <2>2, FS_CardinalityType, FS_EmptySet
  <2>4. r[t] = Cardinality(Below(t))
    OBVIOUS
  <2> DEFINE c == Cardinality(Below(t))
  <2>5. c \in 1 .. n
    <3> HIDE DEF c, n
    <3>1. c \in Nat /\ c # 0 /\ c <= n /\ n \in Nat
      BY <1>1, <2>2, <2>3 DEF c
    <3> QED BY <3>1
  <2> QED BY <2>2, <2>4, <2>5
<1>3. ASSUME NEW t \in S, NEW v \in S, t < v PROVE r[t] < r[v]
  <2>1. Below(t) \in SUBSET Below(v) /\ v \in Below(v) /\ v \notin Below(t)
    <3>1. t \in Int /\ v \in Int /\ \A u \in S : u \in Int
      OBVIOUS
    <3>2. \A u \in S : (u <= t => u <= v) /\ v <= v /\ ~(v <= t)
      BY <1>3, <3>1
    <3> QED BY <3>2
  <2>2. /\ Cardinality(Below(t)) <= Cardinality(Below(v))
        /\ Cardinality(Below(v)) # Cardinality(Below(t))
    <3>1. IsFiniteSet(Below(v))
      BY <1>2
    <3> HIDE DEF Below
    <3> QED BY <2>1, <3>1, FS_Subset
  <2>3. /\ r[t] = Cardinality(Below(t)) /\ r[v] = Cardinality(Below(v))
        /\ Cardinality(Below(t)) \in Int /\ Cardinality(Below(v)) \in Int
    BY <1>2
  <2> HIDE DEF Below, r
  <2> QED BY <2>2, <2>3
<1>4. r \in [S -> 1 .. n]
  BY <1>2
<1> HIDE DEF r, Below
<1>5. r \in Injection(S, 1 .. n)
  <2>1. ASSUME NEW t \in S, NEW v \in S, r[t] = r[v] PROVE t = v
    <3>1. t \in Int /\ v \in Int /\ r[t] \in Int /\ r[v] \in Int
      BY <1>4
    <3>2. ~(t < v) /\ ~(v < t)
      BY <1>3, <2>1, <3>1
    <3> QED BY <3>1, <3>2
  <2> QED BY <1>4, <2>1 DEF Injection, IsInjective
<1>6. \A k \in 1 .. n : \E t \in S : r[t] = k
  <2> DEFINE T == 1 .. n
  <2>1. r \in Surjection(S, T)
    <3>1. r \in Injection(S, T) /\ IsFiniteSet(T) /\ Cardinality(S) = Cardinality(T)
      BY <1>1, <1>5
    <3> HIDE DEF T
    <3> QED BY <3>1, FS_Injection
  <2> QED BY <2>1 DEF Surjection
<1>7. ASSUME NEW k \in 1 .. n PROVE s[k] \in S /\ r[s[k]] = k
  <2>1. s[k] = CHOOSE t \in S : Cardinality(Below(t)) = k
    BY DEF InOrder, Below
  <2>2. \E t \in S : Cardinality(Below(t)) = k
    <3>1. PICK t \in S : r[t] = k
      BY <1>6
    <3> QED BY <3>1, <1>2
  <2>3. s[k] \in S /\ Cardinality(Below(s[k])) = k
    BY <2>1, <2>2
  <2> QED BY <2>3, <1>2
<1>8. s \in [1 .. n -> S]
  <2>1. s = [k \in 1 .. n |-> CHOOSE t \in S : Cardinality({u \in S : u <= t}) = k]
    BY DEF InOrder
  <2>2. DOMAIN s = 1 .. n /\ s = [k \in DOMAIN s |-> s[k]]
    BY <2>1, Zenon
  <2> QED BY <2>2, <1>7
<1>9. ASSUME NEW i \in 1 .. n, NEW j \in 1 .. n, i < j PROVE s[i] < s[j]
  <2>1. s[i] \in S /\ s[j] \in S /\ s[i] \in Int /\ s[j] \in Int
        /\ r[s[i]] = i /\ r[s[j]] = j
    BY <1>7
  <2>2. ~(s[j] < s[i]) /\ s[i] # s[j]
    BY <1>3, <1>9, <2>1
  <2> QED BY <2>1, <2>2
<1>10. ASSUME NEW t \in S PROVE \E i \in 1 .. n : s[i] = t
  <2>1. r[t] \in 1 .. n
    BY <1>4
  <2>2. s[r[t]] \in S /\ r[s[r[t]]] = r[t]
    BY <1>7, <2>1
  <2>3. s[r[t]] = t
    BY <1>5, <2>2 DEF Injection, IsInjective
  <2> QED BY <2>1, <2>3
<1> QED BY <1>1, <1>8, <1>9, <1>10

-----------------------------------------------------------------------------
(* The positions a replay predicts at, what the model sees there, and what  *)
(* the prediction is scored against *)
(* The last position predicted at, from the one before. *)
LastAt(data, i, last) ==
  IF i <= WindowSize THEN 0
  ELSE IF last = 0 \/ data[i] - data[last] >= StepSeconds THEN i ELSE last

(* The loop's variable, at each position. *)
LEMMA LastPredictedIs ==
  ASSUME NEW n \in Nat, NEW data, DOMAIN data = 1 .. n, Len(data) = n
  PROVE  LET last == LastPredicted(data)
         IN  \A i \in 1 .. n : /\ last[i] \in 0 .. i
                               /\ i = 1 => last[i] = 0
                               /\ i > 1 => last[i] = LastAt(data, i, last[i - 1])
<1> DEFINE Eq(h) == h = [i \in 1 .. n |->
                          IF i <= WindowSize THEN 0
                          ELSE LET last == h[i - 1]
                               IN  IF last = 0 \/ data[i] - data[last] >= StepSeconds
                                   THEN i ELSE last]
           s == CHOOSE h : Eq(h)
           V == 0 .. n
           F == [k \in 1 .. n |-> [v \in V |-> LastAt(data, k, v)]]
<1>1. WindowSize \in Nat \ {0}
  BY BacktestAssumption
<1>2. \A k \in 1 .. n, v \in V : F[k][v] = LastAt(data, k, v) /\ LastAt(data, k, v) \in V
  BY DEF LastAt
<1>3. PICK g : Runs(g, n, V, 0, F)
  <2>1. Steps(n, V, F)
    BY <1>2, Zenon DEF Steps
  <2>2. 0 \in V
    OBVIOUS
  <2> HIDE DEF V, F
  <2> QED BY <2>1, <2>2, Iterate
<1>4. g \in [1 .. n -> V] /\ \A k \in 1 .. n : g[k] = IF k = 1 THEN 0 ELSE LastAt(data, k, g[k - 1])
  <2>1. g \in [1 .. n -> V]
    BY <1>3 DEF Runs
  <2>2. ASSUME NEW k \in 1 .. n PROVE g[k] = IF k = 1 THEN 0 ELSE LastAt(data, k, g[k - 1])
    <3>1. CASE k = 1
      BY <1>3, <3>1 DEF Runs
    <3>2. CASE k # 1
      <4>1. k \in 2 .. n /\ k - 1 \in 1 .. n
        BY <3>2
      <4>2. g[k] = F[k][g[k - 1]] /\ g[k - 1] \in V
        BY <1>3, <2>1, <4>1 DEF Runs
      <4> HIDE DEF F, V
      <4> QED BY <1>2, <3>2, <4>2
    <3> QED BY <3>1, <3>2
  <2> QED BY <2>1, <2>2
<1> HIDE DEF F, V
<1>5. Eq(g)
  <2>1. ASSUME NEW i \in 1 .. n
        PROVE  g[i] = IF i <= WindowSize THEN 0
                      ELSE IF g[i - 1] = 0 \/ data[i] - data[g[i - 1]] >= StepSeconds
                           THEN i ELSE g[i - 1]
    BY <1>1, <1>4 DEF LastAt
  <2>2. g = [i \in 1 .. n |-> g[i]]
    BY <1>4
  <2> QED BY <2>1, <2>2
<1>6. Eq(s)
  <2> HIDE DEF Eq
  <2> QED BY <1>5
<1>7. LastPredicted(data) = s
  BY Zenon DEF LastPredicted
<1>8. \A i \in 1 .. n : /\ i = 1 => s[i] = 0
                        /\ i > 1 => s[i] = LastAt(data, i, s[i - 1])
  <2>1. \A i \in 1 .. n : s[i] = LastAt(data, i, s[i - 1])
    <3> HIDE DEF s
    <3> QED BY <1>6 DEF LastAt
  <2>2. \A i \in 1 .. n : i = 1 => LastAt(data, i, s[i - 1]) = 0
    BY <1>1 DEF LastAt
  <2> HIDE DEF s
  <2> QED BY <2>1, <2>2
<1> HIDE DEF s, Eq
<1> DEFINE T == {k \in Nat : k \in 1 .. n => s[k] \in 0 .. k}
<1>9. 0 \in T
  OBVIOUS
<1>10. ASSUME NEW k \in T PROVE k + 1 \in T
  <2> SUFFICES ASSUME k + 1 \in 1 .. n PROVE s[k + 1] \in 0 .. k + 1
    OBVIOUS
  <2>1. k \in Nat /\ (k = 0 \/ (k \in 1 .. n /\ s[k] \in 0 .. k)) /\ (k + 1) - 1 = k
    OBVIOUS
  <2>2. s[k + 1] = 0 \/ (k # 0 /\ s[k + 1] = LastAt(data, k + 1, s[k]))
    BY <1>8, <2>1
  <2>3. s[k + 1] \in {0, k + 1} \/ (k # 0 /\ s[k + 1] = s[k])
    BY <2>2 DEF LastAt
  <2> HIDE DEF T
  <2> QED BY <2>1, <2>3
<1>11. \A i \in 1 .. n : s[i] \in 0 .. i
  <2>1. T \in SUBSET Nat
    OBVIOUS
  <2>2. \A i \in Nat : i \in T
    <3> HIDE DEF T
    <3> QED BY <1>9, <1>10, <2>1, Induct
  <2> QED BY <2>2
<1> QED BY <1>7, <1>8, <1>11

(* A set of numbers that is not empty has a least one. *)
LEMMA Least ==
  ASSUME NEW S \in SUBSET Nat, NEW j \in S
  PROVE  \E m \in S : \A k \in S : m <= k
<1>1. PICK m \in S : \A k \in S : <<k, m>> \notin OpToRel(<, Nat)
  BY WFMin, NatLessThanWellFounded, Zenon
<1>2. \A k \in S : ~(k < m)
  BY <1>1, Zenon DEF OpToRel
<1>3. m \in Nat /\ \A k \in S : k \in Nat
  OBVIOUS
<1>4. \A k \in S : m <= k
  BY <1>2, <1>3
<1> QED BY <1>4

(* n numbers, each above those before it. *)
Rises(n, data) ==
  /\ data \in [1 .. n -> Int]
  /\ \A i, j \in 1 .. n : i < j => data[i] < data[j]

(* Positions predicted at are past the first window, an interval apart. *)
LEMMA PredictedIs ==
  ASSUME NEW n \in Nat, NEW data, Rises(n, data)
  PROVE  /\ Predicted(data) \subseteq 1 .. n
         /\ \A i \in Predicted(data) : i > WindowSize
         /\ \A i, j \in Predicted(data) : i < j => data[j] - data[i] >= StepSeconds
<1> DEFINE L == LastPredicted(data)
<1>1. WindowSize \in Nat \ {0} /\ StepSeconds \in Nat
  BY BacktestAssumption
<1>2. DOMAIN data = 1 .. n /\ Len(data) = n /\ data \in [1 .. n -> Int]
  BY LengthIs DEF Rises
<1>3. \A i \in 1 .. n : /\ L[i] \in 0 .. i
                        /\ i = 1 => L[i] = 0
                        /\ i > 1 => L[i] = LastAt(data, i, L[i - 1])
  BY <1>2, LastPredictedIs
<1>4. Predicted(data) = {i \in 1 .. n : L[i] = i}
  BY <1>2 DEF Predicted
<1> HIDE DEF L
<1>5. ASSUME NEW i \in 1 .. n, L[i] = i
      PROVE  i > 1 /\ i > WindowSize
  <2>1. i > 1 /\ L[i] = LastAt(data, i, L[i - 1])
    BY <1>3, <1>5
  <2> QED BY <1>1, <1>5, <2>1 DEF LastAt
<1>6. ASSUME NEW i \in 1 .. n, L[i] = i
      PROVE  \A k \in 1 .. n : k >= i => L[k] >= i
  <2> DEFINE T == {k \in Nat : k \in i .. n => L[k] >= i}
  <2>1. 0 \in T
    OBVIOUS
  <2>2. ASSUME NEW k \in T PROVE k + 1 \in T
    <3> SUFFICES ASSUME k + 1 \in i .. n PROVE L[k + 1] >= i
      OBVIOUS
    <3>1. CASE k + 1 = i
      BY <1>6, <3>1
    <3>2. CASE k + 1 > i
      <4>1. k \in Nat /\ k \in i .. n /\ L[k] >= i /\ k + 1 \in 1 .. n /\ k + 1 > 1 /\ (k + 1) - 1 = k
        BY <3>2
      <4>2. L[k + 1] = LastAt(data, k + 1, L[k])
        BY <1>3, <4>1
      <4>3. i > WindowSize
        BY <1>5, <1>6
      <4>4. L[k + 1] \in {k + 1, L[k]}
        BY <1>1, <4>1, <4>2, <4>3 DEF LastAt
      <4> HIDE DEF T
      <4> QED BY <4>1, <4>4
    <3> QED BY <3>1, <3>2
  <2>3. \A k \in Nat : k \in T
    <3>1. T \in SUBSET Nat
      OBVIOUS
    <3> HIDE DEF T
    <3> QED BY <2>1, <2>2, <3>1, Induct
  <2> QED BY <2>3
<1>7. ASSUME NEW i \in 1 .. n, NEW j \in 1 .. n, L[i] = i, L[j] = j, i < j
      PROVE  data[j] - data[i] >= StepSeconds
  <2>1. j > 1 /\ j > WindowSize /\ j - 1 \in 1 .. n /\ j - 1 >= i
    BY <1>5, <1>7
  <2>2. L[j] = LastAt(data, j, L[j - 1]) /\ L[j - 1] \in 0 .. j - 1
    BY <1>3, <2>1
  <2>3. L[j - 1] >= i
    BY <1>6, <1>7, <2>1
  <2> DEFINE l == L[j - 1]
  <2>4. l \in 1 .. n /\ l < j /\ l >= i
    BY <2>2, <2>3
  <2>5. data[j] - data[l] >= StepSeconds
    BY <1>1, <1>7, <2>1, <2>2, <2>4 DEF LastAt
  <2> HIDE DEF l
  <2>6. data[l] >= data[i] /\ data[l] \in Int /\ data[i] \in Int /\ data[j] \in Int
    BY <2>4, <1>2 DEF Rises
  <2> QED BY <1>1, <2>5, <2>6
<1> QED BY <1>4, <1>5, <1>7

(* What the model is shown: the last records up to the position. *)
LEMMA WindowIs ==
  ASSUME NEW n \in Nat, NEW data, Rises(n, data), NEW i \in 1 .. n, i > WindowSize,
         NEW w, w = ToSet(Window(data, i))
  PROVE  /\ \A t \in w : \E j \in 1 .. n : t = data[j] /\ t <= data[i]
         /\ Cardinality(w) = WindowSize
         /\ \A j \in 1 .. n : data[j] <= data[i] /\ data[j] > Min(w) => data[j] \in w
<1> DEFINE a == i - WindowSize + 1
           s == Window(data, i)
<1>1. WindowSize \in Nat \ {0}
  BY BacktestAssumption
<1>2. data \in [1 .. n -> Int] /\ \A j, k \in 1 .. n : j < k => data[j] < data[k]
  BY DEF Rises
<1>3. a \in 1 .. i /\ i \in Int /\ i - a + 1 = WindowSize /\ \A j \in a .. i : j \in 1 .. n /\ data[j] \in Int
  BY <1>1, <1>2
<1>4. /\ s \in Seq(Int) /\ Len(s) = WindowSize
      /\ \A k \in 1 .. WindowSize : s[k] = data[a + k - 1]
  <2>1. s = SubSeq(data, a, i)
    BY DEF Window
  <2> HIDE DEF a, s
  <2>2. a \in Int /\ a <= i /\ \A j \in a .. i : data[j] \in Int
    BY <1>3
  <2>3. /\ SubSeq(data, a, i) \in Seq(Int)
        /\ Len(SubSeq(data, a, i)) = IF a <= i THEN i - a + 1 ELSE 0
        /\ \A k \in 1 .. i - a + 1 : SubSeq(data, a, i)[k] = data[a + k - 1]
    BY <1>3, <2>2, SubSeqProperties
  <2> QED BY <1>3, <2>1, <2>2, <2>3
<1>5. DOMAIN s = 1 .. WindowSize
  BY <1>4
<1>6. w = {s[k] : k \in 1 .. WindowSize}
  BY <1>5 DEF ToSet
<1> HIDE DEF s
<1>7. \A j \in a .. i : data[j] \in w
  <2> TAKE j \in a .. i
  <2>1. j - a + 1 \in 1 .. WindowSize /\ a + (j - a + 1) - 1 = j
    BY <1>1, <1>3
  <2>2. s[j - a + 1] = data[j]
    BY <1>4, <2>1
  <2> QED BY <1>6, <2>1, <2>2
<1>8. ASSUME NEW t \in w PROVE \E j \in a .. i : t = data[j]
  <2>1. PICK k \in 1 .. WindowSize : t = s[k]
    BY <1>6
  <2>2. a + k - 1 \in a .. i
    BY <1>1, <1>3
  <2> QED BY <1>4, <2>1, <2>2
<1>9. Cardinality(w) = WindowSize
  <2>1. s \in [1 .. WindowSize -> w]
    BY <1>4, <1>5, <1>6
  <2>2. ASSUME NEW k \in 1 .. WindowSize, NEW l \in 1 .. WindowSize, s[k] = s[l] PROVE k = l
    <3>1. a + k - 1 \in 1 .. n /\ a + l - 1 \in 1 .. n
      BY <1>1, <1>3
    <3>2. data[a + k - 1] = data[a + l - 1]
      BY <1>4, <2>2
    <3>3. data[a + k - 1] \in Int /\ data[a + l - 1] \in Int
      BY <1>2, <3>1
    <3>4. ~(a + k - 1 < a + l - 1) /\ ~(a + l - 1 < a + k - 1)
      BY <1>2, <3>1, <3>2, <3>3
    <3> QED BY <1>3, <3>4
  <2> DEFINE I == 1 .. WindowSize
  <2>3. s \in Bijection(I, w)
    <3>1. s \in Injection(I, w)
      BY <2>1, <2>2 DEF Injection, IsInjective
    <3>2. s \in Surjection(I, w)
      BY <2>1, <1>6 DEF Surjection
    <3> QED BY <3>1, <3>2 DEF Bijection
  <2>4. IsFiniteSet(I) /\ Cardinality(I) = WindowSize
    BY <1>1, FS_Interval
  <2> HIDE DEF I
  <2> QED BY <2>3, <2>4, FS_Bijection DEF ExistsBijection
<1>10. Min(w) = data[a]
  <2>1. data[a] \in w /\ data[a] \in Int
    BY <1>3, <1>7
  <2>2. \A t \in w : data[a] <= t /\ t \in Int
    <3> TAKE t \in w
    <3>1. PICK j \in a .. i : t = data[j]
      BY <1>8
    <3>2. a \in 1 .. n /\ j \in 1 .. n /\ (a = j \/ a < j)
      BY <1>3
    <3> QED BY <1>2, <3>1, <3>2
  <2>3. Min(w) \in w /\ \A t \in w : Min(w) <= t
    BY <2>1, <2>2 DEF Min
  <2>4. Min(w) <= data[a] /\ data[a] <= Min(w) /\ Min(w) \in Int
    BY <2>1, <2>2, <2>3
  <2> QED BY <2>1, <2>4
<1>11. ASSUME NEW t \in w PROVE \E j \in 1 .. n : t = data[j] /\ t <= data[i]
  <2>1. PICK j \in a .. i : t = data[j]
    BY <1>8
  <2>2. j \in 1 .. n /\ (j = i \/ j < i)
    BY <1>3
  <2>3. data[j] <= data[i]
    BY <1>2, <2>2
  <2> QED BY <2>1, <2>2, <2>3
<1>12. ASSUME NEW j \in 1 .. n, data[j] <= data[i], data[j] > Min(w) PROVE data[j] \in w
  <2>1. a \in 1 .. n /\ data[j] \in Int /\ data[i] \in Int /\ data[a] \in Int
    BY <1>2, <1>3
  <2>2. ~(i < j) /\ ~(j < a)
    BY <1>2, <1>10, <1>12, <2>1
  <2>3. j \in a .. i
    BY <1>3, <2>2
  <2> QED BY <1>7, <2>3
<1> QED BY <1>9, <1>11, <1>12

(* Nothing between the horizon and the actual. *)
LEMMA ActualIs ==
  ASSUME NEW n \in Nat, NEW data, Rises(n, data), NEW i \in 1 .. n,
         NEW j \in 1 .. n, data[j] >= data[i] + Horizon
  PROVE  _find_actual(data, i) \in (data[i] + Horizon) .. data[j]
<1> DEFINE later == {k \in i .. n : data[k] >= data[i] + Horizon}
<1>1. Horizon \in Nat
  BY BacktestAssumption
<1>2. /\ data \in [1 .. n -> Int] /\ \A k, l \in 1 .. n : k < l => data[k] < data[l]
      /\ Len(data) = n
  BY LengthIs DEF Rises
<1>3. j \in later
  <2>1. data[j] \in Int /\ data[i] \in Int /\ ~(data[j] < data[i])
    BY <1>1, <1>2
  <2>2. ~(j < i)
    BY <1>2, <2>1
  <2> QED BY <2>2
<1>4. later \in SUBSET Nat
  OBVIOUS
<1>5. Min(later) \in later /\ \A k \in later : Min(later) <= k
  <2>1. \E m \in later : \A k \in later : m <= k
    <3> HIDE DEF later
    <3> QED BY <1>3, <1>4, Least
  <2> HIDE DEF later
  <2> QED BY <2>1 DEF Min
<1>6. _find_actual(data, i) = data[Min(later)]
  BY <1>2, <1>3 DEF _find_actual
<1>7. data[Min(later)] >= data[i] + Horizon /\ Min(later) \in 1 .. n /\ Min(later) <= j
  BY <1>3, <1>5
<1> HIDE DEF later
<1>8. data[Min(later)] <= data[j] /\ data[Min(later)] \in Int /\ data[j] \in Int /\ data[i] \in Int
  BY <1>2, <1>7
<1> QED BY <1>1, <1>6, <1>7, <1>8

-----------------------------------------------------------------------------
(* A replay of a finite set of records *)
(* What a replay promises, of what it returns. *)
PredictionSound(p, k, d) ==
  /\ ToSet(p[k].window) \subseteq {t \in d : t <= p[k].ts}
  /\ Cardinality(ToSet(p[k].window)) = WindowSize
  /\ \A t \in d : t <= p[k].ts /\ t > Min(ToSet(p[k].window)) => t \in ToSet(p[k].window)
  /\ \A j \in DOMAIN p : j < k => p[k].ts - p[j].ts >= StepSeconds
  /\ \A t \in d : t >= p[k].ts + Horizon => p[k].actual \in (p[k].ts + Horizon)..t

MetricsNest(metrics) == \A g, h \in Hours : g <= h => metrics[g][2] <= metrics[h][2]

(* A longer window scores at least the predictions of a shorter one. *)
LEMMA MetricsAre ==
  ASSUME NEW m \in Nat, NEW p, DOMAIN p = 1 .. m, \A k \in 1 .. m : p[k].ts \in Int
  PROVE  MetricsNest(_compute_metrics(p))
<1> DEFINE now == p[Max(Scored(p))].ts
           In(h) == {i \in Scored(p) : p[i].ts >= now - h}
           M == _compute_metrics(p)
<1>1. /\ Hours \subseteq Nat /\ Scored(p) \subseteq 1 .. m /\ IsFiniteSet(Scored(p))
      /\ \A i \in Scored(p) : i \in 1 .. m /\ p[i].ts \in Int
  <2>1. Scored(p) \subseteq 1 .. m
    BY DEF Scored
  <2>2. IsFiniteSet(1 .. m)
    BY FS_Interval
  <2> QED BY <2>1, <2>2, FS_Subset, BacktestAssumption
<1>2. \A h \in Hours : M[h] = IF Scored(p) = {} THEN <<0, 0>>
                              ELSE <<SumOfScores(p, In(h)), Cardinality(In(h))>>
  BY Zenon DEF _compute_metrics
<1> SUFFICES ASSUME NEW g \in Hours, NEW h \in Hours, g <= h PROVE M[g][2] <= M[h][2]
  BY DEF MetricsNest
<1>3. CASE Scored(p) = {}
  <2>1. M[g] = <<0, 0>> /\ M[h] = <<0, 0>>
    BY <1>2, <1>3
  <2> HIDE DEF M
  <2> QED BY <2>1
<1>4. CASE Scored(p) # {}
  <2>1. now \in Int
    <3>1. Max(Scored(p)) \in Scored(p)
      BY <1>1, <1>4, MaxIs
    <3> QED BY <1>1, <3>1
  <2> HIDE DEF now
  <2>2. In(g) \subseteq In(h) /\ In(h) \subseteq Scored(p)
    <3>1. g \in Nat /\ h \in Nat
      BY <1>1
    <3> QED BY <1>1, <2>1, <3>1
  <2> HIDE DEF In
  <2>3. IsFiniteSet(In(h)) /\ Cardinality(In(g)) <= Cardinality(In(h))
    <3>1. IsFiniteSet(In(h))
      BY <1>1, <2>2, FS_Subset
    <3> QED BY <2>2, <3>1, FS_Subset
  <2>4. M[g][2] = Cardinality(In(g)) /\ M[h][2] = Cardinality(In(h))
    <3>1. /\ M[g] = <<SumOfScores(p, In(g)), Cardinality(In(g))>>
          /\ M[h] = <<SumOfScores(p, In(h)), Cardinality(In(h))>>
      BY <1>2, <1>4
    <3> HIDE DEF M
    <3> QED BY <3>1
  <2> QED BY <2>3, <2>4
<1> QED BY <1>3, <1>4

(* The replay of a finite set of records. *)
LEMMA ReplayOf ==
  ASSUME NEW S \in SUBSET Int, IsFiniteSet(S), NEW output
  PROVE  /\ ToSet(InOrder(S)) = S
         /\ \A k \in DOMAIN Predictions(InOrder(S), output) :
              PredictionSound(Predictions(InOrder(S), output), k, S)
         /\ MetricsNest(_compute_metrics(Predictions(InOrder(S), output)))
<1> DEFINE n == Cardinality(S)
           data == InOrder(S)
           P == Predicted(data)
           m == Cardinality(P)
           at == InOrder(P)
           p == Predictions(data, output)
<1>1. /\ n \in Nat /\ data \in [1 .. n -> S]
      /\ \A i, j \in 1 .. n : i < j => data[i] < data[j]
      /\ \A t \in S : \E i \in 1 .. n : data[i] = t
  BY InOrderIs
<1> HIDE DEF n, data
<1>2. Rises(n, data)
  BY <1>1 DEF Rises
<1>3. ToSet(data) = S
  BY <1>1 DEF ToSet
<1>4. /\ P \subseteq 1 .. n /\ \A i \in P : i \in 1 .. n /\ i > WindowSize
      /\ \A i, j \in P : i < j => data[j] - data[i] >= StepSeconds
  BY <1>1, <1>2, PredictedIs
<1>5. P \in SUBSET Int /\ IsFiniteSet(P)
  BY <1>1, <1>4, FS_Interval, FS_Subset
<1>6. /\ m \in Nat /\ at \in [1 .. m -> P]
      /\ \A i, j \in 1 .. m : i < j => at[i] < at[j]
  BY <1>5, InOrderIs
<1>7. DOMAIN p = 1 .. m /\ \A k \in 1 .. m : p[k] = Prediction(data, at[k], output) /\ at[k] \in P
  <2>1. p = [k \in DOMAIN at |-> Prediction(data, at[k], output)]
    BY Zenon DEF Predictions
  <2> HIDE DEF P, m, at, p
  <2> QED BY <1>6, <2>1
<1> HIDE DEF P, m, at, p
<1>8. \A k \in 1 .. m : /\ p[k].ts = data[at[k]]
                        /\ p[k].window = Window(data, at[k])
                        /\ p[k].actual = _find_actual(data, at[k])
                        /\ at[k] \in P /\ at[k] \in 1 .. n /\ p[k].ts \in Int
  <2> TAKE k \in 1 .. m
  <2>1. p[k] = Prediction(data, at[k], output) /\ at[k] \in P /\ at[k] \in 1 .. n
    BY <1>4, <1>7
  <2>2. p[k].ts = data[at[k]] /\ p[k].window = Window(data, at[k]) /\ p[k].actual = _find_actual(data, at[k])
    BY <2>1 DEF Prediction
  <2>3. data[at[k]] \in Int
    BY <1>1, <2>1
  <2> QED BY <2>1, <2>2, <2>3
<1>9. MetricsNest(_compute_metrics(p))
  BY <1>6, <1>7, <1>8, MetricsAre
<1>10. ASSUME NEW k \in 1 .. m PROVE PredictionSound(p, k, S)
  <2> DEFINE i == at[k]
             w == ToSet(Window(data, i))
  <2>1. /\ i \in 1 .. n /\ i > WindowSize /\ i \in P /\ p[k].ts = data[i]
        /\ p[k].window = Window(data, i) /\ p[k].actual = _find_actual(data, i)
    BY <1>4, <1>8
  <2> HIDE DEF i
  <2>2. /\ \A t \in w : \E j \in 1 .. n : t = data[j] /\ t <= data[i]
        /\ Cardinality(w) = WindowSize
        /\ \A j \in 1 .. n : data[j] <= data[i] /\ data[j] > Min(w) => data[j] \in w
    BY <1>1, <1>2, <2>1, WindowIs
  <2> HIDE DEF w
  <2>3. w \subseteq {t \in S : t <= data[i]}
    BY <1>1, <2>2
  <2>4. \A t \in S : t <= data[i] /\ t > Min(w) => t \in w
    BY <1>1, <2>2
  <2>5. ASSUME NEW j \in 1 .. m, j < k PROVE p[k].ts - p[j].ts >= StepSeconds
    BY <1>4, <1>6, <1>8, <2>5
  <2>6. ASSUME NEW t \in S, t >= data[i] + Horizon
        PROVE  _find_actual(data, i) \in (data[i] + Horizon) .. t
    <3>1. PICK j \in 1 .. n : data[j] = t
      BY <1>1
    <3> QED BY <1>1, <1>2, <2>1, <2>6, <3>1, ActualIs
  <2> QED BY <1>7, <2>1, <2>2, <2>3, <2>4, <2>5, <2>6 DEF PredictionSound, w
<1> QED BY <1>3, <1>7, <1>9, <1>10 DEF data, p

-----------------------------------------------------------------------------
(* The pulls and runs, for any records, pages and failures *)
(* The calls a cruncher can have under way. *)
Calls ==
  {NoCall}
    \cup [kind : {"pull"}, start : Days, end : Days, refresh : BOOLEAN,
          left : SUBSET Int, had : SUBSET server]
    \cup [kind : {"run"}, start : Days, end : Days, refresh : {FALSE},
          left : SUBSET Int, had : SUBSET server, output : Outputs]

(* What the run under way was promised is cached, or will be pulled. *)
Promised(t) ==
  /\ Day(t) \in call.left \cup DOMAIN cache
  /\ Day(t) \in DOMAIN cache => t \in cache[Day(t)]

(* Files that can be read hold what the coordinator has. *)
BacktestInv ==
  /\ server \subseteq Feed /\ IsFiniteSet(server)
  /\ \A d \in DOMAIN cache : cache[d] = Torn \/ cache[d] \subseteq server
  /\ call \in Calls
  /\ call.kind = "run" =>
       \A t \in call.had : Day(t) \in call.start .. call.end => Promised(t)
  /\ ReplayIsSound

LEMMA DaysAreNumbers == Days \subseteq Int /\ \A t \in Feed : Day(t) \in Int
<1>1. /\ Feed \subseteq Nat /\ DayLength \in Nat \ {0}
  BY BacktestAssumption
<1>2. \A t \in Feed : t \div DayLength \in Int
  BY <1>1
<1> QED BY <1>2 DEF Days, Day

LEMMA BacktestInitInv == BacktestInit => BacktestInv
<1> SUFFICES ASSUME BacktestInit PROVE BacktestInv
  OBVIOUS
<1>1. server = {} /\ DOMAIN cache = {} /\ call = NoCall /\ result = NoResult
  BY DEF BacktestInit
<1>2. IsFiniteSet(server)
  BY <1>1, FS_EmptySet
<1> QED BY <1>1, <1>2 DEF BacktestInv, Calls, NoCall, ReplayIsSound

LEMMA ReplayKept ==
  ASSUME ReplayIsSound, UNCHANGED result
  PROVE  ReplayIsSound'
BY DEF ReplayIsSound

LEMMA BackfilledInv ==
  ASSUME BacktestInv, Backfilled
  PROVE  BacktestInv'
<1>1. PICK t \in Feed \ server : server' = server \cup {u \in Feed : u <= t}
  BY DEF Backfilled
<1>2. UNCHANGED <<cache, call, result>>
  BY DEF Backfilled
<1> DEFINE page == {u \in Feed : u <= t}
<1>3. IsFiniteSet(page) /\ page \subseteq Feed
  <2>1. page \in SUBSET Nat /\ t \in Nat /\ \A s \in page : s <= t
    BY BacktestAssumption
  <2> HIDE DEF page
  <2>2. IsFiniteSet(page)
    BY <2>1, FS_BoundedSetOfNaturals
  <2> QED BY <2>2 DEF page
<1>4. IsFiniteSet(server') /\ server' \subseteq Feed /\ server \subseteq server'
  <2> HIDE DEF page
  <2>1. IsFiniteSet(server \cup page)
    BY <1>3, FS_Union DEF BacktestInv
  <2> QED BY <1>1, <1>3, <2>1 DEF BacktestInv, page
<1>5. \A d \in DOMAIN cache' : cache'[d] = Torn \/ cache'[d] \subseteq server'
  BY <1>2, <1>4 DEF BacktestInv
<1>6. Calls \subseteq Calls'
  BY <1>4 DEF Calls
<1>7. call' \in Calls'
  BY <1>2, <1>6 DEF BacktestInv
<1>8. call'.kind = "run" =>
        \A u \in call'.had : Day(u) \in call'.start .. call'.end => Promised(u)'
  BY <1>2 DEF BacktestInv, Promised
<1>9. ReplayIsSound'
  BY <1>2, ReplayKept DEF BacktestInv
<1> QED BY <1>4, <1>5, <1>7, <1>8, <1>9 DEF BacktestInv

LEMMA PullInv ==
  ASSUME BacktestInv, Pull
  PROVE  BacktestInv'
<1>1. UNCHANGED <<server, cache, result>>
  BY DEF Pull
<1>2. PICK start \in Days, end \in Days, refresh \in BOOLEAN : StartPull(start, end, refresh)
  BY DEF Pull
<1>3. call' \in Calls' /\ call'.kind = "pull"
  <2>1. Listed(start, end) \in SUBSET Int
    BY DaysAreNumbers DEF Listed, BacktestInv
  <2> QED BY <1>1, <1>2, <2>1 DEF StartPull, Calls
<1>4. ReplayIsSound'
  BY <1>1, ReplayKept DEF BacktestInv
<1> QED BY <1>1, <1>3, <1>4 DEF BacktestInv

LEMMA RunInv ==
  ASSUME BacktestInv, Run
  PROVE  BacktestInv'
<1>1. UNCHANGED <<server, cache, result>>
  BY DEF Run
<1> DEFINE empty == DOMAIN cache = {}
<1>2. PICK start \in Days, end \in Days, output \in Outputs :
        call' = [kind |-> "run", start |-> start, end |-> end, refresh |-> FALSE,
                 left |-> IF empty THEN Listed(start, end) ELSE {},
                 had |-> IF empty THEN server ELSE {}, output |-> output]
  BY DEF Run
<1>3. call' \in Calls'
  <2>1. Listed(start, end) \in SUBSET Int
    BY DaysAreNumbers DEF Listed, BacktestInv
  <2> HIDE DEF empty
  <2> QED BY <1>1, <1>2, <2>1 DEF Calls
<1>4. ASSUME NEW t \in call'.had, Day(t) \in call'.start .. call'.end PROVE Promised(t)'
  <2>1. CASE empty
    <3>1. /\ call'.left = Listed(start, end) /\ call'.had = server
          /\ call'.start = start /\ call'.end = end
      BY <1>2, <2>1
    <3>2. Day(t) \in Listed(start, end)
      BY <1>4, <3>1 DEF Listed
    <3>3. DOMAIN cache' = {}
      BY <1>1, <2>1
    <3> QED BY <3>1, <3>2, <3>3 DEF Promised
  <2>2. CASE ~empty
    BY <1>2, <1>4, <2>2
  <2> QED BY <2>1, <2>2
<1>5. ReplayIsSound'
  BY <1>1, ReplayKept DEF BacktestInv
<1> QED BY <1>1, <1>3, <1>4, <1>5 DEF BacktestInv

LEMMA CallIs ==
  ASSUME BacktestInv, call # NoCall
  PROVE  /\ call.kind \in {"pull", "run"} /\ call.had \subseteq server
         /\ call.left \subseteq Int
         /\ call.kind = "run" => call.refresh = FALSE
         /\ \A L \in SUBSET Int : /\ [call EXCEPT !.left = L] \in Calls
                                  /\ [call EXCEPT !.left = L].kind = call.kind
                                  /\ [call EXCEPT !.left = L].had = call.had
                                  /\ [call EXCEPT !.left = L].start = call.start
                                  /\ [call EXCEPT !.left = L].end = call.end
                                  /\ [call EXCEPT !.left = L].left = L
<1>1. CASE call \in [kind : {"pull"}, start : Days, end : Days, refresh : BOOLEAN,
                     left : SUBSET Int, had : SUBSET server]
  <2>1. /\ call.kind = "pull" /\ call.had \subseteq server /\ call.left \subseteq Int
    BY <1>1
  <2>2. ASSUME NEW L \in SUBSET Int
        PROVE  /\ [call EXCEPT !.left = L] \in
                    [kind : {"pull"}, start : Days, end : Days, refresh : BOOLEAN,
                     left : SUBSET Int, had : SUBSET server]
               /\ [call EXCEPT !.left = L].kind = call.kind
               /\ [call EXCEPT !.left = L].had = call.had
               /\ [call EXCEPT !.left = L].start = call.start
               /\ [call EXCEPT !.left = L].end = call.end
               /\ [call EXCEPT !.left = L].left = L
    BY <1>1
  <2> QED BY <2>1, <2>2 DEF Calls
<1>2. CASE call \in [kind : {"run"}, start : Days, end : Days, refresh : {FALSE},
                     left : SUBSET Int, had : SUBSET server, output : Outputs]
  <2>1. /\ call.kind = "run" /\ call.had \subseteq server /\ call.left \subseteq Int
        /\ call.refresh = FALSE
    BY <1>2
  <2>2. ASSUME NEW L \in SUBSET Int
        PROVE  /\ [call EXCEPT !.left = L] \in
                    [kind : {"run"}, start : Days, end : Days, refresh : {FALSE},
                     left : SUBSET Int, had : SUBSET server, output : Outputs]
               /\ [call EXCEPT !.left = L].kind = call.kind
               /\ [call EXCEPT !.left = L].had = call.had
               /\ [call EXCEPT !.left = L].start = call.start
               /\ [call EXCEPT !.left = L].end = call.end
               /\ [call EXCEPT !.left = L].left = L
    BY <1>2
  <2> QED BY <2>1, <2>2 DEF Calls
<1> QED BY <1>1, <1>2 DEF BacktestInv, Calls

LEMMA DownloadInv ==
  ASSUME BacktestInv, Download
  PROVE  BacktestInv'
<1> DEFINE d == Min(call.left)
           file == {t \in server : Day(t) = d}
           L == call.left \ {d}
<1>1. /\ UNCHANGED <<server, result>> /\ call # NoCall
      /\ call' = [call EXCEPT !.left = call.left \ {d}]
      /\ cache' = IF d \in DOMAIN cache /\ ~call.refresh THEN cache
                  ELSE Written(d, file)
  BY DEF Download, Downloading
<1> HIDE DEF d
<1>2. /\ call.had \subseteq server /\ L \in SUBSET Int
      /\ call.kind = "run" => call.refresh = FALSE
      /\ call' \in Calls' /\ call'.kind = call.kind /\ call'.had = call.had
      /\ call'.start = call.start /\ call'.end = call.end
      /\ call'.left = L
  <2>1. call.left \subseteq Int /\ L \in SUBSET Int
    BY <1>1, CallIs
  <2>2. Calls' = Calls
    BY <1>1 DEF Calls
  <2> QED BY <1>1, <2>1, <2>2, CallIs
<1>3. /\ DOMAIN cache' = DOMAIN cache \cup {d}
      /\ \A e \in DOMAIN cache \ {d} : cache'[e] = cache[e]
      /\ \/ d \in DOMAIN cache /\ ~call.refresh /\ cache'[d] = cache[d]
         \/ (d \notin DOMAIN cache \/ call.refresh) /\ cache'[d] = file
  <2>1. CASE d \in DOMAIN cache /\ ~call.refresh
    BY <1>1, <2>1
  <2>2. CASE d \notin DOMAIN cache \/ call.refresh
    <3>1. cache' = Written(d, file)
      BY <1>1, <2>2
    <3> HIDE DEF file
    <3> QED BY <2>2, <3>1 DEF Written
  <2> QED BY <2>1, <2>2
<1>4. \A e \in DOMAIN cache' : cache'[e] = Torn \/ cache'[e] \subseteq server'
  <2>1. file \subseteq server
    OBVIOUS
  <2> HIDE DEF file
  <2> QED BY <1>1, <1>3, <2>1 DEF BacktestInv
<1>5. ASSUME call'.kind = "run", NEW t \in call'.had, Day(t) \in call'.start .. call'.end
      PROVE  Promised(t)'
  <2>1. t \in server /\ Promised(t) /\ call.refresh = FALSE
    BY <1>2, <1>5 DEF BacktestInv
  <2>2. Day(t) \in call'.left \cup DOMAIN cache'
    BY <1>2, <1>3, <2>1 DEF Promised
  <2>3. ASSUME Day(t) \in DOMAIN cache' PROVE t \in cache'[Day(t)]
    <3>1. CASE Day(t) = d
      BY <1>3, <2>1, <3>1 DEF Promised
    <3>2. CASE Day(t) # d
      BY <1>3, <2>1, <2>3, <3>2 DEF Promised
    <3> QED BY <3>1, <3>2
  <2> QED BY <2>2, <2>3 DEF Promised
<1>6. ReplayIsSound'
  BY <1>1, ReplayKept DEF BacktestInv
<1> QED BY <1>1, <1>2, <1>4, <1>5, <1>6 DEF BacktestInv

LEMMA CallEnds ==
  ASSUME BacktestInv, UNCHANGED <<server, result>>, call' = NoCall,
         \A d \in DOMAIN cache' : cache'[d] = Torn \/ cache'[d] \subseteq server
  PROVE  BacktestInv'
<1>1. call' \in Calls' /\ call'.kind # "run"
  BY DEF Calls, NoCall
<1>2. ReplayIsSound'
  BY ReplayKept DEF BacktestInv
<1> QED BY <1>1, <1>2 DEF BacktestInv

LEMMA DownloadFailsInv ==
  ASSUME BacktestInv, DownloadFails
  PROVE  BacktestInv'
<1>1. UNCHANGED <<server, result>> /\ call' = NoCall
  BY DEF DownloadFails
<1>2. \/ UNCHANGED cache
      \/ cache' = Written(Min(call.left), Torn)
  BY DEF DownloadFails
<1>3. \A d \in DOMAIN cache' : cache'[d] = Torn \/ cache'[d] \subseteq server
  <2>1. CASE UNCHANGED cache
    BY <2>1 DEF BacktestInv
  <2>2. CASE cache' = Written(Min(call.left), Torn)
    <3>1. \A d \in DOMAIN cache' : cache'[d] = Torn \/ (d \in DOMAIN cache /\ cache'[d] = cache[d])
      BY <2>2 DEF Written
    <3> QED BY <3>1 DEF BacktestInv
  <2> QED BY <1>2, <2>1, <2>2
<1> QED BY <1>1, <1>3, CallEnds

LEMMA EndPullInv ==
  ASSUME BacktestInv, EndPull
  PROVE  BacktestInv'
BY CallEnds DEF EndPull, BacktestInv

(* A run replays its period's files, all of them readable, or returns nothing. *)
LEMMA ReplayIs ==
  ASSUME BacktestInv, call # NoCall, Replay # NoResult,
         NEW S, S = UNION {cache[d] : d \in {e \in DOMAIN cache : e \in call.start .. call.end}}
  PROVE  /\ S \subseteq server
         /\ \A d \in DOMAIN cache : d \in call.start .. call.end => cache[d] \subseteq S
         /\ Replay.had = call.had /\ Replay.start = call.start /\ Replay.end = call.end
         /\ ToSet(Replay.data) = S
         /\ \A k \in DOMAIN Replay.predictions : PredictionSound(Replay.predictions, k, S)
         /\ MetricsNest(Replay.metrics)
<1> DEFINE days == {d \in DOMAIN cache : d \in call.start .. call.end}
           data == Records(days)
           p == Predictions(data, call.output)
           r == [data |-> data, predictions |-> p, had |-> call.had,
                 start |-> call.start, end |-> call.end, metrics |-> _compute_metrics(p)]
<1>1. Replay = IF days = {} \/ \E d \in days : cache[d] = Torn THEN NoResult ELSE r
  BY Zenon DEF Replay
<1>2. ~ \E d \in days : cache[d] = Torn
  BY <1>1, Zenon
<1>3. Replay = r
  <2> HIDE DEF r, days
  <2> QED BY <1>1, Zenon
<1>4. /\ Replay.had = call.had /\ Replay.start = call.start /\ Replay.end = call.end
      /\ Replay.data = data /\ Replay.predictions = p /\ Replay.metrics = _compute_metrics(p)
  <2> HIDE DEF p, data
  <2> QED BY <1>3
<1>5. S \subseteq server /\ \A d \in days : cache[d] \subseteq S
  BY <1>2 DEF BacktestInv
<1>6. S \in SUBSET Int /\ IsFiniteSet(S)
  <2>1. server \subseteq Int /\ IsFiniteSet(server)
    BY BacktestAssumption DEF BacktestInv
  <2>2. IsFiniteSet(S)
    BY <1>5, <2>1, FS_Subset
  <2> QED BY <1>5, <2>1, <2>2
<1>7. data = InOrder(S)
  BY Zenon DEF Records
<1>8. /\ ToSet(data) = S
      /\ \A k \in DOMAIN p : PredictionSound(p, k, S)
      /\ MetricsNest(_compute_metrics(p))
  <2> HIDE DEF data
  <2> QED BY <1>6, <1>7, ReplayOf
<1> HIDE DEF p, data
<1> QED BY <1>4, <1>5, <1>8

LEMMA EndRunInv ==
  ASSUME BacktestInv, EndRun
  PROVE  BacktestInv'
<1>1. /\ call.kind = "run" /\ call.left = {} /\ result' = Replay /\ call' = NoCall
      /\ UNCHANGED <<server, cache>> /\ call # NoCall
  BY DEF EndRun, NoCall
<1> DEFINE R == result'
<1>2. ASSUME result' # NoResult
      PROVE  /\ \A k \in DOMAIN result'.predictions :
                  PredictionSound(result'.predictions, k, ToSet(result'.data))
             /\ MetricsNest(result'.metrics)
             /\ {t \in result'.had : Day(t) \in result'.start .. result'.end}
                  \subseteq ToSet(result'.data)
  <2> DEFINE S == UNION {cache[d] : d \in {e \in DOMAIN cache : e \in call.start .. call.end}}
  <2>1. Replay # NoResult
    BY <1>1, <1>2
  <2>2. /\ \A d \in DOMAIN cache : d \in call.start .. call.end => cache[d] \subseteq S
        /\ Replay.had = call.had /\ Replay.start = call.start /\ Replay.end = call.end
        /\ ToSet(Replay.data) = S
        /\ \A k \in DOMAIN Replay.predictions : PredictionSound(Replay.predictions, k, S)
        /\ MetricsNest(Replay.metrics)
    BY <1>1, <2>1, ReplayIs
  <2> HIDE DEF S
  <2>3. ASSUME NEW t \in call.had, Day(t) \in call.start .. call.end PROVE t \in S
    <3>1. Day(t) \in DOMAIN cache /\ t \in cache[Day(t)]
      BY <1>1, <2>3 DEF BacktestInv, Promised
    <3> QED BY <2>2, <2>3, <3>1
  <2> QED BY <1>1, <2>2, <2>3
<1>3. ReplayIsSound'
  BY <1>2 DEF ReplayIsSound, PredictionSound, MetricsNest
<1>4. call' \in Calls' /\ call'.kind # "run"
  BY <1>1 DEF Calls, NoCall
<1> QED BY <1>1, <1>3, <1>4 DEF BacktestInv

LEMMA BacktestStep == BacktestInv /\ [BacktestNext]_backtestVars => BacktestInv'
<1> SUFFICES ASSUME BacktestInv, [BacktestNext]_backtestVars PROVE BacktestInv'
  OBVIOUS
<1>1. CASE UNCHANGED backtestVars
  <2>1. UNCHANGED <<server, cache, call, result>>
    BY <1>1 DEF backtestVars
  <2>2. ReplayIsSound'
    BY <2>1, ReplayKept DEF BacktestInv
  <2> QED BY <2>1, <2>2 DEF BacktestInv, Calls, Promised
<1> QED BY <1>1, BackfilledInv, PullInv, RunInv, DownloadInv, DownloadFailsInv, EndPullInv,
           EndRunInv DEF BacktestNext

(* A run of backtest.py shows the model no record later than the            *)
(* prediction, scores against the first record its horizon away, and        *)
(* replays all that the coordinator had when a pull for it began, whatever  *)
(* the records, the page sizes, the downloads that failed or were torn.     *)
THEOREM BacktestSpecReplayIsSound == BacktestSpec => []ReplayIsSound
<1>1. BacktestInv => ReplayIsSound
  BY DEF BacktestInv
<1> QED BY <1>1, BacktestInitInv, BacktestStep, PTL DEF BacktestSpec
=============================================================================
