--------------------------- MODULE Trading_proofs ---------------------------
(***************************************************************************)
(* Theorems of Trading: for any models, assets, batches, signals, caps and  *)
(* number of faults, and whatever prices are zero.                          *)
(***************************************************************************)
EXTENDS Trading, FiniteSetTheorems, TLAPS

Sides == {"long", "short"}

-----------------------------------------------------------------------------
(* Sums of sizes *)

(* No position is above its cap, and only a flat one has size 0. *)
Capped(account) ==
  \A a \in Assets :
    /\ account.positions[a].size <= MaxPosition
    /\ account.positions[a].side = "flat" <=> account.positions[a].size = 0

LEMMA CapsAreNat == MaxPosition \in Nat \ {0} /\ MaxPortfolio \in Nat /\ MaxPortfolio >= MaxPosition
BY TradingAssumption

LEMMA CountUpTo ==
  ASSUME NEW n \in Nat
  PROVE  IsFiniteSet(1..n) /\ Cardinality(1..n) = n
BY FS_Interval

LEMMA HeldIsNat ==
  ASSUME NEW account \in Account, Capped(account), NEW S, S \subseteq Assets
  PROVE  IsFiniteSet(Units(account, S)) /\ Held(account, S) \in Nat
<1>1. IsFiniteSet(S \X (1..MaxPosition))
  <2>1. IsFiniteSet(1..MaxPosition)
    BY TradingAssumption, FS_Interval
  <2>2. IsFiniteSet(S)
    BY TradingAssumption, FS_Subset
  <2> QED BY <2>1, <2>2, FS_Product
<1>2. Units(account, S) \subseteq S \X (1..MaxPosition)
  BY TradingAssumption DEF Units, Capped, Account, Position
<1>3. IsFiniteSet(Units(account, S))
  BY <1>1, <1>2, FS_Subset
<1> QED BY <1>3, FS_CardinalityType DEF Held

LEMMA HeldSplits ==
  ASSUME NEW account \in Account, Capped(account), NEW a \in Assets
  PROVE  Held(account, Assets)
           = Held(account, Assets \ {a}) + account.positions[a].size
<1> DEFINE size == account.positions[a].size
           own == {a} \X (1..size)
           others == Units(account, Assets \ {a})
<1>1. size \in Nat
  BY DEF Account, Position
<1>2. Units(account, Assets) = others \cup own
  BY DEF Units
<1>3. others \cap own = {}
  BY DEF Units
<1>4. IsFiniteSet(own) /\ Cardinality(own) = size
  <2>1. IsFiniteSet({a}) /\ Cardinality({a}) = 1
    BY FS_Singleton
  <2>2. IsFiniteSet(1..size) /\ Cardinality(1..size) = size
    BY <1>1, CountUpTo
  <2>3. IsFiniteSet(own) /\ Cardinality(own) = 1 * size
    BY <2>1, <2>2, FS_Product
  <2> QED BY <1>1, <2>3
<1>5. IsFiniteSet(others) /\ Cardinality(others) \in Nat
  BY HeldIsNat DEF Held
<1>6. Cardinality(others \cup own)
        = Cardinality(others) + Cardinality(own) - Cardinality(others \cap own)
  BY <1>4, <1>5, FS_Union
<1>7. Cardinality(others \cap own) = 0
  BY <1>3, FS_EmptySet
<1> QED BY <1>1, <1>2, <1>4, <1>5, <1>6, <1>7 DEF Held

LEMMA HeldOfSameSizes ==
  ASSUME NEW account, NEW other, NEW S,
         \A a \in S : account.positions[a].size = other.positions[a].size
  PROVE  Held(account, S) = Held(other, S)
<1>1. Units(account, S) = Units(other, S)
  BY DEF Units
<1> QED BY <1>1 DEF Held

LEMMA NothingHeld == Held(NoAccount, Assets) = 0
<1>1. Units(NoAccount, Assets) = {}
  BY DEF Units, NoAccount, Flat
<1> QED BY <1>1, FS_EmptySet DEF Held

-----------------------------------------------------------------------------
(* Orders *)

(* What holds of every account, in the engine and in the table. *)
Sound(account) ==
  /\ account \in Account
  /\ Capped(account)
  /\ Held(account, Assets) <= MaxPortfolio
  /\ account.fees = Held(account, Assets) + 2 * account.closed + account.wasted

LEMMA NoAccountSound == Sound(NoAccount)
<1>1. NoAccount \in Account
  BY DEF NoAccount, Account, Flat, Position
<1>2. Capped(NoAccount)
  BY CapsAreNat DEF Capped, NoAccount, Flat
<1>3. NoAccount.fees = 0 /\ NoAccount.closed = 0 /\ NoAccount.wasted = 0
  BY DEF NoAccount
<1> QED BY <1>1, <1>2, <1>3, NothingHeld, CapsAreNat DEF Sound

(* What an order may execute, and that a position can always be closed. *)
OrderBounds(account, a, side, size) ==
  LET p == account.positions[a]
      e == Executed(account, a, side, size)
      rest == Held(account, Assets \ {a})
  IN  /\ p \in Position /\ rest \in Nat /\ e \in Int
      /\ Held(account, Assets) = rest + p.size
      /\ e <= size
      /\ p.side = side => p.size + e <= MaxPosition
      /\ p.side # side => e <= MaxPosition
      /\ p.side = Opposite(side) => e <= MaxPortfolio - rest
      /\ p.side # Opposite(side) => p.size + e <= MaxPortfolio - rest
      /\ p.side = Opposite(side) => e = size \/ e >= p.size

LEMMA ExecutedBounds ==
  ASSUME NEW account, Sound(account), NEW a \in Assets, NEW side \in Sides, NEW size \in Nat
  PROVE  OrderBounds(account, a, side, size)
<1> DEFINE p == account.positions[a]
           rest == Held(account, Assets \ {a})
           position == PositionRoom(p, side)
           portfolio == PortfolioRoom(account, a, side)
<1>1. p \in Position /\ p.size <= MaxPosition /\ p.size \in Nat
  BY DEF Sound, Capped, Account, Position
<1>2. rest \in Nat /\ Held(account, Assets) = rest + p.size
  BY HeldIsNat, HeldSplits DEF Sound
<1>3. rest + p.size <= MaxPortfolio
  BY <1>2 DEF Sound
<1>4. /\ p.side = side => position = MaxPosition - p.size
      /\ p.side # side => position = MaxPosition
      /\ position \in Int
  BY <1>1, CapsAreNat DEF PositionRoom
<1>5. /\ p.side = Opposite(side) => portfolio = MaxPortfolio - rest
      /\ p.side # Opposite(side) => portfolio = MaxPortfolio - (rest + p.size)
      /\ portfolio \in Int
  BY <1>1, <1>2, CapsAreNat DEF PortfolioRoom
<1>6. side # Opposite(side)
  BY DEF Opposite, Sides
<1> DEFINE e == Lower(size, Lower(position, portfolio))
<1>0. Executed(account, a, side, size) = e
  BY DEF Executed
<1> SUFFICES /\ p \in Position /\ rest \in Nat /\ e \in Int
             /\ Held(account, Assets) = rest + p.size
             /\ e <= size
             /\ p.side = side => p.size + e <= MaxPosition
             /\ p.side # side => e <= MaxPosition
             /\ p.side = Opposite(side) => e <= MaxPortfolio - rest
             /\ p.side # Opposite(side) => p.size + e <= MaxPortfolio - rest
             /\ p.side = Opposite(side) => e = size \/ e >= p.size
  BY <1>0 DEF OrderBounds
<1>7. /\ e \in Int /\ e <= size /\ e <= position /\ e <= portfolio
      /\ e \in {size, position, portfolio}
  BY <1>4, <1>5 DEF Lower
<1> HIDE DEF p, rest, e, position, portfolio
<1>9. p.side = Opposite(side) => e = size \/ e >= p.size
  <2> SUFFICES ASSUME p.side = Opposite(side) PROVE e = size \/ e >= p.size
    OBVIOUS
  <2>1. position >= p.size /\ portfolio >= p.size
    BY <1>1, <1>2, <1>3, <1>4, <1>5, <1>6, CapsAreNat
  <2> QED BY <1>7, <2>1
<1> QED BY <1>1, <1>2, <1>4, <1>5, <1>7, <1>9, CapsAreNat

(* The position after an order that executes something, and the size it     *)
(* closes.                                                                  *)
Ordered(account, a, side, size, ts) ==
  After(account.positions[a], side, Executed(account, a, side, size), a \in zero, ts)

Closes(account, a, side, size) ==
  IF account.positions[a].side = Opposite(side)
  THEN Lower(Executed(account, a, side, size), account.positions[a].size) ELSE 0

(* One case for each branch of the code. *)
OrderEffect(account, a, side, size, ts) ==
  LET p == account.positions[a]
      e == Executed(account, a, side, size)
      q == Ordered(account, a, side, size, ts)
      c == Closes(account, a, side, size)
  IN  /\ q \in Position /\ c \in Nat /\ q.size <= MaxPosition
      /\ q.side = "flat" <=> q.size = 0
      /\ Held(account, Assets \ {a}) + q.size <= MaxPortfolio
      /\ p.size + e = q.size + 2 * c
      /\ q.side \in {side, p.side, "flat"}
      /\ p.side # Opposite(side) => q.side = side /\ q.size = p.size + e
      /\ p.side = Opposite(side) /\ e < p.size
           => q.side = p.side /\ q.size = p.size - e
      /\ p.side = Opposite(side) /\ e = p.size => q = Flat
      /\ p.side = Opposite(side) /\ e > p.size
           => q.side = side /\ q.size = e - p.size

LEMMA AfterOrder ==
  ASSUME NEW account, Sound(account), NEW a \in Assets, NEW side \in Sides,
         NEW size \in Nat, NEW ts \in Nat, Executed(account, a, side, size) > 0
  PROVE  OrderEffect(account, a, side, size, ts)
<1> DEFINE p == account.positions[a]
           e == Executed(account, a, side, size)
           q == Ordered(account, a, side, size, ts)
           c == Closes(account, a, side, size)
           rest == Held(account, Assets \ {a})
           free == a \in zero
<1> SUFFICES /\ q \in Position /\ c \in Nat /\ q.size <= MaxPosition
             /\ q.side = "flat" <=> q.size = 0
             /\ rest + q.size <= MaxPortfolio
             /\ p.size + e = q.size + 2 * c
             /\ q.side \in {side, p.side, "flat"}
             /\ p.side # Opposite(side) => q.side = side /\ q.size = p.size + e
             /\ p.side = Opposite(side) /\ e < p.size
                  => q.side = p.side /\ q.size = p.size - e
             /\ p.side = Opposite(side) /\ e = p.size => q = Flat
             /\ p.side = Opposite(side) /\ e > p.size
                  => q.side = side /\ q.size = e - p.size
  BY DEF OrderEffect
<1>0. /\ q = After(p, side, e, free, ts)
      /\ c = IF p.side = Opposite(side) THEN Lower(e, p.size) ELSE 0
  BY DEF Ordered, Closes
<1>f. free \in BOOLEAN
  OBVIOUS
<1>1. /\ p \in Position /\ rest \in Nat /\ e \in Nat \ {0}
      /\ p.side = side => p.size + e <= MaxPosition
      /\ p.side # side => e <= MaxPosition
      /\ p.side = Opposite(side) => e <= MaxPortfolio - rest
      /\ p.side # Opposite(side) => p.size + e <= MaxPortfolio - rest
  <2>1. OrderBounds(account, a, side, size)
    BY ExecutedBounds
  <2> QED BY <2>1 DEF OrderBounds
<1>2. /\ p.size \in Nat /\ p.size <= MaxPosition /\ rest + p.size <= MaxPortfolio
      /\ p.side = "flat" <=> p.size = 0
  <2>1. p.size \in Nat /\ p.size <= MaxPosition /\ (p.side = "flat" <=> p.size = 0)
    BY DEF Sound, Capped, Account, Position
  <2>2. rest + p.size <= MaxPortfolio
    BY ExecutedBounds DEF Sound, OrderBounds
  <2> QED BY <2>1, <2>2
<1>3. side # "flat" /\ Opposite(side) # "flat" /\ side # Opposite(side)
      /\ Opposite(side) \in Sides
      /\ p.side \in {"flat", side, Opposite(side)}
  BY <1>1 DEF Opposite, Sides, Position
<1> HIDE DEF p, e, rest, q, c, free
<1>4. CASE p.side = "flat"
  <2>1. q = Opened(side, e, free, ts) /\ c = 0
    BY <1>0, <1>1, <1>2, <1>3, <1>4 DEF After
  <2>2. q \in Position /\ q.size = e /\ q.side = side
    BY <1>1, <1>f, <2>1 DEF Opened, Position, Sides
  <2> QED BY <1>1, <1>2, <1>3, <1>4, <2>1, <2>2, CapsAreNat
<1>5. CASE p.side = side
  <2> DEFINE average == p.free /\ free
  <2>0. average \in BOOLEAN
    OBVIOUS
  <2>1. q = [p EXCEPT !.size = p.size + e, !.free = average] /\ c = 0
    BY <1>0, <1>1, <1>2, <1>3, <1>5 DEF After
  <2> HIDE DEF average
  <2>2. q \in Position /\ q.size = p.size + e /\ q.side = side
    <3>1. q = [side |-> p.side, size |-> p.size + e, free |-> average,
               opened |-> p.opened, marked |-> p.marked, charged |-> p.charged]
      BY <1>1, <2>1 DEF Position
    <3>2. p.size + e \in Nat
      BY <1>1, <1>2
    <3> QED BY <1>1, <1>5, <2>0, <3>1, <3>2 DEF Position
  <2> QED BY <1>1, <1>2, <1>3, <1>5, <2>1, <2>2, CapsAreNat
<1>6. CASE p.side = Opposite(side)
  <2>0. c = Lower(e, p.size)
    BY <1>0, <1>6
  <2>1. CASE e < p.size
    <3>1. q = [p EXCEPT !.size = @ - e] /\ c = e
      BY <1>0, <1>1, <1>2, <1>3, <1>6, <2>0, <2>1 DEF After, Lower
    <3>2. q \in Position /\ q.size = p.size - e /\ q.side = p.side
      BY <1>1, <1>2, <2>1, <3>1 DEF Position
    <3>3. q.size \in Nat /\ q.size <= MaxPosition /\ q.size > 0
      BY <1>1, <1>2, <2>1, <3>2, CapsAreNat
    <3>5. p.size + e = q.size + 2 * c
      BY <1>1, <1>2, <2>1, <3>1, <3>2
    <3>4. rest + q.size <= MaxPortfolio
      BY <1>1, <1>2, <2>1, <3>2, CapsAreNat
    <3> QED BY <1>1, <1>2, <1>3, <1>6, <2>1, <3>1, <3>2, <3>3, <3>4, <3>5
  <2>2. CASE e = p.size
    <3>1. q = Flat /\ c = e
      BY <1>0, <1>1, <1>2, <1>3, <1>6, <2>0, <2>2 DEF After, Lower
    <3>2. q \in Position /\ q.size = 0 /\ q.side = "flat"
      BY <3>1 DEF Flat, Position
    <3> QED BY <1>1, <1>2, <1>3, <1>6, <2>2, <3>1, <3>2, CapsAreNat
  <2>3. CASE e > p.size
    <3>1. q = Opened(side, e - p.size, free, ts) /\ c = p.size
      BY <1>0, <1>1, <1>2, <1>3, <1>6, <2>0, <2>3 DEF After, Lower
    <3>2. q \in Position /\ q.size = e - p.size /\ q.side = side
      BY <1>1, <1>2, <1>f, <2>3, <3>1 DEF Opened, Position, Sides
    <3> QED BY <1>1, <1>2, <1>3, <1>6, <2>3, <3>1, <3>2, CapsAreNat
  <2> QED BY <1>1, <1>2, <2>1, <2>2, <2>3
<1> QED BY <1>3, <1>4, <1>5, <1>6

(* The account after an order that raises: the fee is charged, no more.     *)
Wasted(account, a, side, size) ==
  LET e == Executed(account, a, side, size)
  IN  [account EXCEPT !.fees = @ + e, !.wasted = @ + e]

(* The account after an order that is made.                                 *)
Made(account, a, side, size, ts) ==
  [account EXCEPT !.fees = @ + Executed(account, a, side, size),
                  !.positions[a] = Ordered(account, a, side, size, ts),
                  !.closed = @ + Closes(account, a, side, size)]

LEMMA ApplyOrderCases ==
  ASSUME NEW account, NEW a, NEW side, NEW size, NEW ts
  PROVE  LET e == Executed(account, a, side, size)
             raised == Raises(account, a, side, size)
             next == ApplyOrder(account, a, side, size, ts)
         IN  /\ e <= 0 => next = account
             /\ ~(e <= 0) /\ raised => next = Wasted(account, a, side, size)
             /\ ~(e <= 0) /\ ~raised => next = Made(account, a, side, size, ts)
BY DEF ApplyOrder, Wasted, Made, Ordered, Closes

LEMMA WastedSound ==
  ASSUME NEW account, Sound(account), NEW a \in Assets, NEW side \in Sides,
         NEW size \in Nat, Executed(account, a, side, size) > 0
  PROVE  LET next == Wasted(account, a, side, size)
         IN  /\ Sound(next) /\ Settled(next) = Settled(account)
             /\ next.positions = account.positions /\ next.wasted >= account.wasted
<1> DEFINE e == Executed(account, a, side, size)
           next == [positions |-> account.positions, fees |-> account.fees + e,
                    closed |-> account.closed, wasted |-> account.wasted + e]
<1>1. e \in Nat
  <2>1. e \in Int
    BY ExecutedBounds DEF OrderBounds
  <2> QED BY <2>1
<1>2. /\ account.positions \in [Assets -> Position] /\ account.fees \in Nat
      /\ account.closed \in Nat /\ account.wasted \in Nat
      /\ account = [positions |-> account.positions, fees |-> account.fees,
                    closed |-> account.closed, wasted |-> account.wasted]
  BY DEF Sound, Account
<1>0. Wasted(account, a, side, size)
        = [account EXCEPT !.fees = account.fees + e, !.wasted = account.wasted + e]
  BY DEF Wasted
<1> HIDE DEF e
<1>3. Wasted(account, a, side, size) = next
  BY <1>0, <1>2
<1>4. next \in Account
  BY <1>1, <1>2 DEF Account
<1>5. Capped(next)
  BY DEF Sound, Capped
<1>6. Held(next, Assets) = Held(account, Assets)
  BY HeldOfSameSizes
<1>7. Held(account, Assets) \in Nat
  BY HeldIsNat DEF Sound
<1>8. next.fees = Held(next, Assets) + 2 * next.closed + next.wasted
  BY <1>1, <1>2, <1>6, <1>7 DEF Sound
<1>9. Sound(next)
  BY <1>4, <1>5, <1>6, <1>8 DEF Sound
<1>10. Settled(next) = Settled(account)
  <2>1. next.fees - next.wasted = account.fees - account.wasted
    BY <1>1, <1>2
  <2> QED BY <2>1 DEF Settled
<1>11. next.positions = account.positions /\ next.wasted >= account.wasted
  BY <1>1, <1>2
<1> HIDE DEF next
<1> QED BY <1>3, <1>9, <1>10, <1>11

LEMMA MadeSound ==
  ASSUME NEW account, Sound(account), NEW a \in Assets, NEW side \in Sides,
         NEW size \in Nat, NEW ts \in Nat, Executed(account, a, side, size) > 0
  PROVE  LET next == Made(account, a, side, size, ts)
         IN  Sound(next) /\ next.wasted = account.wasted
<1> DEFINE p == account.positions[a]
           e == Executed(account, a, side, size)
           q == Ordered(account, a, side, size, ts)
           c == Closes(account, a, side, size)
           next == [positions |-> [account.positions EXCEPT ![a] = q],
                    fees |-> account.fees + e, closed |-> account.closed + c,
                    wasted |-> account.wasted]
<1>1. /\ e \in Int /\ Held(account, Assets) = Held(account, Assets \ {a}) + p.size
      /\ Held(account, Assets \ {a}) \in Nat /\ p \in Position
  <2>1. OrderBounds(account, a, side, size)
    BY ExecutedBounds
  <2> QED BY <2>1 DEF OrderBounds
<1>2. e \in Nat /\ e > 0 /\ p.size \in Nat
  <2>1. e > 0
    OBVIOUS
  <2> HIDE DEF e, p
  <2> QED BY <1>1, <2>1 DEF Position
<1>3. /\ q \in Position /\ c \in Nat /\ q.size <= MaxPosition
      /\ q.side = "flat" <=> q.size = 0
      /\ Held(account, Assets \ {a}) + q.size <= MaxPortfolio
      /\ p.size + e = q.size + 2 * c
  <2>1. OrderEffect(account, a, side, size, ts)
    BY AfterOrder
  <2> QED BY <2>1 DEF OrderEffect
<1>4. /\ account.positions \in [Assets -> Position] /\ account.fees \in Nat
      /\ account.closed \in Nat /\ account.wasted \in Nat
      /\ account = [positions |-> account.positions, fees |-> account.fees,
                    closed |-> account.closed, wasted |-> account.wasted]
  BY DEF Sound, Account
<1>0. Made(account, a, side, size, ts)
        = [account EXCEPT !.fees = account.fees + e,
                          !.positions = [account.positions EXCEPT ![a] = q],
                          !.closed = account.closed + c]
  BY DEF Made
<1> HIDE DEF e, q, c, p
<1>5. Made(account, a, side, size, ts) = next
  BY <1>0, <1>4
<1>6. next \in Account
  BY <1>2, <1>3, <1>4 DEF Account
<1>7. next.positions[a] = q /\ \A b \in Assets \ {a} : next.positions[b] = account.positions[b]
  BY <1>4
<1>8. Capped(next)
  BY <1>3, <1>7 DEF Capped, Sound
<1>9. Held(next, Assets \ {a}) = Held(account, Assets \ {a})
  <2> HIDE DEF next
  <2>1. \A b \in Assets \ {a} : next.positions[b].size = account.positions[b].size
    BY <1>7
  <2> QED BY <2>1, HeldOfSameSizes
<1>10. Held(next, Assets) = Held(account, Assets \ {a}) + q.size
  <2> HIDE DEF next
  <2> QED BY <1>6, <1>7, <1>8, <1>9, HeldSplits
<1>11. q.size \in Nat
  BY <1>3 DEF Position
<1>12. next.fees = Held(next, Assets) + 2 * next.closed + next.wasted
  <2>1. account.fees = Held(account, Assets \ {a}) + p.size + 2 * account.closed + account.wasted
    BY <1>1 DEF Sound
  <2> QED BY <1>1, <1>2, <1>3, <1>4, <1>10, <1>11, <2>1
<1>13. next.wasted = account.wasted
  OBVIOUS
<1> HIDE DEF next
<1>14. Sound(next)
  BY <1>3, <1>6, <1>8, <1>10, <1>12 DEF Sound
<1> QED BY <1>5, <1>13, <1>14

(* An order leaves an account sound; one that raises leaves its positions.  *)
LEMMA OrderSound ==
  ASSUME NEW account, Sound(account), NEW a \in Assets, NEW side \in Sides,
         NEW size \in Nat, NEW ts \in Nat
  PROVE  LET next == ApplyOrder(account, a, side, size, ts)
         IN  /\ Sound(next) /\ next.wasted >= account.wasted
             /\ Raises(account, a, side, size) =>
                  Settled(next) = Settled(account) /\ next.positions = account.positions
<1> DEFINE e == Executed(account, a, side, size)
           next == ApplyOrder(account, a, side, size, ts)
           raised == Raises(account, a, side, size)
<1>1. e \in Int /\ account.wasted \in Nat
  BY ExecutedBounds DEF OrderBounds, Sound, Account
<1>2. /\ e <= 0 => next = account
      /\ ~(e <= 0) /\ raised => next = Wasted(account, a, side, size)
      /\ ~(e <= 0) /\ ~raised => next = Made(account, a, side, size, ts)
  BY ApplyOrderCases
<1>3. raised => e > 0
  BY DEF Raises
<1>4. CASE e <= 0
  <2>1. next = account /\ ~raised
    BY <1>1, <1>2, <1>3, <1>4
  <2> HIDE DEF next, raised
  <2>2. Sound(next) /\ next.wasted >= account.wasted
    BY <1>1, <2>1
  <2> QED BY <2>1, <2>2 DEF next, raised
<1>5. CASE ~(e <= 0) /\ raised
  <2>1. next = Wasted(account, a, side, size)
    BY <1>2, <1>5
  <2>2. e > 0
    BY <1>3, <1>5
  <2>3. /\ Sound(next) /\ next.wasted >= account.wasted
        /\ Settled(next) = Settled(account) /\ next.positions = account.positions
    <3> HIDE DEF next
    <3> QED BY <2>1, <2>2, WastedSound
  <2> QED BY <2>3
<1>6. CASE ~(e <= 0) /\ ~raised
  <2>1. next = Made(account, a, side, size, ts)
    BY <1>2, <1>6
  <2>2. e > 0
    BY <1>1, <1>6
  <2>3. Sound(next) /\ next.wasted = account.wasted
    <3>1. /\ Sound(Made(account, a, side, size, ts))
          /\ Made(account, a, side, size, ts).wasted = account.wasted
      BY <2>2, MadeSound
    <3> HIDE DEF next
    <3> QED BY <2>1, <3>1
  <2>4. next.wasted >= account.wasted
    <3> HIDE DEF next
    <3> QED BY <1>1, <2>3
  <2> QED BY <1>6, <2>3, <2>4
<1> QED BY <1>4, <1>5, <1>6

(* A mark, or a load, changes no more than the times of the marks. *)
SameTrades(account, other) ==
  /\ other \in Account
  /\ \A a \in Assets :
       /\ other.positions[a].side = account.positions[a].side
       /\ other.positions[a].size = account.positions[a].size
       /\ other.positions[a].free = account.positions[a].free
       /\ other.positions[a].opened = account.positions[a].opened
  /\ other.fees = account.fees
  /\ other.wasted = account.wasted
  /\ other.closed = account.closed

LEMMA SameTradesSound ==
  ASSUME NEW account, NEW other, Sound(account), SameTrades(account, other)
  PROVE  Sound(other) /\ Settled(other) = Settled(account) /\ other.wasted = account.wasted
<1>1. Held(other, Assets) = Held(account, Assets)
  BY HeldOfSameSizes DEF SameTrades
<1>2. Capped(other)
  BY DEF Sound, Capped, SameTrades
<1>3. Sound(other)
  BY <1>1, <1>2 DEF Sound, SameTrades
<1>4. Settled(other) = Settled(account)
  BY DEF Settled, SameTrades
<1> QED BY <1>3, <1>4 DEF SameTrades

AccountMarked(account, a, ts) == [account EXCEPT !.positions[a] = Marked(@, ts)]

LEMMA MarkedSound ==
  ASSUME NEW account, Sound(account), NEW a \in Assets, NEW ts \in Nat
  PROVE  /\ Sound(AccountMarked(account, a, ts))
         /\ Settled(AccountMarked(account, a, ts)) = Settled(account)
         /\ AccountMarked(account, a, ts).wasted = account.wasted
<1> DEFINE next == [account EXCEPT !.positions[a] = Marked(@, ts)]
<1>0. AccountMarked(account, a, ts) = next
  BY DEF AccountMarked
<1>1. account \in Account /\ account.positions \in [Assets -> Position]
  BY DEF Sound, Account
<1>2. /\ Marked(account.positions[a], ts) \in Position
      /\ Marked(account.positions[a], ts).side = account.positions[a].side
      /\ Marked(account.positions[a], ts).size = account.positions[a].size
      /\ Marked(account.positions[a], ts).free = account.positions[a].free
      /\ Marked(account.positions[a], ts).opened = account.positions[a].opened
  BY <1>1 DEF Marked, Position
<1>3. next = [positions |-> [account.positions EXCEPT ![a] = Marked(account.positions[a], ts)],
              fees |-> account.fees, closed |-> account.closed, wasted |-> account.wasted]
  BY <1>1 DEF Account
<1>4. SameTrades(account, next)
  <2> HIDE DEF Marked
  <2> QED BY <1>1, <1>2, <1>3 DEF SameTrades, Account
<1> HIDE DEF next
<1> QED BY <1>0, <1>4, SameTradesSound

LEMMA LoadedSound ==
  ASSUME NEW account, Sound(account)
  PROVE  /\ Sound(Loaded(account)) /\ Settled(Loaded(account)) = Settled(account)
         /\ Loaded(account).wasted = account.wasted
<1>1. account \in Account /\ account.positions \in [Assets -> Position]
  BY DEF Sound, Account
<1>2. \A a \in Assets :
        /\ account.positions[a] \in Position
        /\ [account.positions[a] EXCEPT !.marked = account.positions[a].opened] \in Position
  BY <1>1 DEF Position
<1>3. Loaded(account) =
        [positions |-> [a \in Assets |->
            [account.positions[a] EXCEPT !.marked = account.positions[a].opened]],
         fees |-> account.fees, closed |-> account.closed, wasted |-> account.wasted]
  <2> DEFINE loaded == [a \in Assets |->
               [account.positions[a] EXCEPT !.marked = account.positions[a].opened]]
  <2>1. Loaded(account) = [account EXCEPT !.positions = loaded]
    BY DEF Loaded
  <2> HIDE DEF loaded
  <2>2. [account EXCEPT !.positions = loaded]
          = [positions |-> loaded, fees |-> account.fees, closed |-> account.closed,
             wasted |-> account.wasted]
    BY <1>1 DEF Account
  <2> QED BY <2>1, <2>2 DEF loaded
<1>4. Loaded(account) \in Account
  BY <1>1, <1>2, <1>3 DEF Account
<1>5. SameTrades(account, Loaded(account))
  BY <1>1, <1>2, <1>3, <1>4 DEF SameTrades, Position
<1> QED BY <1>5, SameTradesSound

(* The order for each place of a position relative to its target. *)
LEMMA TargetOrderCases ==
  ASSUME NEW p \in Position, NEW signal \in Int
  PROVE  LET order == TargetOrder(p, signal)
             side == SideOf(signal)
             target == Magnitude(signal)
         IN  /\ p.side = "flat" => order.side = side /\ order.size = target
             /\ p.side # "flat" /\ signal = 0
                  => order.side = Opposite(p.side) /\ order.size = p.size
             /\ p.side = side /\ signal # 0 /\ target >= p.size
                  => order.side = side /\ order.size = target - p.size
             /\ p.side = side /\ signal # 0 /\ target < p.size
                  => order.side = Opposite(side) /\ order.size = p.size - target
             /\ p.side \notin {"flat", side} /\ signal # 0
                  => order.side = side /\ order.size = p.size + target
<1> DEFINE order == TargetOrder(p, signal)
           side == SideOf(signal)
           target == Magnitude(signal)
<1>1. side \in Sides /\ "flat" \notin Sides /\ target \in Nat /\ p.size \in Nat
  BY DEF SideOf, Sides, Magnitude, Position
<1>2. p.side = "flat" => order = [side |-> side, size |-> target]
  BY <1>1 DEF TargetOrder
<1>3. p.side # "flat" /\ signal = 0 => order = [side |-> Opposite(p.side), size |-> p.size]
  BY DEF TargetOrder
<1>4. p.side = side /\ signal # 0 /\ target >= p.size
        => order = [side |-> side, size |-> target - p.size]
  BY <1>1 DEF TargetOrder
<1>5. p.side = side /\ signal # 0 /\ target < p.size
        => order = [side |-> Opposite(side), size |-> p.size - target]
  BY <1>1 DEF TargetOrder
<1>6. p.side \notin {"flat", side} /\ signal # 0
        => order = [side |-> side, size |-> p.size + target]
  BY DEF TargetOrder
<1> HIDE DEF order, side, target
<1> QED BY <1>2, <1>3, <1>4, <1>5, <1>6 DEF order, side, target

LEMMA TargetOrderIsOrder ==
  ASSUME NEW p \in Position, NEW signal \in Int
  PROVE  TargetOrder(p, signal).side \in Sides /\ TargetOrder(p, signal).size \in Nat
<1> DEFINE side == SideOf(signal)
           target == Magnitude(signal)
           order == TargetOrder(p, signal)
<1>1. side \in Sides /\ target \in Nat /\ p.size \in Nat
  BY DEF SideOf, Sides, Magnitude, Position
<1>2. \A s : Opposite(s) \in Sides
  BY DEF Opposite, Sides
<1>3. /\ p.side = "flat" => order.side = side /\ order.size = target
      /\ p.side # "flat" /\ signal = 0
           => order.side = Opposite(p.side) /\ order.size = p.size
      /\ p.side = side /\ signal # 0 /\ target >= p.size
           => order.side = side /\ order.size = target - p.size
      /\ p.side = side /\ signal # 0 /\ target < p.size
           => order.side = Opposite(side) /\ order.size = p.size - target
      /\ p.side \notin {"flat", side} /\ signal # 0
           => order.side = side /\ order.size = p.size + target
  BY TargetOrderCases
<1> HIDE DEF order, side, target
<1>4. order.side \in Sides
  BY <1>1, <1>2, <1>3
<1>5. order.size \in Nat
  <2>1. CASE p.side = "flat" \/ signal = 0
    BY <1>1, <1>3, <2>1
  <2>2. CASE p.side = side /\ p.side # "flat" /\ signal # 0
    <3>1. CASE target >= p.size
      <4>1. order.size = target - p.size
        BY <1>3, <2>2, <3>1
      <4> QED BY <1>1, <3>1, <4>1
    <3>2. CASE target < p.size
      <4>1. order.size = p.size - target
        BY <1>3, <2>2, <3>2
      <4> QED BY <1>1, <3>2, <4>1
    <3> QED BY <1>1, <3>1, <3>2
  <2>3. CASE p.side \notin {"flat", side} /\ signal # 0
    BY <1>1, <1>3, <2>3
  <2> QED BY <2>1, <2>2, <2>3
<1> QED BY <1>4, <1>5 DEF order

(* Every mode makes of every signal an order apply_order can take. *)
LEMMA OrderOfIsOrder ==
  ASSUME NEW p \in Position, NEW signal \in Int
  PROVE  OrderOf(p, signal).side \in Sides /\ OrderOf(p, signal).size \in Nat
BY TargetOrderIsOrder DEF OrderOf, SideOf, Sides, Magnitude

-----------------------------------------------------------------------------
(* Targets *)

(* What an order in target mode that does not raise makes of a position: by *)
(* the side it is on and whether the order executes anything.               *)
LEMMA TargetReached ==
  ASSUME NEW account, Sound(account), NEW a \in Assets, NEW signal \in Int,
         NEW ts \in Nat
  PROVE  LET p == account.positions[a]
             order == TargetOrder(p, signal)
             next == ApplyOrder(account, a, order.side, order.size, ts)
             before == Signed(p)
             after == Signed(next.positions[a])
         IN  ~Raises(account, a, order.side, order.size) => after \in OnTheWay(before, signal)
<1> DEFINE p == account.positions[a]
           side == SideOf(signal)
           target == Magnitude(signal)
           order == TargetOrder(p, signal)
           e == Executed(account, a, order.side, order.size)
           q == Ordered(account, a, order.side, order.size, ts)
           next == ApplyOrder(account, a, order.side, order.size, ts)
           r == next.positions[a]
<1> SUFFICES ASSUME ~Raises(account, a, order.side, order.size)
             PROVE  Signed(r) \in OnTheWay(Signed(p), signal)
  OBVIOUS
<1>1. /\ p \in Position /\ p.size \in Nat /\ (p.side = "flat" <=> p.size = 0)
      /\ account.positions \in [Assets -> Position]
  BY DEF Sound, Capped, Account, Position
<1>2. order.side \in Sides /\ order.size \in Nat
  <2>1. TargetOrder(p, signal).side \in Sides /\ TargetOrder(p, signal).size \in Nat
    <3> HIDE DEF p
    <3> QED BY <1>1, TargetOrderIsOrder
  <2> QED BY <2>1
<1>3. /\ e \in Int /\ e <= order.size
      /\ p.side = Opposite(order.side) => e = order.size \/ e >= p.size
  <2> HIDE DEF order
  <2>1. OrderBounds(account, a, order.side, order.size)
    BY <1>2, ExecutedBounds
  <2> QED BY <2>1 DEF OrderBounds
<1>4. r = IF e <= 0 THEN p ELSE q
  <2> HIDE DEF order
  <2>1. CASE e <= 0
    BY <2>1, ApplyOrderCases
  <2>2. CASE ~(e <= 0)
    <3>1. next = Made(account, a, order.side, order.size, ts)
      BY <2>2, ApplyOrderCases
    <3>2. account \in Account
      BY DEF Sound
    <3>3. next.positions = [account.positions EXCEPT ![a] = q]
      <4>1. Made(account, a, order.side, order.size, ts).positions
              = [account.positions EXCEPT ![a] = Ordered(account, a, order.side, order.size, ts)]
        BY <3>2 DEF Made, Account
      <4> HIDE DEF next, order
      <4> QED BY <3>1, <4>1, Zenon
    <3> HIDE DEF q, next
    <3> QED BY <1>1, <2>2, <3>3
  <2> QED BY <2>1, <2>2
<1>5. e > 0 => OrderEffect(account, a, order.side, order.size, ts)
  <2> HIDE DEF order
  <2> QED BY <1>2, AfterOrder
<1>6. e > 0 =>
        /\ p.side # Opposite(order.side) => q.side = order.side /\ q.size = p.size + e
        /\ p.side = Opposite(order.side) /\ e < p.size
             => q.side = p.side /\ q.size = p.size - e
        /\ p.side = Opposite(order.side) /\ e = p.size => q = Flat
        /\ p.side = Opposite(order.side) /\ e > p.size
             => q.side = order.side /\ q.size = e - p.size
  <2> HIDE DEF order
  <2> QED BY <1>5 DEF OrderEffect
<1>7. /\ side \in Sides /\ target \in Nat
      /\ side = "long" => signal = target /\ signal > 0
      /\ side = "short" => signal = -target
      /\ signal # 0 => target > 0
  BY DEF SideOf, Magnitude, Sides
<1>8. /\ p.side = "flat" => order.side = side /\ order.size = target
      /\ p.side # "flat" /\ signal = 0
           => order.side = Opposite(p.side) /\ order.size = p.size
      /\ p.side = side /\ signal # 0 /\ target >= p.size
           => order.side = side /\ order.size = target - p.size
      /\ p.side = side /\ signal # 0 /\ target < p.size
           => order.side = Opposite(side) /\ order.size = p.size - target
      /\ p.side \notin {"flat", side} /\ signal # 0
           => order.side = side /\ order.size = p.size + target
  <2> HIDE DEF p
  <2> QED BY <1>1, <1>7, TargetOrderCases
<1>9. Flat.side = "flat" /\ Flat.size = 0
  BY DEF Flat
<1>10. p.side \in {"flat", "long", "short"} /\ "flat" \notin Sides
       /\ Opposite("long") = "short" /\ Opposite("short") = "long"
       /\ Sides = {"long", "short"}
  BY <1>1 DEF Position, Sides, Opposite
<1> DEFINE before == Signed(p)
           after == Signed(r)
<1> HIDE DEF p, side, target, order, e, q, next, r
<1>11. /\ before = IF p.side = "short" THEN -p.size ELSE p.size
       /\ after = IF r.side = "short" THEN -r.size ELSE r.size
  BY DEF Signed
<1> HIDE DEF before, after
<1>12. CASE signal = 0
  <2>0. OnTheWay(before, signal) = {0}
    BY <1>12 DEF OnTheWay, Lower
  <2>1. CASE p.side = "flat"
    <3>1. target = 0
      BY <1>7, <1>10, <1>12
    <3>2. r = p
      BY <1>3, <1>4, <1>7, <1>8, <2>1, <3>1
    <3>3. after = 0
      BY <1>1, <1>11, <2>1, <3>2
    <3> QED BY <2>0, <3>3 DEF after, before
  <2>2. CASE p.side # "flat"
    <3>1. p.side = Opposite(order.side) /\ order.size = p.size /\ p.size > 0
      BY <1>1, <1>8, <1>10, <1>12, <2>2
    <3>2. e = p.size
      BY <1>1, <1>3, <3>1
    <3>3. r = Flat
      BY <1>3, <1>4, <1>6, <3>1, <3>2
    <3>4. after = 0
      BY <1>9, <1>11, <3>3
    <3> QED BY <2>0, <3>4 DEF after, before
  <2> QED BY <2>1, <2>2
<1>13. CASE signal # 0
  <2> SUFFICES after \in OnTheWay(before, signal)
    BY DEF after, before
  <2>1. CASE p.side = "flat"
    <3>1. before = 0 /\ order.side = side /\ order.size = target
      BY <1>1, <1>8, <1>11, <2>1
    <3>2. p.side # Opposite(side)
      BY <1>7, <1>10, <2>1
    <3>3. \/ r.size = 0
          \/ r.side = side /\ r.size \in Nat /\ r.size <= target
      BY <1>1, <1>3, <1>4, <1>6, <2>1, <3>1, <3>2
    <3>4. after \in Int /\ (side = "long" => after \in 0..target)
          /\ (side = "short" => after \in (-target)..0)
      BY <1>7, <1>10, <1>11, <3>3
    <3> QED BY <1>7, <1>10, <1>13, <3>1, <3>4 DEF OnTheWay, Lower
  <2>2. CASE p.side = side /\ target >= p.size
    <3>1. order.side = side /\ order.size = target - p.size
      BY <1>8, <1>13, <2>2
    <3>2. p.side # Opposite(order.side)
      BY <1>7, <1>10, <2>2, <3>1
    <3>3. r.side = side /\ r.size \in Nat /\ p.size <= r.size /\ r.size <= target
      <4>1. CASE e <= 0
        BY <1>1, <1>4, <2>2, <4>1
      <4>2. CASE e > 0
        BY <1>1, <1>3, <1>4, <1>6, <1>7, <2>2, <3>1, <3>2, <4>2
      <4> QED BY <1>3, <4>1, <4>2
    <3>4. CASE side = "long"
      BY <1>1, <1>7, <1>10, <1>11, <2>2, <3>3, <3>4 DEF OnTheWay, Lower
    <3>5. CASE side = "short"
      BY <1>1, <1>7, <1>10, <1>11, <2>2, <3>3, <3>5 DEF OnTheWay, Lower
    <3> QED BY <1>7, <1>10, <3>4, <3>5
  <2>3. CASE p.side = side /\ target < p.size
    <3>1. order.side = Opposite(side) /\ order.size = p.size - target
      BY <1>8, <1>13, <2>3
    <3>2. p.side = Opposite(order.side)
      BY <1>7, <1>10, <2>3, <3>1
    <3>3. e = p.size - target
      BY <1>1, <1>3, <1>7, <1>13, <2>3, <3>1, <3>2
    <3>4. r.side = side /\ r.size = target
      BY <1>1, <1>4, <1>6, <1>7, <1>13, <2>3, <3>2, <3>3
    <3>5. CASE side = "long"
      BY <1>1, <1>7, <1>11, <2>3, <3>4, <3>5 DEF OnTheWay, Lower
    <3>6. CASE side = "short"
      BY <1>1, <1>7, <1>11, <2>3, <3>4, <3>6 DEF OnTheWay, Lower
    <3> QED BY <1>7, <1>10, <3>5, <3>6
  <2>4. CASE p.side \notin {"flat", side}
    <3>1. order.side = side /\ order.size = p.size + target
      BY <1>8, <1>13, <2>4
    <3>2. p.side = Opposite(order.side) /\ p.size > 0
      BY <1>1, <1>7, <1>10, <2>4, <3>1
    <3>3. e >= p.size /\ e > 0 /\ e <= p.size + target
      BY <1>1, <1>3, <1>7, <3>1, <3>2
    <3>4. \/ r.side = "flat" /\ r.size = 0
          \/ r.side = side /\ r.size \in Nat /\ r.size <= target
      BY <1>1, <1>3, <1>4, <1>6, <1>7, <1>9, <3>1, <3>2, <3>3
    <3>5. CASE side = "long"
      BY <1>1, <1>7, <1>10, <1>11, <2>4, <3>4, <3>5 DEF OnTheWay, Lower
    <3>6. CASE side = "short"
      BY <1>1, <1>7, <1>10, <1>11, <1>13, <2>4, <3>2, <3>4, <3>6 DEF OnTheWay, Lower
    <3> QED BY <1>7, <1>10, <3>5, <3>6
  <2> QED BY <1>1, <1>7, <2>1, <2>2, <2>3, <2>4
<1> QED BY <1>12, <1>13

-----------------------------------------------------------------------------
(* The inductive invariant *)

AccountsSound ==
  \A m \in Models : /\ Sound(accounts[m]) /\ Sound(rows[m])
                    /\ rows[m].wasted <= accounts[m].wasted

(* In the hook, a model whose row is behind is marked dirty, and no commit  *)
(* has failed.                                                              *)
SaveInv ==
  /\ phase \in {"idle", "tick"} =>
       /\ dirty = {}
       /\ session = "ok" => \A m \in Models : Settled(accounts[m]) = Settled(rows[m])
  /\ phase \in {"orders", "persist"} =>
       /\ session = "ok"
       /\ \A m \in Models \ dirty : Settled(accounts[m]) = Settled(rows[m])

IInv == TypeOK /\ AccountsSound /\ SaveInv

LEMMA InitHolds == Init => IInv
<1> SUFFICES ASSUME Init PROVE IInv
  OBVIOUS
<1>1. Sound(NoAccount)
  BY NoAccountSound
<1>2. TypeOK
  BY <1>1, CapsAreNat DEF Init, TypeOK, Sound
<1>3. AccountsSound
  BY <1>1 DEF Init, AccountsSound, NoAccount
<1>4. SaveInv
  BY DEF Init, SaveInv
<1> QED BY <1>2, <1>3, <1>4 DEF IInv

LEMMA HeadAndTail ==
  ASSUME NEW S, NEW s \in Seq(S), s # <<>>
  PROVE  Head(s) \in S /\ Tail(s) \in Seq(S)
OBVIOUS

(* Steps that touch neither the engine nor the table. *)
LEMMA QuietHolds ==
  ASSUME IInv, UNCHANGED <<accounts, rows>>
  PROVE  AccountsSound'
BY DEF IInv, AccountsSound

LEMMA BatchOfPredictions ==
  ASSUME NEW batch \in Batches
  PROVE  batch \in Seq([model : Models, asset : Assets])
BY TradingAssumption

LEMMA SignalIsInt == ASSUME NEW signal \in Signals PROVE signal \in Int
BY TradingAssumption

(* The model of the next prediction, and the accounts after its order.      *)
LEMMA ApplySignalSound ==
  ASSUME IInv, NEW signal \in Signals, ApplySignal(signal)
  PROVE  /\ Head(todo).model \in Models /\ Head(todo).asset \in Assets
         /\ Tail(todo) \in Seq([model : Models, asset : Assets])
         /\ \A m \in Models : Sound(accounts'[m])
         /\ accounts' \in [Models -> Account]
         /\ \A m \in Models : accounts'[m].wasted >= accounts[m].wasted
         /\ \A m \in Models : Settled(accounts'[m]) = Settled(accounts[m]) \/ m \in dirty'
         /\ dirty \subseteq dirty' /\ dirty' \subseteq Models
<1>1. /\ todo # <<>> /\ todo \in Seq([model : Models, asset : Assets])
      /\ dirty \subseteq Models /\ clock \in Nat /\ accounts \in [Models -> Account]
  BY DEF IInv, TypeOK, ApplySignal
<1>2. Head(todo) \in [model : Models, asset : Assets]
      /\ Tail(todo) \in Seq([model : Models, asset : Assets])
  BY <1>1, HeadAndTail
<1> DEFINE m == Head(todo).model
           a == Head(todo).asset
           order == OrderOf(accounts[m].positions[a], signal)
           next == ApplyOrder(accounts[m], a, order.side, order.size, clock)
           raised == Raises(accounts[m], a, order.side, order.size)
<1>3. m \in Models /\ a \in Assets
  BY <1>2
<1>4. Sound(accounts[m]) /\ accounts[m].positions[a] \in Position
  BY <1>3 DEF IInv, AccountsSound, Sound, Account
<1>5. order.side \in Sides /\ order.size \in Nat
  <2> HIDE DEF m, a
  <2> QED BY <1>4, SignalIsInt, OrderOfIsOrder
<1>6. /\ Sound(next) /\ next.wasted >= accounts[m].wasted
      /\ raised => Settled(next) = Settled(accounts[m])
  <2> DEFINE account == accounts[m]
             side == order.side
             size == order.size
             after == ApplyOrder(account, a, side, size, clock)
  <2> HIDE DEF m, a, order
  <2>1. clock \in Nat /\ Sound(account) /\ a \in Assets /\ side \in Sides /\ size \in Nat
    BY <1>1, <1>3, <1>4, <1>5
  <2> HIDE DEF account, side, size
  <2>2. /\ Sound(after) /\ after.wasted >= account.wasted
        /\ Raises(account, a, side, size) => Settled(after) = Settled(account)
    BY <2>1, OrderSound
  <2> QED BY <2>2 DEF account, side, size
<1>7. /\ accounts' = IF Refused(signal) THEN accounts ELSE [accounts EXCEPT ![m] = next]
      /\ dirty' = IF Refused(signal) \/ raised THEN dirty ELSE dirty \cup {m}
  BY DEF ApplySignal
<1>8. \A n \in Models : Sound(accounts[n]) /\ accounts[n].wasted \in Nat
  BY DEF IInv, AccountsSound, Sound, Account
<1> HIDE DEF m, a, next, raised
<1>9. next \in Account
  BY <1>6 DEF Sound
<1>10. \A n \in Models : Sound(accounts'[n]) /\ accounts'[n].wasted >= accounts[n].wasted
  BY <1>1, <1>3, <1>6, <1>7, <1>8
<1>11. accounts' \in [Models -> Account] /\ dirty' \subseteq Models /\ dirty \subseteq dirty'
  BY <1>1, <1>3, <1>7, <1>9
<1>12. \A n \in Models : Settled(accounts'[n]) = Settled(accounts[n]) \/ n \in dirty'
  BY <1>1, <1>3, <1>6, <1>7
<1> QED BY <1>2, <1>3, <1>10, <1>11, <1>12 DEF m, a

LEMMA NextHolds == IInv /\ [Next]_vars => IInv'
<1> SUFFICES ASSUME IInv, [Next]_vars PROVE IInv'
  OBVIOUS
<1> USE DEF IInv
<1>1. CASE Tick
  <2>1. TypeOK' /\ SaveInv'
    BY <1>1 DEF Tick, TypeOK, SaveInv
  <2> QED BY <1>1, <2>1, QuietHolds DEF Tick
<1>2. ASSUME NEW a \in Assets, NEW free \in BOOLEAN, OnRecord(a, free) PROVE IInv'
  <2>1. clock \in Nat /\ accounts \in [Models -> Account]
    BY DEF TypeOK
  <2>2. \A m \in Models : /\ accounts'[m] = AccountMarked(accounts[m], a, clock)
                         /\ rows'[m] = rows[m]
    BY <1>2 DEF OnRecord, AccountMarked
  <2>3. \A m \in Models : /\ Sound(accounts'[m]) /\ Settled(accounts'[m]) = Settled(accounts[m])
                         /\ accounts'[m].wasted = accounts[m].wasted
    BY <2>1, <2>2, MarkedSound DEF AccountsSound
  <2>4. AccountsSound'
    BY <2>2, <2>3 DEF AccountsSound
  <2>5. accounts' \in [Models -> Account]
    <3>1. accounts' = [m \in Models |-> accounts'[m]]
      BY <1>2 DEF OnRecord
    <3> QED BY <2>3, <3>1 DEF Sound
  <2>6. TypeOK'
    <3>1. zero' \subseteq Worthless
      BY <1>2 DEF OnRecord, TypeOK
    <3> QED BY <1>2, <2>5, <3>1 DEF OnRecord, TypeOK
  <2>7. phase = "idle" /\ phase' = "tick" /\ dirty' = dirty /\ session' = session /\ rows' = rows
    BY <1>2 DEF OnRecord
  <2>8. SaveInv'
    BY <2>2, <2>3, <2>7 DEF SaveInv
  <2> QED BY <2>4, <2>6, <2>8
<1>3. CASE NothingPredicted
  <2>1. TypeOK' /\ SaveInv'
    BY <1>3 DEF NothingPredicted, TypeOK, SaveInv
  <2> QED BY <1>3, <2>1, QuietHolds DEF NothingPredicted
<1>4. ASSUME NEW batch \in Batches, StartHook(batch) PROVE IInv'
  <2>1. TypeOK' /\ SaveInv'
    BY <1>4, BatchOfPredictions DEF StartHook, TypeOK, SaveInv
  <2> QED BY <1>4, <2>1, QuietHolds DEF StartHook
<1>5. CASE Skip
  <2>1. Tail(todo) \in Seq([model : Models, asset : Assets])
    BY <1>5, HeadAndTail DEF Skip, TypeOK
  <2>2. TypeOK' /\ SaveInv'
    BY <1>5, <2>1 DEF Skip, TypeOK, SaveInv
  <2> QED BY <1>5, <2>2, QuietHolds DEF Skip
<1>6. CASE NoSignal
  <2>1. /\ Tail(todo) \in Seq([model : Models, asset : Assets])
        /\ Head(todo) \in [model : Models, asset : Assets]
    BY <1>6, HeadAndTail DEF NoSignal, TypeOK
  <2>2. TypeOK' /\ SaveInv'
    BY <1>6, <2>1 DEF NoSignal, TypeOK, SaveInv
  <2> QED BY <1>6, <2>2, QuietHolds DEF NoSignal
<1>7. ASSUME NEW signal \in Signals, ApplySignal(signal) PROVE IInv'
  <2>1. /\ Tail(todo) \in Seq([model : Models, asset : Assets])
        /\ \A m \in Models : Sound(accounts'[m])
        /\ accounts' \in [Models -> Account]
        /\ \A m \in Models : accounts'[m].wasted >= accounts[m].wasted
        /\ \A m \in Models : Settled(accounts'[m]) = Settled(accounts[m]) \/ m \in dirty'
        /\ dirty \subseteq dirty' /\ dirty' \subseteq Models
    BY <1>7, ApplySignalSound
  <2>2. /\ phase = "orders" /\ phase' = "orders" /\ session' = session /\ rows' = rows
        /\ todo' = Tail(todo) /\ UNCHANGED <<mode, clock, seen, zero, faults>>
    BY <1>7 DEF ApplySignal
  <2>3. TypeOK'
    BY <2>1, <2>2 DEF TypeOK
  <2>4. AccountsSound'
    <3>1. \A m \in Models : /\ rows'[m] = rows[m] /\ Sound(rows[m])
                           /\ rows[m].wasted <= accounts[m].wasted
      BY <2>2 DEF AccountsSound
    <3>2. \A m \in Models : /\ rows[m].wasted \in Nat /\ accounts[m].wasted \in Nat
                           /\ accounts'[m].wasted \in Nat
      BY <2>1 DEF AccountsSound, Sound, Account
    <3>3. \A m \in Models : rows'[m].wasted <= accounts'[m].wasted
      BY <2>1, <3>1, <3>2
    <3> QED BY <2>1, <3>1, <3>3 DEF AccountsSound
  <2>5. SaveInv'
    BY <2>1, <2>2 DEF SaveInv
  <2> QED BY <2>3, <2>4, <2>5
<1>8. CASE StartPersist
  <2>1. TypeOK' /\ SaveInv'
    BY <1>8 DEF StartPersist, TypeOK, SaveInv
  <2> QED BY <1>8, <2>1, QuietHolds DEF StartPersist
<1>9. ASSUME NEW m \in Models, SaveState(m) PROVE IInv'
  <2>1. accounts \in [Models -> Account] /\ rows \in [Models -> Account]
    BY DEF TypeOK
  <2>2. /\ rows' = [rows EXCEPT ![m] = accounts[m]]
        /\ accounts' = accounts /\ dirty' = dirty \ {m} /\ session' = session
        /\ phase = "persist" /\ phase' = "persist"
    BY <1>9 DEF SaveState
  <2>3. TypeOK'
    BY <1>9, <2>1, <2>2 DEF SaveState, TypeOK
  <2>4. AccountsSound'
    <3>1. \A n \in Models : accounts[n].wasted \in Nat
      BY DEF AccountsSound, Sound, Account
    <3> QED BY <2>1, <2>2, <3>1 DEF AccountsSound
  <2>5. SaveInv'
    BY <2>1, <2>2 DEF SaveInv
  <2> QED BY <2>3, <2>4, <2>5
<1>10. CASE SaveStateFails
  <2>1. TypeOK' /\ SaveInv'
    BY <1>10 DEF SaveStateFails, TypeOK, SaveInv
  <2> QED BY <1>10, <2>1, QuietHolds DEF SaveStateFails
<1>11. CASE FinishHook
  <2>1. TypeOK' /\ SaveInv'
    BY <1>11 DEF FinishHook, TypeOK, SaveInv
  <2> QED BY <1>11, <2>1, QuietHolds DEF FinishHook
<1>12. CASE Restart
  <2>1. /\ accounts' = [m \in Models |-> Loaded(rows[m])] /\ rows' = rows
        /\ phase' = "idle" /\ dirty' = {} /\ session' = "ok" /\ todo' = <<>>
        /\ seen' = [a \in Assets |-> 0] /\ zero' = {} /\ faults' = faults + 1
        /\ mode' = mode /\ clock' = clock
    BY <1>12 DEF Restart
  <2>2. \A m \in Models : /\ Sound(accounts'[m]) /\ Settled(accounts'[m]) = Settled(rows'[m])
                         /\ accounts'[m].wasted = rows'[m].wasted
    BY <2>1, LoadedSound DEF AccountsSound
  <2>3. AccountsSound'
    <3>1. \A m \in Models : rows'[m].wasted \in Nat /\ Sound(rows'[m])
      BY <2>1 DEF AccountsSound, Sound, Account
    <3>2. \A m \in Models : rows'[m].wasted <= accounts'[m].wasted
      BY <2>2, <3>1
    <3> QED BY <2>2, <3>1, <3>2 DEF AccountsSound
  <2>4. accounts' \in [Models -> Account]
    <3>1. accounts' = [m \in Models |-> accounts'[m]]
      BY <2>1
    <3> QED BY <2>2, <3>1 DEF Sound
  <2>5. TypeOK'
    BY <2>1, <2>4 DEF TypeOK
  <2>6. SaveInv'
    BY <2>1, <2>2 DEF SaveInv
  <2> QED BY <2>3, <2>5, <2>6
<1>13. CASE OtherCommitFails
  <2>1. TypeOK' /\ SaveInv'
    BY <1>13 DEF OtherCommitFails, TypeOK, SaveInv
  <2> QED BY <1>13, <2>1, QuietHolds DEF OtherCommitFails
<1>14. CASE UNCHANGED vars
  <2>1. TypeOK' /\ SaveInv'
    BY <1>14 DEF vars, TypeOK, SaveInv, Settled
  <2> QED BY <1>14, <2>1, QuietHolds DEF vars
<1> QED
  BY <1>1, <1>2, <1>3, <1>4, <1>5, <1>6, <1>7, <1>8, <1>9, <1>10, <1>11, <1>12, <1>13, <1>14
  DEF Next, Hook

LEMMA IInvAlways == Spec => []IInv
BY InitHolds, NextHolds, PTL DEF Spec

-----------------------------------------------------------------------------
(* Every variable keeps its type. *)
THEOREM TypeCorrect == Spec => []TypeOK
<1>1. IInv => TypeOK
  BY DEF IInv
<1> QED BY <1>1, IInvAlways, PTL

(* The caps hold in the engine and in the table, for any order of signals,  *)
(* marks, failed commits and restarts.                                      *)
THEOREM CapsHold == Spec => []WithinCaps
<1>1. IInv => WithinCaps
  BY DEF IInv, AccountsSound, Sound, Capped, WithinCaps
<1> QED BY <1>1, IInvAlways, PTL

(* Fees account for the positions, trades and failed orders of a model.     *)
THEOREM FeesAccounted == Spec => []FeesMatchTrades
<1>1. IInv => FeesMatchTrades
  BY DEF IInv, AccountsSound, Sound, FeesMatchTrades
<1> QED BY <1>1, IInvAlways, PTL

(* Between ticks the table has what the engine has, but for the fees of     *)
(* orders that failed, unless a commit failed.                              *)
THEOREM SavedHolds == Spec => []SavedBetweenTicks
<1>1. IInv => SavedBetweenTicks
  BY DEF IInv, AccountsSound, SaveInv, SavedBetweenTicks
<1> QED BY <1>1, IInvAlways, PTL

(* In target mode an order takes a position towards its target, never past  *)
(* it, whatever room the caps leave; one whose entry price is zero may stay *)
(* where it is.                                                             *)
THEOREM TargetsApproached == Spec => TowardsTarget
<1> DEFINE Step(signal) ==
      LET m == Head(todo).model
          a == Head(todo).asset
          before == Signed(accounts[m].positions[a])
          after == Signed(accounts'[m].positions[a])
      IN  \/ after \in OnTheWay(before, signal)
          \/ accounts[m].positions[a].free /\ after = before
<1>1. ASSUME IInv, mode = "target", NEW signal \in Signals, ApplySignal(signal)
      PROVE  Step(signal)
  <2> DEFINE m == Head(todo).model
             a == Head(todo).asset
             order == TargetOrder(accounts[m].positions[a], signal)
             next == ApplyOrder(accounts[m], a, order.side, order.size, clock)
             raised == Raises(accounts[m], a, order.side, order.size)
  <2>1. m \in Models /\ a \in Assets
    BY <1>1, ApplySignalSound
  <2>2. Sound(accounts[m]) /\ clock \in Nat /\ accounts \in [Models -> Account]
        /\ accounts[m].positions[a] \in Position
    BY <1>1, <2>1 DEF IInv, TypeOK, AccountsSound, Sound, Account
  <2>3. accounts' = [accounts EXCEPT ![m] = next]
    BY <1>1 DEF ApplySignal, OrderOf, Refused
  <2>4. accounts'[m] = next
    <3> HIDE DEF m, next
    <3> QED BY <2>1, <2>2, <2>3, Zenon
  <2>5. CASE ~raised
    <3>1. Signed(next.positions[a]) \in OnTheWay(Signed(accounts[m].positions[a]), signal)
      <4> HIDE DEF m, a
      <4> QED BY <2>1, <2>2, <2>5, SignalIsInt, TargetReached, Zenon
    <3> QED BY <2>4, <3>1, Zenon
  <2>6. CASE raised
    <3>1. order.side \in Sides /\ order.size \in Nat
      <4> HIDE DEF m, a
      <4> QED BY <2>2, SignalIsInt, TargetOrderIsOrder
    <3>2. next.positions = accounts[m].positions
      <4> HIDE DEF m, a, order
      <4> QED BY <2>1, <2>2, <2>6, <3>1, OrderSound
    <3>3. accounts[m].positions[a].free
      BY <2>6 DEF Raises
    <3> QED BY <2>4, <3>2, <3>3, Zenon
  <2> QED BY <2>5, <2>6
<1>2. IInv /\ [Next]_vars
        => [mode = "target" => \A signal \in Signals : ApplySignal(signal) => Step(signal)]_vars
  BY <1>1
<1> QED BY <1>2, IInvAlways, PTL DEF Spec, TowardsTarget
=============================================================================
