------------------------------ MODULE Averages ------------------------------
(***************************************************************************)
(* Sums and averages.  The code computes them in floating point; here a     *)
(* value is a fraction <<num, den>>, den > 0, computed exactly and never    *)
(* reduced.                                                                 *)
(***************************************************************************)
EXTENDS Integers, Sequences

Plus(a, b)    == <<a[1] * b[2] + b[1] * a[2], a[2] * b[2]>>
Minus(a, b)   == <<a[1] * b[2] - b[1] * a[2], a[2] * b[2]>>
Times(a, b)   == <<a[1] * b[1], a[2] * b[2]>>
Over(a, b)    == <<a[1] * b[2], a[2] * b[1]>>
Square(a)     == Times(a, a)
Whole(n)      == <<n, 1>>
Greater(a, b) == a[1] * b[2] > b[1] * a[2]
AtMost(a, b)  == a[1] * b[2] <= b[1] * a[2]

(* Of a sequence of numbers. *)
SumOf(f) ==
  LET sum[i \in 0 .. Len(f)] == IF i = 0 THEN 0 ELSE sum[i - 1] + f[i]
  IN  sum[Len(f)]

(* Of the fractions f[x] of the elements x of a finite set. *)
SumOver(S, f) ==
  LET sum[T \in SUBSET S] ==
        IF T = {} THEN Whole(0)
        ELSE LET x == CHOOSE x \in T : TRUE
             IN  Plus(sum[T \ {x}], f[x])
  IN  sum[S]
=============================================================================
