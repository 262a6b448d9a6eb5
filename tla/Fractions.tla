----------------------------- MODULE Fractions -----------------------------
(***************************************************************************)
(* Exact fractions for the modules whose code computes with floats: pairs  *)
(* <<numerator, denominator>> in lowest terms with a positive denominator, *)
(* so equal fractions are equal pairs.                                     *)
(***************************************************************************)
EXTENDS Integers, Sequences, SequencesExt

Abs(x) == IF x < 0 THEN -x ELSE x

Gcd[p \in Nat \X Nat] == IF p[2] = 0 THEN p[1] ELSE Gcd[<<p[2], p[1] % p[2]>>]

Frac(n, d) ==
  LET g == Gcd[<<Abs(n), Abs(d)>>]
      s == IF d < 0 THEN -1 ELSE 1
  IN  <<(s * n) \div g, (s * d) \div g>>

Whole(n) == <<n, 1>>
Zero == Whole(0)
One == Whole(1)

Plus(a, b) == Frac(a[1] * b[2] + b[1] * a[2], a[2] * b[2])
Minus(a, b) == Frac(a[1] * b[2] - b[1] * a[2], a[2] * b[2])
Times(a, b) == Frac(a[1] * b[1], a[2] * b[2])
Over(a, b) == Frac(a[1] * b[2], a[2] * b[1])
AtMost(a, b) == a[1] * b[2] <= b[1] * a[2]

\* The sum of a sequence of fractions.
Sum(fractions) == FoldLeft(Plus, Zero, fractions)
=============================================================================
