--------------------------- MODULE ObjectiveScale ---------------------------
(***************************************************************************)
(* The scale an objective is expected on: normalised from what the planner *)
(* said, tested by the reward, and widened by a margin for the search's    *)
(* final choice (reward/default_reward.py, mcts/tree.py).  Objectives are  *)
(* integers in units far above the code's epsilon of 1e-9.                 *)
(***************************************************************************)
EXTENDS Integers, Sequences, FiniteSets, Selections

CONSTANTS
  Unbounded,                \* an absent number, None in the code
  MarginNum, MarginDen      \* the ratio by which bounds are widened

ASSUME ScaleAssumption ==
  /\ Unbounded \notin Int
  /\ MarginNum \in Nat /\ MarginDen \in Nat \ {0}

Kinds == {"interval", "point", "union"}
Signs == {"any", "positive", "nonnegative", "negative", "nonpositive", "nonzero"}

Bounds == Int \cup {Unbounded}
Intervals == [lower : Bounds, upper : Bounds]

\* ranges: one for an interval, any number for a union, none for a point.
IsScale(s) ==
  /\ s.kind \in Kinds /\ s.sign \in Signs /\ s.ranges \in Seq(Intervals)
  /\ s.kind = "interval" => Len(s.ranges) = 1
  /\ s.point \in Bounds /\ s.minOrder \in Bounds /\ s.maxOrder \in Bounds
  /\ s.tolAbs \in Int /\ s.tolPercent \in Int /\ s.useAbs \in BOOLEAN
  /\ s = [kind |-> s.kind, ranges |-> s.ranges, point |-> s.point, tolAbs |-> s.tolAbs,
          tolPercent |-> s.tolPercent, sign |-> s.sign, minOrder |-> s.minOrder,
          maxOrder |-> s.maxOrder, useAbs |-> s.useAbs, reject |-> s.reject]

Magnitude(x) == IF x < 0 THEN -x ELSE x

Bounded(r) == r.lower # Unbounded \/ r.upper # Unbounded

\* Bounds in the wrong order are swapped.
InOrder(r) ==
  IF r.lower # Unbounded /\ r.upper # Unbounded /\ r.lower > r.upper
  THEN [lower |-> r.upper, upper |-> r.lower] ELSE r

\* _normalize_scale_spec: a union drops its empty ranges.
Normalized(s) ==
  LET sorted == [i \in DOMAIN s.ranges |-> InOrder(s.ranges[i])]
      orders == InOrder([lower |-> s.minOrder, upper |-> s.maxOrder])
  IN  [s EXCEPT !.ranges = IF s.kind = "union"
                            THEN Selected(sorted, {i \in DOMAIN sorted : Bounded(sorted[i])}) ELSE sorted,
                !.minOrder = orders.lower, !.maxOrder = orders.upper]

InRange(v, r) ==
  /\ r.lower # Unbounded => v >= r.lower
  /\ r.upper # Unbounded => v <= r.upper

HasSign(v, sign) ==
  CASE sign = "positive" -> v > 0
    [] sign = "nonnegative" -> v >= 0
    [] sign = "negative" -> v < 0
    [] sign = "nonpositive" -> v <= 0
    [] sign = "nonzero" -> v # 0
    [] OTHER -> TRUE

\* Numbers in the scale itself, which switch the order of magnitude off.
ExplicitBounds(s) ==
  IF s.kind = "point" THEN s.point # Unbounded
  ELSE \E i \in DOMAIN s.ranges : Bounded(s.ranges[i])

WithinBounds(v, s) ==
  CASE s.kind = "interval" -> InRange(v, s.ranges[1])
    [] s.kind = "union" ->
         s.ranges # << >> => \E i \in DOMAIN s.ranges : InRange(v, s.ranges[i])
    [] s.kind = "point" ->
         s.point # Unbounded =>
           \/ Magnitude(v - s.point) <= s.tolAbs
           \/ 100 * Magnitude(v - s.point) <= s.tolPercent * Magnitude(s.point)

\* floor(log10(x)) of an x below 10 ^ 10
OrderOf(x) == Cardinality({o \in 1..9 : 10 ^ o <= x})

\* The order of magnitude counts only where there is no explicit bound.
OrderFits(v, s) ==
  LET x == IF s.useAbs THEN Magnitude(v) ELSE v IN
  ~ExplicitBounds(s) /\ (s.minOrder # Unbounded \/ s.maxOrder # Unbounded) =>
    /\ x > 0
    /\ InRange(OrderOf(x), [lower |-> s.minOrder, upper |-> s.maxOrder])

\* _objective_matches_scale
Matches(v, s) ==
  /\ v \notin s.reject
  /\ HasSign(v, s.sign)
  /\ WithinBounds(v, s)
  /\ OrderFits(v, s)

Margin(b) == (Magnitude(b) * MarginNum) \div MarginDen

Widened(r) ==
  InOrder([lower |-> IF r.lower = Unbounded THEN Unbounded ELSE r.lower - Margin(r.lower),
           upper |-> IF r.upper = Unbounded THEN Unbounded ELSE r.upper + Margin(r.upper)])

\* _expand_obj_scale_margin: points stay as they are.
Expanded(s) ==
  IF s.kind = "point" THEN s
  ELSE [s EXCEPT !.ranges = [i \in DOMAIN s.ranges |-> Widened(s.ranges[i])]]
-----------------------------------------------------------------------------
\* The scale used for the final choice, widened by the margin, takes every
\* objective that the reward's scale took, whatever signs the bounds have and
\* in whatever order the planner gave them.
ExpansionKeepsMatches(v, raw) ==
  LET scale == Normalized(raw)
      swapped == [raw EXCEPT !.ranges = [i \in DOMAIN @ |-> [lower |-> @[i].upper, upper |-> @[i].lower]]]
  IN  /\ Matches(v, scale) => Matches(v, Expanded(scale))
      /\ Normalized(scale) = scale
      /\ \A i \in DOMAIN raw.ranges :
           raw.ranges[i].lower # Unbounded /\ raw.ranges[i].upper # Unbounded =>
             Normalized([raw EXCEPT !.ranges[i] = swapped.ranges[i]]) = scale
=============================================================================
