-------------------------- MODULE AlgorithmProofs --------------------------
(***************************************************************************)
(* Proofs about the other pure algorithms, for all their inputs: scales    *)
(* and their widening (ObjectiveScale), test plans, patches and            *)
(* perturbations (R3Planning), a group's bookkeeping (GrpoGroup), the      *)
(* dispatch of a batch over ranks (BatchDispatch) and the advantage        *)
(* estimators (Advantages). The theorems about MCAlgorithms apply these    *)
(* and those of RewardProofs to the inputs its runs choose.                *)
(***************************************************************************)
EXTENDS MCAlgorithms, RewardProofs
-----------------------------------------------------------------------------
(* Numbers, finite sets of them, and selections.                           *)

\* There is only one increasing listing.
LEMMA ListedUnique ==
  ASSUME NEW I \in SUBSET Int, IsFiniteSet(I), NEW n \in Nat, NEW f \in [1..n -> I],
         \A k, m \in 1..n : k < m => f[k] < f[m],
         \A i \in I : \E k \in 1..n : f[k] = i
  PROVE  Listed(I) = f /\ Cardinality(I) = n
<1>1. \A k, m \in 1..n : f[k] = f[m] => k = m
  <2> SUFFICES ASSUME NEW k \in 1..n, NEW m \in 1..n, f[k] = f[m] PROVE k = m
    OBVIOUS
  <2>1. f[k] \in Int
    OBVIOUS
  <2>2. ~(k < m) /\ ~(m < k)
    BY <2>1
  <2> QED BY <2>2
<1>2. f \in Bijection(1..n, I)
  BY <1>1 DEF Bijection, Injection, Surjection, IsInjective
<1>3. Cardinality(I) = n
  BY <1>2, FS_CountingElements DEF ExistsBijection
<1> DEFINE l == Listed(I)
<1>4. /\ l \in [1..n -> I]
      /\ \A m, k \in 1..n : m < k => l[m] < l[k]
      /\ \A i \in I : \E k \in 1..n : l[k] = i
  BY <1>3, ListedFacts
<1> DEFINE Bad == {k \in 1..n : l[k] # f[k]}
<1>5. SUFFICES ASSUME Bad # {} PROVE FALSE
  BY <1>3, <1>4
<1>6. PICK k \in Bad : \A m \in Bad : k <= m
  <2>1. Bad \in SUBSET Nat
    OBVIOUS
  <2> HIDE DEF Bad
  <2> QED BY <1>5, <2>1, LeastElement
<1> HIDE DEF l
<1>7. k \in 1..n /\ l[k] # f[k] /\ \A m \in 1..n : m < k => l[m] = f[m]
  BY <1>6
<1>8. PICK a \in 1..n : l[a] = f[k]
  BY <1>4, <1>7
<1>9. PICK b \in 1..n : f[b] = l[k]
  BY <1>4, <1>7
<1>10. /\ l[a] \in Int /\ l[k] \in Int /\ f[k] \in Int /\ f[b] \in Int
       /\ (a < k => l[a] = f[a]) /\ (b < k => l[b] = f[b])
  BY <1>4, <1>7
<1>11. a > k
  BY <1>1, <1>10, <1>7, <1>8
<1>12. b > k
  <2>1. \A m \in 1..n : l[m] = l[k] => m = k
    <3> SUFFICES ASSUME NEW m \in 1..n, l[m] = l[k] PROVE m = k
      OBVIOUS
    <3>1. ~(m < k) /\ ~(k < m)
      BY <1>4, <1>7, <1>10
    <3> QED BY <1>7, <3>1
  <2>2. ~(b < k)
    BY <1>10, <1>7, <1>9, <2>1
  <2> QED BY <1>7, <1>9, <2>2
<1>13. l[k] < f[k]
  BY <1>4, <1>7, <1>8, <1>11
<1>14. f[k] < l[k]
  BY <1>7, <1>9, <1>12
<1> QED BY <1>10, <1>13, <1>14

\* What is selected, and where it comes from.
LEMMA SelectedFacts ==
  ASSUME NEW s, NEW I \in SUBSET Int, IsFiniteSet(I)
  PROVE  /\ Cardinality(I) \in Nat
         /\ DOMAIN Selected(s, I) = 1..Cardinality(I)
         /\ \A n \in 1..Cardinality(I) : \E i \in I : Selected(s, I)[n] = s[i]
         /\ \A i \in I : \E n \in 1..Cardinality(I) : Selected(s, I)[n] = s[i]
         /\ Selected(s, I) = << >> <=> I = {}
<1> DEFINE c == Cardinality(I)
           l == Listed(I)
<1>1. /\ c \in Nat
      /\ l \in [1..c -> I]
      /\ \A i \in I : \E n \in 1..c : l[n] = i
  BY ListedFacts
<1>2. Selected(s, I) = [n \in 1..c |-> s[l[n]]]
  BY DEF Selected
<1>3. Selected(s, I) = << >> <=> c = 0
  BY <1>1, <1>2
<1>4. c = 0 <=> I = {}
  BY FS_EmptySet
<1> HIDE DEF c, l
<1>5. /\ DOMAIN Selected(s, I) = 1..c
      /\ \A n \in 1..c : Selected(s, I)[n] = s[l[n]]
  BY <1>2
<1>6. \A n \in 1..c : \E i \in I : Selected(s, I)[n] = s[i]
  BY <1>1, <1>5
<1>7. \A i \in I : \E n \in 1..c : Selected(s, I)[n] = s[i]
  BY <1>1, <1>5
<1> QED BY <1>1, <1>3, <1>4, <1>5, <1>6, <1>7 DEF c

\* Nothing is lost where everything is selected.
LEMMA SelectAll ==
  ASSUME NEW s, NEW n \in Nat, DOMAIN s = 1..n, s = [i \in 1..n |-> s[i]]
  PROVE  Selected(s, 1..n) = s
<1> DEFINE f == [i \in 1..n |-> i]
<1>1. IsFiniteSet(1..n) /\ 1..n \in SUBSET Int
  BY FS_Interval
<1>2. f \in [1..n -> 1..n]
  OBVIOUS
<1>3. /\ \A k, m \in 1..n : k < m => f[k] < f[m]
      /\ \A i \in 1..n : \E k \in 1..n : f[k] = i
  OBVIOUS
<1>4. Listed(1..n) = f /\ Cardinality(1..n) = n
  BY <1>1, <1>2, <1>3, ListedUnique
<1> QED BY <1>4 DEF Selected

-----------------------------------------------------------------------------
(* Scales.                                                                 *)

\* A margin is a size.
LEMMA MarginIsSize ==
  ASSUME NEW b \in Int
  PROVE  Margin(b) \in Nat
<1> DEFINE p == Magnitude(b) * MarginNum
<1>1. Magnitude(b) \in Nat
  BY DEF Magnitude
<1>2. p \in Nat
  BY <1>1, ScaleAssumption
<1>3. p \div MarginDen \in Nat
  BY <1>2, ScaleAssumption
<1> QED BY <1>3 DEF Margin

\* Putting bounds in order keeps which of them there are, and is done once.
LEMMA InOrderFacts ==
  ASSUME NEW r \in Intervals
  PROVE  /\ InOrder(r) \in Intervals
         /\ Bounded(InOrder(r)) <=> Bounded(r)
         /\ InOrder(InOrder(r)) = InOrder(r)
         /\ r.lower # Unbounded /\ r.upper # Unbounded =>
              InOrder([lower |-> r.upper, upper |-> r.lower]) = InOrder(r)
<1>1. /\ r = [lower |-> r.lower, upper |-> r.upper]
      /\ r.lower \in Int \cup {Unbounded} /\ r.upper \in Int \cup {Unbounded}
  BY DEF Intervals, Bounds
<1> DEFINE l == r.lower
           u == r.upper
           q == [lower |-> u, upper |-> l]
<1>2. CASE l # Unbounded /\ u # Unbounded /\ l > u
  BY <1>1, <1>2 DEF InOrder, Intervals, Bounds, Bounded
<1>3. CASE l # Unbounded /\ u # Unbounded /\ ~(l > u)
  BY <1>1, <1>3 DEF InOrder, Bounded
<1>4. CASE l = Unbounded \/ u = Unbounded
  BY <1>4 DEF InOrder
<1> QED BY <1>2, <1>3, <1>4

\* A widened range holds what the range does, and is bounded where it is.
LEMMA WidenedFacts ==
  ASSUME NEW r \in Intervals
  PROVE  /\ Widened(r) \in Intervals
         /\ Bounded(Widened(r)) <=> Bounded(r)
         /\ InOrder(Widened(r)) = Widened(r)
         /\ \A v \in Int : InRange(v, r) => InRange(v, Widened(r))
<1> DEFINE l == IF r.lower = Unbounded THEN Unbounded ELSE r.lower - Margin(r.lower)
           u == IF r.upper = Unbounded THEN Unbounded ELSE r.upper + Margin(r.upper)
           w == [lower |-> l, upper |-> u]
<1>1. r.lower \in Bounds /\ r.upper \in Bounds /\ Unbounded \notin Int
  BY ScaleAssumption DEF Intervals
<1>2. CASE r.lower = Unbounded
  <2>1. l = Unbounded
    BY <1>2
  <2>2. u \in Bounds /\ (u = Unbounded <=> r.upper = Unbounded)
        /\ \A v \in Int : r.upper # Unbounded /\ v <= r.upper => v <= u
    BY <1>1, MarginIsSize DEF Bounds
  <2> HIDE DEF l, u
  <2>3. w \in Intervals /\ w.lower = l /\ w.upper = u
    BY <2>1, <2>2 DEF Intervals, Bounds
  <2>4. InOrder(w) = w
    BY <2>1, <2>3 DEF InOrder
  <2>5. Widened(r) = InOrder(w)
    BY DEF Widened, l, u
  <2> HIDE DEF w
  <2>6. \A v \in Int : InRange(v, r) => InRange(v, w)
    BY <1>2, <2>1, <2>2, <2>3 DEF InRange
  <2> QED BY <1>2, <2>1, <2>2, <2>3, <2>4, <2>5, <2>6 DEF Bounded
<1>3. CASE r.lower # Unbounded /\ r.upper = Unbounded
  <2>1. u = Unbounded
    BY <1>3
  <2>2. l \in Int /\ \A v \in Int : v >= r.lower => v >= l
    BY <1>1, <1>3, MarginIsSize DEF Bounds
  <2> HIDE DEF l, u
  <2>3. w \in Intervals /\ w.lower = l /\ w.upper = u
    BY <2>1, <2>2 DEF Intervals, Bounds
  <2>4. InOrder(w) = w
    BY <2>1, <2>3 DEF InOrder
  <2>5. Widened(r) = InOrder(w)
    BY DEF Widened, l, u
  <2> HIDE DEF w
  <2>6. \A v \in Int : InRange(v, r) => InRange(v, w)
    BY <1>3, <2>1, <2>2, <2>3 DEF InRange
  <2>7. l # Unbounded
    BY <1>1, <2>2
  <2> QED BY <1>3, <2>1, <2>2, <2>3, <2>4, <2>5, <2>6, <2>7 DEF Bounded
<1>4. CASE r.lower # Unbounded /\ r.upper # Unbounded
  <2>1. /\ l \in Int /\ u \in Int
        /\ l <= r.lower /\ r.upper <= u /\ r.lower \in Int /\ r.upper \in Int
    BY <1>1, <1>4, MarginIsSize DEF Bounds
  <2> HIDE DEF l, u
  <2>2. w \in Intervals /\ w.lower = l /\ w.upper = u
    BY <2>1 DEF Intervals, Bounds
  <2>3. Widened(r) = InOrder(w)
    BY DEF Widened, l, u
  <2> HIDE DEF w
  <2>4. ASSUME NEW v \in Int, InRange(v, r) PROVE InRange(v, InOrder(w))
    BY <1>4, <2>1, <2>2, <2>4 DEF InRange, InOrder
  <2>5. l # Unbounded /\ u # Unbounded
    BY <1>1, <2>1
  <2> QED BY <1>4, <2>2, <2>3, <2>4, <2>5, InOrderFacts DEF Bounded
<1> QED BY <1>2, <1>3, <1>4

\* A sequence of ranges as it is, and its type.
LEMMA RangesFacts ==
  ASSUME NEW s, IsScale(s)
  PROVE  /\ Len(s.ranges) \in Nat /\ DOMAIN s.ranges = 1..Len(s.ranges)
         /\ \A i \in DOMAIN s.ranges : s.ranges[i] \in Intervals
  BY DEF IsScale

MagnitudeBounds(s) == [lower |-> s.minOrder, upper |-> s.maxOrder]

\* A scale that normalising leaves alone.
IsNormal(s) ==
  /\ IsScale(s)
  /\ \A i \in DOMAIN s.ranges : InOrder(s.ranges[i]) = s.ranges[i]
  /\ s.kind = "union" => \A i \in DOMAIN s.ranges : Bounded(s.ranges[i])
  /\ InOrder(MagnitudeBounds(s)) = MagnitudeBounds(s)

\* A scale with other ranges and orders.
Changed(s, R, lo, hi) == [s EXCEPT !.ranges = R, !.minOrder = lo, !.maxOrder = hi]
Unchanged(s, t) ==
  /\ t.kind = s.kind /\ t.point = s.point /\ t.tolAbs = s.tolAbs
  /\ t.tolPercent = s.tolPercent /\ t.sign = s.sign /\ t.useAbs = s.useAbs
  /\ t.reject = s.reject

\* A scale with other ranges is the scale otherwise.
LEMMA OtherRanges ==
  ASSUME NEW s, IsScale(s), NEW R \in Seq(Intervals), NEW lo \in Bounds, NEW hi \in Bounds,
         s.kind = "interval" => Len(R) = 1
  PROVE  LET t == Changed(s, R, lo, hi) IN
         IsScale(t) /\ t.ranges = R /\ t.minOrder = lo /\ t.maxOrder = hi /\ Unchanged(s, t)
<1> DEFINE t == Changed(s, R, lo, hi)
<1> DEFINE q == [kind |-> s.kind, ranges |-> R, point |-> s.point, tolAbs |-> s.tolAbs,
                 tolPercent |-> s.tolPercent, sign |-> s.sign, minOrder |-> lo,
                 maxOrder |-> hi, useAbs |-> s.useAbs, reject |-> s.reject]
           F == {"kind", "ranges", "point", "tolAbs", "tolPercent", "sign", "minOrder", "maxOrder",
                 "useAbs", "reject"}
<1>1. DOMAIN s = F
  BY DEF IsScale
<1>2. /\ t = [x \in F |-> t[x]]
      /\ t.ranges = R /\ t.minOrder = lo /\ t.maxOrder = hi
      /\ t.kind = s.kind /\ t.point = s.point /\ t.tolAbs = s.tolAbs
      /\ t.tolPercent = s.tolPercent /\ t.sign = s.sign /\ t.useAbs = s.useAbs
      /\ t.reject = s.reject
  BY <1>1 DEF Changed
<1>3. q = [x \in F |-> q[x]]
  OBVIOUS
<1>4. \A x \in F : t[x] = q[x]
  BY <1>2
<1>5. t = q
  BY <1>2, <1>3, <1>4
<1>6. IsScale(q)
  BY DEF IsScale
<1> HIDE DEF q, t
<1> QED BY <1>2, <1>5, <1>6 DEF t, Unchanged

\* What is not changed by it.
LEMMA SameRanges ==
  ASSUME NEW s, IsScale(s)
  PROVE  Changed(s, s.ranges, s.minOrder, s.maxOrder) = s
  BY DEF IsScale, Changed

\* The ranges in order.
Sorted(s) == [i \in DOMAIN s.ranges |-> InOrder(s.ranges[i])]
KeptPositions(R) == {i \in DOMAIN R : Bounded(R[i])}

\* Sorting the bounds of each range gives ranges in order.
LEMMA SortedFacts ==
  ASSUME NEW s, IsScale(s)
  PROVE  /\ Sorted(s) \in Seq(Intervals) /\ Len(Sorted(s)) = Len(s.ranges)
         /\ DOMAIN Sorted(s) = 1..Len(s.ranges) /\ DOMAIN s.ranges = 1..Len(s.ranges)
         /\ \A i \in DOMAIN s.ranges : /\ s.ranges[i] \in Intervals
                                       /\ Sorted(s)[i] = InOrder(s.ranges[i])
                                       /\ InOrder(Sorted(s)[i]) = Sorted(s)[i]
                                       /\ Bounded(Sorted(s)[i]) <=> Bounded(s.ranges[i])
<1>1. s.ranges \in Seq(Intervals)
  BY DEF IsScale
<1>2. \A i \in DOMAIN s.ranges : s.ranges[i] \in Intervals /\ InOrder(s.ranges[i]) \in Intervals
  BY RangesFacts, InOrderFacts
<1>3. Sorted(s) \in Seq(Intervals) /\ Len(Sorted(s)) = Len(s.ranges)
  BY <1>1, <1>2 DEF Sorted
<1>4. \A i \in DOMAIN s.ranges : Sorted(s)[i] = InOrder(s.ranges[i])
  BY DEF Sorted
<1>5. DOMAIN Sorted(s) = 1..Len(s.ranges) /\ DOMAIN s.ranges = 1..Len(s.ranges)
  BY <1>1 DEF Sorted
<1> QED BY <1>2, <1>3, <1>4, <1>5, InOrderFacts

\* The ranges a normalised scale has.
NormalRanges(s) == IF s.kind = "union" THEN Selected(Sorted(s), KeptPositions(Sorted(s))) ELSE Sorted(s)

\* The ranges of a normalised scale are in order, and bounded in a union.
LEMMA NormalRangesFacts ==
  ASSUME NEW s, IsScale(s)
  PROVE  /\ NormalRanges(s) \in Seq(Intervals)
         /\ s.kind = "interval" => Len(NormalRanges(s)) = 1
         /\ \A i \in DOMAIN NormalRanges(s) : InOrder(NormalRanges(s)[i]) = NormalRanges(s)[i]
         /\ s.kind = "union" => \A i \in DOMAIN NormalRanges(s) : Bounded(NormalRanges(s)[i])
<1> DEFINE R == Sorted(s)
           I == KeptPositions(R)
           c == Cardinality(I)
           S == Selected(R, I)
<1>1. /\ R \in Seq(Intervals) /\ DOMAIN R = 1..Len(s.ranges) /\ Len(R) = Len(s.ranges)
      /\ \A i \in DOMAIN R : R[i] \in Intervals /\ InOrder(R[i]) = R[i]
      /\ Len(s.ranges) \in Nat
  BY SortedFacts, RangesFacts DEF R
<1>2. I \in SUBSET (1..Len(s.ranges)) /\ \A i \in I : Bounded(R[i])
  BY <1>1 DEF KeptPositions
<1>3. IsFiniteSet(I) /\ I \in SUBSET Int
  <2> HIDE DEF I, R
  <2>1. IsFiniteSet(1..Len(s.ranges))
    BY <1>1, FS_Interval
  <2>2. IsFiniteSet(I)
    BY <1>2, <2>1, FS_Subset
  <2> QED BY <1>1, <1>2, <2>2
<1>4. /\ c \in Nat /\ DOMAIN S = 1..c
      /\ \A n \in 1..c : \E i \in I : S[n] = R[i]
  BY <1>3, SelectedFacts
<1>5. \A n \in DOMAIN S : S[n] \in Intervals /\ InOrder(S[n]) = S[n] /\ Bounded(S[n])
  BY <1>1, <1>2, <1>4
<1>6. S \in Seq(Intervals)
  BY <1>4, <1>5 DEF Selected
<1>7. s.kind = "interval" => Len(R) = 1
  BY <1>1 DEF IsScale
<1> HIDE DEF S, I, R, c
<1> QED BY <1>1, <1>5, <1>6, <1>7 DEF NormalRanges, S, I, R

\* Normalising changes the ranges and the orders only.
LEMMA NormalizedIs ==
  ASSUME NEW s
  PROVE  Normalized(s) = Changed(s, NormalRanges(s), InOrder(MagnitudeBounds(s)).lower, InOrder(MagnitudeBounds(s)).upper)
  BY DEF Normalized, NormalRanges, Sorted, KeptPositions, MagnitudeBounds, Changed

\* Normalising makes a scale normal, and changes ranges and orders only.
LEMMA NormalizedIsNormal ==
  ASSUME NEW s, IsScale(s)
  PROVE  /\ IsNormal(Normalized(s))
         /\ Unchanged(s, Normalized(s)) /\ Normalized(s).ranges = NormalRanges(s)
<1> DEFINE o == MagnitudeBounds(s)
           R == NormalRanges(s)
           n == Normalized(s)
<1>1. o \in Intervals
  BY DEF IsScale, MagnitudeBounds, Intervals
<1>2. InOrder(o) \in Intervals /\ InOrder(InOrder(o)) = InOrder(o)
  BY <1>1, InOrderFacts
<1>3. /\ R \in Seq(Intervals) /\ (s.kind = "interval" => Len(R) = 1)
      /\ \A i \in DOMAIN R : InOrder(R[i]) = R[i]
      /\ s.kind = "union" => \A i \in DOMAIN R : Bounded(R[i])
  BY NormalRangesFacts
<1>4. InOrder(o).lower \in Bounds /\ InOrder(o).upper \in Bounds
      /\ InOrder(o) = [lower |-> InOrder(o).lower, upper |-> InOrder(o).upper]
  BY <1>2 DEF Intervals
<1>5. n = Changed(s, R, InOrder(o).lower, InOrder(o).upper)
  BY NormalizedIs
<1> HIDE DEF o, R, n
<1>6. /\ IsScale(n) /\ n.ranges = R /\ n.minOrder = InOrder(o).lower /\ n.maxOrder = InOrder(o).upper
      /\ Unchanged(s, n)
  BY <1>3, <1>4, <1>5, OtherRanges
<1>7. MagnitudeBounds(n) = InOrder(o)
  BY <1>4, <1>6 DEF MagnitudeBounds
<1>8. IsNormal(n)
  BY <1>2, <1>3, <1>6, <1>7 DEF IsNormal, Unchanged
<1> QED BY <1>6, <1>8 DEF n, R

\* A normal scale is not changed by normalising.
LEMMA NormalStays ==
  ASSUME NEW s, IsNormal(s)
  PROVE  Normalized(s) = s
<1>1. IsScale(s)
  BY DEF IsNormal
<1>2. s.ranges \in Seq(Intervals) /\ DOMAIN s.ranges = 1..Len(s.ranges) /\ Len(s.ranges) \in Nat
  BY <1>1 DEF IsScale
<1>3. Sorted(s) = s.ranges
  BY <1>2 DEF IsNormal, Sorted
<1>4. NormalRanges(s) = s.ranges
  <2>1. CASE s.kind = "union"
    <3>1. KeptPositions(s.ranges) = 1..Len(s.ranges)
      BY <1>2, <2>1 DEF IsNormal, KeptPositions
    <3>2. s.ranges = [i \in 1..Len(s.ranges) |-> s.ranges[i]]
      BY <1>2
    <3> QED BY <1>2, <1>3, <2>1, <3>1, <3>2, SelectAll DEF NormalRanges
  <2>2. CASE s.kind # "union"
    BY <1>3, <2>2 DEF NormalRanges
  <2> QED BY <2>1, <2>2
<1>5. InOrder(MagnitudeBounds(s)).lower = s.minOrder /\ InOrder(MagnitudeBounds(s)).upper = s.maxOrder
  BY DEF IsNormal, MagnitudeBounds
<1> QED BY <1>1, <1>4, <1>5, NormalizedIs, SameRanges

\* The orders of t take what those of s do.
OrdersTake(s, t) ==
  /\ t.minOrder = Unbounded <=> s.minOrder = Unbounded
  /\ t.maxOrder = Unbounded <=> s.maxOrder = Unbounded
  /\ s.minOrder # Unbounded => t.minOrder <= s.minOrder
  /\ s.maxOrder # Unbounded => t.maxOrder >= s.maxOrder

\* A scale that is not narrower in any respect takes whatever another takes.
LEMMA WiderTakes ==
  ASSUME NEW s, IsScale(s), NEW t, IsScale(t), NEW v \in Int,
         t.sign = s.sign, t.reject = s.reject, t.useAbs = s.useAbs,
         WithinBounds(v, s) => WithinBounds(v, t),
         ExplicitBounds(s) => ExplicitBounds(t),
         OrdersTake(s, t),
         Matches(v, s)
  PROVE  Matches(v, t)
<1> DEFINE x == IF s.useAbs THEN Magnitude(v) ELSE v
           o == OrderOf(x)
<1>1. o \in Int
  <2> DEFINE O == {p \in 1..9 : 10 ^ p <= x}
  <2>1. O \in SUBSET (1..9) /\ IsFiniteSet(1..9)
    <3>1. O \in SUBSET (1..9)
      OBVIOUS
    <3>2. IsFiniteSet(1..9)
      <4>1. \A n \in Nat : IsFiniteSet(1..n)
        BY FS_Interval
      <4>2. 9 \in Nat
        OBVIOUS
      <4> QED BY <4>1, <4>2
    <3> QED BY <3>1, <3>2
  <2>2. Cardinality(O) \in Nat
    BY <2>1, FS_Subset, FS_CardinalityType
  <2> QED BY <2>2 DEF OrderOf
<1>2. OrderFits(v, s)
  BY DEF Matches
<1>3. OrderFits(v, t)
  BY <1>1, <1>2 DEF OrderFits, OrdersTake, IsScale, InRange, Bounds
<1> QED BY <1>3 DEF Matches

\* Expanding changes the ranges only.
LEMMA ExpandedIs ==
  ASSUME NEW s, IsScale(s), s.kind # "point"
  PROVE  Expanded(s) = Changed(s, [i \in DOMAIN s.ranges |-> Widened(s.ranges[i])], s.minOrder, s.maxOrder)
<1> DEFINE R == [i \in DOMAIN s.ranges |-> Widened(s.ranges[i])]
           F == {"kind", "ranges", "point", "tolAbs", "tolPercent", "sign", "minOrder", "maxOrder",
                 "useAbs", "reject"}
           t == [s EXCEPT !.ranges = R]
           q == Changed(s, R, s.minOrder, s.maxOrder)
<1>1. Expanded(s) = t
  BY DEF Expanded
<1>2. DOMAIN s = F
  BY DEF IsScale
<1> HIDE DEF R
<1>3. t = [x \in F |-> t[x]] /\ \A x \in F : t[x] = IF x = "ranges" THEN R ELSE s[x]
  BY <1>2
<1>4. q = [x \in F |-> q[x]] /\ \A x \in F : q[x] = IF x = "ranges" THEN R ELSE s[x]
  BY <1>2 DEF Changed
<1>5. t = q
  BY <1>3, <1>4
<1> QED BY <1>1, <1>5 DEF R

\* The margin keeps a scale normal and what it takes.
LEMMA ExpandedFacts ==
  ASSUME NEW s, IsNormal(s)
  PROVE  /\ IsNormal(Expanded(s)) /\ Unchanged(s, Expanded(s))
         /\ Expanded(s).minOrder = s.minOrder /\ Expanded(s).maxOrder = s.maxOrder
         /\ \A v \in Int : Matches(v, s) => Matches(v, Expanded(s))
<1>1. IsScale(s)
  BY DEF IsNormal
<1>2. CASE s.kind = "point"
  BY <1>2 DEF Expanded, Unchanged
<1>3. CASE s.kind # "point"
  <2> DEFINE R == [i \in DOMAIN s.ranges |-> Widened(s.ranges[i])]
             e == Expanded(s)
  <2>1. /\ s.ranges \in Seq(Intervals) /\ DOMAIN s.ranges = 1..Len(s.ranges)
        /\ \A i \in DOMAIN s.ranges : s.ranges[i] \in Intervals
    BY <1>1, RangesFacts DEF IsScale
  <2>2. \A i \in DOMAIN s.ranges : R[i] = Widened(s.ranges[i]) /\ Widened(s.ranges[i]) \in Intervals
    BY <2>1, WidenedFacts
  <2>3. R \in Seq(Intervals) /\ DOMAIN R = DOMAIN s.ranges /\ Len(R) = Len(s.ranges)
    <3>1. R \in [1..Len(s.ranges) -> Intervals] /\ Len(s.ranges) \in Nat
      <4>1. \A i \in DOMAIN s.ranges : Widened(s.ranges[i]) \in Intervals
        BY <2>2
      <4>2. Len(s.ranges) \in Nat
        BY <2>1
      <4> QED BY <2>1, <4>1, <4>2
    <3> HIDE DEF R
    <3> QED BY <2>1, <3>1
  <2>4. s.minOrder \in Bounds /\ s.maxOrder \in Bounds /\ (s.kind = "interval" => Len(s.ranges) = 1)
    BY <1>1 DEF IsScale
  <2>5. e = Changed(s, R, s.minOrder, s.maxOrder)
    BY <1>1, <1>3, ExpandedIs
  <2> HIDE DEF R, e
  <2>6. IsScale(e) /\ e.ranges = R /\ e.minOrder = s.minOrder /\ e.maxOrder = s.maxOrder /\ Unchanged(s, e)
    BY <1>1, <2>3, <2>4, <2>5, OtherRanges
  <2>7. \A i \in DOMAIN s.ranges :
          /\ InOrder(R[i]) = R[i] /\ (Bounded(R[i]) <=> Bounded(s.ranges[i]))
          /\ \A v \in Int : InRange(v, s.ranges[i]) => InRange(v, R[i])
    BY <2>1, <2>2, WidenedFacts
  <2>8. MagnitudeBounds(e) = MagnitudeBounds(s)
    BY <2>6 DEF MagnitudeBounds
  <2>9. IsNormal(e)
    BY <2>3, <2>6, <2>7, <2>8 DEF IsNormal, Unchanged
  <2>10. ASSUME NEW v \in Int, Matches(v, s) PROVE Matches(v, e)
    <3>1. ExplicitBounds(s) => ExplicitBounds(e)
      BY <1>3, <2>3, <2>6, <2>7 DEF ExplicitBounds, Unchanged
    <3>2. WithinBounds(v, s) => WithinBounds(v, e)
      <4>1. s.kind \in {"interval", "union"} /\ e.kind = s.kind
        BY <1>1, <1>3, <2>6 DEF IsScale, Kinds, Unchanged
      <4>2. CASE s.kind = "interval"
        BY <2>1, <2>4, <2>6, <2>7, <4>1, <4>2 DEF WithinBounds
      <4>3. CASE s.kind = "union"
        BY <2>1, <2>3, <2>6, <2>7, <4>1, <4>3 DEF WithinBounds
      <4> QED BY <4>1, <4>2, <4>3
    <3>3. OrdersTake(s, e)
      BY <2>4, <2>6 DEF OrdersTake, Bounds
    <3>4. e.sign = s.sign /\ e.reject = s.reject /\ e.useAbs = s.useAbs
      BY <2>6 DEF Unchanged
    <3> QED BY <1>1, <2>6, <2>10, <3>1, <3>2, <3>3, <3>4, WiderTakes
  <2> QED BY <2>6, <2>9, <2>10 DEF e
<1> QED BY <1>2, <1>3

\* The last of two changes counts.
LEMMA ChangedTwice ==
  ASSUME NEW s, NEW a, NEW b, NEW c, NEW d, NEW e, NEW f
  PROVE  Changed(Changed(s, a, b, c), d, e, f) = Changed(s, d, e, f)
  BY DEF Changed

\* What a planner that swaps the bounds of a range says is the same.
LEMMA SwappingIsHarmless ==
  ASSUME NEW s, IsScale(s), NEW i \in DOMAIN s.ranges,
         s.ranges[i].lower # Unbounded, s.ranges[i].upper # Unbounded
  PROVE  Normalized([s EXCEPT !.ranges[i] = [lower |-> s.ranges[i].upper, upper |-> s.ranges[i].lower]])
           = Normalized(s)
<1> DEFINE x == [lower |-> s.ranges[i].upper, upper |-> s.ranges[i].lower]
           R == [s.ranges EXCEPT ![i] = x]
           t == [s EXCEPT !.ranges[i] = x]
           q == Changed(s, R, s.minOrder, s.maxOrder)
           F == {"kind", "ranges", "point", "tolAbs", "tolPercent", "sign", "minOrder", "maxOrder",
                 "useAbs", "reject"}
<1>1. DOMAIN s = F
  BY DEF IsScale
<1>2. t = q
  BY <1>1 DEF Changed
<1>3. /\ s.ranges \in Seq(Intervals) /\ DOMAIN s.ranges = 1..Len(s.ranges)
      /\ \A j \in DOMAIN s.ranges : s.ranges[j] \in Intervals
  BY RangesFacts DEF IsScale
<1>4. x \in Intervals /\ InOrder(x) = InOrder(s.ranges[i])
  BY <1>3, InOrderFacts DEF Intervals
<1> HIDE DEF x
<1>5. /\ R \in Seq(Intervals) /\ DOMAIN R = DOMAIN s.ranges /\ Len(R) = Len(s.ranges)
      /\ \A j \in DOMAIN s.ranges : R[j] = IF j = i THEN x ELSE s.ranges[j]
  BY <1>3, <1>4
<1> HIDE DEF R, t
<1>6. s.minOrder \in Bounds /\ s.maxOrder \in Bounds /\ (s.kind = "interval" => Len(s.ranges) = 1)
  BY DEF IsScale
<1>7. /\ IsScale(q) /\ q.ranges = R /\ q.minOrder = s.minOrder /\ q.maxOrder = s.maxOrder
      /\ Unchanged(s, q)
  BY <1>5, <1>6, OtherRanges
<1> HIDE DEF q
<1>8. Sorted(q) = Sorted(s)
  BY <1>4, <1>5, <1>7 DEF Sorted
<1>9. NormalRanges(q) = NormalRanges(s) /\ MagnitudeBounds(q) = MagnitudeBounds(s)
  BY <1>7, <1>8 DEF NormalRanges, MagnitudeBounds, Unchanged
<1>10. Normalized(q) = Normalized(s)
  BY <1>9, NormalizedIs, ChangedTwice DEF q
<1> QED BY <1>2, <1>10 DEF t, x

\* The search's final scale takes what the reward's scale takes, for any numbers.
THEOREM ExpansionAlwaysKeepsMatches ==
  ASSUME NEW raw, IsScale(raw), NEW v \in Int
  PROVE  ExpansionKeepsMatches(v, raw)
<1> DEFINE scale == Normalized(raw)
           swapped == [raw EXCEPT !.ranges = [i \in DOMAIN @ |-> [lower |-> @[i].upper, upper |-> @[i].lower]]]
<1>1. IsNormal(scale)
  BY NormalizedIsNormal
<1>2. Matches(v, scale) => Matches(v, Expanded(scale))
  BY <1>1, ExpandedFacts
<1>3. Normalized(scale) = scale
  BY <1>1, NormalStays
<1>4. \A i \in DOMAIN raw.ranges :
        swapped.ranges[i] = [lower |-> raw.ranges[i].upper, upper |-> raw.ranges[i].lower]
  BY DEF IsScale
<1>5. ASSUME NEW i \in DOMAIN raw.ranges, raw.ranges[i].lower # Unbounded, raw.ranges[i].upper # Unbounded
      PROVE  Normalized([raw EXCEPT !.ranges[i] = swapped.ranges[i]]) = scale
  BY <1>4, <1>5, SwappingIsHarmless
<1> HIDE DEF scale, swapped
<1>6. /\ Matches(v, scale) => Matches(v, Expanded(scale))
      /\ Normalized(scale) = scale
      /\ \A i \in DOMAIN raw.ranges :
           raw.ranges[i].lower # Unbounded /\ raw.ranges[i].upper # Unbounded =>
             Normalized([raw EXCEPT !.ranges[i] = swapped.ranges[i]]) = scale
  BY <1>2, <1>3, <1>5
<1> QED BY <1>6 DEF ExpansionKeepsMatches, scale, swapped

\* The greater of two numbers.
LEMMA MaxOfTwo ==
  ASSUME NEW a \in Int, NEW b \in Int
  PROVE  Max({a, b}) = IF a >= b THEN a ELSE b
<1> DEFINE m == IF a >= b THEN a ELSE b
<1>1. m \in {a, b} /\ m >= a /\ m >= b /\ m \in Int
  OBVIOUS
<1>2. \A x \in {a, b} : (\A y \in {a, b} : x >= y) => x = m
  OBVIOUS
<1>3. Max({a, b}) = CHOOSE x \in {a, b} : \A y \in {a, b} : x >= y
  BY DEF Max
<1> HIDE DEF m
<1>4. \A y \in {a, b} : m >= y
  BY <1>1
<1>5. \E x \in {a, b} : \A y \in {a, b} : x >= y
  BY <1>1, <1>4
<1>6. Max({a, b}) \in {a, b} /\ \A y \in {a, b} : Max({a, b}) >= y
  BY <1>3, <1>5
<1>7. Max({a, b}) = m
  BY <1>2, <1>6
<1> QED BY <1>7 DEF m

\* A range six fifths as wide, and at least 2.0 wide, holds what the range does.
LEMMA StretchedRangeFacts ==
  ASSUME NEW r \in Intervals
  PROVE  /\ Stretched(r) \in Intervals
         /\ InOrder(r) = r => InOrder(Stretched(r)) = Stretched(r)
         /\ Bounded(Stretched(r)) <=> Bounded(r)
         /\ \A v \in Int : InRange(v, r) => InRange(v, Stretched(r))
<1>1. CASE r.lower = Unbounded \/ r.upper = Unbounded
  BY <1>1 DEF Stretched
<1>2. CASE r.lower # Unbounded /\ r.upper # Unbounded
  <2> DEFINE l == r.lower
             u == r.upper
             center == (l + u) \div 2
             wide == (Magnitude(u - l) * 3) \div 5
             half == Max({Unit, wide})
             w == [lower |-> center - half, upper |-> center + half]
  <2>1. l \in Int /\ u \in Int /\ Unbounded \notin Int
    BY <1>2, ScaleAssumption DEF Intervals, Bounds
  <2>2. center \in Int /\ Magnitude(u - l) \in Nat
    BY <2>1 DEF Magnitude
  <2>3. wide \in Nat
    BY <2>2
  <2>4. Unit \in Nat /\ Unit >= 2
    BY PlanningAssumption
  <2>5. half \in Int /\ half >= Unit /\ half >= wide
    BY <2>3, <2>4, MaxOfTwo
  <2>6. l <= u => center - half <= l /\ u <= center + half
    BY <2>1, <2>2, <2>3, <2>4, <2>5 DEF Magnitude
  <2>7. Stretched(r) = w
    BY <1>2 DEF Stretched
  <2> HIDE DEF center, half
  <2>8. w \in Intervals /\ w.lower = center - half /\ w.upper = center + half
    BY <2>2, <2>5 DEF Intervals, Bounds
  <2>9. w.lower \in Int /\ w.upper \in Int /\ ~(w.lower > w.upper)
    BY <2>2, <2>3, <2>4, <2>5, <2>8
  <2> HIDE DEF w
  <2>10. InOrder(w) = w
    BY <2>9 DEF InOrder
  <2>11. Bounded(w) /\ Bounded(r)
    BY <1>2, <2>1, <2>9 DEF Bounded
  <2>12. ASSUME NEW v \in Int, InRange(v, r) PROVE InRange(v, w)
    BY <1>2, <2>1, <2>12, <2>6, <2>8, <2>9 DEF InRange
  <2> QED BY <2>7, <2>8, <2>10, <2>11, <2>12
<1> QED BY <1>1, <1>2

\* The orders of a stretched scale: one more at both ends.
Lesser(o) == IF o = Unbounded THEN o ELSE o - 1
Greater(o) == IF o = Unbounded THEN o ELSE o + 1
Fields == {"kind", "ranges", "point", "tolAbs", "tolPercent", "sign", "minOrder", "maxOrder",
           "useAbs", "reject"}

\* Stretched orders are wider and stay in order.
LEMMA OrdersStretch ==
  ASSUME NEW s, IsNormal(s), NEW t,
         t.minOrder = Lesser(s.minOrder), t.maxOrder = Greater(s.maxOrder)
  PROVE  /\ t.minOrder \in Bounds /\ t.maxOrder \in Bounds
         /\ InOrder(MagnitudeBounds(t)) = MagnitudeBounds(t)
         /\ OrdersTake(s, t)
<1> DEFINE l == s.minOrder
           u == s.maxOrder
           a == t.minOrder
           b == t.maxOrder
<1>1. l \in Int \cup {Unbounded} /\ u \in Int \cup {Unbounded} /\ Unbounded \notin Int
  BY ScaleAssumption DEF IsNormal, IsScale, Bounds
<1>2. /\ a \in Int \cup {Unbounded} /\ b \in Int \cup {Unbounded}
      /\ (a = Unbounded <=> l = Unbounded) /\ (b = Unbounded <=> u = Unbounded)
      /\ (l # Unbounded => a = l - 1 /\ a <= l)
      /\ (u # Unbounded => b = u + 1 /\ b >= u)
  BY <1>1 DEF Lesser, Greater
<1>3. l # Unbounded /\ u # Unbounded => ~(l > u)
  BY <1>1 DEF MagnitudeBounds, InOrder, IsNormal
<1>4. MagnitudeBounds(t).lower = a /\ MagnitudeBounds(t).upper = b
  BY DEF MagnitudeBounds
<1>5. InOrder(MagnitudeBounds(t)) = MagnitudeBounds(t)
  BY <1>1, <1>2, <1>3, <1>4 DEF InOrder
<1> QED BY <1>2, <1>5 DEF OrdersTake, Bounds

\* A scale with ranges that are stretched.
LEMMA RangesStretch ==
  ASSUME NEW s, IsNormal(s), s.kind # "point"
  PROVE  /\ IsNormal(StretchedScale(s))
         /\ \A v \in Int : Matches(v, s) => Matches(v, StretchedScale(s))
<1> DEFINE R == [i \in DOMAIN s.ranges |-> Stretched(s.ranges[i])]
           e == StretchedScale(s)
           q == Changed(s, R, Lesser(s.minOrder), Greater(s.maxOrder))
<1>1. IsScale(s)
  BY DEF IsNormal
<1>2. DOMAIN s = Fields
  BY <1>1 DEF IsScale, Fields
<1>3. e = q
  BY <1>2 DEF StretchedScale, Fields, Lesser, Greater, Changed
<1>4. /\ s.ranges \in Seq(Intervals) /\ DOMAIN s.ranges = 1..Len(s.ranges)
      /\ \A i \in DOMAIN s.ranges : s.ranges[i] \in Intervals
  BY <1>1, RangesFacts DEF IsScale
<1>5. \A i \in DOMAIN s.ranges :
        /\ R[i] = Stretched(s.ranges[i]) /\ Stretched(s.ranges[i]) \in Intervals
        /\ InOrder(R[i]) = R[i] /\ (Bounded(R[i]) <=> Bounded(s.ranges[i]))
        /\ \A v \in Int : InRange(v, s.ranges[i]) => InRange(v, R[i])
  BY <1>4, StretchedRangeFacts DEF IsNormal
<1>6. R \in Seq(Intervals) /\ DOMAIN R = DOMAIN s.ranges /\ Len(R) = Len(s.ranges)
  <2>1. R \in [1..Len(s.ranges) -> Intervals] /\ Len(s.ranges) \in Nat
    <3>1. \A i \in DOMAIN s.ranges : Stretched(s.ranges[i]) \in Intervals
      BY <1>5
    <3>2. Len(s.ranges) \in Nat
      BY <1>4
    <3> QED BY <1>4, <3>1, <3>2
  <2> HIDE DEF R
  <2> QED BY <1>4, <2>1
<1> HIDE DEF R, e
<1>7. Lesser(s.minOrder) \in Bounds /\ Greater(s.maxOrder) \in Bounds
  BY <1>1, ScaleAssumption DEF IsScale, Bounds, Lesser, Greater
<1>8. s.kind = "interval" => Len(s.ranges) = 1
  BY <1>1 DEF IsScale
<1>9. /\ IsScale(e) /\ e.ranges = R /\ Unchanged(s, e)
      /\ e.minOrder = Lesser(s.minOrder) /\ e.maxOrder = Greater(s.maxOrder)
  BY <1>1, <1>3, <1>6, <1>7, <1>8, OtherRanges
<1>10. InOrder(MagnitudeBounds(e)) = MagnitudeBounds(e) /\ OrdersTake(s, e)
  BY <1>9, OrdersStretch
<1>11. IsNormal(e)
  BY <1>10, <1>5, <1>6, <1>9 DEF IsNormal, Unchanged
<1>12. ASSUME NEW v \in Int, Matches(v, s) PROVE Matches(v, e)
  <2>1. ExplicitBounds(s) => ExplicitBounds(e)
    BY <1>5, <1>6, <1>9 DEF ExplicitBounds, Unchanged
  <2>2. WithinBounds(v, s) => WithinBounds(v, e)
    <3>1. s.kind \in {"interval", "union"} /\ e.kind = s.kind
      BY <1>1, <1>9 DEF IsScale, Kinds, Unchanged
    <3>2. CASE s.kind = "interval"
      BY <1>4, <1>5, <1>8, <1>9, <3>1, <3>2 DEF WithinBounds
    <3>3. CASE s.kind = "union"
      BY <1>4, <1>5, <1>6, <1>9, <3>1, <3>3 DEF WithinBounds
    <3> QED BY <3>1, <3>2, <3>3
  <2>3. e.sign = s.sign /\ e.reject = s.reject /\ e.useAbs = s.useAbs
    BY <1>9 DEF Unchanged
  <2> QED BY <1>1, <1>9, <1>10, <1>12, <2>1, <2>2, <2>3, WiderTakes
<1> QED BY <1>11, <1>12 DEF e

\* A point gets a larger tolerance, and without a number it becomes a range.
LEMMA PointStretches ==
  ASSUME NEW s, IsNormal(s), s.kind = "point"
  PROVE  /\ IsNormal(StretchedScale(s))
         /\ \A v \in Int : Matches(v, s) => Matches(v, StretchedScale(s))
<1> DEFINE tol == Max({Magnitude(s.point) \div 5, IF s.tolAbs = 0 THEN Unit ELSE s.tolAbs})
           all == [lower |-> Unbounded, upper |-> Unbounded]
           e == StretchedScale(s)
           o == [s EXCEPT !.minOrder = IF @ = Unbounded THEN @ ELSE @ - 1,
                          !.maxOrder = IF @ = Unbounded THEN @ ELSE @ + 1]
<1>1. IsScale(s)
  BY DEF IsNormal
<1>2. DOMAIN s = Fields
  BY <1>1 DEF IsScale, Fields
<1>3. /\ DOMAIN o = Fields /\ o = [x \in Fields |-> o[x]]
      /\ \A x \in Fields : o[x] = IF x = "minOrder" THEN Lesser(s.minOrder)
                                  ELSE IF x = "maxOrder" THEN Greater(s.maxOrder) ELSE s[x]
  BY <1>2 DEF Fields, Lesser, Greater
<1>4. /\ s.ranges \in Seq(Intervals) /\ s.point \in Bounds /\ s.tolAbs \in Int /\ s.tolPercent \in Int
      /\ s.sign \in Signs /\ s.useAbs \in BOOLEAN
      /\ \A i \in DOMAIN s.ranges : InOrder(s.ranges[i]) = s.ranges[i]
  BY DEF IsNormal, IsScale
<1>5. CASE s.point = Unbounded
  <2> DEFINE t == [o EXCEPT !.kind = "interval", !.ranges = <<all>>]
  <2>1. e = t
    BY <1>5 DEF StretchedScale
  <2> HIDE DEF o, e
  <2>2. /\ t = [x \in Fields |-> t[x]]
        /\ \A x \in Fields : t[x] = IF x = "ranges" THEN <<all>>
                                    ELSE IF x = "kind" THEN "interval" ELSE o[x]
    BY <1>3 DEF Fields
  <2> HIDE DEF t
  <2>3. /\ t.ranges = <<all>> /\ t.kind = "interval" /\ t.point = s.point /\ t.sign = s.sign
        /\ t.tolAbs = s.tolAbs /\ t.tolPercent = s.tolPercent /\ t.useAbs = s.useAbs /\ t.reject = s.reject
        /\ t.minOrder = Lesser(s.minOrder) /\ t.maxOrder = Greater(s.maxOrder)
    BY <1>3, <2>2 DEF Fields
  <2>4. /\ t.minOrder \in Bounds /\ t.maxOrder \in Bounds
        /\ InOrder(MagnitudeBounds(t)) = MagnitudeBounds(t) /\ OrdersTake(s, t)
    BY <2>3, OrdersStretch
  <2>5. all \in Intervals /\ InOrder(all) = all /\ \A v \in Int : InRange(v, all)
    BY DEF Intervals, Bounds, InOrder, InRange
  <2> HIDE DEF all
  <2>6. <<all>> \in Seq(Intervals) /\ Len(<<all>>) = 1 /\ DOMAIN <<all>> = {1} /\ <<all>>[1] = all
    BY <2>5
  <2>7. t = [kind |-> t.kind, ranges |-> t.ranges, point |-> t.point, tolAbs |-> t.tolAbs,
             tolPercent |-> t.tolPercent, sign |-> t.sign, minOrder |-> t.minOrder,
             maxOrder |-> t.maxOrder, useAbs |-> t.useAbs, reject |-> t.reject]
    BY <2>2 DEF Fields
  <2>8. IsScale(t)
    BY <1>4, <2>3, <2>4, <2>6, <2>7 DEF Kinds, IsScale
  <2>9. IsNormal(t)
    BY <2>3, <2>4, <2>5, <2>6, <2>8 DEF IsNormal
  <2>10. ~ExplicitBounds(s)
    BY <1>5 DEF ExplicitBounds
  <2>11. \A v \in Int : WithinBounds(v, t)
    BY <2>3, <2>5, <2>6 DEF WithinBounds
  <2> QED BY <1>1, <2>1, <2>3, <2>4, <2>8, <2>9, <2>10, <2>11, WiderTakes DEF e
<1>6. CASE s.point # Unbounded
  <2> DEFINE new == (tol * 6) \div 5
             t == [o EXCEPT !.tolAbs = new]
  <2>1. e = t
    BY <1>6 DEF StretchedScale
  <2>2. new \in Int /\ new >= s.tolAbs
    <3>1. Magnitude(s.point) \in Nat
      BY <1>4, <1>6 DEF Magnitude, Bounds
    <3>2. Magnitude(s.point) \div 5 \in Nat
      BY <3>1
    <3> DEFINE a == Magnitude(s.point) \div 5
               b == IF s.tolAbs = 0 THEN Unit ELSE s.tolAbs
    <3>3. b \in Int /\ b >= s.tolAbs
      BY <1>4, PlanningAssumption
    <3>4. tol \in Int /\ tol >= a /\ tol >= b
      BY <3>2, <3>3, MaxOfTwo DEF a, b
    <3>5. tol \in Nat /\ tol >= s.tolAbs
      BY <1>4, <3>2, <3>3, <3>4
    <3> HIDE DEF tol
    <3>6. new \in Int /\ new >= tol
      BY <3>5
    <3> HIDE DEF new
    <3> QED BY <1>4, <3>5, <3>6
  <2> HIDE DEF o, e, new
  <2>3. /\ t = [x \in Fields |-> t[x]]
        /\ \A x \in Fields : t[x] = IF x = "tolAbs" THEN new ELSE o[x]
    BY <1>3 DEF Fields
  <2> HIDE DEF t
  <2>4. /\ t.ranges = s.ranges /\ t.kind = s.kind /\ t.point = s.point /\ t.sign = s.sign
        /\ t.tolAbs = new /\ t.tolPercent = s.tolPercent /\ t.useAbs = s.useAbs /\ t.reject = s.reject
        /\ t.minOrder = Lesser(s.minOrder) /\ t.maxOrder = Greater(s.maxOrder)
    BY <1>3, <2>3 DEF Fields
  <2>5. /\ t.minOrder \in Bounds /\ t.maxOrder \in Bounds
        /\ InOrder(MagnitudeBounds(t)) = MagnitudeBounds(t) /\ OrdersTake(s, t)
    BY <2>4, OrdersStretch
  <2>6. t = [kind |-> t.kind, ranges |-> t.ranges, point |-> t.point, tolAbs |-> t.tolAbs,
             tolPercent |-> t.tolPercent, sign |-> t.sign, minOrder |-> t.minOrder,
             maxOrder |-> t.maxOrder, useAbs |-> t.useAbs, reject |-> t.reject]
    BY <2>3 DEF Fields
  <2>7. IsScale(t)
    BY <1>4, <2>2, <2>4, <2>5, <2>6 DEF Kinds, IsScale
  <2>8. IsNormal(t)
    BY <1>4, <2>4, <2>5, <2>7 DEF IsNormal
  <2>9. ExplicitBounds(s) => ExplicitBounds(t)
    BY <2>4 DEF ExplicitBounds
  <2>10. \A v \in Int : WithinBounds(v, s) => WithinBounds(v, t)
    BY <1>4, <1>6, <2>2, <2>4 DEF Magnitude, Bounds, WithinBounds
  <2> QED BY <1>1, <2>1, <2>4, <2>5, <2>7, <2>8, <2>9, <2>10, WiderTakes DEF e
<1> QED BY <1>5, <1>6

\* The scale of a case the planner gave none takes what the base scale takes, for any
\* numbers.
THEOREM DefaultScaleIsAlwaysWider ==
  ASSUME NEW raw, IsScale(raw), NEW v \in Int
  PROVE  DefaultScaleIsWider(v, raw)
<1> DEFINE n == Normalized(raw)
           base == Expanded(n)
           wide == StretchedScale(base)
<1>1. ScaleOr(raw, raw) = base
  BY DEF ScaleOr
<1>2. IsNormal(n)
  BY NormalizedIsNormal
<1>3. IsNormal(base)
  BY <1>2, ExpandedFacts
<1>4. IsNormal(wide) /\ (Matches(v, base) => Matches(v, wide))
  BY <1>3, RangesStretch, PointStretches
<1>5. ScaleOr(NoScale, wide) = Expanded(wide)
  BY <1>4, NormalStays DEF ScaleOr
<1>6. Matches(v, wide) => Matches(v, Expanded(wide))
  BY <1>4, ExpandedFacts
<1> HIDE DEF base, wide
<1>7. Matches(v, base) => Matches(v, ScaleOr(NoScale, StretchedScale(base)))
  BY <1>4, <1>5, <1>6 DEF wide
<1> QED BY <1>1, <1>7 DEF DefaultScaleIsWider

\* The lesser of two numbers.
LEMMA MinOfTwo ==
  ASSUME NEW a \in Int, NEW b \in Int
  PROVE  Min({a, b}) = IF a <= b THEN a ELSE b
<1> DEFINE m == IF a <= b THEN a ELSE b
<1>1. m \in {a, b} /\ m <= a /\ m <= b /\ m \in Int
  OBVIOUS
<1>2. \A x \in {a, b} : (\A y \in {a, b} : x <= y) => x = m
  OBVIOUS
<1>3. Min({a, b}) = CHOOSE x \in {a, b} : \A y \in {a, b} : x <= y
  BY DEF Min
<1> HIDE DEF m
<1>4. \A y \in {a, b} : m <= y
  BY <1>1
<1>5. \E x \in {a, b} : \A y \in {a, b} : x <= y
  BY <1>1, <1>4
<1>6. Min({a, b}) \in {a, b} /\ \A y \in {a, b} : Min({a, b}) <= y
  BY <1>3, <1>5
<1>7. Min({a, b}) = m
  BY <1>2, <1>6
<1> QED BY <1>7 DEF m
-----------------------------------------------------------------------------
(* The jobs of a planning call.                                            *)

\* The elements of a part of a sequence.
LEMMA SubSeqFacts ==
  ASSUME NEW T, NEW s \in Seq(T), NEW a \in Nat, NEW b \in Nat, 1 <= a, b <= Len(s)
  PROVE  /\ Len(SubSeq(s, a, b)) = IF a <= b THEN b - a + 1 ELSE 0
         /\ \A k \in 1..(b - a + 1) : SubSeq(s, a, b)[k] = s[a + k - 1]
  OBVIOUS

\* The text of a job, if there is one.
TextAt(outputs, job) == IF job <= Len(outputs) THEN outputs[job] ELSE NoText

\* The plan of a sample is that of its two texts.
LEMMA PreparedIs ==
  ASSUME NEW samples, NEW outputs, NEW i \in DOMAIN samples
  PROVE  Prepared(samples, outputs)[i] =
           PlanOf(samples[i], TextAt(outputs, 2 * i - 1), TextAt(outputs, 2 * i))
  BY DEF Prepared, JobOf, TextAt

\* A sample is planned as if it were alone, for any samples and texts.
THEOREM SamplesArePlannedAlone ==
  ASSUME NEW S, NEW samples \in Seq(S), NEW T, NEW outputs \in Seq(T)
  PROVE  PlannedAlone(samples, outputs)
<1> SUFFICES ASSUME NEW i \in DOMAIN samples
             PROVE  Prepared(samples, outputs)[i] =
                      Prepared(<<samples[i]>>, SubSeq(outputs, 2 * i - 1, Min({2 * i, Len(outputs)})))[1]
  BY DEF PlannedAlone
<1> DEFINE last == Min({2 * i, Len(outputs)})
           own == SubSeq(outputs, 2 * i - 1, last)
           one == <<samples[i]>>
<1>1. i \in Nat /\ i >= 1 /\ Len(outputs) \in Nat
  OBVIOUS
<1>2. last = IF 2 * i <= Len(outputs) THEN 2 * i ELSE Len(outputs)
  BY <1>1, MinOfTwo
<1>3. 1 \in DOMAIN one /\ one[1] = samples[i]
  OBVIOUS
<1>4. TextAt(own, 1) = TextAt(outputs, 2 * i - 1) /\ TextAt(own, 2) = TextAt(outputs, 2 * i)
  <2>1. CASE 2 * i <= Len(outputs)
    <3>1. own = SubSeq(outputs, 2 * i - 1, 2 * i)
      BY <1>2, <2>1
    <3>2. Len(own) = 2 /\ own[1] = outputs[2 * i - 1] /\ own[2] = outputs[2 * i]
      <4> DEFINE a == 2 * i - 1
                 b == 2 * i
      <4>0. a \in Nat /\ b = a + 1 /\ 1 <= a /\ b <= Len(outputs)
        BY <1>1, <2>1
      <4> HIDE DEF own, a, b
      <4>a. b \in Nat /\ b - a + 1 = 2 /\ a <= b /\ a + 2 - 1 = b /\ a + 1 - 1 = a
        BY <4>0
      <4>b. 1 \in 1..2 /\ 2 \in 1..2
        OBVIOUS
      <4>1. 1 <= a /\ b <= Len(outputs)
        BY <4>0
      <4>2. own = SubSeq(outputs, a, b)
        BY <3>1 DEF a, b
      <4>3. Len(own) = 2 /\ own[1] = outputs[a] /\ own[2] = outputs[b]
        BY <4>0, <4>1, <4>2, <4>a, <4>b, SubSeqFacts
      <4> QED BY <4>3, <4>0 DEF a, b
    <3> HIDE DEF own
    <3> QED BY <1>1, <2>1, <3>2 DEF TextAt
  <2>2. CASE Len(outputs) = 2 * i - 1
    <3>1. own = SubSeq(outputs, 2 * i - 1, 2 * i - 1)
      <4>1. last = 2 * i - 1
        BY <1>1, <1>2, <2>2
      <4> HIDE DEF last
      <4> QED BY <4>1
    <3>2. Len(own) = 1 /\ own[1] = outputs[2 * i - 1]
      <4> DEFINE a == 2 * i - 1
      <4>1. a \in Nat /\ 1 <= a /\ a <= Len(outputs) /\ a - a + 1 = 1 /\ a + 1 - 1 = a /\ 1 \in 1..1
        BY <1>1, <2>2
      <4> HIDE DEF own, a
      <4>2. own = SubSeq(outputs, a, a)
        BY <3>1 DEF a
      <4>3. Len(own) = 1 /\ own[1] = outputs[a]
        BY <4>1, <4>2, SubSeqFacts
      <4> QED BY <4>3 DEF a
    <3> HIDE DEF own
    <3> QED BY <1>1, <2>2, <3>2 DEF TextAt
  <2>3. CASE Len(outputs) < 2 * i - 1
    BY <1>1, <1>2, <2>3 DEF TextAt
  <2> QED BY <1>1, <2>1, <2>2, <2>3
<1>5. Prepared(one, own)[1] = PlanOf(samples[i], TextAt(own, 1), TextAt(own, 2))
  BY <1>3, PreparedIs
<1>6. Prepared(samples, outputs)[i] = PlanOf(samples[i], TextAt(outputs, 2 * i - 1), TextAt(outputs, 2 * i))
  BY PreparedIs
<1> QED BY <1>4, <1>5, <1>6
-----------------------------------------------------------------------------
(* The heuristic perturbation.                                             *)

\* Rounding stays within a half.
LEMMA RoundedFacts ==
  ASSUME NEW n \in Int
  PROVE  /\ Rounded(n, 100) \in Int
         /\ 200 * Rounded(n, 100) <= 2 * n + 100 /\ 2 * n <= 200 * Rounded(n, 100) + 100
<1> DEFINE down == n \div 100
           twice == 2 * (n - 100 * down)
           up == twice < 100 \/ (twice = 100 /\ down % 2 = 0)
<1>1. down \in Int /\ 100 * down <= n /\ n < 100 * down + 100
  OBVIOUS
<1>2. twice \in Int /\ Rounded(n, 100) = IF up THEN down ELSE down + 1
  BY <1>1 DEF Rounded
<1>3. (up => twice <= 100) /\ (~up => twice >= 100)
  BY <1>1
<1> HIDE DEF down
<1>4. up => 2 * n <= 200 * down + 100
  BY <1>1, <1>3
<1>5. ~up => 2 * n >= 200 * down + 100
  BY <1>1, <1>3
<1> HIDE DEF up
<1>6. CASE up
  BY <1>1, <1>2, <1>4, <1>6
<1>7. CASE ~up
  BY <1>1, <1>2, <1>5, <1>7
<1> QED BY <1>6, <1>7

\* Between two multiples of the divisor a number is rounded to one of them or to
\* one in between.
LEMMA RoundedWithin ==
  ASSUME NEW n \in Int, NEW d \in Nat \ {0}
  PROVE  /\ Rounded(n, d) \in Int
         /\ 2 * (d * Rounded(n, d)) <= 2 * n + d /\ 2 * n <= 2 * (d * Rounded(n, d)) + d
<1> DEFINE down == n \div d
           p == d * down
           twice == 2 * (n - d * down)
           up == twice < d \/ (twice = d /\ down % 2 = 0)
<1>1. down \in Int /\ p \in Int /\ p <= n /\ n < p + d
  <2>1. down \in Int /\ n = down * d + (n % d) /\ (n % d) \in Int /\ (n % d) >= 0 /\ (n % d) < d
    BY DivisionFacts
  <2> HIDE DEF down
  <2> QED BY <2>1
<1>2. Rounded(n, d) = IF up THEN down ELSE down + 1
  BY DEF Rounded
<1>3. (up => 2 * (n - p) <= d) /\ (~up => 2 * (n - p) >= d)
  <2>1. twice = 2 * (n - p) /\ twice \in Int
    BY <1>1
  <2> HIDE DEF twice
  <2> QED BY <2>1
<1>4. d * (down + 1) = p + d
  <2> HIDE DEF down
  <2> QED BY <1>1
<1> HIDE DEF up
<1>5. CASE up
  <2>1. d * Rounded(n, d) = p
    BY <1>2, <1>5
  <2> HIDE DEF p
  <2> QED BY <1>1, <1>2, <1>3, <1>5, <2>1
<1>6. CASE ~up
  <2>1. d * Rounded(n, d) = p + d
    BY <1>2, <1>4, <1>6
  <2> HIDE DEF p
  <2> QED BY <1>1, <1>2, <1>3, <1>6, <2>1
<1> QED BY <1>5, <1>6

LEMMA RoundedBetween ==
  ASSUME NEW n \in Int, NEW d \in Nat \ {0}, NEW a \in Int, NEW b \in Int, d * a <= n, n <= d * b
  PROVE  a <= Rounded(n, d) /\ Rounded(n, d) <= b
<1> DEFINE r == Rounded(n, d)
<1>1. r \in Int /\ 2 * (d * r) <= 2 * n + d /\ 2 * n <= 2 * (d * r) + d
  BY RoundedWithin
<1> HIDE DEF r
<1>2. \A x, y \in Int : x < y => d * x + d <= d * y
  <2> SUFFICES ASSUME NEW x \in Int, NEW y \in Int, x < y PROVE d * x + d <= d * y
    OBVIOUS
  <2>1. y - x - 1 \in Nat
    OBVIOUS
  <2>2. d * (y - x - 1) >= 0
    BY <2>1
  <2> QED BY <2>2
<1>3. d * r \in Int /\ d * a \in Int /\ d * b \in Int
  BY <1>1
<1>4. ~(r < a)
  <2>1. r < a => d * r + d <= d * a
    BY <1>1, <1>2
  <2> QED BY <1>1, <1>3, <2>1
<1>5. ~(b < r)
  <2>1. b < r => d * b + d <= d * r
    BY <1>1, <1>2
  <2> QED BY <1>1, <1>3, <2>1
<1> QED BY <1>1, <1>4, <1>5 DEF r

\* By how much a number is moved.
LEMMA ScaledFacts ==
  ASSUME NEW n \in Int, NEW c \in Int, NEW l \in Int
  PROVE  /\ Scaled(n, c, l) \in Int
         /\ n = 0 => Scaled(n, c, l) = 0
         /\ n >= 0 => Scaled(n, c, l) >= 0
         /\ \/ Scaled(n, c, l) - 100 * n >= 8 * Magnitude(n)
            \/ 100 * n - Scaled(n, c, l) >= 8 * Magnitude(n)
<1> DEFINE percent == 8 + 4 * Turn(c, l)
           factor == IF Downwards(c, l) THEN 100 - percent ELSE 100 + percent
<1>1. Scaled(n, c, l) = n * factor
  BY DEF Scaled
<1>2. percent \in {8, 12, 16}
  BY DEF Turn
<1>3. factor \in {92, 88, 84, 108, 112, 116}
  BY <1>2
<1> HIDE DEF factor
<1> QED BY <1>1, <1>3 DEF Magnitude

\* An int moves unless it is a zero that would have to go down.
LEMMA PerturbedWholeMoves ==
  ASSUME NEW n \in Int, NEW c \in Int, NEW l \in Int
  PROVE  /\ PerturbedWhole(n, c, l) \in Int
         /\ PerturbedWhole(n, c, l) = n <=> (n = 0 /\ Downwards(c, l))
         /\ n >= 0 => PerturbedWhole(n, c, l) >= 0
<1> DEFINE down == Downwards(c, l)
           moved == Rounded(Scaled(n, c, l), 100)
           new == IF moved # n THEN moved ELSE IF down THEN n - 1 ELSE n + 1
<1>1. PerturbedWhole(n, c, l) = IF n >= 0 /\ new < 0 THEN 0 ELSE new
  BY DEF PerturbedWhole
<1>2. down \in BOOLEAN
  BY DEF Downwards
<1>3. /\ moved \in Int
      /\ n = 0 => moved = 0
      /\ n >= 0 => moved >= 0
  <2> DEFINE p == Scaled(n, c, l)
  <2>1. p \in Int /\ (n = 0 => p = 0) /\ (n >= 0 => p >= 0)
    BY ScaledFacts
  <2> HIDE DEF p
  <2>2. /\ Rounded(p, 100) \in Int
        /\ 200 * Rounded(p, 100) <= 2 * p + 100 /\ 2 * p <= 200 * Rounded(p, 100) + 100
    BY <2>1, RoundedFacts
  <2>3. p >= 0 => Rounded(p, 100) >= 0
    BY <2>1, <2>2
  <2>4. p = 0 => Rounded(p, 100) = 0
    BY <2>1, <2>2
  <2> QED BY <2>1, <2>2, <2>3, <2>4 DEF p
<1> HIDE DEF moved
<1>4. CASE down
  BY <1>1, <1>3, <1>4 DEF down
<1>5. CASE ~down
  BY <1>1, <1>3, <1>5 DEF down
<1> QED BY <1>2, <1>4, <1>5

\* The grain and 1.0.
LEMMA GrainFacts ==
  /\ Grain \in Nat \ {0} /\ PerCent \in Nat \ {0} /\ 100 * PerCent \in Nat \ {0}
  /\ FloatOne \in Nat /\ FloatOne = Grain * (100 * PerCent)
  /\ FloatOne >= 100 * Grain
  /\ \A m \in {3, 5, 7} : /\ m * PerCent * Grain \in Nat /\ m * PerCent * Grain >= 3 * Grain
                          /\ m * PerCent * Grain < FloatOne
<1>1. Grain \in Nat \ {0} /\ PerCent \in Nat \ {0}
  BY PlanningAssumption
<1> DEFINE p == PerCent * Grain
<1>2. p \in Nat /\ p >= Grain /\ p >= 1
  BY <1>1
<1>3. FloatOne = 100 * p /\ FloatOne = Grain * (100 * PerCent)
  BY <1>1 DEF FloatOne
<1>4. \A m \in {3, 5, 7} : m * PerCent * Grain = m * p
  BY <1>1
<1> HIDE DEF p
<1>5. 100 * PerCent \in Nat \ {0}
  BY <1>1
<1> QED BY <1>1, <1>2, <1>3, <1>4, <1>5

\* A number between two multiples of the grain is rounded to a multiple between them.
LEMMA RoundedToGrain ==
  ASSUME NEW g \in Nat \ {0}, NEW P \in Nat, NEW H \in Nat, H = g * P, NEW k \in Int
  PROVE  LET new == g * Rounded(k, g) IN
         /\ new \in Int /\ 2 * new <= 2 * k + g /\ 2 * k <= 2 * new + g
         /\ k \in 0..H => new \in 0..H
         /\ k = 0 => new = 0
         /\ k = H => new = H
<1> DEFINE r == Rounded(k, g)
<1>1. r \in Int /\ 2 * (g * r) <= 2 * k + g /\ 2 * k <= 2 * (g * r) + g
  BY RoundedWithin
<1>2. g * 0 = 0 /\ H \in Int /\ P \in Int /\ 0 \in Int
  OBVIOUS
<1>3. k >= 0 => 0 <= r
  BY <1>2, RoundedBetween
<1>4. k <= 0 => r <= 0
  <2> SUFFICES ASSUME k <= 0 PROVE r <= 0
    OBVIOUS
  <2>1. g * k <= k /\ k <= g * 0
    BY <1>2
  <2>2. k <= r /\ r <= 0
    BY <1>2, <2>1, RoundedBetween
  <2> QED BY <2>2
<1>5. k <= H /\ k >= 0 => r <= P
  <2> SUFFICES ASSUME k <= H, k >= 0 PROVE r <= P
    OBVIOUS
  <2>1. g * 0 <= k /\ k <= g * P
    BY <1>2
  <2>2. 0 <= r /\ r <= P
    BY <1>2, <2>1, RoundedBetween
  <2> QED BY <2>2
<1>6. k = H => P <= r
  <2> SUFFICES ASSUME k = H PROVE P <= r
    OBVIOUS
  <2>1. g * P <= k /\ k <= g * P
    OBVIOUS
  <2>2. P <= r /\ r <= P
    BY <1>2, <2>1, RoundedBetween
  <2> QED BY <2>2
<1> HIDE DEF r
<1>7. g * r \in Int
  BY <1>1
<1>8. k \in 0..H => g * r \in 0..H
  <2> SUFFICES ASSUME k \in 0..H PROVE g * r \in 0..H
    OBVIOUS
  <2>1. r \in Nat /\ P - r \in Nat
    BY <1>1, <1>3, <1>5
  <2>2. g * r \in Nat /\ g * (P - r) \in Nat
    BY <2>1
  <2>3. g * (P - r) = H - g * r
    BY <1>1
  <2> QED BY <2>2, <2>3
<1>9. k = 0 => g * r = 0
  <2> SUFFICES ASSUME k = 0 PROVE g * r = 0
    OBVIOUS
  <2>1. r = 0
    BY <1>1, <1>3, <1>4
  <2> QED BY <1>2, <2>1
<1>10. k = H => g * r = H
  <2> SUFFICES ASSUME k = H PROVE g * r = H
    OBVIOUS
  <2>1. r = P
    BY <1>1, <1>5, <1>6
  <2> QED BY <2>1
<1> QED BY <1>1, <1>7, <1>8, <1>9, <1>10 DEF r

\* A share or a negative fraction of it that is moved and clamped.
LEMMA ClampedMoves ==
  ASSUME NEW n \in Int, NEW g \in Nat \ {0}, NEW H \in Nat, NEW step \in Nat, NEW down \in BOOLEAN, NEW k, NEW new \in Int,
         step >= 3 * g, step < H, n <= H,
         k = IF n < 0 THEN (IF down THEN n - step ELSE n + step)
             ELSE IF (IF down THEN n - step ELSE n + step) < 0 THEN 0
             ELSE IF (IF down THEN n - step ELSE n + step) > H THEN H
             ELSE (IF down THEN n - step ELSE n + step),
         2 * new <= 2 * k + g, 2 * k <= 2 * new + g,
         k \in 0..H => new \in 0..H, k = 0 => new = 0, k = H => new = H
  PROVE  /\ new = n <=> IF down THEN n = 0 ELSE n = H
         /\ n >= 0 => new \in 0..H
<1>1. CASE n < 0
  <2>1. CASE down
    BY <1>1, <2>1
  <2>2. CASE ~down
    BY <1>1, <2>2
  <2> QED BY <2>1, <2>2
<1>2. CASE n >= 0 /\ down
  <2>1. CASE n - step < 0
    BY <1>2, <2>1
  <2>2. CASE n - step >= 0
    <3>1. k = n - step /\ k \in 0..H
      BY <1>2, <2>2
    <3>2. new # n
      BY <3>1
    <3> QED BY <1>2, <2>2, <3>1, <3>2
  <2> QED BY <2>1, <2>2
<1>3. CASE n >= 0 /\ ~down
  <2>1. CASE n + step > H
    BY <1>3, <2>1
  <2>2. CASE n + step <= H
    <3>1. k = n + step /\ k \in 0..H
      BY <1>3, <2>2
    <3>2. new # n
      BY <3>1
    <3> QED BY <1>3, <2>2, <3>1, <3>2
  <2> QED BY <2>1, <2>2
<1> QED BY <1>1, <1>2, <1>3

\* A float between -1.0 and 1.0 moves unless it is clamped where it is, and a
\* share stays one.
LEMMA PerturbedSmallMoves ==
  ASSUME NEW n \in Int, NEW c \in Int, NEW l \in Int, Magnitude(n) <= FloatOne
  PROVE  /\ PerturbedSmall(n, c, l) \in Int
         /\ PerturbedSmall(n, c, l) = n <=> IF Downwards(c, l) THEN n = 0 ELSE n = FloatOne
         /\ n >= 0 => PerturbedSmall(n, c, l) \in 0..FloatOne
<1> DEFINE g == Grain
           H == FloatOne
           step == (3 + 2 * Turn(c, l)) * PerCent * Grain
           down == Downwards(c, l)
           k == IF n < 0 THEN (IF down THEN n - step ELSE n + step)
                ELSE IF (IF down THEN n - step ELSE n + step) < 0 THEN 0
                ELSE IF (IF down THEN n - step ELSE n + step) > H THEN H
                ELSE (IF down THEN n - step ELSE n + step)
           new == PerturbedSmall(n, c, l)
<1>1. new = g * Rounded(k, g)
  BY DEF PerturbedSmall
<1>2. step \in Nat /\ step >= 3 * g /\ step < H
  <2>1. 3 + 2 * Turn(c, l) \in {3, 5, 7}
    BY DEF Turn
  <2> QED BY <2>1, GrainFacts
<1>3. g \in Nat \ {0} /\ H \in Nat /\ H = g * (100 * PerCent) /\ 100 * PerCent \in Nat
  BY GrainFacts
<1>4. down \in BOOLEAN
  BY DEF Downwards
<1>5. n <= H
  BY <1>3 DEF Magnitude
<1> HIDE DEF step, new, down, g, H
<1>6. k \in Int
  BY <1>2, <1>3, <1>4
<1>7. k = IF n < 0 THEN (IF down THEN n - step ELSE n + step)
          ELSE IF (IF down THEN n - step ELSE n + step) < 0 THEN 0
          ELSE IF (IF down THEN n - step ELSE n + step) > H THEN H
          ELSE (IF down THEN n - step ELSE n + step)
  OBVIOUS
<1> HIDE DEF k
<1>8. /\ new \in Int /\ 2 * new <= 2 * k + g /\ 2 * k <= 2 * new + g
      /\ k \in 0..H => new \in 0..H
      /\ k = 0 => new = 0
      /\ k = H => new = H
  <2> DEFINE P == 100 * PerCent
             x == g * Rounded(k, g)
  <2>1. g \in Nat \ {0} /\ P \in Nat /\ H \in Nat /\ H = g * P /\ k \in Int
    BY <1>3, <1>6
  <2> HIDE DEF P
  <2>2. /\ x \in Int /\ 2 * x <= 2 * k + g /\ 2 * k <= 2 * x + g
        /\ k \in 0..H => x \in 0..H
        /\ k = 0 => x = 0
        /\ k = H => x = H
    BY <2>1, RoundedToGrain, Zenon
  <2> HIDE DEF x
  <2>3. new = x
    BY <1>1 DEF x
  <2> QED BY <2>2, <2>3
<1>9. /\ new = n <=> IF down THEN n = 0 ELSE n = H
      /\ n >= 0 => new \in 0..H
  BY <1>2, <1>3, <1>4, <1>5, <1>7, <1>8, ClampedMoves
<1> QED BY <1>8, <1>9 DEF new, H, down

\* Every other float moves.
LEMMA PerturbedLargeMoves ==
  ASSUME NEW n \in Int, NEW c \in Int, NEW l \in Int, Magnitude(n) > FloatOne
  PROVE  /\ PerturbedLarge(n, c, l) \in Int /\ PerturbedLarge(n, c, l) # n
         /\ n >= 0 => PerturbedLarge(n, c, l) >= 0
<1> DEFINE p == Scaled(n, c, l)
           d == 100 * Grain
           r == Rounded(p, d)
<1>1. p \in Int /\ (n >= 0 => p >= 0)
      /\ (p - 100 * n >= 8 * Magnitude(n) \/ 100 * n - p >= 8 * Magnitude(n))
  BY ScaledFacts
<1>2. Grain \in Nat \ {0} /\ d \in Nat \ {0} /\ Magnitude(n) > d /\ Magnitude(n) \in Int
  BY GrainFacts DEF Magnitude
<1>3. PerturbedLarge(n, c, l) = Grain * r
  BY DEF PerturbedLarge
<1> HIDE DEF p, d
<1>4. r \in Int /\ 2 * (d * r) <= 2 * p + d /\ 2 * p <= 2 * (d * r) + d
  BY <1>1, <1>2, RoundedWithin
<1>5. n >= 0 => r >= 0
  <2>1. d * r \in Int /\ (r < 0 => d * r <= -d)
    BY <1>2, <1>4
  <2> QED BY <1>1, <1>2, <1>4, <2>1
<1> HIDE DEF r
<1>6. d * r = 100 * (Grain * r) /\ Grain * r \in Int
  BY <1>2, <1>4 DEF d
<1>7. Grain * r # n
  <2> DEFINE new == Grain * r
  <2>1. new \in Int /\ 200 * new <= 2 * p + d /\ 2 * p <= 200 * new + d
    BY <1>4, <1>6
  <2> HIDE DEF new
  <2>2. new # n
    BY <1>1, <1>2, <2>1
  <2> QED BY <2>2 DEF new
<1>8. n >= 0 => Grain * r >= 0
  BY <1>2, <1>4, <1>5
<1> QED BY <1>3, <1>6, <1>7, <1>8

Amounts == [whole : BOOLEAN, n : Int]

\* A number moves unless it has no room to.
LEMMA PerturbedValueMoves ==
  ASSUME NEW old \in Amounts, NEW c \in Int, NEW l \in Int
  PROVE  LET new == PerturbedValue(old, c, l) IN
         /\ (new = old) <=> NoRoom(old, c, l)
         /\ new.whole = old.whole
         /\ old.n >= 0 => new.n >= 0
         /\ ~old.whole /\ old.n \in 0..FloatOne => new.n \in 0..FloatOne
<1> DEFINE n == old.n
           x == IF old.whole THEN PerturbedWhole(n, c, l)
                ELSE IF Magnitude(n) <= FloatOne THEN PerturbedSmall(n, c, l) ELSE PerturbedLarge(n, c, l)
           new == PerturbedValue(old, c, l)
<1>1. old = [whole |-> old.whole, n |-> n] /\ n \in Int /\ old.whole \in BOOLEAN
  BY DEF Amounts
<1>2. new = [old EXCEPT !.n = x]
  BY DEF PerturbedValue
<1> HIDE DEF x, new
<1>3. new = [whole |-> old.whole, n |-> x]
  BY <1>1, <1>2
<1>4. new.whole = old.whole /\ new.n = x /\ (new = old <=> x = n)
  BY <1>1, <1>3
<1>5. Magnitude(n) \in Int /\ FloatOne \in Nat /\ FloatOne > 0
  BY <1>1, GrainFacts DEF Magnitude
<1>6. CASE old.whole
  <2>1. x = PerturbedWhole(n, c, l)
    BY <1>6 DEF x
  <2>2. /\ x = n <=> (n = 0 /\ Downwards(c, l))
        /\ n >= 0 => x >= 0
    BY <1>1, <2>1, PerturbedWholeMoves
  <2> QED BY <1>4, <1>6, <2>2 DEF NoRoom, new
<1>7. CASE ~old.whole /\ Magnitude(n) <= FloatOne
  <2>1. x = PerturbedSmall(n, c, l)
    BY <1>7 DEF x
  <2>2. /\ x = n <=> IF Downwards(c, l) THEN n = 0 ELSE n = FloatOne
        /\ n >= 0 => x \in 0..FloatOne
    BY <1>1, <1>7, <2>1, PerturbedSmallMoves
  <2> QED BY <1>1, <1>4, <1>5, <1>7, <2>2 DEF NoRoom, new
<1>8. CASE ~old.whole /\ Magnitude(n) > FloatOne
  <2>1. x = PerturbedLarge(n, c, l)
    BY <1>5, <1>8 DEF x
  <2>2. x # n /\ (n >= 0 => x >= 0)
    BY <1>1, <1>8, <2>1, PerturbedLargeMoves
  <2>3. n # 0 /\ n # FloatOne /\ n \notin 0..FloatOne
    BY <1>1, <1>5, <1>8 DEF Magnitude
  <2> QED BY <1>4, <1>8, <2>2, <2>3 DEF NoRoom, new
<1> QED BY <1>1, <1>5, <1>6, <1>7, <1>8

\* Numbers closer than the divisor have different remainders.
LEMMA CloseNumbersDiffer ==
  ASSUME NEW a \in Int, NEW b \in Int, NEW d \in Nat, d > 0, a < b, b - a < d
  PROVE  (a % d) # (b % d)
<1> SUFFICES ASSUME (a % d) = (b % d) PROVE FALSE
  OBVIOUS
<1> DEFINE p == a \div d
           q == b \div d
           r == a % d
<1>1. p \in Int /\ q \in Int /\ r \in Int /\ a = p * d + r /\ b = q * d + r
  BY DivisionFacts
<1> HIDE DEF p, q, r
<1>2. (q - p) * d > 0 /\ (q - p) * d < d
  BY <1>1
<1> DEFINE t == q - p
<1>3. t \in Int /\ t * d > 0 /\ t * d < d
  BY <1>1, <1>2
<1> HIDE DEF t
<1>4. CASE t <= 0
  BY <1>3, <1>4
<1>5. CASE t >= 1
  BY <1>3, <1>5
<1> QED BY <1>3, <1>4, <1>5

\* The keys of a case are one, two or three keys of the focus, each once if the
\* focus has each once.
LEMMA PickedKeysFacts ==
  ASSUME NEW K, NEW focus \in Seq(K), focus # << >>, NEW c \in Nat
  PROVE  LET picked == PickedKeys(focus, c) IN
         /\ DOMAIN picked = 1..Len(picked) /\ Len(picked) \in 1..3 /\ Len(picked) <= Len(focus)
         /\ \A n \in DOMAIN picked : picked[n] \in Range(focus)
         /\ IsInjective(focus) => \A m, n \in DOMAIN picked : picked[m] = picked[n] => m = n
<1> DEFINE L == Len(focus)
           three == Min({3, L})
           k == 1 + (c % three)
           at(n) == ((c + n - 1) % L) + 1
           picked == PickedKeys(focus, c)
<1>1. L \in Nat /\ L >= 1 /\ DOMAIN focus = 1..L
  OBVIOUS
<1>2. three \in Nat /\ three >= 1 /\ three <= 3 /\ three <= L
  BY <1>1, MinOfTwo
<1> HIDE DEF three
<1>3. k \in Nat /\ k >= 1 /\ k <= 3 /\ k <= L
  BY <1>1, <1>2, DivisionFacts
<1>4. picked = [n \in 1..k |-> focus[at(n)]]
  BY DEF PickedKeys, three
<1> HIDE DEF k, picked
<1>5. DOMAIN picked = 1..k /\ Len(picked) = k
  BY <1>3, <1>4
<1>6. \A n \in 1..k : at(n) \in DOMAIN focus /\ picked[n] = focus[at(n)]
  BY <1>1, <1>3, <1>4, DivisionFacts
<1>7. \A m, n \in 1..k : m < n => at(m) # at(n)
  BY <1>1, <1>3, CloseNumbersDiffer, DivisionFacts
<1>8. IsInjective(focus) => \A m, n \in 1..k : picked[m] = picked[n] => m = n
  <2> SUFFICES ASSUME IsInjective(focus), NEW m \in 1..k, NEW n \in 1..k, picked[m] = picked[n]
               PROVE  m = n
    OBVIOUS
  <2>1. at(m) = at(n)
    BY <1>6 DEF IsInjective
  <2> HIDE DEF at
  <2>2. ~(m < n) /\ ~(n < m)
    BY <1>7, <2>1
  <2> QED BY <1>3, <2>2
<1>9. \A n \in 1..k : picked[n] \in Range(focus)
  BY <1>6 DEF Range
<1>10. Len(picked) \in 1..3 /\ Len(picked) <= Len(focus)
  BY <1>3, <1>5
<1> HIDE DEF at
<1> QED BY <1>5, <1>8, <1>9, <1>10 DEF picked

\* As many different elements as positions.
LEMMA DistinctElements ==
  ASSUME NEW n \in Nat, NEW S, NEW f \in [1..n -> S], \A k, m \in 1..n : f[k] = f[m] => k = m
  PROVE  Cardinality(ToSet(f)) = n
<1>1. \A k \in 1..n : f[k] \in ToSet(f)
  BY DEF ToSet
<1>2. \A e \in ToSet(f) : \E k \in 1..n : f[k] = e
  BY DEF ToSet
<1>3. f \in [1..n -> ToSet(f)]
  BY <1>1
<1>4. f \in Bijection(1..n, ToSet(f))
  BY <1>2, <1>3 DEF Bijection, Injection, Surjection, IsInjective
<1> QED BY <1>4, FS_CountingElements DEF ExistsBijection

\* A key is decided at one of its places.
LEMMA LastPlaceFacts ==
  ASSUME NEW picked, NEW k \in Nat, DOMAIN picked = 1..k, NEW key \in ToSet(picked)
  PROVE  LastPlace(picked, key) \in 1..k
<1> DEFINE places == {n \in DOMAIN picked : picked[n] = key}
<1>1. places \in SUBSET (1..k) /\ places # {}
  BY DEF ToSet
<1> HIDE DEF places
<1>2. Max(places) \in 1..k
  BY <1>1, MaxOfFirst
<1> QED BY <1>2 DEF LastPlace, places

\* A heuristic case moves each key it picks but for one without room to move, and
\* nothing else, for ints and floats alike
\* (generate_perturbed_instances_from_map, _perturb_value).
THEOREM PerturbationAlwaysMoves ==
  ASSUME NEW K, NEW focus \in Seq(K), focus # << >>, NEW caseIdx \in Nat, NEW instance,
         \A n \in DOMAIN focus : focus[n] \in DOMAIN instance /\ instance[focus[n]] \in Amounts
  PROVE  PerturbationMoves(instance, focus, caseIdx)
<1> DEFINE picked == PickedKeys(focus, caseIdx)
           changed == PerturbedInstance(instance, focus, caseIdx)
<1>1. /\ picked \in [1..Len(picked) -> Range(focus)] /\ DOMAIN picked = 1..Len(picked) /\ Len(picked) \in Nat
      /\ \A n \in DOMAIN picked : picked[n] \in Range(focus)
      /\ IsInjective(focus) => \A m, n \in DOMAIN picked : picked[m] = picked[n] => m = n
  <2>1. /\ DOMAIN picked = 1..Len(picked) /\ Len(picked) \in 1..3 /\ Len(picked) <= Len(focus)
        /\ \A n \in DOMAIN picked : picked[n] \in Range(focus)
        /\ IsInjective(focus) => \A m, n \in DOMAIN picked : picked[m] = picked[n] => m = n
    BY PickedKeysFacts
  <2>2. picked = [n \in DOMAIN picked |-> picked[n]]
    BY DEF PickedKeys
  <2> HIDE DEF picked
  <2> QED BY <2>1, <2>2
<1>2. \A key \in DOMAIN instance : changed[key] =
         IF key \in ToSet(picked)
         THEN PerturbedValue(instance[key], caseIdx, LastPlace(picked, key) - 1)
         ELSE instance[key]
  BY DEF PerturbedInstance
<1> HIDE DEF picked, changed
<1>3. IsInjective(focus) => Cardinality(ToSet(picked)) = Len(picked)
  <2> SUFFICES ASSUME IsInjective(focus) PROVE Cardinality(ToSet(picked)) = Len(picked)
    OBVIOUS
  <2>1. \A m, n \in 1..Len(picked) : picked[m] = picked[n] => m = n
    BY <1>1
  <2> QED BY <1>1, <2>1, DistinctElements
<1>4. ASSUME NEW key \in ToSet(picked)
      PROVE  LET old == instance[key]
                 new == changed[key]
             IN  /\ (new = old) <=> NoRoom(old, caseIdx, LastPlace(picked, key) - 1)
                 /\ new.whole = old.whole
                 /\ old.n >= 0 => new.n >= 0
                 /\ ~old.whole /\ old.n \in 0..FloatOne => new.n \in 0..FloatOne
  <2>1. PICK n \in DOMAIN picked : picked[n] = key
    BY DEF ToSet
  <2>2. key \in DOMAIN instance /\ instance[key] \in Amounts
    BY <1>1, <2>1 DEF Range
  <2> DEFINE l == LastPlace(picked, key) - 1
  <2>3. l \in Int /\ caseIdx \in Int
    <3> DEFINE k == Len(picked)
    <3>1. k \in Nat /\ DOMAIN picked = 1..k
      BY <1>1
    <3> HIDE DEF k
    <3>2. LastPlace(picked, key) \in 1..k
      BY <3>1, LastPlaceFacts
    <3> QED BY <3>1, <3>2
  <2>4. changed[key] = PerturbedValue(instance[key], caseIdx, l)
    BY <1>2, <2>2
  <2> HIDE DEF l
  <2>5. /\ (changed[key] = instance[key]) <=> NoRoom(instance[key], caseIdx, l)
        /\ changed[key].whole = instance[key].whole
        /\ instance[key].n >= 0 => changed[key].n >= 0
        /\ ~instance[key].whole /\ instance[key].n \in 0..FloatOne => changed[key].n \in 0..FloatOne
    BY <2>2, <2>3, <2>4, PerturbedValueMoves
  <2> QED BY <2>5 DEF l
<1>5. \A key \in DOMAIN instance \ ToSet(picked) : changed[key] = instance[key]
  BY <1>2
<1> QED BY <1>3, <1>4, <1>5 DEF PerturbationMoves, picked, changed

\* The fold of CaseOf.
AllPatched(start, patches, features) ==
  FoldLeft(LAMBDA state, p : Patched(state, p, features), start, patches)

\* The patches of a case are applied one after the other.
LEMMA PatchesApplied ==
  ASSUME NEW V, NEW start \in V, NEW T, NEW patches \in Seq(T), NEW features,
         \A x \in V, p \in T : Patched(x, p, features) \in V
  PROVE  \E h \in [0..Len(patches) -> V] :
           /\ h[0] = start
           /\ \A k \in 1..Len(patches) : h[k] = Patched(h[k - 1], patches[k], features)
           /\ AllPatched(start, patches, features) = h[Len(patches)]
<1> DEFINE n == Len(patches)
           F == [x \in V \X (1..n) |-> Patched(x[1], patches[x[2]], features)]
<1>1. n \in Nat /\ DOMAIN patches = 1..n /\ \A k \in 1..n : patches[k] \in T
  OBVIOUS
<1>2. F \in [V \X (1..n) -> V]
  BY <1>1
<1>3. \A x \in V, k \in 1..n : F[<<x, k>>] = Patched(x, patches[k], features)
  OBVIOUS
<1> HIDE DEF n, F
<1> DEFINE Solves(it) ==
     it = [s \in SUBSET (1..n) |->
             IF s = {} THEN start ELSE Patched(it[s \ {Max(s)}], patches[Max(s)], features)]
<1>4. AllPatched(start, patches, features) = (CHOOSE it : Solves(it))[1..n]
  BY <1>1, Zenon DEF AllPatched, FoldLeft, MapThenFoldSet
<1>5. \E it : Solves(it)
  <2>1. PICK it \in [SUBSET (1..n) -> V] : FoldsOver(it, n, F, start)
    BY <1>1, <1>2, FoldExists
  <2>2. \A s \in SUBSET (1..n) :
          it[s] = IF s = {} THEN start ELSE Patched(it[s \ {Max(s)}], patches[Max(s)], features)
    BY <1>1, <1>3, <2>1, MaxOfFirst DEF FoldsOver
  <2>3. it = [s \in SUBSET (1..n) |-> it[s]]
    OBVIOUS
  <2>4. Solves(it)
    BY <2>2, <2>3
  <2> HIDE DEF Solves
  <2> QED BY <2>4
<1> DEFINE fold == CHOOSE it : Solves(it)
<1>6. Solves(fold)
  BY <1>5
<1> HIDE DEF fold
<1>7. fold[{}] = start
  BY <1>6
<1>8. ASSUME NEW s \in SUBSET (1..n), s # {}, fold[s \ {Max(s)}] \in V
      PROVE  fold[s] = F[<<fold[s \ {Max(s)}], Max(s)>>]
  BY <1>1, <1>3, <1>6, <1>8, MaxOfFirst
<1> HIDE DEF Solves
<1> DEFINE h == [k \in 0..n |-> fold[1..k]]
<1>9. /\ \A k \in 0..n : h[k] \in V
      /\ h[0] = start /\ h[n] = fold[1..n]
      /\ \A k \in 1..n : h[k] = F[<<h[k - 1], k>>]
  <2>1. FoldsIn(fold, n, F, start, V)
    BY <1>7, <1>8 DEF FoldsIn
  <2>2. Traces(h, fold, n)
    BY DEF Traces
  <2> HIDE DEF h
  <2>3. GoesThrough(h, n, F, start, V)
    BY <1>1, <1>2, <2>1, <2>2, FoldSteps
  <2>4. h[n] = fold[1..n]
    BY <1>1, <2>2 DEF Traces
  <2> QED BY <2>3, <2>4 DEF GoesThrough
<1>10. \A k \in 1..n : h[k] = Patched(h[k - 1], patches[k], features)
  <2>1. \A k \in 1..n : k - 1 \in 0..n
    BY <1>1
  <2> HIDE DEF h
  <2> QED BY <1>3, <1>9, <2>1
<1>11. h \in [0..n -> V]
  BY <1>9
<1> HIDE DEF h
<1> QED BY <1>4, <1>9, <1>10, <1>11 DEF fold, n

Numbers == Amounts \cup {NoNumber}

\* A patch and a list of patches that _normalize_patch can be given.
IsPatch(p) == p.op \in {"scale", "shift", "replace"} /\ p.value \in Int \cup {NoNumber}
ArePatches(ps) == ps \in Seq(Range(ps)) /\ \A n \in DOMAIN ps : IsPatch(ps[n])

\* The planner's tests.
AreTests(tests) == tests \in Seq(Range(tests)) /\ \A n \in DOMAIN tests : ArePatches(tests[n].patches)

\* The patches of a key before the m-th, and the value they have left.
EarlierPatches(patches, key, m) == {l \in 1..(m - 1) : patches[l].key = key}
ValueBefore(base, patches, key, m) ==
  IF EarlierPatches(patches, key, m) = {} THEN base[key] ELSE patches[Max(EarlierPatches(patches, key, m))].new

\* The patches tell how the instance came from the base.
Explains(base, instance, patches) ==
  /\ \A m \in DOMAIN patches : /\ patches[m].key \in DOMAIN base
                               /\ patches[m].old = ValueBefore(base, patches, patches[m].key, m)
  /\ \A key \in DOMAIN base : instance[key] = ValueBefore(base, patches, key, Len(patches) + 1)

\* The states of a case with this base.
Applied(D) == Seq([key : D, old : Amounts, new : Amounts])
CaseStates(base) ==
  {x \in [base : {base}, instance : [DOMAIN base -> Numbers], patches : Applied(DOMAIN base)] :
     Explains(base, x.instance, x.patches)}

\* A longer list of patches explains the same of its first ones.
LEMMA ValueOfPrefix ==
  ASSUME NEW base, NEW S, NEW patches \in Seq(S), NEW e, NEW key, NEW m \in 1..(Len(patches) + 1)
  PROVE  ValueBefore(base, Append(patches, e), key, m) = ValueBefore(base, patches, key, m)
<1> DEFINE longer == Append(patches, e)
<1>1. \A l \in 1..(m - 1) : longer[l] = patches[l]
  OBVIOUS
<1>2. EarlierPatches(longer, key, m) = EarlierPatches(patches, key, m)
  BY <1>1 DEF EarlierPatches
<1>3. CASE EarlierPatches(patches, key, m) = {}
  BY <1>2, <1>3 DEF ValueBefore, longer
<1>4. CASE EarlierPatches(patches, key, m) # {}
  <2> DEFINE b == Max(EarlierPatches(patches, key, m))
  <2>1. b \in 1..(m - 1)
    <3>1. EarlierPatches(patches, key, m) \in SUBSET (1..(m - 1)) /\ m - 1 \in Nat
      BY DEF EarlierPatches
    <3> QED BY <1>4, <3>1, MaxOfFirst
  <2> HIDE DEF longer, b
  <2>2. longer[b] = patches[b]
    BY <1>1, <2>1
  <2> QED BY <1>2, <1>4, <2>2 DEF ValueBefore, b, longer
<1> QED BY <1>3, <1>4

\* After one more patch only its own key has another value.
LEMMA ValueAfterPatch ==
  ASSUME NEW base, NEW S, NEW patches \in Seq(S), NEW e, NEW key
  PROVE  ValueBefore(base, Append(patches, e), key, Len(patches) + 2) =
           IF e.key = key THEN e.new ELSE ValueBefore(base, patches, key, Len(patches) + 1)
<1> DEFINE n == Len(patches)
           longer == Append(patches, e)
           now == EarlierPatches(longer, key, n + 2)
           old == EarlierPatches(patches, key, n + 1)
<1>1. n \in Nat /\ longer[n + 1] = e /\ \A l \in 1..n : longer[l] = patches[l]
  OBVIOUS
<1> HIDE DEF n, longer
<1>2. now = IF e.key = key THEN old \cup {n + 1} ELSE old
  BY <1>1 DEF EarlierPatches
<1>3. CASE e.key = key
  <2>1. Max(now) = n + 1
    <3>1. now \in SUBSET Int /\ n + 1 \in now /\ \A x \in now : x <= n + 1
      BY <1>1, <1>2, <1>3 DEF EarlierPatches
    <3> HIDE DEF now
    <3> QED BY <3>1, MaxIs
  <2>2. now # {}
    BY <1>2, <1>3
  <2>3. ValueBefore(base, longer, key, n + 2) = longer[n + 1].new
    BY <2>1, <2>2 DEF ValueBefore
  <2> QED BY <1>1, <1>3, <2>3 DEF n, longer
<1>4. CASE e.key # key
  <2>1. now = old
    BY <1>2, <1>4
  <2>2. CASE old = {}
    BY <1>4, <2>1, <2>2 DEF ValueBefore, n, longer
  <2>3. CASE old # {}
    <3>1. Max(old) \in 1..n
      <4>1. old \in SUBSET (1..n)
        BY <1>1 DEF EarlierPatches
      <4> HIDE DEF old
      <4> QED BY <1>1, <2>3, <4>1, MaxOfFirst
    <3>2. ValueBefore(base, longer, key, n + 2) = longer[Max(old)].new
      BY <2>1, <2>3 DEF ValueBefore
    <3>3. ValueBefore(base, patches, key, n + 1) = patches[Max(old)].new
      BY <2>3 DEF ValueBefore
    <3> QED BY <1>1, <1>4, <3>1, <3>2, <3>3 DEF n, longer
  <2> QED BY <2>2, <2>3
<1> QED BY <1>3, <1>4

\* A patch gives a number a number.
LEMMA NewValueIsNumber ==
  ASSUME NEW p, IsPatch(p), p.value # NoNumber, NEW old \in Amounts
  PROVE  NewValue(p, old) \in Amounts
<1>1. p.value \in Int /\ p.op \in {"scale", "shift", "replace"} /\ old.n \in Int
  BY DEF IsPatch, Amounts
<1>2. FloatOne \in Nat \ {0}
  BY GrainFacts
<1>3. \A v \in Int : Rounded(v, FloatOne) \in Int /\ (v \div FloatOne) \in Int
  BY <1>2, RoundedWithin, DivisionFacts
<1>4. old.n * p.value \in Int /\ old.n * FloatOne + p.value \in Int /\ old.n + p.value \in Int
  BY <1>1, <1>2
<1>5. NewNumber(p, old) \in Int
  BY <1>1, <1>3, <1>4 DEF NewNumber
<1> QED BY <1>5 DEF NewValue, Amounts

\* A patch leaves a case that its patches explain.
LEMMA PatchExplained ==
  ASSUME NEW base, base \in [DOMAIN base -> Numbers], NEW x \in CaseStates(base), NEW p, IsPatch(p), NEW features
  PROVE  Patched(x, p, features) \in CaseStates(base)
<1> DEFINE D == DOMAIN base
           E == [key : D, old : Amounts, new : Amounts]
<1>1. /\ x \in [base : {base}, instance : [D -> Numbers], patches : Seq(E)]
      /\ Explains(base, x.instance, x.patches)
  BY DEF CaseStates, Applied
<1>2. /\ x.base = base /\ x.instance \in [D -> Numbers] /\ x.patches \in Seq(E)
      /\ x = [base |-> x.base, instance |-> x.instance, patches |-> x.patches]
  BY <1>1
<1>3. SUFFICES ASSUME Usable(p, features, x.instance)
      PROVE  Patched(x, p, features) \in CaseStates(base)
  BY DEF Patched
<1> DEFINE key == features[p.fid]
           old == x.instance[key]
           new == NewValue(p, old)
           e == [key |-> key, old |-> old, new |-> new]
           instance == [x.instance EXCEPT ![key] = new]
           patches == Append(x.patches, e)
<1>4. key \in D /\ old \in Amounts /\ p.value # NoNumber
  BY <1>2, <1>3 DEF Usable, Numbers
<1>5. new \in Amounts
  BY <1>4, NewValueIsNumber
<1>6. Patched(x, p, features) = [base |-> base, instance |-> instance, patches |-> patches]
  BY <1>2, <1>3 DEF Patched
<1> HIDE DEF key, old, new
<1>7. e \in E
  BY <1>4, <1>5
<1>8. instance \in [D -> Numbers]
  BY <1>2, <1>4, <1>5 DEF Numbers
<1> HIDE DEF E
<1>9. patches \in Seq(E) /\ Len(patches) = Len(x.patches) + 1 /\ Len(x.patches) \in Nat
      /\ patches[Len(x.patches) + 1] = e
      /\ \A m \in 1..Len(x.patches) : patches[m] = x.patches[m]
  BY <1>2, <1>7
<1> DEFINE n == Len(x.patches)
<1>10. e.key = key /\ e.old = old /\ e.new = new
  OBVIOUS
<1> HIDE DEF e
<1>11. Explains(base, instance, patches)
  BY <1>1, <1>10, <1>2, <1>4, <1>9, ValueOfPrefix, ValueAfterPatch DEF Explains, old
<1> HIDE DEF patches, instance
<1> QED BY <1>6, <1>8, <1>9, <1>11 DEF CaseStates, Applied, E

\* What a case starts from explains itself.
LEMMA CaseStart ==
  ASSUME NEW base, base \in [DOMAIN base -> Numbers]
  PROVE  [base |-> base, instance |-> base, patches |-> << >>] \in CaseStates(base)
<1>1. << >> \in Applied(DOMAIN base)
  BY DEF Applied
<1>2. \A key : EarlierPatches(<< >>, key, 1) = {}
  BY DEF EarlierPatches
<1>3. Explains(base, base, << >>)
  BY <1>2 DEF Explains, ValueBefore
<1> QED BY <1>1, <1>3 DEF CaseStates

\* A case explains itself.
LEMMA CaseExplained ==
  ASSUME NEW test, ArePatches(test.patches), NEW sample, NEW scale,
         sample.instance \in [DOMAIN sample.instance -> Numbers]
  PROVE  LET c == CaseOf(test, sample, scale) IN
         /\ c.instance \in [DOMAIN sample.instance -> Numbers]
         /\ Explains(sample.instance, c.instance, c.patches)
<1> DEFINE base == sample.instance
           V == CaseStates(base)
           start == [base |-> base, instance |-> base, patches |-> << >>]
           final == AllPatched(start, test.patches, sample.features)
           T == Range(test.patches)
           n == Len(test.patches)
<1>1. start \in V
  BY CaseStart
<1>2. test.patches \in Seq(T) /\ \A p \in T : IsPatch(p)
  BY DEF ArePatches, Range
<1>3. \A x \in V, p \in T : Patched(x, p, sample.features) \in V
  BY <1>2, PatchExplained
<1>4. final \in V
  <2>1. PICK h \in [0..n -> V] : final = h[n]
    BY <1>1, <1>2, <1>3, PatchesApplied
  <2>2. n \in 0..n
    BY <1>2
  <2> HIDE DEF final, n
  <2> QED BY <2>1, <2>2
<1>5. CaseOf(test, sample, scale).instance = final.instance /\ CaseOf(test, sample, scale).patches = final.patches
  BY DEF CaseOf, AllPatched
<1> HIDE DEF final
<1> QED BY <1>4, <1>5 DEF CaseStates

\* Positions of a sequence are finitely many numbers.
LEMMA ListFinite ==
  ASSUME NEW S, NEW s \in Seq(S), NEW I \in SUBSET (DOMAIN s)
  PROVE  IsFiniteSet(I) /\ I \in SUBSET Int
<1>1. \A n \in Nat : IsFiniteSet(1..n)
  BY FS_Interval
<1>2. DOMAIN s = 1..Len(s) /\ Len(s) \in Nat
  OBVIOUS
<1> QED BY <1>1, <1>2, FS_Subset

\* What a plan is made of.
LEMMA PlanCases ==
  ASSUME NEW sample, NEW baseText, NEW testsText, testsText # NoText => AreTests(testsText.tests)
  PROVE  LET plan == PlanOf(sample, baseText, testsText) IN
         /\ (plan.source = "disabled") <=> (plan.cases = << >>)
         /\ \A n \in DOMAIN plan.cases :
              \E test, scale : ArePatches(test.patches) /\ plan.cases[n] = CaseOf(test, sample, scale)
<1> DEFINE base == ScaleOr(IF baseText = NoText THEN NoScale ELSE baseText.scale, sample.default)
           tests == IF testsText = NoText THEN << >> ELSE testsText.tests
           built == [n \in DOMAIN tests |-> CaseOf(tests[n], sample, base)]
           I == {n \in DOMAIN built : built[n].patches # << >>}
           cases == Selected(built, I)
           plan == PlanOf(sample, baseText, testsText)
<1>1. plan = IF cases = << >> THEN Disabled(sample) ELSE [source |-> "llm_split", base |-> base, cases |-> cases]
  BY DEF PlanOf
<1>2. tests \in Seq(Range(tests)) /\ \A n \in DOMAIN tests : ArePatches(tests[n].patches)
  <2>1. CASE testsText = NoText
    BY <2>1
  <2>2. CASE testsText # NoText
    BY <2>2 DEF AreTests
  <2> QED BY <2>1, <2>2
<1> HIDE DEF tests, base
<1>3. I \in SUBSET (DOMAIN tests) /\ I \in SUBSET Int /\ IsFiniteSet(I)
  BY <1>2, ListFinite
<1>4. \A n \in DOMAIN cases : \E j \in DOMAIN tests : cases[n] = CaseOf(tests[j], sample, base)
  <2> SUFFICES ASSUME NEW n \in DOMAIN cases PROVE \E j \in DOMAIN tests : cases[n] = CaseOf(tests[j], sample, base)
    OBVIOUS
  <2> HIDE DEF I, built
  <2>1. n \in 1..Cardinality(I) /\ cases[n] = built[Listed(I)[n]]
    BY DEF Selected
  <2>2. Listed(I)[n] \in I
    BY <1>3, <2>1, ListedFacts
  <2>3. Listed(I)[n] \in DOMAIN tests
    BY <1>3, <2>2
  <2> QED BY <2>1, <2>3 DEF built
<1> HIDE DEF cases
<1>5. CASE cases = << >>
  BY <1>1, <1>5 DEF Disabled, plan
<1>6. CASE cases # << >>
  BY <1>1, <1>2, <1>4, <1>6 DEF plan
<1> QED BY <1>5, <1>6

\* The cases of a plan are explained by the patches they list, for any samples
\* and any texts the planner gives (_normalize_llm_plan).
THEOREM CasesAlwaysExplainThemselves ==
  ASSUME NEW S, NEW samples \in Seq(S), NEW T, NEW outputs \in Seq(T),
         \A i \in DOMAIN samples : samples[i].instance \in [DOMAIN samples[i].instance -> Numbers],
         \A i \in DOMAIN samples :
           2 * i <= Len(outputs) /\ outputs[2 * i] # NoText => AreTests(outputs[2 * i].tests)
  PROVE  CasesExplainThemselves(samples, outputs)
<1> SUFFICES ASSUME NEW i \in DOMAIN samples
    PROVE  LET plan == Prepared(samples, outputs)[i]
               base == samples[i].instance
           IN  /\ (plan.source = "disabled") <=> (plan.cases = << >>)
               /\ \A n \in DOMAIN plan.cases :
                    LET c == plan.cases[n]
                        before(key, m) == {l \in 1..(m - 1) : c.patches[l].key = key}
                        value(key, m) == IF before(key, m) = {} THEN base[key]
                                         ELSE c.patches[Max(before(key, m))].new
                    IN  /\ DOMAIN c.instance = DOMAIN base
                        /\ \A m \in DOMAIN c.patches : /\ c.patches[m].key \in DOMAIN base
                                                       /\ c.patches[m].old = value(c.patches[m].key, m)
                        /\ \A key \in DOMAIN base : c.instance[key] = value(key, Len(c.patches) + 1)
  BY DEF CasesExplainThemselves
<1> DEFINE plan == Prepared(samples, outputs)[i]
           base == samples[i].instance
<1>1. plan = PlanOf(samples[i], TextAt(outputs, 2 * i - 1), TextAt(outputs, 2 * i))
  BY PreparedIs
<1>2. TextAt(outputs, 2 * i) # NoText => AreTests(TextAt(outputs, 2 * i).tests)
  BY DEF TextAt
<1>3. /\ (plan.source = "disabled") <=> (plan.cases = << >>)
      /\ \A n \in DOMAIN plan.cases :
           \E test, scale : ArePatches(test.patches) /\ plan.cases[n] = CaseOf(test, samples[i], scale)
  BY <1>1, <1>2, PlanCases
<1> HIDE DEF plan
<1>4. ASSUME NEW n \in DOMAIN plan.cases
      PROVE  /\ DOMAIN plan.cases[n].instance = DOMAIN base
             /\ Explains(base, plan.cases[n].instance, plan.cases[n].patches)
  BY <1>3, CaseExplained
<1> QED BY <1>3, <1>4 DEF Explains, ValueBefore, EarlierPatches, plan

\* What ScaleOf makes is a scale.
LEMMA RecordsOfScales ==
  ASSUME NEW kind \in Kinds, NEW ranges \in Seq(Intervals), NEW point \in Bounds, NEW tolAbs \in Int,
         NEW sign \in Signs, NEW orders, orders[1] \in Bounds, orders[2] \in Bounds,
         kind = "interval" => Len(ranges) = 1
  PROVE  IsScale(ScaleOf(kind, ranges, point, tolAbs, sign, orders))
<1> DEFINE s == ScaleOf(kind, ranges, point, tolAbs, sign, orders)
<1>1. s = [kind |-> kind, ranges |-> ranges, point |-> point, tolAbs |-> tolAbs, tolPercent |-> 5,
           sign |-> sign, minOrder |-> orders[1], maxOrder |-> orders[2], useAbs |-> sign # "any", reject |-> {0}]
  BY DEF ScaleOf
<1> HIDE DEF s
<1>2. s.kind = kind /\ s.ranges = ranges /\ s.point = point /\ s.tolAbs = tolAbs /\ s.tolPercent = 5
      /\ s.sign = sign /\ s.minOrder = orders[1] /\ s.maxOrder = orders[2] /\ s.useAbs = (sign # "any")
      /\ s.reject = {0}
  BY <1>1
<1>3. s.useAbs \in BOOLEAN
  BY <1>2
<1>4. s = [kind |-> s.kind, ranges |-> s.ranges, point |-> s.point, tolAbs |-> s.tolAbs,
          tolPercent |-> s.tolPercent, sign |-> s.sign, minOrder |-> s.minOrder,
          maxOrder |-> s.maxOrder, useAbs |-> s.useAbs, reject |-> s.reject]
  BY <1>1
<1> QED BY <1>2, <1>3, <1>4 DEF IsScale, s

\* The scales the runs choose are scales.
LEMMA ScalesAreScales ==
  ASSUME NEW raw \in Scales
  PROVE  IsScale(raw)
<1>1. Edges \in SUBSET Bounds /\ Ranges \in SUBSET Intervals
  BY DEF Edges, Bounds, Ranges, Intervals
<1>2. \A o \in Orders : o[1] \in Bounds /\ o[2] \in Bounds
  BY DEF Orders, Bounds
<1>3. /\ \A r \in Intervals : <<r>> \in Seq(Intervals) /\ Len(<<r>>) = 1
      /\ \A r, q \in Intervals : <<r, q>> \in Seq(Intervals)
      /\ << >> \in Seq(Intervals)
  OBVIOUS
<1>4. Unbounded \in Bounds
  BY DEF Bounds
<1>5. CASE \E r \in Ranges, sign \in {"any", "nonnegative", "nonpositive"}, o \in Orders :
              raw = ScaleOf("interval", <<r>>, Unbounded, 0, sign, o)
  BY <1>1, <1>2, <1>3, <1>4, <1>5, RecordsOfScales DEF Kinds, Signs
<1>6. CASE \E r \in Ranges, q \in Ranges, sign \in {"any", "nonzero"} :
              raw = ScaleOf("union", <<r, q>>, Unbounded, 0, sign, <<4, 2>>)
  <2>1. PICK r \in Ranges, q \in Ranges, sign \in {"any", "nonzero"} :
              raw = ScaleOf("union", <<r, q>>, Unbounded, 0, sign, <<4, 2>>)
    BY <1>6
  <2>2. "union" \in Kinds /\ sign \in Signs /\ 0 \in Int /\ "union" # "interval"
    BY DEF Kinds, Signs
  <2>3. <<r, q>> \in Seq(Intervals)
    BY <1>1, <1>3
  <2>4. <<4, 2>>[1] \in Bounds /\ <<4, 2>>[2] \in Bounds
    BY DEF Bounds
  <2> QED BY <1>4, <2>1, <2>2, <2>3, <2>4, RecordsOfScales
<1>7. CASE \E p \in Edges, tolAbs \in {0, 500}, sign \in {"any", "positive", "negative"}, o \in Orders :
              raw = ScaleOf("point", << >>, p, tolAbs, sign, o)
  <2>1. PICK p \in Edges, tolAbs \in {0, 500}, sign \in {"any", "positive", "negative"}, o \in Orders :
              raw = ScaleOf("point", << >>, p, tolAbs, sign, o)
    BY <1>7
  <2>2. "point" \in Kinds /\ sign \in Signs /\ tolAbs \in Int /\ "point" # "interval" /\ p \in Bounds
    BY <1>1 DEF Kinds, Signs
  <2>3. o[1] \in Bounds /\ o[2] \in Bounds /\ << >> \in Seq(Intervals)
    BY <1>2, <1>3
  <2> QED BY <2>1, <2>2, <2>3, RecordsOfScales
<1> DEFINE A == {ScaleOf("interval", <<r>>, Unbounded, 0, sign, o) :
                   r \in Ranges, sign \in {"any", "nonnegative", "nonpositive"}, o \in Orders}
           B == {ScaleOf("union", <<r, q>>, Unbounded, 0, sign, <<4, 2>>) :
                   r \in Ranges, q \in {s \in Ranges : s.lower \in {Unbounded, 100}}, sign \in {"any", "nonzero"}}
           C == {ScaleOf("point", << >>, p, tolAbs, sign, o) :
                   p \in Edges, tolAbs \in {0, 500}, sign \in {"any", "positive", "negative"}, o \in Orders}
<1>8. raw \in A \/ raw \in B \/ raw \in C
  <2>1. Scales = A \cup B \cup C
    BY SMT DEF Scales
  <2> HIDE DEF A, B, C
  <2> QED BY <2>1
<1>9. raw \in A => IsScale(raw)
  BY <1>5, SMT
<1>10. raw \in B => IsScale(raw)
  <2>1. raw \in B => \E r \in Ranges, q \in Ranges, sign \in {"any", "nonzero"} :
                       raw = ScaleOf("union", <<r, q>>, Unbounded, 0, sign, <<4, 2>>)
    BY SMT
  <2> HIDE DEF B
  <2> QED BY <1>6, <2>1
<1>11. raw \in C => IsScale(raw)
  BY <1>7, SMT
<1> HIDE DEF A, B, C
<1> QED BY <1>8, <1>9, <1>10, <1>11

\* Every scale and objective of the runs.
LEMMA ChooseScaleSound == ChooseScale => TestPlansSound'
<1> SUFFICES ASSUME ChooseScale PROVE TestPlansSound'
  OBVIOUS
<1>1. PICK raw \in Scales, v \in Probes :
        input' = [kind |-> "scale", chosen |-> TRUE, raw |-> raw, v |-> v]
  BY DEF ChooseScale
<1>2. v \in Int /\ IsScale(raw)
  BY ScalesAreScales DEF Probes
<1>3. ExpansionKeepsMatches(v, raw) /\ DefaultScaleIsWider(v, raw)
  BY <1>2, ExpansionAlwaysKeepsMatches, DefaultScaleIsAlwaysWider
<1>4. input'.kind = "scale" /\ input'.v = v /\ input'.raw = raw
  BY <1>1
<1> QED BY <1>3, <1>4 DEF TestPlansSound, Chosen

\* Every heuristic case of the runs.
LEMMA ChoosePerturbationSound == ChoosePerturbation => TestPlansSound'
<1> SUFFICES ASSUME ChoosePerturbation PROVE TestPlansSound'
  OBVIOUS
<1>1. PICK focus \in Focuses, small \in [1..2 -> SmallNumbers], large \in {12, 100}, caseIdx \in 0..7 :
       input' = [kind |-> "perturb", chosen |-> TRUE, focus |-> focus, caseIdx |-> caseIdx,
                 instance |-> [i \in 1..5 |-> IF i <= 2 THEN small[i] ELSE AnInt(large)]]
  BY DEF ChoosePerturbation
<1> DEFINE instance == [i \in 1..5 |-> IF i <= 2 THEN small[i] ELSE AnInt(large)]
<1>2. focus \in Seq(1..4) /\ focus # << >> /\ \A i \in DOMAIN focus : focus[i] \in 1..4
  <2>1. CASE focus = <<1, 2, 1>>
    BY <2>1
  <2>2. ASSUME NEW n \in 1..4, focus = [i \in 1..n |-> i]
        PROVE  focus \in Seq(1..4) /\ focus # << >> /\ \A i \in DOMAIN focus : focus[i] \in 1..4
    BY <2>2
  <2> QED BY <2>1, <2>2 DEF Focuses
<1>3. \A i \in 1..4 : i \in DOMAIN instance /\ instance[i] \in Amounts
  <2>1. SmallNumbers \in SUBSET Amounts
    <3>1. \A v \in Int : AnInt(v) \in Amounts /\ AFloat(v) \in Amounts
      BY DEF AnInt, AFloat, Amounts
    <3>2. /\ FloatOne \in Int /\ -FloatOne \in Int /\ (FloatOne \div 50) \in Int
          /\ FloatOne - 1 \in Int /\ 3 * FloatOne \in Int
      BY GrainFacts
    <3> QED BY <3>1, <3>2 DEF SmallNumbers
  <2>2. AnInt(large) \in Amounts
    BY DEF AnInt, Amounts
  <2>3. \A i \in 1..2 : small[i] \in Amounts
    BY <2>1
  <2> QED BY <2>2, <2>3
<1>4. input'.kind = "perturb" /\ input'.focus = focus /\ input'.instance = instance /\ input'.caseIdx = caseIdx
  BY <1>1
<1> HIDE DEF instance
<1>5. caseIdx \in Nat
  OBVIOUS
<1>6. PerturbationMoves(instance, focus, caseIdx)
  BY <1>2, <1>3, <1>5, PerturbationAlwaysMoves
<1> QED BY <1>4, <1>6 DEF TestPlansSound, Chosen

\* Sequences written out are sequences.
LEMMA ShortLists ==
  /\ \A a : <<a>> \in Seq(Range(<<a>>)) /\ DOMAIN <<a>> = {1} /\ <<a>>[1] = a
  /\ \A a, b : <<a, b>> \in Seq(Range(<<a, b>>)) /\ DOMAIN <<a, b>> = {1, 2} /\ <<a, b>>[1] = a /\ <<a, b>>[2] = b
  /\ << >> \in Seq(Range(<< >>)) /\ DOMAIN << >> = {}
<1>1. \A a : <<a>> \in Seq(Range(<<a>>)) /\ DOMAIN <<a>> = {1} /\ <<a>>[1] = a
  BY DEF Range
<1>2. \A a, b : <<a, b>> \in Seq(Range(<<a, b>>)) /\ DOMAIN <<a, b>> = {1, 2} /\ <<a, b>>[1] = a /\ <<a, b>>[2] = b
  BY DEF Range
<1>3. << >> \in Seq(Range(<< >>)) /\ DOMAIN << >> = {}
  OBVIOUS
<1> QED BY <1>1, <1>2, <1>3

\* The texts and samples the runs choose.
LEMMA TestsTextsAreTests ==
  ASSUME NEW t \in TestsTexts, t # NoText
  PROVE  AreTests(t.tests)
<1>1. CASE t.tests = << >>
  BY <1>1, ShortLists DEF AreTests
<1>2. CASE t.tests # << >>
  <2>1. PICK v \in {FloatOne, 2 * FloatOne} :
          t = [tests |-> <<[patches |-> <<[fid |-> "f1", op |-> "shift", value |-> v]>>, scale |-> Interval(0, 300)],
                           [patches |-> <<[fid |-> "f2", op |-> "replace", value |-> v]>>, scale |-> NoScale]>>]
    BY <1>2 DEF TestsTexts
  <2> DEFINE p == [fid |-> "f1", op |-> "shift", value |-> v]
             q == [fid |-> "f2", op |-> "replace", value |-> v]
             a == [patches |-> <<p>>, scale |-> Interval(0, 300)]
             b == [patches |-> <<q>>, scale |-> NoScale]
  <2>2. t.tests = <<a, b>> /\ a.patches = <<p>> /\ b.patches = <<q>>
    BY <2>1
  <2>3. IsPatch(p) /\ IsPatch(q)
    BY GrainFacts DEF IsPatch
  <2> HIDE DEF p, q, a, b
  <2>4. ArePatches(<<p>>) /\ ArePatches(<<q>>)
    BY <2>3, ShortLists DEF ArePatches
  <2>5. AreTests(<<a, b>>)
    BY <2>2, <2>4, ShortLists DEF AreTests
  <2> QED BY <2>2, <2>5
<1> QED BY <1>1, <1>2

\* The samples of the runs have numbers.
LEMMA SamplesAreSamples ==
  /\ DOMAIN Samples = {1, 2}
  /\ \A i \in {1, 2} : Samples[i].instance \in [DOMAIN Samples[i].instance -> Numbers]
<1>1. /\ Samples[1].instance = [a |-> AnInt(3), b |-> AnInt(10)]
      /\ Samples[2].instance = [a |-> AFloat((3 * FloatOne) \div 2), c |-> NoNumber]
  BY DEF Samples
<1>2. \A x, y \in Numbers : [a |-> x, b |-> y] \in [DOMAIN [a |-> x, b |-> y] -> Numbers]
  OBVIOUS
<1>3. \A x, y \in Numbers : [a |-> x, c |-> y] \in [DOMAIN [a |-> x, c |-> y] -> Numbers]
  OBVIOUS
<1>4. /\ AnInt(3) \in Numbers /\ AnInt(10) \in Numbers
      /\ AFloat((3 * FloatOne) \div 2) \in Numbers /\ NoNumber \in Numbers
  <2>1. (3 * FloatOne) \div 2 \in Int
    BY GrainFacts
  <2> QED BY <2>1 DEF Numbers, Amounts, AnInt, AFloat
<1>5. DOMAIN Samples = {1, 2}
  BY DEF Samples
<1> QED BY <1>1, <1>2, <1>3, <1>4, <1>5

\* The first elements of a sequence.
LEMMA PrefixFacts ==
  ASSUME NEW T, NEW s \in Seq(T), NEW m \in Nat, m <= Len(s)
  PROVE  /\ SubSeq(s, 1, m) \in Seq(T) /\ Len(SubSeq(s, 1, m)) = m /\ DOMAIN SubSeq(s, 1, m) = 1..m
         /\ \A i \in 1..m : SubSeq(s, 1, m)[i] = s[i]
<1>1. 1..m \in SUBSET (1..Len(s)) /\ DOMAIN s = 1..Len(s)
  OBVIOUS
<1>2. SubSeq(s, 1, m) = [i \in 1..m |-> s[i]]
  OBVIOUS
<1>3. \A i \in 1..m : s[i] \in T
  BY <1>1
<1>4. [i \in 1..m |-> s[i]] \in Seq(T) /\ Len([i \in 1..m |-> s[i]]) = m
  BY <1>3
<1> QED BY <1>2, <1>4

\* A step that chooses samples and texts of the right shape.
LEMMA PlansSound ==
  ASSUME NEW S, NEW samples \in Seq(S), NEW T, NEW outputs \in Seq(T),
         \A i \in DOMAIN samples : samples[i].instance \in [DOMAIN samples[i].instance -> Numbers],
         \A i \in DOMAIN samples :
           2 * i <= Len(outputs) /\ outputs[2 * i] # NoText => AreTests(outputs[2 * i].tests),
         input' = [kind |-> "plan", chosen |-> TRUE, samples |-> samples, outputs |-> outputs]
  PROVE  TestPlansSound'
<1>1. PlannedAlone(samples, outputs)
  BY SamplesArePlannedAlone
<1>2. CasesExplainThemselves(samples, outputs)
  BY CasesAlwaysExplainThemselves
<1>3. input'.kind = "plan" /\ input'.samples = samples /\ input'.outputs = outputs
  OBVIOUS
<1> QED BY <1>1, <1>2, <1>3 DEF TestPlansSound, Chosen

\* Every planning call of the runs.
LEMMA ChoosePlanSound == ChoosePlan => TestPlansSound'
<1> SUFFICES ASSUME ChoosePlan PROVE TestPlansSound'
  OBVIOUS
<1>1. CASE \E n \in 1..2, texts \in (BaseTexts \X TestsTexts \X BaseTexts \X TestsTexts), len \in 0..4 :
          /\ len <= 2 * n
          /\ input' = [kind |-> "plan", chosen |-> TRUE, samples |-> SubSeq(Samples, 1, n),
                       outputs |-> SubSeq(texts, 1, len)]
  <2>1. PICK n \in 1..2, texts \in (BaseTexts \X TestsTexts \X BaseTexts \X TestsTexts), len \in 0..4 :
          /\ len <= 2 * n
          /\ input' = [kind |-> "plan", chosen |-> TRUE, samples |-> SubSeq(Samples, 1, n),
                       outputs |-> SubSeq(texts, 1, len)]
    BY <1>1
  <2> DEFINE samples == SubSeq(Samples, 1, n)
             outputs == SubSeq(texts, 1, len)
             T == BaseTexts \cup TestsTexts
             S == Range(Samples)
  <2>2. Samples \in Seq(S) /\ Len(Samples) = 2
    BY ShortLists DEF Samples
  <2>3. samples \in Seq(S) /\ DOMAIN samples = 1..n /\ \A i \in 1..n : samples[i] = Samples[i]
    <3> HIDE DEF S
    <3>1. n \in Nat /\ 1 <= n /\ n <= 2
      OBVIOUS
    <3> QED BY <2>2, <3>1, PrefixFacts
  <2>4. texts \in Seq(T) /\ Len(texts) = 4 /\ texts[2] \in TestsTexts /\ texts[4] \in TestsTexts
    <3>1. PICK a \in BaseTexts, b \in TestsTexts, c \in BaseTexts, d \in TestsTexts : texts = <<a, b, c, d>>
      OBVIOUS
    <3>2. a \in T /\ b \in T /\ c \in T /\ d \in T
      OBVIOUS
    <3> HIDE DEF T
    <3> QED BY <3>1, <3>2
  <2>5. outputs \in Seq(T) /\ Len(outputs) = len /\ \A i \in 1..len : outputs[i] = texts[i]
    BY <2>4, PrefixFacts
  <2>6. input' = [kind |-> "plan", chosen |-> TRUE, samples |-> samples, outputs |-> outputs]
    BY <2>1
  <2> HIDE DEF samples, outputs, S, T
  <2>7. \A i \in DOMAIN samples : samples[i].instance \in [DOMAIN samples[i].instance -> Numbers]
    BY <2>3, SamplesAreSamples
  <2>8. ASSUME NEW i \in DOMAIN samples, 2 * i <= Len(outputs), outputs[2 * i] # NoText
        PROVE  AreTests(outputs[2 * i].tests)
    BY <2>3, <2>4, <2>5, <2>8, TestsTextsAreTests
  <2> QED BY <2>3, <2>5, <2>6, <2>7, <2>8, PlansSound
<1>2. CASE \E n \in 1..2, patches \in SequencesOf(Patches, 1..2) :
          input' = [kind |-> "plan", chosen |-> TRUE, samples |-> <<Samples[n]>>,
                    outputs |-> <<NoText, [tests |-> <<[patches |-> patches, scale |-> NoScale]>>]>>]
  <2>1. PICK n \in 1..2, patches \in SequencesOf(Patches, 1..2) :
          input' = [kind |-> "plan", chosen |-> TRUE, samples |-> <<Samples[n]>>,
                    outputs |-> <<NoText, [tests |-> <<[patches |-> patches, scale |-> NoScale]>>]>>]
    BY <1>2
  <2> DEFINE test == [patches |-> patches, scale |-> NoScale]
             text == [tests |-> <<test>>]
             samples == <<Samples[n]>>
             outputs == <<NoText, text>>
  <2>2. ArePatches(patches)
    <3>1. FloatOne \div 2 \in Int
      BY GrainFacts
    <3>2. \A p \in Patches : IsPatch(p)
      BY <3>1 DEF Patches, IsPatch
    <3> QED BY <3>2 DEF SequencesOf, Range, ArePatches
  <2>3. test.patches = patches /\ text.tests = <<test>>
    OBVIOUS
  <2> HIDE DEF test
  <2>4. AreTests(text.tests)
    BY <2>2, <2>3, ShortLists DEF AreTests
  <2>5. input' = [kind |-> "plan", chosen |-> TRUE, samples |-> samples, outputs |-> outputs]
    BY <2>1 DEF test
  <2> HIDE DEF text
  <2>6. samples \in Seq(Range(samples)) /\ DOMAIN samples = {1} /\ samples[1] = Samples[n]
    BY ShortLists
  <2>7. outputs \in Seq(Range(outputs)) /\ outputs[2] = text
    BY ShortLists
  <2> HIDE DEF samples, outputs
  <2>8. \A i \in DOMAIN samples : samples[i].instance \in [DOMAIN samples[i].instance -> Numbers]
    BY <2>6, SamplesAreSamples
  <2>9. \A i \in DOMAIN samples :
           2 * i <= Len(outputs) /\ outputs[2 * i] # NoText => AreTests(outputs[2 * i].tests)
    BY <2>4, <2>6, <2>7
  <2> QED BY <2>5, <2>6, <2>7, <2>8, <2>9, PlansSound
<1> QED BY <1>1, <1>2 DEF ChoosePlan

\* What the other actions choose.
LEMMA OtherKinds ==
  /\ ChooseClusters => input'.kind = "clusters"
  /\ ChooseTotals => input'.kind = "totals"
  /\ ChooseStructures => input'.kind = "structure"
  /\ ChooseGroup => input'.kind = "group"
  /\ ChooseRows => input'.kind = "estimators"
  /\ ChoosePartition => input'.kind = "partition"
  /\ ChooseMicroBatches => input'.kind = "micro"
  /\ ChooseUids => input'.kind = "uids"
  /\ ChooseLosses => input'.kind = "loss"
  /\ ChooseDispatch => input'.kind = "dispatch"
<1>1. ChooseClusters => input'.kind = "clusters"
  BY DEF ChooseClusters
<1>2. ChooseTotals => input'.kind = "totals"
  BY DEF ChooseTotals
<1>3. ChooseStructures => input'.kind = "structure"
  BY DEF ChooseStructures
<1>4. ChooseGroup => input'.kind = "group"
  BY DEF ChooseGroup
<1>5. ChooseRows => input'.kind = "estimators"
  BY DEF ChooseRows
<1>6. ChoosePartition => input'.kind = "partition"
  BY DEF ChoosePartition
<1>7. ChooseMicroBatches => input'.kind = "micro"
  BY DEF ChooseMicroBatches
<1>8. ChooseUids => input'.kind = "uids"
  BY DEF ChooseUids
<1>9. ChooseLosses => input'.kind = "loss"
  BY DEF ChooseLosses
<1>10. ChooseDispatch => input'.kind = "dispatch"
  BY DEF ChooseDispatch
<1> QED BY <1>1, <1>2, <1>3, <1>4, <1>5, <1>6, <1>7, <1>8, <1>9, <1>10

\* Whatever input is chosen, test plans are sound (_prepare_r3_for_samples,
\* _normalize_llm_plan, generate_perturbed_instances_from_map,
\* _expand_obj_scale_margin).
THEOREM TestPlansAlwaysSound == AlgorithmsSpec => []TestPlansSound
<1>1. AlgorithmsInit => TestPlansSound
  BY DEF AlgorithmsInit, TestPlansSound, Chosen
<1>2. TestPlansSound /\ [AlgorithmsNext]_input => TestPlansSound'
  <2> SUFFICES ASSUME TestPlansSound, [AlgorithmsNext]_input PROVE TestPlansSound'
    OBVIOUS
  <2>1. CASE input'.kind \notin {"plan", "perturb", "scale"}
    BY <2>1 DEF TestPlansSound, Chosen
  <2>2. CASE ChooseScale
    BY <2>2, ChooseScaleSound
  <2>3. CASE ChoosePlan
    BY <2>3, ChoosePlanSound
  <2>4. CASE ChoosePerturbation
    BY <2>4, ChoosePerturbationSound
  <2>5. CASE UNCHANGED input
    BY <2>5 DEF TestPlansSound, Chosen
  <2>6. CASE input'.kind \in {"clusters", "totals", "structure", "group", "estimators", "partition", "micro",
                             "uids", "loss", "dispatch"}
    BY <2>6, <2>1
  <2> QED BY <2>2, <2>3, <2>4, <2>5, <2>6, OtherKinds DEF AlgorithmsNext
<1> QED BY <1>1, <1>2, PTL DEF AlgorithmsSpec

-----------------------------------------------------------------------------
(* The bookkeeping of a group, for all completions and settings.           *)

IsCompletion(c) ==
  /\ c.error \in BOOLEAN /\ c.reward \in Int
  /\ c.mask \in SUBSET Nat /\ IsFiniteSet(c.mask) /\ c.mask # {}
  /\ c.ids \in Nat /\ c.match \in Nat

IsGroup(g) == \E T : g \in Seq(T) /\ \A c \in T : IsCompletion(c)

IsGroupSettings(s) == s.filter \in BOOLEAN /\ s.miniBatch \in Nat \ {0}

\* The positions of a group that are kept.
Survivors(g, settings) == {i \in DOMAIN g : settings.filter => ~g[i].error}

\* The domain of a group.
LEMMA GroupFacts ==
  ASSUME NEW g, IsGroup(g)
  PROVE  Len(g) \in Nat /\ DOMAIN g = 1..Len(g) /\ \A i \in DOMAIN g : IsCompletion(g[i])
<1>1. PICK T : g \in Seq(T) /\ \A c \in T : IsCompletion(c)
  BY DEF IsGroup
<1>2. \A i \in 1..Len(g) : g[i] \in T
  BY <1>1
<1> QED BY <1>1, <1>2

\* The completions that are kept are listed once, in their order.
LEMMA KeptFacts ==
  ASSUME NEW g, IsGroup(g), NEW settings
  PROVE  LET kept == Kept(g, settings) IN
         /\ kept \in Seq(Survivors(g, settings)) /\ kept \in Seq(1..Len(g))
         /\ Len(kept) \in Nat /\ Len(kept) <= Len(g) /\ DOMAIN kept = 1..Len(kept)
         /\ \A j, k \in DOMAIN kept : j < k => kept[j] < kept[k]
         /\ \A i \in Survivors(g, settings) : \E j \in DOMAIN kept : kept[j] = i
<1> DEFINE I == Survivors(g, settings)
           c == Cardinality(I)
<1>1. I \in SUBSET (1..Len(g)) /\ Len(g) \in Nat
  BY GroupFacts DEF Survivors
<1>2. IsFiniteSet(I) /\ Cardinality(I) <= Len(g)
  <2> HIDE DEF I
  <2>1. IsFiniteSet(1..Len(g)) /\ Cardinality(1..Len(g)) = Len(g)
    BY <1>1, FS_Interval
  <2> QED BY <1>1, <2>1, FS_Subset
<1>3. Kept(g, settings) = Listed(I)
  BY Zenon DEF Kept, Survivors
<1> HIDE DEF I
<1>4. /\ c \in Nat /\ Listed(I) \in [1..c -> I]
      /\ \A m, n \in 1..c : m < n => Listed(I)[m] < Listed(I)[n]
      /\ \A i \in I : \E n \in 1..c : Listed(I)[n] = i
  BY <1>1, <1>2, ListedFacts
<1> DEFINE f == Listed(I)
<1> HIDE DEF f
<1>5. f \in Seq(I) /\ Len(f) = c /\ c <= Len(g) /\ DOMAIN f = 1..c
  BY <1>2, <1>4 DEF f
<1> HIDE DEF c
<1>6. f \in Seq(1..Len(g))
  <2>1. I \in SUBSET (1..Len(g)) /\ \A n \in 1..c : f[n] \in I
    BY <1>1, <1>4 DEF f
  <2>2. \A n \in 1..c : f[n] \in 1..Len(g)
    BY <2>1
  <2>3. f = [n \in 1..c |-> f[n]]
    BY <1>5
  <2>4. f \in [1..c -> 1..Len(g)]
    BY <2>2, <2>3
  <2> QED BY <1>4, <2>4
<1> QED BY <1>3, <1>4, <1>5, <1>6 DEF f, I

\* Padding completes the last mini batch and no more.
LEMMA PaddingFacts ==
  ASSUME NEW n \in Nat, NEW settings, IsGroupSettings(settings)
  PROVE  Padding(n, settings) \in Nat /\ Padding(n, settings) < settings.miniBatch
<1> DEFINE b == settings.miniBatch
           r == n % b
<1>1. b \in Nat /\ b > 0
  BY DEF IsGroupSettings
<1>2. r \in Int /\ 0 <= r /\ r < b
  BY <1>1, DivisionFacts
<1>3. Padding(n, settings) = IF r = 0 THEN 0 ELSE b - r
  BY DEF Padding
<1> HIDE DEF b, r
<1>4. Padding(n, settings) \in Nat /\ Padding(n, settings) < b
  BY <1>1, <1>2, <1>3
<1> QED BY <1>4 DEF b

Increasing(s) == \A j, k \in 1..Len(s) : j < k => s[j] < s[k]

\* The rows other than the first are in the batch once.
OnceEach(batch, kept) ==
  \A j \in 1..Len(kept) : j > 1 => Cardinality({r \in DOMAIN batch : batch[r] = kept[j]}) = 1

\* The elements of two sequences one after the other.
LEMMA Joined ==
  ASSUME NEW a \in Seq(Int), NEW b \in Seq(Int)
  PROVE  /\ a \o b \in Seq(Int) /\ Len(a \o b) = Len(a) + Len(b)
         /\ \A r \in 1..Len(a) : (a \o b)[r] = a[r]
         /\ \A r \in 1..Len(b) : (a \o b)[Len(a) + r] = b[r]
  OBVIOUS

Padded(kept, pad) == kept \o [i \in 1..pad |-> kept[1]]

\* The rows of a group that is trained and their copies.
LEMMA BatchRows ==
  ASSUME NEW m \in Nat, m > 0, NEW kept \in Seq(Int), Len(kept) = m, NEW pad \in Nat,
         Increasing(kept), NEW batch, batch = Padded(kept, pad)
  PROVE  /\ Len(batch) = m + pad
         /\ ToSet(batch) = ToSet(kept)
         /\ OnceEach(batch, kept)
<1> DEFINE tail == [i \in 1..pad |-> kept[1]]
<1>1. 1 \in 1..m /\ kept[1] \in Int
  OBVIOUS
<1>2. tail \in Seq(Int) /\ Len(tail) = pad /\ \A i \in 1..pad : tail[i] = kept[1]
  BY <1>1
<1> HIDE DEF tail
<1>3. batch = kept \o tail
  BY DEF tail, Padded
<1>4. Len(batch) = m + pad /\ DOMAIN batch = 1..(m + pad)
  <2>1. batch \in Seq(Int) /\ Len(batch) = Len(kept) + Len(tail)
    BY <1>2, <1>3, Joined
  <2> QED BY <1>2, <2>1
<1>6. \A r \in 1..(m + pad) : batch[r] = IF r <= m THEN kept[r] ELSE kept[1]
  BY <1>2, <1>3, Joined
<1>7. DOMAIN kept = 1..m
  OBVIOUS
<1>8. ToSet(batch) = ToSet(kept)
  BY <1>1, <1>4, <1>6, <1>7 DEF ToSet
<1>9. ASSUME NEW j \in 1..m, j > 1
      PROVE  Cardinality({r \in DOMAIN batch : batch[r] = kept[j]}) = 1
  <2>1. \A k \in 1..m : kept[k] \in Int
    OBVIOUS
  <2>2. \A k \in 1..m : kept[k] = kept[j] => k = j
    BY <2>1 DEF Increasing
  <2>3. j \in 1..(m + pad) /\ batch[j] = kept[j]
    BY <1>6
  <2>4. \A r \in 1..(m + pad) : batch[r] = kept[j] => r = j
    BY <1>1, <1>6, <1>9, <2>2
  <2>5. {r \in DOMAIN batch : batch[r] = kept[j]} = {j}
    BY <1>4, <2>3, <2>4
  <2> QED BY <2>5, FS_Singleton
<1> QED BY <1>4, <1>8, <1>9 DEF OnceEach

\* The actor's batch is the group.
THEOREM GroupBatchIsTheGroup ==
  ASSUME NEW g, IsGroup(g), NEW settings, IsGroupSettings(settings)
  PROVE  BatchIsTheGroup(g, settings)
<1> DEFINE kept == Kept(g, settings)
           batch == ActorBatch(g, settings)
           m == Len(kept)
           pad == IF settings.padFails THEN 0 ELSE Padding(m, settings)
<1> SUFFICES ASSUME Updated(g, settings)
             PROVE  /\ Len(batch) % settings.miniBatch = 0
                    /\ Len(batch) - Len(kept) < settings.miniBatch
                    /\ ToSet(batch) = ToSet(kept)
                    /\ \A j \in DOMAIN kept : j > 1 => Cardinality({r \in DOMAIN batch : batch[r] = kept[j]}) = 1
  BY Zenon DEF BatchIsTheGroup
<1>1. Len(batch) % settings.miniBatch = 0 /\ kept # << >>
  BY Zenon DEF Updated
<1>2. kept \in Seq(1..Len(g)) /\ m \in Nat /\ DOMAIN kept = 1..m
      /\ \A j, k \in 1..m : j < k => kept[j] < kept[k]
  BY KeptFacts
<1>3. Padding(m, settings) \in Nat /\ Padding(m, settings) < settings.miniBatch
  BY <1>2, PaddingFacts
<1>4. pad \in Nat /\ pad < settings.miniBatch
  BY <1>3 DEF IsGroupSettings
<1>5. batch = IF settings.padFails THEN kept ELSE kept \o [i \in 1..pad |-> kept[1]]
  BY Zenon DEF ActorBatch
<1> HIDE DEF kept, batch, pad
<1>6. m > 0 /\ kept \in Seq(Int)
  BY <1>1, <1>2, GroupFacts
<1>7. batch = Padded(kept, pad)
  <2>1. CASE settings.padFails
    BY <1>5, <1>6, <2>1 DEF pad, Padded
  <2> QED BY <1>5, <2>1 DEF Padded
<1>8. Len(batch) = m + pad /\ ToSet(batch) = ToSet(kept) /\ OnceEach(batch, kept)
  BY <1>2, <1>4, <1>6, <1>7, BatchRows DEF m, Increasing
<1>9. Len(batch) - Len(kept) < settings.miniBatch
  BY <1>2, <1>4, <1>8 DEF IsGroupSettings
<1>10. \A j \in DOMAIN kept : j > 1 => Cardinality({r \in DOMAIN batch : batch[r] = kept[j]}) = 1
  <2>1. DOMAIN kept = 1..Len(kept)
    BY <1>2
  <2> QED BY <1>8, <2>1, Zenon DEF OnceEach
<1> QED BY <1>1, <1>8, <1>9, <1>10, Zenon

-----------------------------------------------------------------------------
(* Sums and records, one element after the other.                          *)

\* What the callback keeps of a completion.
Recorded(g, settings, rollouts, i) ==
  IF settings.filter /\ g[i].error THEN rollouts
  ELSE Append(rollouts, [index |-> i, reward |-> g[i].reward])

Records == [index : Nat, reward : Int]

\* The callback records one completion after the other.
LEMMA RecordsOneByOne ==
  ASSUME NEW g, IsGroup(g), NEW settings
  PROVE  \E h \in [0..Len(g) -> Seq(Records)] :
           /\ h[0] = << >>
           /\ \A k \in 1..Len(g) : h[k] = Recorded(g, settings, h[k - 1], k)
           /\ GroupRollouts(g, settings) = h[Len(g)]
<1> DEFINE V == Seq(Records)
           n == Len(g)
           F == [x \in V \X (1..n) |-> Recorded(g, settings, x[1], x[2])]
<1>1. /\ n \in Nat /\ DOMAIN g = 1..n /\ DOMAIN Positions(g) = 1..n
      /\ (\A k \in 1..n : Positions(g)[k] = k)
      /\ << >> \in V
      /\ \A x \in V, k \in 1..n : Recorded(g, settings, x, k) \in V
  <2>1. n \in Nat /\ DOMAIN g = 1..n /\ \A k \in 1..n : IsCompletion(g[k])
    BY GroupFacts
  <2>2. DOMAIN Positions(g) = 1..n /\ \A k \in 1..n : Positions(g)[k] = k
    BY <2>1 DEF Positions
  <2>3. \A k \in 1..n : [index |-> k, reward |-> g[k].reward] \in Records
    BY <2>1 DEF IsCompletion, Records
  <2>4. \A x \in V, k \in 1..n : Recorded(g, settings, x, k) \in V
    BY <2>3 DEF Recorded
  <2> QED BY <2>1, <2>2, <2>4
<1>2. F \in [V \X (1..n) -> V]
  BY <1>1
<1>3. \A x \in V, k \in 1..n : F[<<x, k>>] = Recorded(g, settings, x, k)
  OBVIOUS
<1> HIDE DEF n, F, V
<1> DEFINE Solves(it) ==
     it = [s \in SUBSET (1..n) |-> IF s = {} THEN << >> ELSE Recorded(g, settings, it[s \ {Max(s)}], Positions(g)[Max(s)])]
<1>4. GroupRollouts(g, settings) = (CHOOSE it : Solves(it))[1..n]
  BY <1>1, Zenon DEF GroupRollouts, FoldLeft, MapThenFoldSet, Recorded, Positions
<1>5. \E it : Solves(it)
  <2>1. PICK it \in [SUBSET (1..n) -> V] : FoldsOver(it, n, F, << >>)
    BY <1>1, <1>2, FoldExists
  <2>2. \A s \in SUBSET (1..n) :
          it[s] = IF s = {} THEN << >> ELSE Recorded(g, settings, it[s \ {Max(s)}], Positions(g)[Max(s)])
    <3> SUFFICES ASSUME NEW s \in SUBSET (1..n), s # {}
                 PROVE  it[s] = Recorded(g, settings, it[s \ {Max(s)}], Positions(g)[Max(s)])
      BY <2>1 DEF FoldsOver
    <3>1. Max(s) \in 1..n
      BY <1>1, MaxOfFirst
    <3>2. it[s \ {Max(s)}] \in V
      OBVIOUS
    <3>3. it[s] = F[<<it[s \ {Max(s)}], Max(s)>>]
      BY <2>1 DEF FoldsOver
    <3> QED BY <1>1, <1>3, <3>1, <3>2, <3>3
  <2>3. it = [s \in SUBSET (1..n) |-> it[s]]
    OBVIOUS
  <2>4. Solves(it)
    BY <2>2, <2>3
  <2> HIDE DEF Solves
  <2> QED BY <2>4
<1> DEFINE fold == CHOOSE it : Solves(it)
<1>6. Solves(fold)
  BY <1>5
<1> HIDE DEF fold
<1>7. fold[{}] = << >>
  BY <1>6
<1>8. ASSUME NEW s \in SUBSET (1..n), s # {}, fold[s \ {Max(s)}] \in V
      PROVE  fold[s] = F[<<fold[s \ {Max(s)}], Max(s)>>]
  <2>1. Max(s) \in 1..n
    BY <1>1, <1>8, MaxOfFirst
  <2>2. fold[s] = Recorded(g, settings, fold[s \ {Max(s)}], Positions(g)[Max(s)])
    BY <1>6, <1>8
  <2> QED BY <1>1, <1>3, <1>8, <2>1, <2>2
<1> HIDE DEF Solves
<1>9. FoldsIn(fold, n, F, << >>, V)
  BY <1>7, <1>8 DEF FoldsIn
<1>10. PICK h \in [0..n -> V] : GoesThrough(h, n, F, << >>, V) /\ h[n] = fold[1..n]
  BY <1>1, <1>2, <1>9, FoldHistory DEF HasHistory
<1>11. \A k \in 1..n : h[k] = Recorded(g, settings, h[k - 1], k)
  <2>1. \A k \in 1..n : k - 1 \in 0..n
    BY <1>1
  <2>2. \A k \in 1..n : h[k - 1] \in V
    BY <2>1
  <2> QED BY <1>1, <1>3, <1>10, <2>2 DEF GoesThrough
<1>12. h[0] = << >>
  BY <1>10 DEF GoesThrough
<1> QED BY <1>4, <1>10, <1>11, <1>12 DEF fold, n, V

\* s holds the rewards of the completions in I, in their order.
ListsOf(s, I, g) ==
  /\ \A j, k \in 1..Len(s) : j < k => s[j].index < s[k].index
  /\ \A j \in 1..Len(s) : s[j].index \in I /\ s[j].reward = g[s[j].index].reward
  /\ \A i \in I : \E j \in 1..Len(s) : s[j].index = i

\* A later completion is listed last.
LEMMA ListOneMore ==
  ASSUME NEW g, NEW I \in SUBSET Nat, NEW s \in Seq(Records), ListsOf(s, I, g),
         NEW r \in Records, Below(I, r.index), r.reward = g[r.index].reward
  PROVE  ListsOf(Append(s, r), I \cup {r.index}, g)
<1> DEFINE new == Append(s, r)
           n == Len(s)
<1>1. n \in Nat /\ Len(new) = n + 1
  OBVIOUS
<1>2. \A j \in 1..n : new[j] = s[j] /\ s[j] \in Records
  OBVIOUS
<1>3. new[n + 1] = r /\ r.index \in Nat
  BY DEF Records
<1> HIDE DEF new
<1>4. \A j \in 1..(n + 1) : j \in 1..n \/ j = n + 1
  BY <1>1
<1>5. \A j \in 1..n : s[j].index \in I /\ s[j].index < r.index /\ s[j].reward = g[s[j].index].reward
  BY DEF ListsOf, Below
<1>6. ASSUME NEW j \in 1..(n + 1), NEW k \in 1..(n + 1), j < k PROVE new[j].index < new[k].index
  BY <1>1, <1>2, <1>3, <1>4, <1>5, <1>6 DEF ListsOf
<1>7. ASSUME NEW j \in 1..(n + 1)
      PROVE  new[j].index \in I \cup {r.index} /\ new[j].reward = g[new[j].index].reward
  BY <1>2, <1>3, <1>4, <1>5
<1>8. ASSUME NEW i \in I \cup {r.index} PROVE \E j \in 1..(n + 1) : new[j].index = i
  <2>1. CASE i \in I
    <3>1. PICK j \in 1..n : s[j].index = i
      BY <2>1 DEF ListsOf
    <3> QED BY <1>1, <1>2, <3>1
  <2>2. CASE i = r.index
    BY <1>1, <1>3, <2>2
  <2> QED BY <2>1, <2>2
<1>9. ListsOf(new, I \cup {r.index}, g)
  BY <1>1, <1>6, <1>7, <1>8 DEF ListsOf
<1> QED BY <1>9 DEF new

\* The completions kept among the first k.
SurvivorsUpTo(g, settings, k) == {i \in Survivors(g, settings) : i <= k}

\* What the callback has recorded after one more completion.
LEMMA RecordStep ==
  ASSUME NEW g, IsGroup(g), NEW settings, IsGroupSettings(settings), NEW k \in 1..Len(g),
         NEW s \in Seq(Records), ListsOf(s, SurvivorsUpTo(g, settings, k - 1), g)
  PROVE  ListsOf(Recorded(g, settings, s, k), SurvivorsUpTo(g, settings, k), g)
<1> DEFINE I == SurvivorsUpTo(g, settings, k - 1)
           J == SurvivorsUpTo(g, settings, k)
<1>1. Len(g) \in Nat /\ DOMAIN g = 1..Len(g) /\ IsCompletion(g[k])
  BY GroupFacts
<1>2. g[k].error \in BOOLEAN /\ g[k].reward \in Int /\ settings.filter \in BOOLEAN
  BY <1>1 DEF IsCompletion, IsGroupSettings
<1>3. Survivors(g, settings) \in SUBSET (1..Len(g))
  BY <1>1 DEF Survivors
<1>4. \A i \in 1..Len(g) : i <= k <=> (i <= k - 1 \/ i = k)
  BY <1>1
<1>5. CASE settings.filter /\ g[k].error
  BY <1>2, <1>3, <1>4, <1>5 DEF Survivors, SurvivorsUpTo, Recorded
<1>6. CASE ~(settings.filter /\ g[k].error)
  <2> DEFINE r == [index |-> k, reward |-> g[k].reward]
  <2>1. k \in Survivors(g, settings)
    BY <1>1, <1>2, <1>6 DEF Survivors
  <2>2. J = I \cup {k}
    BY <1>3, <1>4, <2>1 DEF SurvivorsUpTo
  <2>3. Recorded(g, settings, s, k) = Append(s, r)
    BY <1>6 DEF Recorded
  <2>4. r \in Records /\ r.index = k /\ r.reward = g[r.index].reward
    BY <1>1, <1>2 DEF Records
  <2>5. I \in SUBSET Nat /\ Below(I, k)
    BY <1>1, <1>3 DEF SurvivorsUpTo, Below
  <2> HIDE DEF r, I, J
  <2>6. ListsOf(s, I, g)
    BY DEF I
  <2>7. ListsOf(Append(s, r), I \cup {r.index}, g)
    BY <2>4, <2>5, <2>6, ListOneMore
  <2> QED BY <2>2, <2>3, <2>4, <2>7 DEF J
<1> QED BY <1>5, <1>6

\* The records are the completions that are kept.
LEMMA RolloutsAreKept ==
  ASSUME NEW g, IsGroup(g), NEW settings, IsGroupSettings(settings)
  PROVE  LET kept == Kept(g, settings) IN
         GroupRollouts(g, settings) = [j \in DOMAIN kept |-> [index |-> kept[j], reward |-> g[kept[j]].reward]]
<1> DEFINE n == Len(g)
           I == Survivors(g, settings)
<1>1. n \in Nat /\ DOMAIN g = 1..n
  BY GroupFacts
<1>2. PICK h \in [0..n -> Seq(Records)] :
        /\ h[0] = << >>
        /\ \A k \in 1..n : h[k] = Recorded(g, settings, h[k - 1], k)
        /\ GroupRollouts(g, settings) = h[n]
  BY RecordsOneByOne
<1>3. I \in SUBSET (1..n)
  BY <1>1 DEF Survivors
<1> DEFINE Fails == {k \in 0..n : ~ListsOf(h[k], SurvivorsUpTo(g, settings, k), g)}
<1>4. Fails = {}
  <2> SUFFICES ASSUME Fails # {} PROVE FALSE
    OBVIOUS
  <2>1. Fails \in SUBSET Nat
    BY <1>1
  <2>2. PICK k \in Fails : \A j \in Fails : k <= j
    BY <2>1, LeastElement
  <2>3. k \in 0..n /\ ~ListsOf(h[k], SurvivorsUpTo(g, settings, k), g)
    OBVIOUS
  <2>4. CASE k = 0
    <3>1. SurvivorsUpTo(g, settings, 0) = {}
      BY <1>3, <1>1 DEF SurvivorsUpTo
    <3>2. ListsOf(<< >>, {}, g)
      BY DEF ListsOf
    <3> QED BY <1>2, <2>3, <2>4, <3>1, <3>2
  <2>5. CASE k # 0
    <3>1. k \in 1..n /\ k - 1 \in 0..n /\ k - 1 < k
      BY <1>1, <2>3, <2>5
    <3>2. k - 1 \notin Fails
      BY <1>1, <2>1, <2>2, <3>1
    <3>3. ListsOf(h[k - 1], SurvivorsUpTo(g, settings, k - 1), g)
      BY <3>1, <3>2
    <3>4. h[k - 1] \in Seq(Records)
      BY <3>1
    <3> HIDE DEF Fails, n
    <3>5. k \in 1..Len(g)
      BY <3>1 DEF n
    <3>6. ListsOf(Recorded(g, settings, h[k - 1], k), SurvivorsUpTo(g, settings, k), g)
      BY <3>3, <3>4, <3>5, RecordStep
    <3> QED BY <1>2, <2>3, <3>1, <3>6
  <2> QED BY <2>4, <2>5
<1> DEFINE s == h[n]
           m == Len(s)
           f == [j \in 1..m |-> s[j].index]
<1>5. n \in 0..n /\ SurvivorsUpTo(g, settings, n) = I
  BY <1>1, <1>3 DEF SurvivorsUpTo
<1>6. ListsOf(s, I, g) /\ s \in Seq(Records)
  BY <1>4, <1>5
<1> HIDE DEF s, I, Fails
<1>7. m \in Nat /\ \A j \in 1..m : s[j] \in Records
  BY <1>6
<1>8. /\ f \in [1..m -> I]
      /\ \A j, k \in 1..m : j < k => f[j] < f[k]
      /\ \A i \in I : \E j \in 1..m : f[j] = i
  BY <1>6 DEF ListsOf
<1>9. IsFiniteSet(I) /\ I \in SUBSET Int
  <2>1. IsFiniteSet(1..n)
    BY <1>1, FS_Interval
  <2> QED BY <1>3, <1>1, <2>1, FS_Subset
<1> HIDE DEF f
<1>10. Listed(I) = f
  BY <1>7, <1>8, <1>9, ListedUnique
<1>11. Kept(g, settings) = f
  BY <1>10, Zenon DEF Kept, I, Survivors
<1>12. \A j \in 1..m : s[j] = [index |-> f[j], reward |-> g[f[j]].reward]
  BY <1>6, <1>7 DEF ListsOf, f, Records
<1>13. s = [j \in 1..m |-> s[j]] /\ DOMAIN f = 1..m
  BY <1>6, <1>8
<1>14. s = [j \in 1..m |-> [index |-> f[j], reward |-> g[f[j]].reward]]
  BY <1>12, <1>13
<1> QED BY <1>2, <1>11, <1>13, <1>14 DEF s

\* One more n-th.
LEMMA OneMorePart ==
  ASSUME NEW n \in Nat, n > 0, NEW j \in Nat, NEW a \in Fraction, a[1] * n = j * a[2]
  PROVE  Plus(a, <<1, n>>) \in Fraction /\ Plus(a, <<1, n>>)[1] * n = (j + 1) * Plus(a, <<1, n>>)[2]
<1> DEFINE p == a[1]
           q == a[2]
           new == Plus(a, <<1, n>>)
           x == new[1]
           y == new[2]
<1>1. p \in Int /\ q \in Nat /\ q > 0 /\ p * n = j * q
  BY DEF Fraction
<1>2. <<1, n>> \in Fraction /\ <<1, n>>[1] = 1 /\ <<1, n>>[2] = n
  BY DEF Fraction
<1>3. new \in Fraction /\ x * (q * n) = (p * n + 1 * q) * y
  BY <1>2, PlusValue
<1>4. x \in Int /\ y \in Nat
  BY <1>3 DEF Fraction
<1> HIDE DEF p, q, new, x, y
<1> DEFINE u == x * n
           w == (j + 1) * y
<1>5. u \in Int /\ w \in Int
  BY <1>1, <1>4
<1>6. u * q = w * q
  BY <1>1, <1>3, <1>4
<1> HIDE DEF u, w
<1>7. u = w
  BY <1>1, <1>5, <1>6, Cancel
<1> QED BY <1>3, <1>7 DEF u, w, x, y, new

\* Equal priors are normalised to equal parts of one.
LEMMA EqualPriors ==
  ASSUME NEW n \in Nat, n > 0, NEW k \in Nat, k > 0, NEW rollouts, DOMAIN rollouts = 1..k,
         NEW generations, \A j \in 1..k : generations[j].prior = Frac(1, n)
  PROVE  FallbackPriors(rollouts, generations) = [j \in 1..k |-> <<1, k>>]
<1> DEFINE priors == [j \in DOMAIN rollouts |-> generations[j].prior]
           mass == Sum(priors)
<1>1. Frac(1, n) = <<1, n>>
  <2> DEFINE one == 1
  <2>1. one \in Nat /\ one > 0 /\ n * one = n
    OBVIOUS
  <2> HIDE DEF one
  <2>2. Frac(one, n * one) = <<1, n>>
    BY <2>1, FracOfPart
  <2> QED BY <2>1, <2>2 DEF one
<1>2. <<1, n>> \in Fraction /\ <<1, n>>[1] = 1 /\ <<1, n>>[2] = n
  BY DEF Fraction
<1>3. priors \in Seq(Fraction) /\ Len(priors) = k /\ \A j \in 1..k : priors[j] = <<1, n>>
  BY <1>1, <1>2
<1>4. FallbackPriors(rollouts, generations) = [j \in 1..k |-> Over(<<1, n>>, mass)]
  BY <1>1 DEF FallbackPriors
<1> HIDE DEF priors
<1>5. PICK h \in [0..k -> Fraction] : /\ h[0] = Zero
                                      /\ \A j \in 1..k : h[j] = Plus(h[j - 1], priors[j])
                                      /\ mass = h[k]
  BY <1>3, SumsUp
<1> HIDE DEF mass
<1> DEFINE Fails == {j \in 0..k : h[j][1] * n # j * h[j][2]}
<1>6. Fails = {}
  <2> SUFFICES ASSUME Fails # {} PROVE FALSE
    OBVIOUS
  <2>1. Fails \in SUBSET Nat
    OBVIOUS
  <2>2. PICK j \in Fails : \A i \in Fails : j <= i
    BY <2>1, LeastElement
  <2>3. j \in 0..k /\ h[j][1] * n # j * h[j][2]
    OBVIOUS
  <2>4. CASE j = 0
    BY <1>5, <2>3, <2>4 DEF Zero, Whole
  <2>5. CASE j # 0
    <3> DEFINE i == j - 1
    <3>1. j \in 1..k /\ i \in Nat /\ i \in 0..k /\ i < j /\ i + 1 = j
      BY <2>3, <2>5
    <3>2. i \notin Fails
      BY <2>1, <2>2, <3>1
    <3>3. h[i] \in Fraction /\ h[i][1] * n = i * h[i][2]
      BY <3>1, <3>2
    <3>4. h[j] = Plus(h[i], <<1, n>>)
      BY <1>3, <1>5, <3>1
    <3> HIDE DEF i, Fails
    <3>5. h[j][1] * n = (i + 1) * h[j][2]
      BY <3>1, <3>3, <3>4, OneMorePart
    <3> QED BY <2>3, <3>1, <3>5
  <2> QED BY <2>4, <2>5
<1> DEFINE a == mass[1]
           b == mass[2]
<1>7. a \in Int /\ b \in Nat /\ b > 0
  BY <1>5 DEF Fraction
<1>8. a * n = k * b
  BY <1>5, <1>6
<1>9. Over(<<1, n>>, mass) = Frac(1 * b, n * a)
  BY <1>2, Zenon DEF Over
<1> HIDE DEF a, b
<1>10. 1 * b = b /\ n * a = k * b
  BY <1>7, <1>8
<1>11. Over(<<1, n>>, mass) = <<1, k>>
  BY <1>7, <1>9, <1>10, FracOfPart
<1> QED BY <1>4, <1>11

\* The records of the search are the generations of the backend.
THEOREM GroupRecordsMatch ==
  ASSUME NEW g, IsGroup(g), NEW settings, IsGroupSettings(settings)
  PROVE  RecordsMatchGenerations(g, settings)
<1> DEFINE kept == Kept(g, settings)
           k == Len(kept)
           rollouts == GroupRollouts(g, settings)
           generations == Generations(g, settings)
           code == CodeGenerations(g)
<1>1. /\ kept \in Seq(1..Len(g)) /\ k \in Nat /\ k <= Len(g) /\ DOMAIN kept = 1..k
      /\ Len(g) \in Nat /\ DOMAIN g = 1..Len(g)
  BY KeptFacts, GroupFacts
<1>2. rollouts = [j \in DOMAIN kept |-> [index |-> kept[j], reward |-> g[kept[j]].reward]]
  BY RolloutsAreKept
<1>3. generations = [j \in DOMAIN kept |-> [index |-> kept[j], reward |-> g[kept[j]].reward,
                                            prior |-> Frac(1, k)]]
  BY Zenon DEF Generations, RolloutIndex
<1>4. code = [i \in DOMAIN g |-> [index |-> i, reward |-> g[i].reward, prior |-> Frac(1, Len(g))]]
  BY DEF CodeGenerations
<1> HIDE DEF kept, rollouts, generations, code
<1>5. /\ DOMAIN rollouts = 1..k /\ Len(rollouts) = k /\ Len(generations) = k
      /\ (\A j \in 1..k : generations[j].index = rollouts[j].index /\ generations[j].reward = rollouts[j].reward)
      /\ (\A j \in 1..k : generations[j].prior = Frac(1, k))
  BY <1>1, <1>2, <1>3
<1>6. \A j \in 1..k : code[j].prior = Frac(1, Len(g))
  BY <1>1, <1>4
<1>7. ASSUME rollouts # << >>
      PROVE  FallbackPriors(rollouts, generations) = FallbackPriors(rollouts, code)
  <2>1. k > 0 /\ Len(g) > 0
    BY <1>1, <1>2, <1>7
  <2> HIDE DEF k
  <2>2. FallbackPriors(rollouts, generations) = [j \in 1..k |-> <<1, k>>]
    BY <1>1, <1>5, <2>1, EqualPriors
  <2>3. FallbackPriors(rollouts, code) = [j \in 1..k |-> <<1, k>>]
    BY <1>1, <1>5, <1>6, <2>1, EqualPriors
  <2> QED BY <2>2, <2>3
<1> HIDE DEF k
<1>8. DOMAIN rollouts = 1..k /\ Len(generations) = Len(rollouts)
  BY <1>5
<1>9. \A j \in 1..k : generations[j].index = rollouts[j].index /\ generations[j].reward = rollouts[j].reward
  BY <1>5
<1> QED BY <1>7, <1>8, <1>9, Zenon DEF RecordsMatchGenerations, rollouts, generations, code

\* A finite set of numbers has a greatest.
LEMMA GreatestExists ==
  ASSUME NEW s \in SUBSET Int, IsFiniteSet(s), s # {}
  PROVE  Max(s) \in s /\ \A x \in s : x <= Max(s)
<1> DEFINE c == Cardinality(s)
           f == Listed(s)
<1>1. /\ c \in Nat /\ f \in [1..c -> s]
      /\ \A m, n \in 1..c : m < n => f[m] < f[n]
      /\ \A i \in s : \E n \in 1..c : f[n] = i
  BY ListedFacts
<1> HIDE DEF c, f
<1>2. c \in 1..c
  <2>1. PICK i \in s : TRUE
    OBVIOUS
  <2>2. PICK n \in 1..c : f[n] = i
    BY <1>1
  <2> QED BY <1>1, <2>2
<1>3. f[c] \in s /\ f[c] \in Int
  BY <1>1, <1>2
<1>4. ASSUME NEW x \in s PROVE x <= f[c]
  BY <1>1, <1>2, <1>3
<1> QED BY <1>3, <1>4, MaxIs

\* A stage trains at least one token.
LEMMA SomeLength ==
  ASSUME NEW c, IsCompletion(c)
  PROVE  SelectedLength(c) \in Nat /\ SelectedLength(c) >= 1
<1> DEFINE valid == Cardinality(c.mask)
           x == IF c.match > 0 THEN c.match ELSE c.ids
<1>1. c.ids \in Nat /\ c.match \in Nat
  BY DEF IsCompletion
<1>2. valid \in Nat /\ valid >= 1
  BY FS_CardinalityType, FS_EmptySet DEF IsCompletion
<1>3. CASE c.stage \in {"short", "whole"} \/ (c.match = 0 /\ c.ids = 0)
  BY <1>2, <1>3 DEF SelectedLength
<1>4. CASE ~(c.stage \in {"short", "whole"} \/ (c.match = 0 /\ c.ids = 0))
  <2>1. x \in Nat /\ x >= 1
    BY <1>1, <1>4
  <2>2. SelectedLength(c) = Min({valid, x})
    BY <1>4, Zenon DEF SelectedLength
  <2> HIDE DEF valid, x
  <2>3. \E y \in {valid, x} : \A z \in {valid, x} : y <= z
    BY <1>2, <2>1
  <2>4. Min({valid, x}) \in {valid, x}
    BY <2>3 DEF Min
  <2> QED BY <1>2, <2>1, <2>2, <2>4
<1> QED BY <1>3, <1>4

\* Some token of a row is trained.
LEMMA SomeTrained ==
  ASSUME NEW c, IsCompletion(c), NEW settings
  PROVE  /\ TrainedMask(c, settings) \in SUBSET c.mask /\ TrainedMask(c, settings) # {}
         /\ IsFiniteSet(TrainedMask(c, settings)) /\ TrainedMask(c, settings) \in SUBSET Int
<1>1. c.mask \in SUBSET Nat /\ IsFiniteSet(c.mask) /\ c.mask # {}
  BY DEF IsCompletion
<1>2. c.mask \cap FirstOf(c.mask, SelectedLength(c)) # {}
  <2>1. PICK p \in c.mask : \A q \in c.mask : p <= q
    BY <1>1, LeastElement
  <2>2. {q \in c.mask : q < p} = {}
    BY <1>1, <2>1
  <2>3. Cardinality({q \in c.mask : q < p}) = 0
    BY <2>2, FS_EmptySet
  <2>4. Cardinality({q \in c.mask : q < p}) < SelectedLength(c)
    BY <2>3, SomeLength
  <2>5. p \in FirstOf(c.mask, SelectedLength(c))
    BY <2>4, Zenon DEF FirstOf
  <2> QED BY <2>5
<1>3. TrainedMask(c, settings) \in SUBSET c.mask /\ TrainedMask(c, settings) # {}
  BY <1>1, <1>2 DEF TrainedMask
<1>4. IsFiniteSet(TrainedMask(c, settings))
  BY <1>1, <1>3, FS_Subset
<1>5. TrainedMask(c, settings) \in SUBSET Int
  BY <1>1, <1>3
<1> QED BY <1>3, <1>4, <1>5

\* The tokens of a row sum up to its reward.
LEMMA ScoreIsReward ==
  ASSUME NEW c, IsCompletion(c), NEW settings
  PROVE  Score(c, settings) = c.reward
<1> DEFINE T == TrainedMask(c, settings)
           m == TerminalToken(c, settings)
           row == RewardRow(c, settings)
           Pick(s) == CHOOSE x \in s : TRUE
           Solves(it) == it = [s \in SUBSET T |-> IF s = {} THEN 0 ELSE row[Pick(s)] + it[s \ {Pick(s)}]]
<1>1. T \in SUBSET c.mask /\ T # {} /\ IsFiniteSet(T) /\ T \in SUBSET Int
  BY SomeTrained
<1>2. m \in T
  BY <1>1, GreatestExists DEF TerminalToken, T
<1>3. c.reward \in Int
  BY DEF IsCompletion
<1>4. \A p \in T : row[p] = IF p = m THEN c.reward ELSE 0
  BY <1>1 DEF RewardRow
<1>5. Score(c, settings) = (CHOOSE it : Solves(it))[T]
  BY Zenon DEF Score, MapThenSumSet, MapThenFoldSet
<1> HIDE DEF T, m, row
<1> DEFINE e == [s \in SUBSET T |-> IF m \in s THEN c.reward ELSE 0]
<1>6. \A s \in SUBSET T : s # {} => Pick(s) \in s /\ s \ {Pick(s)} \in SUBSET T
  OBVIOUS
<1>7. ASSUME NEW s \in SUBSET T, NEW x \in s
      PROVE  (IF m \in s THEN c.reward ELSE 0) = row[x] + IF m \in s \ {x} THEN c.reward ELSE 0
  BY <1>3, <1>4
<1> HIDE DEF Pick
<1>8. \E it : Solves(it)
  <2>1. ASSUME NEW s \in SUBSET T, s # {} PROVE e[s] = row[Pick(s)] + e[s \ {Pick(s)}]
    BY <1>6, <1>7, <2>1
  <2>2. e[{}] = 0
    OBVIOUS
  <2>3. e = [s \in SUBSET T |-> e[s]]
    OBVIOUS
  <2> HIDE DEF e
  <2>4. Solves(e)
    BY <2>1, <2>2, <2>3
  <2> HIDE DEF Solves
  <2> QED BY <2>4
<1> DEFINE fold == CHOOSE it : Solves(it)
<1>9. Solves(fold)
  BY <1>8
<1> HIDE DEF fold
<1> DEFINE Right(s) == fold[s] = IF m \in s THEN c.reward ELSE 0
           Fails == {n \in Nat : \E s \in SUBSET T : Cardinality(s) = n /\ ~Right(s)}
<1>10. Fails = {}
  <2> SUFFICES ASSUME Fails # {} PROVE FALSE
    OBVIOUS
  <2>1. PICK n \in Fails : \A k \in Fails : n <= k
    BY LeastElement
  <2>2. PICK s \in SUBSET T : Cardinality(s) = n /\ ~Right(s)
    BY Zenon
  <2>3. s # {}
    BY <1>9, <2>2
  <2> DEFINE x == Pick(s)
             r == s \ {x}
  <2>4. x \in s /\ r \in SUBSET T
    BY <1>6, <2>3
  <2>5. IsFiniteSet(s)
    BY <1>1, <2>2, FS_Subset
  <2>6. Cardinality(r) \in Nat /\ Cardinality(r) < n
    <3>1. Cardinality(r) = Cardinality(s) - 1 /\ IsFiniteSet(r)
      BY <2>4, <2>5, FS_RemoveElement
    <3>2. Cardinality(r) \in Nat /\ Cardinality(s) \in Nat
      BY <2>5, <3>1, FS_CardinalityType
    <3> QED BY <2>2, <3>1, <3>2
  <2>7. Right(r)
    BY <2>1, <2>4, <2>6
  <2>8. fold[s] = row[x] + fold[r]
    BY <1>9, <2>3
  <2>9. fold[r] = IF m \in r THEN c.reward ELSE 0
    BY <2>7
  <2>10. (IF m \in s THEN c.reward ELSE 0) = row[x] + IF m \in r THEN c.reward ELSE 0
    BY <1>7, <2>4
  <2>11. Right(s)
    BY <2>8, <2>9, <2>10
  <2> QED BY <2>2, <2>11
<1>11. Right(T)
  BY <1>1, <1>10, FS_CardinalityType
<1>12. fold[T] = c.reward
  BY <1>2, <1>11
<1> QED BY <1>5, <1>12 DEF fold

\* An advantage stands for k times its reward less the total, over k.
LEMMA AdvantageValue ==
  ASSUME NEW k \in Nat, k > 0, NEW total \in Int, NEW r \in Int,
         NEW part, part = k * r - total
  PROVE  Stands(Minus(Whole(r), Frac(total, k)), part, k)
<1> DEFINE mean == Frac(total, k)
           a == mean[1]
           b == mean[2]
           v == Minus(Whole(r), mean)
           x == v[1]
           y == v[2]
<1>1. mean \in Fraction /\ a * k = total * b
  BY FracValue
<1>2. a \in Int /\ b \in Nat /\ b > 0
  BY <1>1 DEF Fraction
<1>3. v = Frac(r * b - a * 1, 1 * b)
  <2>1. Whole(r)[1] = r /\ Whole(r)[2] = 1
    BY DEF Whole
  <2> HIDE DEF mean
  <2>2. v = Frac(Whole(r)[1] * b - a * Whole(r)[2], Whole(r)[2] * b)
    BY Zenon DEF Minus
  <2> QED BY <2>1, <2>2
<1> HIDE DEF mean, a, b
<1> DEFINE n == r * b - a
<1>4. n \in Int /\ v = Frac(n, b)
  BY <1>2, <1>3
<1> HIDE DEF v
<1>5. v \in Fraction /\ x * b = n * y
  BY <1>2, <1>4, FracValue
<1>6. x \in Int /\ y \in Nat
  BY <1>5 DEF Fraction
<1> HIDE DEF x, y
<1> DEFINE u == x * k
           w == (k * r - total) * y
<1>7. u \in Int /\ w \in Int /\ u * b = w * b
  BY <1>1, <1>2, <1>5, <1>6
<1> HIDE DEF u, w
<1>8. u = w
  BY <1>2, <1>7, Cancel
<1> QED BY <1>5, <1>8 DEF Stands, u, w, x, y, v, mean

\* A sum that stands for nothing is nothing.
LEMMA NothingIsZero ==
  ASSUME NEW k \in Nat, k > 0, NEW f, NEW g, f \in Fraction, g \in Fraction, Stands(Plus(f, g), 0, k)
  PROVE  Plus(f, g) = Zero
<1> DEFINE n == f[1] * g[2] + g[1] * f[2]
           d == f[2] * g[2]
           x == Frac(n, d)[1]
           y == Frac(n, d)[2]
<1>1. n \in Int /\ d \in Nat /\ d > 0 /\ Plus(f, g) = Frac(n, d)
  BY DEF Fraction, Plus
<1> HIDE DEF n, d
<1>2. Frac(n, d) \in Fraction /\ x * d = n * y
  BY <1>1, FracValue
<1>3. x \in Int /\ y \in Nat /\ y > 0
  BY <1>2 DEF Fraction
<1>4. x * k = 0 * y
  BY <1>1 DEF Stands
<1> HIDE DEF x, y
<1> DEFINE zero == 0
<1>5. zero \in Int /\ x * k = zero * k
  BY <1>3, <1>4
<1> HIDE DEF zero
<1>6. x = zero
  BY <1>3, <1>5, Cancel
<1>7. n * y = zero * y
  BY <1>1, <1>2, <1>3, <1>6 DEF zero
<1>8. n = zero
  BY <1>1, <1>3, <1>5, <1>7, Cancel
<1> QED BY <1>1, <1>8, FracOfZero DEF zero

\* The sum of the differences from the mean.
LEMMA DifferencesCancel ==
  ASSUME NEW k \in Nat, k > 1, NEW scores \in Seq(Int), Len(scores) = k,
         NEW advantages, advantages = [j \in 1..k |-> Minus(Whole(scores[j]), Frac(TotalOf(scores), k))]
  PROVE  Sum(advantages) = Zero
<1> DEFINE total == TotalOf(scores)
<1>1. PICK S \in [0..k -> Int] : /\ S[0] = 0
                                 /\ \A j \in 1..k : S[j] = S[j - 1] + scores[j]
                                 /\ total = S[k]
  BY TotalsUp
<1>2. total \in Int
  BY <1>1
<1> HIDE DEF total
<1>3. \A j \in 1..k : scores[j] \in Int
  OBVIOUS
<1>4. \A j \in 1..k : Stands(advantages[j], k * scores[j] - total, k)
  <2> SUFFICES ASSUME NEW j \in 1..k PROVE Stands(advantages[j], k * scores[j] - total, k)
    OBVIOUS
  <2> DEFINE r == scores[j]
  <2>1. advantages[j] = Minus(Whole(r), Frac(total, k)) /\ r \in Int
    BY <1>3 DEF total
  <2> DEFINE part == k * r - total
  <2> HIDE DEF r
  <2>2. part = k * r - total
    OBVIOUS
  <2> HIDE DEF part
  <2>3. Stands(Minus(Whole(r), Frac(total, k)), part, k)
    <3>1. k > 0
      OBVIOUS
    <3> QED BY <1>2, <2>1, <2>2, <3>1, AdvantageValue, Zenon
  <2> QED BY <2>1, <2>3 DEF r, part
<1>5. advantages \in Seq(Fraction) /\ Len(advantages) = k
  BY <1>4 DEF Stands
<1>6. PICK h \in [0..k -> Fraction] : /\ h[0] = Zero
                                      /\ \A j \in 1..k : h[j] = Plus(h[j - 1], advantages[j])
                                      /\ Sum(advantages) = h[k]
  <2>1. \E h \in [0..Len(advantages) -> Fraction] :
          /\ h[0] = Zero
          /\ \A j \in 1..Len(advantages) : h[j] = Plus(h[j - 1], advantages[j])
          /\ Sum(advantages) = h[Len(advantages)]
    BY <1>5, SumsUp
  <2> QED BY <1>5, <2>1
<1> DEFINE Fails == {j \in 0..k : ~Stands(h[j], k * S[j] - j * total, k)}
<1>7. Fails = {}
  <2> SUFFICES ASSUME Fails # {} PROVE FALSE
    OBVIOUS
  <2>1. Fails \in SUBSET Nat
    OBVIOUS
  <2>2. PICK j \in Fails : \A i \in Fails : j <= i
    BY <2>1, LeastElement
  <2>3. j \in 0..k /\ ~Stands(h[j], k * S[j] - j * total, k)
    OBVIOUS
  <2>4. CASE j = 0
    <3>1. h[0] = <<0, 1>> /\ <<0, 1>> \in Fraction
      BY <1>6 DEF Zero, Whole, Fraction
    <3>2. k * S[0] - 0 * total = 0
      BY <1>1, <1>2
    <3>3. Stands(<<0, 1>>, 0, k)
      BY <3>1 DEF Stands
    <3> QED BY <2>3, <2>4, <3>1, <3>2, <3>3
  <2>5. CASE j # 0
    <3> DEFINE i == j - 1
    <3>1. j \in 1..k /\ i \in Nat /\ i \in 0..k /\ i < j /\ j = i + 1
      BY <2>3, <2>5
    <3>2. i \notin Fails
      BY <2>1, <2>2, <3>1
    <3> DEFINE a == k * S[i] - i * total
               b == k * scores[j] - total
    <3>3. Stands(h[i], a, k)
      BY <3>1, <3>2
    <3>4. Stands(advantages[j], b, k)
      BY <1>4, <3>1
    <3> HIDE DEF Fails
    <3>5. h[j] = Plus(h[i], advantages[j]) /\ S[j] = S[i] + scores[j]
      BY <1>1, <1>6, <3>1
    <3>6. S[i] \in Int /\ scores[j] \in Int
      BY <1>3, <3>1
    <3> HIDE DEF i
    <3>7. a \in Int /\ b \in Int /\ a + b = k * S[j] - j * total
      <4>1. k * S[j] = k * S[i] + k * scores[j]
        BY <3>5, <3>6
      <4>2. j * total = i * total + total
        BY <1>2, <3>1
      <4> DEFINE p == k * S[i]
                 q == i * total
                 s == k * scores[j]
      <4>3. p \in Int /\ q \in Int /\ s \in Int
        BY <1>2, <3>1, <3>6
      <4>4. a = p - q /\ b = s - total /\ k * S[j] = p + s /\ j * total = q + total
        BY <4>1, <4>2
      <4> HIDE DEF p, q, s, a, b
      <4> QED BY <1>2, <4>3, <4>4
    <3> HIDE DEF a, b
    <3>8. Stands(h[j], a + b, k)
      BY <3>3, <3>4, <3>5, <3>7, StandsSum
    <3> QED BY <2>3, <3>7, <3>8
  <2> QED BY <2>4, <2>5
<1>8. Stands(h[k], 0, k)
  <2>1. k \in 0..k
    OBVIOUS
  <2>2. Stands(h[k], k * S[k] - k * total, k)
    BY <1>7, <2>1
  <2>3. k * S[k] - k * total = 0
    BY <1>1, <1>2
  <2> QED BY <2>2, <2>3
<1>9. k \in 1..k /\ k - 1 \in 0..k
  OBVIOUS
<1>10. h[k] = Plus(h[k - 1], advantages[k]) /\ h[k - 1] \in Fraction /\ advantages[k] \in Fraction
  BY <1>4, <1>6, <1>9 DEF Stands
<1>11. h[k] = Zero
  BY <1>8, <1>10, NothingIsZero
<1> QED BY <1>6, <1>11

\* Rewards survive the stage mask, and advantages sum to nothing.
THEOREM GroupRewardsSurvive ==
  ASSUME NEW g, IsGroup(g), NEW settings, IsGroupSettings(settings)
  PROVE  RewardsSurviveMasking(g, settings)
<1> DEFINE kept == Kept(g, settings)
           k == Len(kept)
           scores == [j \in DOMAIN kept |-> Score(g[kept[j]], settings)]
           mean == Frac(FoldLeft(+, 0, scores), k)
           advantages == [j \in DOMAIN kept |-> Advantage(g, settings, kept[j])]
<1>1. /\ kept \in Seq(1..Len(g)) /\ k \in Nat /\ DOMAIN kept = 1..k
      /\ \A i \in 1..Len(g) : IsCompletion(g[i])
  BY KeptFacts, GroupFacts
<1>2. \A j \in 1..k : kept[j] \in 1..Len(g)
  BY <1>1
<1>3. \A j \in 1..k : Score(g[kept[j]], settings) = g[kept[j]].reward /\ g[kept[j]].reward \in Int
  BY <1>1, <1>2, ScoreIsReward DEF IsCompletion
<1>4. ASSUME k = 1 PROVE Advantage(g, settings, kept[1]) = Whole(g[kept[1]].reward)
  <2>1. Advantage(g, settings, kept[1]) = Whole(Score(g[kept[1]], settings))
    BY <1>4, Zenon DEF Advantage
  <2>2. 1 \in 1..k
    BY <1>4
  <2> QED BY <1>3, <2>1, <2>2
<1>5. ASSUME k > 1 PROVE Sum(advantages) = Zero
  <2>1. k # 1
    <3>1. k \in Nat /\ k > 1
      BY <1>1, <1>5
    <3> HIDE DEF k
    <3> QED BY <3>1
  <2>2. \A j \in DOMAIN kept : Advantage(g, settings, kept[j]) = Minus(Whole(Score(g[kept[j]], settings)), mean)
    BY <2>1, Zenon DEF Advantage
  <2>3. mean = Frac(TotalOf(scores), k)
    BY Zenon DEF TotalOf
  <2> HIDE DEF kept, k, mean
  <2>4. scores \in Seq(Int) /\ Len(scores) = k /\ \A j \in 1..k : scores[j] = Score(g[kept[j]], settings)
    BY <1>1, <1>3
  <2>5. advantages = [j \in 1..k |-> Minus(Whole(scores[j]), Frac(TotalOf(scores), k))]
    BY <1>1, <2>2, <2>3, <2>4
  <2> HIDE DEF scores, advantages
  <2> QED BY <1>1, <1>5, <2>4, <2>5, DifferencesCancel
<1> QED BY <1>1, <1>3, <1>4, <1>5, Zenon DEF RewardsSurviveMasking

\* What a group promises it keeps, for all completions and settings.
THEOREM GroupAlwaysKeepsItsBooks ==
  ASSUME NEW g, IsGroup(g), NEW settings, IsGroupSettings(settings)
  PROVE  /\ RecordsMatchGenerations(g, settings)
         /\ RewardsSurviveMasking(g, settings)
         /\ BatchIsTheGroup(g, settings)
BY GroupRecordsMatch, GroupRewardsSurvive, GroupBatchIsTheGroup

\* The completions of MCAlgorithms are completions.
LEMMA CompletionsAreCompletions == \A c \in Completions : IsCompletion(c)
<1>1. ASSUME NEW error \in BOOLEAN, NEW reward \in Int, NEW mask \in SUBSET (1..4), mask # {},
             NEW stage, NEW ids \in Nat, NEW match \in Nat
      PROVE  IsCompletion(Completion(error, reward, mask, stage, ids, match))
  <2>1. IsFiniteSet(1..4)
    <3>1. 1 \in Int /\ 4 \in Int
      OBVIOUS
    <3> QED BY <3>1, FS_Interval, Zenon
  <2>2. IsFiniteSet(mask)
    BY <2>1, FS_Subset
  <2>3. mask \in SUBSET Nat
    OBVIOUS
  <2> QED BY <1>1, <2>2, <2>3 DEF IsCompletion, Completion
<1>2. IsCompletion(Completion(FALSE, 1, {1, 2, 3}, "part", 2, 2))
  <2>1. FALSE \in BOOLEAN /\ 1 \in Int /\ {1, 2, 3} \in SUBSET (1..4) /\ {1, 2, 3} # {} /\ 2 \in Nat /\ 2 \in Nat
    OBVIOUS
  <2> QED BY <1>1, <2>1, Zenon
<1>3. IsCompletion(Completion(FALSE, 2, {1, 3}, "part", 3, 1))
  <2>1. FALSE \in BOOLEAN /\ 2 \in Int /\ {1, 3} \in SUBSET (1..4) /\ {1, 3} # {} /\ 3 \in Nat /\ 1 \in Nat
    OBVIOUS
  <2> QED BY <1>1, <2>1, Zenon
<1>4. IsCompletion(Completion(TRUE, 0, {1, 2}, "part", 2, 0))
  <2>1. TRUE \in BOOLEAN /\ 0 \in Int /\ {1, 2} \in SUBSET (1..4) /\ {1, 2} # {} /\ 2 \in Nat /\ 0 \in Nat
    OBVIOUS
  <2> QED BY <1>1, <2>1, Zenon
<1>5. IsCompletion(Completion(TRUE, 1, {2, 3}, "short", 0, 0))
  <2>1. TRUE \in BOOLEAN /\ 1 \in Int /\ {2, 3} \in SUBSET (1..4) /\ {2, 3} # {} /\ 0 \in Nat /\ 0 \in Nat
    OBVIOUS
  <2> QED BY <1>1, <2>1, Zenon
<1>6. IsCompletion(Completion(FALSE, 0, {2}, "whole", 1, 1))
  <2>1. FALSE \in BOOLEAN /\ 0 \in Int /\ {2} \in SUBSET (1..4) /\ {2} # {} /\ 1 \in Nat /\ 1 \in Nat
    OBVIOUS
  <2> QED BY <1>1, <2>1, Zenon
<1>7. IsCompletion(Completion(FALSE, 1, {1, 2, 4}, "part", 0, 0))
  <2>1. FALSE \in BOOLEAN /\ 1 \in Int /\ {1, 2, 4} \in SUBSET (1..4) /\ {1, 2, 4} # {} /\ 0 \in Nat /\ 0 \in Nat
    OBVIOUS
  <2> QED BY <1>1, <2>1, Zenon
<1> QED BY <1>2, <1>3, <1>4, <1>5, <1>6, <1>7, Zenon DEF Completions

\* What ChooseGroup chooses is a group.
LEMMA ChooseGroupSound == ChooseGroup => GroupBookkeeping'
<1> SUFFICES ASSUME NEW g \in SequencesOf(Completions, 1..3), NEW s \in GroupSettings,
                    input' = [kind |-> "group", chosen |-> TRUE, g |-> g, settings |-> s]
             PROVE  GroupBookkeeping'
  BY DEF ChooseGroup
<1>1. PICK n \in 1..3 : g \in [1..n -> Completions]
  BY DEF SequencesOf
<1>2. g \in Seq(Completions)
  BY <1>1
<1>3. IsGroup(g)
  BY <1>2, CompletionsAreCompletions DEF IsGroup
<1>4. IsGroupSettings(s)
  BY DEF GroupSettings, IsGroupSettings
<1>5. RecordsMatchGenerations(g, s) /\ RewardsSurviveMasking(g, s) /\ BatchIsTheGroup(g, s)
  BY <1>3, <1>4, GroupAlwaysKeepsItsBooks
<1>6. input'.g = g /\ input'.settings = s
  OBVIOUS
<1> QED BY <1>5, <1>6 DEF GroupBookkeeping

\* Whatever group is chosen, the search and the backend filter it alike, its
\* rewards survive the stage mask, and the actor's batch is the group
\* (grpo_rollout_group).
THEOREM GroupBookkeepingAlways == AlgorithmsSpec => []GroupBookkeeping
<1>1. AlgorithmsInit => GroupBookkeeping
  BY DEF AlgorithmsInit, GroupBookkeeping, Chosen
<1>2. GroupBookkeeping /\ [AlgorithmsNext]_input => GroupBookkeeping'
  <2> SUFFICES ASSUME GroupBookkeeping, [AlgorithmsNext]_input PROVE GroupBookkeeping'
    OBVIOUS
  <2>1. CASE input'.kind # "group"
    BY <2>1 DEF GroupBookkeeping, Chosen
  <2>2. CASE ChooseGroup
    BY <2>2, ChooseGroupSound
  <2>3. CASE ChooseScale
    BY <2>1, <2>3 DEF ChooseScale
  <2>4. CASE ChoosePlan
    BY <2>1, <2>4 DEF ChoosePlan
  <2>5. CASE ChoosePerturbation
    BY <2>1, <2>5 DEF ChoosePerturbation
  <2>6. CASE UNCHANGED input
    BY <2>6 DEF GroupBookkeeping, Chosen
  <2>7. CASE input'.kind \in {"clusters", "totals", "structure", "estimators", "partition", "micro",
                             "uids", "loss", "dispatch"}
    BY <2>1, <2>7
  <2> QED BY <2>2, <2>3, <2>4, <2>5, <2>6, <2>7, OtherKinds DEF AlgorithmsNext
<1> QED BY <1>1, <1>2, PTL DEF AlgorithmsSpec

-----------------------------------------------------------------------------
(* Groups and memories that MCAlgorithms chooses.                          *)

\* Rollouts that have printed an objective or none can be scored.
LEMMA PrintedIsScored ==
  ASSUME NEW S, S \in SUBSET (Int \cup {NoObjective}), NEW N, N \in SUBSET Nat, NEW objs \in SequencesOf(S, N)
  PROVE  IsScored(AllPrinted(objs))
<1> DEFINE g == AllPrinted(objs)
<1>1. PICK n \in N : objs \in [1..n -> S]
  BY DEF SequencesOf
<1>2. n \in Nat /\ DOMAIN objs = 1..n /\ \A i \in 1..n : objs[i] \in Int \cup {NoObjective}
  BY <1>1
<1>3. g = [i \in 1..n |-> Printed(objs[i])]
  BY <1>2 DEF AllPrinted
<1>4. \A v : Printed(v).obj = v
  BY DEF Printed
<1> HIDE DEF g
<1>5. DOMAIN g = 1..n /\ Len(g) = n
  BY <1>2, <1>3
<1>6. \A i \in 1..n : g[i].obj \in Int \cup {NoObjective}
  BY <1>2, <1>3, <1>4
<1>7. IsScored(g)
  BY <1>5, <1>6 DEF IsScored
<1> QED BY <1>7 DEF g

\* The memories of MCAlgorithms are memories.
LEMMA MemoriesAreMemories == \A mem \in Memories : IsMemory(mem)
<1> DEFINE After(objs) == AfterGroup(EmptyMemory, AllPrinted(objs), FALSE)
<1>1. Remembered \in SUBSET (Int \cup {NoObjective}) /\ {2} \in SUBSET Nat
  BY DEF Remembered
<1>2. ASSUME NEW objs \in SequencesOf(Remembered, {2}) PROVE IsMemory(After(objs))
  BY <1>1, PrintedIsScored, EmptyIsMemory, AfterIsMemory
<1>3. Memories = {EmptyMemory} \cup {After(objs) : objs \in SequencesOf(Remembered, {2})}
  BY Zenon DEF Memories
<1> HIDE DEF After
<1> QED BY <1>2, <1>3, EmptyIsMemory

\* Its clusters are sound.
LEMMA ChooseClustersSound == ChooseClusters => GroupRewardsSound'
<1> SUFFICES ASSUME NEW objs \in SequencesOf(Objectives, 1..3), NEW mem \in Memories, NEW localScope \in BOOLEAN,
                    input' = [kind |-> "clusters", chosen |-> TRUE, mem |-> mem, localScope |-> localScope,
                              g |-> AllPrinted(objs)]
             PROVE  GroupRewardsSound'
  BY DEF ChooseClusters
<1>1. Objectives \in SUBSET (Int \cup {NoObjective}) /\ 1..3 \in SUBSET Nat
  BY DEF Objectives
<1>2. IsScored(AllPrinted(objs))
  BY <1>1, PrintedIsScored
<1>3. Remembers(mem)
  BY MemoriesAreMemories DEF IsMemory, Remembers
<1>4. GroupClustersSound(mem, AllPrinted(objs), localScope)
  BY <1>2, <1>3, ClustersAlwaysSound
<1>5. /\ input'.mem = mem /\ input'.g = AllPrinted(objs) /\ input'.localScope = localScope
      /\ input'.kind # "totals" /\ input'.kind # "structure"
  OBVIOUS
<1> QED BY <1>4, <1>5, Zenon DEF GroupRewardsSound, Chosen

\* Each input is chosen by one action.
LEMMA OneAction ==
  ASSUME AlgorithmsNext
  PROVE  /\ input'.kind = "clusters" => ChooseClusters
         /\ input'.kind = "totals" => ChooseTotals
         /\ input'.kind = "structure" => ChooseStructures
         /\ input'.kind = "dispatch" => ChooseDispatch
         /\ input'.kind = "estimators" => ChooseRows
<1>1. ChooseScale => input'.kind = "scale"
  BY DEF ChooseScale
<1>2. ChoosePlan => input'.kind = "plan"
  BY DEF ChoosePlan
<1>3. ChoosePerturbation => input'.kind = "perturb"
  BY DEF ChoosePerturbation
<1>4. ChooseGroup => input'.kind = "group"
  BY DEF ChooseGroup
<1>5. ChooseClusters => input'.kind = "clusters"
  BY DEF ChooseClusters
<1>6. ChooseTotals => input'.kind = "totals"
  BY DEF ChooseTotals
<1>7. ChooseStructures => input'.kind = "structure"
  BY DEF ChooseStructures
<1> QED BY <1>1, <1>2, <1>3, <1>4, <1>5, <1>6, <1>7, OtherKinds DEF AlgorithmsNext

\* One half is a share.
LEMMA HalfIsShare == IsShare(Half)
<1>1. Stands(Half, 1, 2)
  BY FracStands DEF Half
<1>2. 1 \in Nat /\ 2 \in Nat /\ 1 <= 2 /\ 2 > 0
  OBVIOUS
<1> QED BY <1>1, <1>2, StandsIsShare

\* Some sequences of case ends.
LEMMA CasesAreCases ==
  /\ << >> \in Seq(CaseEnds) /\ <<"failed">> \in Seq(CaseEnds)
  /\ <<"passed", "offScale", "failed">> \in Seq(CaseEnds) /\ <<"passed", "passed">> \in Seq(CaseEnds)
<1>1. "passed" \in CaseEnds /\ "offScale" \in CaseEnds /\ "failed" \in CaseEnds
  BY DEF CaseEnds
<1> QED BY <1>1

\* What an outcome of MCAlgorithms has.
IsOutcome(x) == x.obj \in Int \cup {NoObjective} /\ x.r4 \in {Zero, Half, One} /\ x.cases \in Seq(CaseEnds)

\* The outcomes of MCAlgorithms are outcomes.
LEMMA OutcomesAreRollouts ==
  ASSUME NEW r \in Outcomes
  PROVE  r.obj \in Int \cup {NoObjective} /\ IsRollout(r)
<1>1. IsOutcome(Printed(10000)) /\ IsOutcome(Printed(0)) /\ IsOutcome(Printed(-10000))
  BY CasesAreCases DEF Printed, IsOutcome
<1>2. IsOutcome([Printed(10000) EXCEPT !.inScale = FALSE, !.r4 = One])
  BY CasesAreCases DEF Printed, IsOutcome
<1>3. IsOutcome([Printed(10000) EXCEPT !.run = "timeout", !.cases = <<"failed">>])
  BY CasesAreCases DEF Printed, IsOutcome
<1>4. IsOutcome([Printed(NoObjective) EXCEPT !.run = "quiet", !.r4 = Half, !.cases = <<"passed", "offScale", "failed">>])
  BY CasesAreCases DEF Printed, IsOutcome
<1>5. IsOutcome([Printed(NoObjective) EXCEPT !.run = "error", !.code = FALSE])
  BY CasesAreCases DEF Printed, IsOutcome
<1>6. IsOutcome([Printed(10060) EXCEPT !.run = "marked", !.r4 = Half, !.cases = <<"passed", "passed">>])
  BY CasesAreCases DEF Printed, IsOutcome
<1> DEFINE a == [Printed(10000) EXCEPT !.inScale = FALSE, !.r4 = One]
           b == [Printed(10000) EXCEPT !.run = "timeout", !.cases = <<"failed">>]
           c == [Printed(NoObjective) EXCEPT !.run = "quiet", !.r4 = Half, !.cases = <<"passed", "offScale", "failed">>]
           d == [Printed(NoObjective) EXCEPT !.run = "error", !.code = FALSE]
           e == [Printed(10060) EXCEPT !.run = "marked", !.r4 = Half, !.cases = <<"passed", "passed">>]
           p == Printed(10000)
           q == Printed(0)
           z == Printed(-10000)
<1>7. Outcomes = {p, q, z, a, b, c, d, e}
  BY DEF Outcomes
<1>8. IsOutcome(a) /\ IsOutcome(b) /\ IsOutcome(c) /\ IsOutcome(d) /\ IsOutcome(e)
  BY <1>2, <1>3, <1>4, <1>5, <1>6
<1>9. IsOutcome(p) /\ IsOutcome(q) /\ IsOutcome(z)
  BY <1>1
<1> HIDE DEF a, b, c, d, e, p, q, z
<1>10. r = p \/ r = q \/ r = z \/ r = a \/ r = b \/ r = c \/ r = d \/ r = e
  BY <1>7
<1>11. IsOutcome(r)
  BY <1>8, <1>9, <1>10, Zenon
<1> QED BY <1>11, HalfIsShare, EndsAreShares DEF IsOutcome, IsRollout

\* A group of outcomes can be scored.
LEMMA OutcomesAreScored ==
  ASSUME NEW g \in SequencesOf(Outcomes, 1..2)
  PROVE  IsScored(g) /\ \A i \in DOMAIN g : IsRollout(g[i])
<1>1. PICK n \in 1..2 : g \in [1..n -> Outcomes]
  BY DEF SequencesOf
<1>2. n \in Nat
  OBVIOUS
<1>3. DOMAIN g = 1..n /\ Len(g) = n /\ \A i \in 1..n : g[i] \in Outcomes
  BY <1>1, <1>2
<1>4. \A i \in 1..n : g[i].obj \in Int \cup {NoObjective} /\ IsRollout(g[i])
  BY <1>3, OutcomesAreRollouts
<1> QED BY <1>2, <1>3, <1>4 DEF IsScored

\* The settings of MCAlgorithms are settings.
LEMMA SettingsAreSettings == ASSUME NEW s \in RewardSettings PROVE AreRewardSettings(s)
<1>1. PICK runs \in BOOLEAN, r4 \in BOOLEAN, planned \in BOOLEAN, n \in {0, 3, 4, 6} :
        s = [r3On |-> runs, r4On |-> r4, dynamic |-> n # 0, force |-> FALSE, iter |-> n, planned |-> planned,
             multiplier |-> 5]
  BY DEF RewardSettings
<1> QED BY <1>1 DEF AreRewardSettings

\* Its rewards are shares.
LEMMA ChooseTotalsSound == ASSUME WeightsAreShares PROVE ChooseTotals => GroupRewardsSound'
<1> SUFFICES ASSUME NEW g \in SequencesOf(Outcomes, 1..2), NEW mem \in Memories, NEW localScope \in BOOLEAN,
                    NEW s \in RewardSettings,
                    input' = [kind |-> "totals", chosen |-> TRUE, mem |-> mem, localScope |-> localScope,
                              g |-> g, settings |-> s]
             PROVE  GroupRewardsSound'
  BY DEF ChooseTotals
<1>1. IsScored(g) /\ \A i \in DOMAIN g : IsRollout(g[i])
  BY OutcomesAreScored
<1>2. IsMemory(History(mem, localScope))
  BY MemoriesAreMemories, EmptyIsMemory DEF History
<1>3. IsScorable(mem, g, localScope)
  BY <1>1, <1>2 DEF IsScorable
<1>4. AreRewardSettings(s)
  BY SettingsAreSettings
<1>5. GroupTotalsAreShares(mem, g, localScope, s)
  BY <1>1, <1>3, <1>4, TotalsAlwaysShares
<1>6. /\ input'.mem = mem /\ input'.g = g /\ input'.localScope = localScope /\ input'.settings = s
      /\ input'.kind # "clusters" /\ input'.kind # "structure"
  OBVIOUS
<1> QED BY <1>5, <1>6, Zenon DEF GroupRewardsSound, Chosen

-----------------------------------------------------------------------------
(* Dispatching batches.                                                    *)

\* The sequence that repeats a rule.
LEMMA RuleIsSequence ==
  ASSUME NEW S, NEW n \in Nat, NEW f \in [1..n -> S]
  PROVE  f \in Seq(S) /\ Len(f) = n /\ DOMAIN f = 1..n
OBVIOUS

\* The pieces of a batch, and what is before a piece.
PiecesBefore(B, size, k) == [m \in 1..(k * size) |-> B[m]]
PieceOf(B, size, c) == [i \in 1..size |-> B[(c - 1) * size + i]]

\* A place of a piece is one of the whole.
LEMMA PieceIn ==
  ASSUME NEW n \in Nat, NEW size \in Nat, NEW c \in 1..n, NEW i \in 1..size
  PROVE  (c - 1) * size + i \in 1..(n * size)
<1>1. (c - 1) * size >= 0 /\ (c - 1) * size \in Int
  OBVIOUS
<1>2. (n - c) * size >= 0
  OBVIOUS
<1>3. n * size = (c - 1) * size + size + (n - c) * size
  OBVIOUS
<1> DEFINE a == (c - 1) * size
           b == (n - c) * size
           m == n * size
<1>4. a \in Int /\ b \in Int /\ m \in Int /\ a >= 0 /\ b >= 0 /\ m = a + size + b
  BY <1>1, <1>2, <1>3
<1> HIDE DEF a, b, m
<1>5. a + i \in 1..m
  BY <1>4
<1> QED BY <1>5 DEF a, m

\* The first pieces and the next one.
LEMMA PiecesGrow ==
  ASSUME NEW S, NEW n \in Nat, NEW size \in Nat, NEW B \in Seq(S), Len(B) = n * size, NEW k \in 1..n, k > 1
  PROVE  PiecesBefore(B, size, k - 1) \o PieceOf(B, size, k) = PiecesBefore(B, size, k)
<1> DEFINE a == (k - 1) * size
           b == k * size
           s == [m \in 1..a |-> B[m]]
           t == PieceOf(B, size, k)
           u == [m \in 1..b |-> B[m]]
<1>1. a \in Nat /\ b = a + size /\ b \in Nat
  OBVIOUS
<1>2. b <= n * size
  BY <1>1
<1>3. t = [i \in 1..size |-> B[a + i]]
  BY DEF PieceOf
<1> HIDE DEF a, b, t
<1>4. \A m \in 1..b : B[m] \in S
  BY <1>1, <1>2
<1>5. s \in [1..a -> S] /\ t \in [1..size -> S] /\ u \in [1..b -> S]
  BY <1>1, <1>3, <1>4
<1>6. \A m \in 1..a : s[m] = B[m]
  OBVIOUS
<1>7. \A i \in 1..size : t[i] = B[a + i]
  BY <1>3
<1>8. \A m \in 1..b : u[m] = B[m]
  OBVIOUS
<1>9. s \in Seq(S) /\ Len(s) = a /\ t \in Seq(S) /\ Len(t) = size /\ u \in Seq(S) /\ Len(u) = b
  BY <1>1, <1>5, RuleIsSequence
<1> HIDE DEF s, u
<1>10. s \o t \in Seq(S) /\ Len(s \o t) = b
  BY <1>1, <1>9
<1> DEFINE w == s \o t
<1>11. ASSUME NEW m \in 1..a PROVE w[m] = s[m]
  BY <1>9
<1>12. ASSUME NEW i \in 1..size PROVE w[a + i] = t[i]
  BY <1>1, <1>9
<1> HIDE DEF w
<1>13. w \in Seq(S) /\ Len(w) = b /\ \A m \in 1..b : w[m] = u[m]
  <2>1. ASSUME NEW m \in 1..b PROVE w[m] = u[m]
    <3>1. CASE m <= a
      BY <1>1, <1>11, <1>6, <1>8, <3>1
    <3>2. CASE m > a
      <4> DEFINE i == m - a
      <4>1. i \in 1..size /\ a + i = m
        BY <1>1, <3>2
      <4> HIDE DEF i
      <4> QED BY <1>7, <1>8, <1>12, <4>1
    <3> QED BY <1>1, <3>1, <3>2
  <2> QED BY <1>10, <2>1 DEF w
<1>14. DOMAIN u = 1..b /\ u = [m \in 1..b |-> u[m]]
  BY <1>1, <1>9
<1>15. w = u
  BY <1>1, <1>13, <1>14, SameSequence
<1> QED BY <1>15 DEF w, s, u, a, b, t, PiecesBefore

\* A solution of the recursion of FlattenSeq.
Flattens(f, seqs) == f = [i \in 1..Len(seqs) |-> IF i = 1 THEN seqs[i] ELSE f[i - 1] \o seqs[i]]

\* Flattening the pieces of a batch gives the batch.
LEMMA FlattenPieces ==
  ASSUME NEW S, NEW n \in Nat, n > 0, NEW size \in Nat, NEW B \in Seq(S), Len(B) = n * size
  PROVE  FlattenSeq([c \in 1..n |-> PieceOf(B, size, c)]) = B
<1> DEFINE pieces == [c \in 1..n |-> PieceOf(B, size, c)]
           front(k) == PiecesBefore(B, size, k)
           sol == [k \in 1..n |-> front(k)]
<1>1. Len(pieces) = n /\ \A c \in 1..n : pieces[c] = PieceOf(B, size, c)
  BY RuleIsSequence
<1>2. pieces[1] = front(1)
  BY <1>1 DEF PieceOf, PiecesBefore
<1>3. ASSUME NEW k \in 1..n, k > 1 PROVE front(k - 1) \o pieces[k] = front(k)
  BY <1>1, <1>3, PiecesGrow
<1> HIDE DEF pieces, front
<1>4. Flattens(sol, pieces)
  <2>1. ASSUME NEW k \in 1..n PROVE sol[k] = IF k = 1 THEN pieces[k] ELSE sol[k - 1] \o pieces[k]
    <3> HIDE DEF sol
    <3>0. k = 1 \/ k > 1
      OBVIOUS
    <3>1. CASE k = 1
      BY <1>2, <3>1 DEF sol
    <3>2. CASE k > 1
      <4>1. k - 1 \in 1..n
        BY <3>2
      <4>2. sol[k - 1] = front(k - 1) /\ sol[k] = front(k) /\ k # 1
        BY <3>2, <4>1 DEF sol
      <4>3. front(k - 1) \o pieces[k] = front(k)
        BY <1>3, <3>2, Zenon
      <4> QED BY <4>2, <4>3
    <3> QED BY <3>0, <3>1, <3>2
  <2>2. sol = [k \in 1..n |-> sol[k]]
    OBVIOUS
  <2> HIDE DEF sol
  <2> QED BY <1>1, <2>1, <2>2 DEF Flattens
<1> DEFINE f == CHOOSE g : Flattens(g, pieces)
<1>5. Flattens(f, pieces)
  BY <1>4
<1>6. FlattenSeq(pieces) = f[n]
  BY <1>1 DEF FlattenSeq, Flattens
<1> HIDE DEF f, sol
<1>7. \A k \in 1..n : f[k] = IF k = 1 THEN pieces[k] ELSE f[k - 1] \o pieces[k]
  BY <1>1, <1>5 DEF Flattens
<1>8. \A k \in 1..n : f[k] = front(k)
  <2> DEFINE Fails == {k \in 1..n : f[k] # front(k)}
  <2> SUFFICES ASSUME Fails # {} PROVE FALSE
    OBVIOUS
  <2>1. Fails \in SUBSET Nat
    OBVIOUS
  <2>2. PICK k \in Fails : \A j \in Fails : k <= j
    BY <2>1, LeastElement
  <2>3. k \in 1..n /\ f[k] # front(k)
    OBVIOUS
  <2>4. CASE k = 1
    BY <1>2, <1>7, <2>3, <2>4
  <2>5. CASE k > 1
    <3>1. k - 1 \in 1..n /\ ~(k <= k - 1)
      BY <2>3, <2>5
    <3>2. k - 1 \notin Fails
      BY <2>2, <3>1
    <3>3. f[k - 1] = front(k - 1)
      BY <3>1, <3>2
    <3>4. front(k - 1) \o pieces[k] = front(k)
      BY <1>3, <2>3, <2>5, Zenon
    <3>5. f[k] = f[k - 1] \o pieces[k]
      <4>1. k # 1
        BY <2>5
      <4> QED BY <1>7, <2>3, <4>1
    <3> QED BY <2>3, <3>3, <3>4, <3>5
  <2> QED BY <2>3, <2>4, <2>5
<1>9. front(n) = B
  BY DEF front, PiecesBefore
<1>10. FlattenSeq(pieces) = B
  BY <1>6, <1>8, <1>9
<1> QED BY <1>10 DEF pieces

\* Layouts of at least one rank in each direction.
IsLayout(layout) ==
  /\ layout.dp \in Nat /\ layout.dp > 0 /\ layout.inner \in Nat /\ layout.inner > 0
  /\ layout.pp \in Nat /\ layout.pp > 0

\* The rank that is collected from the k-th data-parallel group.
CollectRank(layout, k) == (layout.pp - 1) * (layout.inner * layout.dp) + (k - 1) * layout.inner

\* Where that rank is.
LEMMA CollectRankFacts ==
  ASSUME NEW layout, IsLayout(layout), NEW k \in 1..layout.dp
  PROVE  /\ CollectRank(layout, k) \in 0..(WorldSize(layout) - 1)
         /\ IsCollect(layout, CollectRank(layout, k))
         /\ CollectRank(layout, k) \div (layout.inner * layout.dp) = layout.pp - 1
         /\ DpRank(layout, CollectRank(layout, k)) = k - 1
<1> DEFINE d == layout.dp
           i == layout.inner
           p == layout.pp
           x == i * d
           y == (k - 1) * i
           r == CollectRank(layout, k)
<1>1. d \in Nat /\ d > 0 /\ i \in Nat /\ i > 0 /\ p \in Nat /\ p > 0 /\ k \in Nat /\ k >= 1 /\ k <= d
  BY DEF IsLayout
<1>2. WorldSize(layout) = d * i * p /\ r = (p - 1) * x + y
  BY DEF WorldSize, CollectRank
<1>3. IsCollect(layout, r) <=> ((r % i) = 0 /\ r \div x = p - 1)
  BY DEF IsCollect
<1>4. DpRank(layout, r) = (r \div i) % d
  BY DEF DpRank
<1> HIDE DEF d, p, r, i
<1>5. x \in Nat /\ x > 0 /\ y \in Nat /\ y < x
  BY <1>1
<1>6. r \div x = p - 1
  BY <1>1, <1>2, <1>5, DivMod
<1>7. r = ((p - 1) * d + (k - 1)) * i + 0
  BY <1>1, <1>2
<1> DEFINE q == (p - 1) * d + (k - 1)
<1>8. q \in Int /\ (q % d) = k - 1
  BY <1>1, DivMod
<1>9. (r % i) = 0 /\ r \div i = q
  BY <1>1, <1>7, <1>8, DivMod
<1>10. r \in 0..(d * i * p - 1)
  BY <1>1, <1>2, <1>5
<1>11. (r \div i) % d = k - 1
  BY <1>8, <1>9
<1>12. (r % i) = 0 /\ r \div x = p - 1
  BY <1>6, <1>9
<1> HIDE DEF x, y, q
<1>13. /\ r \in 0..(WorldSize(layout) - 1) /\ IsCollect(layout, r) /\ r \div x = p - 1
       /\ DpRank(layout, r) = k - 1
  BY <1>2, <1>3, <1>4, <1>10, <1>11, <1>12
<1> QED BY <1>13 DEF r, x, p, i, d

\* Every collecting rank is the one of a group.
LEMMA CollectingIsGroup ==
  ASSUME NEW layout, IsLayout(layout), NEW r \in 0..(WorldSize(layout) - 1), IsCollect(layout, r)
  PROVE  \E k \in 1..layout.dp : CollectRank(layout, k) = r
<1> DEFINE d == layout.dp
           i == layout.inner
           p == layout.pp
           x == i * d
           q == r \div i
           y == r % x
           m == p - 1
           j == q - m * d
<1>1. d \in Nat /\ d > 0 /\ i \in Nat /\ i > 0 /\ p \in Nat /\ p > 0 /\ r \in Nat
  BY DEF IsLayout
<1>2. (r % i) = 0 /\ r \div x = m
  BY DEF IsCollect
<1>3. \A k : CollectRank(layout, k) = m * x + (k - 1) * i
  BY DEF CollectRank
<1> HIDE DEF d, i, p
<1>4. x \in Nat /\ x > 0
  BY <1>1
<1>5. q \in Int /\ r = q * i
  BY <1>1, <1>2, DivisionFacts
<1>6. y \in Int /\ 0 <= y /\ y < x /\ r = m * x + y
  BY <1>1, <1>2, <1>4, DivisionFacts
<1> HIDE DEF q, y
<1>7. m \in Int /\ j \in Int
  BY <1>1, <1>5
<1>8. y = j * i
  BY <1>1, <1>5, <1>6, <1>7
<1> HIDE DEF j, m
<1>9. 0 <= j /\ j < d
  BY <1>1, <1>4, <1>6, <1>7, <1>8
<1>10. j + 1 \in 1..d /\ (j + 1) - 1 = j
  BY <1>1, <1>7, <1>9
<1>11. CollectRank(layout, j + 1) = r
  BY <1>10, <1>3, <1>6, <1>8
<1> QED BY <1>10, <1>11 DEF d

\* The ranks that are collected, in order.
LEMMA CollectedRanks ==
  ASSUME NEW layout, IsLayout(layout)
  PROVE  LET I == {r \in 0..(WorldSize(layout) - 1) : IsCollect(layout, r)} IN
         Listed(I) = [k \in 1..layout.dp |-> CollectRank(layout, k)] /\ Cardinality(I) = layout.dp
<1> DEFINE I == {r \in 0..(WorldSize(layout) - 1) : IsCollect(layout, r)}
           n == layout.dp
           f == [k \in 1..n |-> CollectRank(layout, k)]
           W == WorldSize(layout)
<1>1. n \in Nat /\ layout.inner \in Nat /\ layout.inner > 0 /\ layout.pp \in Nat
  BY DEF IsLayout
<1>2. W \in Int
  BY <1>1 DEF WorldSize
<1>3. IsFiniteSet(I) /\ I \in SUBSET Int
  <2> HIDE DEF W
  <2>1. IsFiniteSet(0..(W - 1))
    BY <1>2, FS_Interval
  <2>2. I \in SUBSET (0..(W - 1))
    BY DEF W
  <2>3. 0..(W - 1) \in SUBSET Int
    BY <1>2
  <2> HIDE DEF I
  <2>4. IsFiniteSet(I)
    BY <2>1, <2>2, FS_Subset
  <2> QED BY <2>2, <2>3, <2>4
<1>4. \A k \in 1..n : CollectRank(layout, k) \in I
  BY CollectRankFacts
<1>5. f \in [1..n -> I]
  BY <1>4
<1>6. ASSUME NEW k \in 1..n, NEW m \in 1..n, k < m PROVE f[k] < f[m]
  <2> DEFINE a == (layout.pp - 1) * (layout.inner * layout.dp)
             i == layout.inner
  <2>1. a \in Int /\ i \in Nat /\ i > 0 /\ k \in Int /\ m \in Int
    BY <1>1
  <2>2. f[k] = a + (k - 1) * i /\ f[m] = a + (m - 1) * i
    BY DEF CollectRank
  <2> HIDE DEF a, i, f
  <2>3. (m - 1) * i = (k - 1) * i + (m - k) * i /\ (m - k) * i > 0
    BY <1>6, <2>1
  <2> QED BY <2>1, <2>2, <2>3
<1>7. \A r \in I : \E k \in 1..n : f[k] = r
  BY CollectingIsGroup
<1> HIDE DEF I, n, f, W
<1>8. Listed(I) = f /\ Cardinality(I) = n
  BY <1>1, <1>3, <1>5, <1>6, <1>7, ListedUnique
<1> QED BY <1>8 DEF I, n, f

\* A chunk of a batch.
LEMMA ChunkIs ==
  ASSUME NEW S, NEW n \in Nat, n > 0, NEW size \in Nat, size > 0, NEW B \in Seq(S), Len(B) = n * size, NEW c \in 1..n
  PROVE  /\ Chunk(B, n)[c] = PieceOf(B, size, c)
         /\ \A i \in 1..size : PieceOf(B, size, c)[i] \in S
<1>1. Len(B) \div n = size
  BY DivMod
<1> DEFINE a == (c - 1) * size
           b == c * size
           s == SubSeq(B, a + 1, b)
<1>2. Chunk(B, n)[c] = s
  BY <1>1 DEF Chunk
<1>3. a \in Nat /\ b = a + size
  OBVIOUS
<1>4. b <= Len(B)
  BY <1>3, PieceIn
<1>5. PieceOf(B, size, c) = [i \in 1..size |-> B[a + i]]
  BY DEF PieceOf
<1> HIDE DEF a, b
<1>6. s \in Seq(S) /\ Len(s) = size /\ \A i \in 1..size : s[i] = B[a + i]
  BY <1>3, <1>4, SubSeqFacts
<1> DEFINE t == PieceOf(B, size, c)
<1>7. DOMAIN t = 1..size /\ t = [i \in 1..size |-> t[i]] /\ \A i \in 1..size : t[i] = B[a + i]
  BY <1>5
<1> HIDE DEF s, t
<1>8. s = t
  BY <1>6, <1>7, SameSequence
<1>9. \A i \in 1..size : t[i] \in S
  BY <1>6, <1>8
<1> QED BY <1>2, <1>8, <1>9 DEF t

\* What is collected of a divisible batch is the result of every row.
LEMMA CollectedIs ==
  ASSUME NEW layout, IsLayout(layout), NEW S, NEW size \in Nat, size > 0,
         NEW B \in Seq(S), Len(B) = layout.dp * size
  PROVE  Collected(B, layout) = [m \in 1..Len(B) |-> <<"done", B[m]>>]
<1> DEFINE n == layout.dp
           given == Dispatched(B, layout)
           I == {r \in DOMAIN given : IsCollect(layout, r)}
           ranks == Listed(I)
           T == {"done"} \X S
           done == [m \in 1..Len(B) |-> <<"done", B[m]>>]
           outs == [k \in DOMAIN ranks |-> Output(layout, ranks[k], given[ranks[k]])]
<1>1. n \in Nat /\ n > 0
  BY DEF IsLayout
<1>2. DOMAIN given = 0..(WorldSize(layout) - 1)
  BY DEF Dispatched
<1>3. ranks = [k \in 1..n |-> CollectRank(layout, k)]
  BY <1>2, CollectedRanks
<1>4. done \in Seq(T) /\ Len(done) = n * size
  BY RuleIsSequence
<1>5. ASSUME NEW k \in 1..n PROVE Output(layout, CollectRank(layout, k), given[CollectRank(layout, k)]) = PieceOf(done, size, k)
  <2> DEFINE r == CollectRank(layout, k)
             rows == given[r]
  <2>1. /\ r \in 0..(WorldSize(layout) - 1) /\ r \div (layout.inner * layout.dp) = layout.pp - 1
        /\ DpRank(layout, r) = k - 1
    BY CollectRankFacts
  <2>2. rows = Chunk(B, n)[k]
    BY <2>1 DEF Dispatched
  <2>3. rows = PieceOf(B, size, k)
    BY <1>1, <2>2, ChunkIs
  <2>4. Output(layout, r, rows) = [i \in DOMAIN rows |-> <<"done", rows[i]>>]
    BY <2>1 DEF Output
  <2>5. DOMAIN rows = 1..size /\ \A i \in 1..size : rows[i] = B[(k - 1) * size + i]
    BY <2>3 DEF PieceOf
  <2>6. \A i \in 1..size : (k - 1) * size + i \in 1..Len(B)
    BY <1>1, PieceIn
  <2>7. \A i \in 1..size : done[(k - 1) * size + i] = <<"done", B[(k - 1) * size + i]>>
    BY <2>6
  <2>8. PieceOf(done, size, k) = [i \in 1..size |-> <<"done", B[(k - 1) * size + i]>>]
    BY <2>7 DEF PieceOf
  <2>9. [i \in DOMAIN rows |-> <<"done", rows[i]>>] = [i \in 1..size |-> <<"done", B[(k - 1) * size + i]>>]
    BY <2>5
  <2> QED BY <2>4, <2>8, <2>9
<1>6. outs = [k \in 1..n |-> PieceOf(done, size, k)]
  BY <1>3, <1>5
<1>7. Collected(B, layout) = FlattenSeq(outs)
  BY DEF Collected
<1> HIDE DEF outs, done, T, n
<1>8. FlattenSeq([k \in 1..n |-> PieceOf(done, size, k)]) = done
  BY <1>1, <1>4, FlattenPieces
<1> QED BY <1>6, <1>7, <1>8 DEF done

\* A prefix, element by element.
LEMMA TakenIs ==
  ASSUME NEW S, NEW s \in Seq(S), NEW n \in Nat, n > 0, n <= Len(s), NEW t \in Seq(S), Len(t) = n,
         \A i \in 1..n : s[i] = t[i]
  PROVE  Taken(s, n) = t
<1> DEFINE u == SubSeq(s, 1, n)
<1>1. u \in Seq(S) /\ Len(u) = n
  OBVIOUS
<1>2. \A i \in 1..n : u[i] = s[i]
  OBVIOUS
<1>3. DOMAIN t = 1..n /\ t = [i \in 1..n |-> t[i]]
  OBVIOUS
<1>4. Taken(s, n) = u
  BY DEF Taken
<1> HIDE DEF u
<1>5. u = t
  BY <1>1, <1>2, <1>3, SameSequence
<1> QED BY <1>4, <1>5

\* Unpadding what was collected of a padded batch gives the results of the rows.
LEMMA UnpadResults ==
  ASSUME NEW layout, IsLayout(layout), NEW S, NEW size \in Nat, size > 0,
         NEW B \in Seq(S), Len(B) = layout.dp * size,
         NEW batch \in Seq(S), batch # << >>, Len(batch) <= Len(B), \A i \in 1..Len(batch) : B[i] = batch[i],
         NEW pad, pad = Len(B) - Len(batch)
  PROVE  /\ Unpad(Collected(B, layout), pad) = Results(batch)
         /\ Unpad(B, pad) = batch
<1> DEFINE n == Len(batch)
           N == Len(B)
           T == {"done"} \X S
           done == [m \in 1..N |-> <<"done", B[m]>>]
           res == [i \in 1..n |-> <<"done", batch[i]>>]
<1>1. n \in Nat /\ n > 0 /\ N \in Nat /\ n <= N /\ N - pad = n
  OBVIOUS
<1>2. Collected(B, layout) = done
  BY CollectedIs
<1>3. done \in [1..N -> T] /\ res \in [1..n -> T]
  OBVIOUS
<1>4. \A i \in 1..n : done[i] = res[i]
  BY <1>1
<1>5. Results(batch) = res
  BY DEF Results
<1>6. Unpad(B, pad) = batch
  BY <1>1, TakenIs DEF Unpad
<1> HIDE DEF n, N, T, done, res
<1>7. done \in Seq(T) /\ Len(done) = N /\ res \in Seq(T) /\ Len(res) = n
  BY <1>1, <1>3, RuleIsSequence
<1>8. Taken(done, n) = res
  <2>1. n <= Len(done)
    BY <1>1, <1>7
  <2>2. n \in Nat /\ n > 0 /\ done \in Seq(T) /\ res \in Seq(T) /\ Len(res) = n
    BY <1>1, <1>7
  <2> QED BY <1>4, <2>1, <2>2, TakenIs
<1>9. Unpad(done, pad) = Taken(done, n)
  BY <1>1, <1>7 DEF Unpad
<1> QED BY <1>2, <1>5, <1>6, <1>8, <1>9

\* Padding fills the last round.
LEMMA PadFacts ==
  ASSUME NEW n \in Nat, n > 0, NEW d \in Nat, d > 0
  PROVE  /\ PadSize(n, d) \in Nat
         /\ PadSize(n, d) = 0 <=> (n % d) = 0
         /\ \E size \in Nat : size > 0 /\ n + PadSize(n, d) = d * size
<1> DEFINE q == n \div d
           r == n % d
<1>1. q \in Int /\ r \in Int /\ 0 <= r /\ r < d /\ n = q * d + r
  BY DivisionFacts
<1>2. PadSize(n, d) = IF r = 0 THEN 0 ELSE d - r
  BY DEF PadSize
<1> HIDE DEF q, r
<1>3. q >= 0
  BY <1>1
<1>4. CASE r = 0
  BY <1>1, <1>2, <1>3, <1>4 DEF r
<1>5. CASE r # 0
  <2>1. n + (d - r) = d * (q + 1)
    BY <1>1
  <2>2. q + 1 \in Nat /\ q + 1 > 0 /\ d - r \in Nat /\ d - r # 0
    BY <1>1, <1>3
  <2> QED BY <1>2, <1>5, <2>1, <2>2 DEF r
<1> QED BY <1>4, <1>5

\* A row of the first round is itself.
LEMMA SameRow ==
  ASSUME NEW n \in Nat, n > 0, NEW i \in 1..n
  PROVE  ((i - 1) % n) + 1 = i
<1>1. i - 1 \in Int /\ 0 <= i - 1 /\ i - 1 < n /\ 0 \in Int /\ 0 * n + (i - 1) = i - 1
  OBVIOUS
<1> DEFINE r == i - 1
<1>2. r \in Int /\ 0 <= r /\ r < n /\ 0 \in Int /\ 0 * n + r = r
  BY <1>1
<1> HIDE DEF r
<1>3. ((0 * n + r) % n) = r
  BY <1>2, DivMod
<1>4. (r % n) = r
  BY <1>2, <1>3
<1>5. r + 1 = i
  BY DEF r
<1> QED BY <1>4, <1>5 DEF r

\* The padded batches.
LEMMA PaddedBatches ==
  ASSUME NEW S, NEW batch \in Seq(S), batch # << >>, NEW d \in Nat, d > 0
  PROVE  LET n == Len(batch)
             pad == PadSize(n, d)
         IN  /\ PadToDivisor(batch, d) \in Seq(S) /\ Len(PadToDivisor(batch, d)) = n + pad
             /\ \A i \in 1..n : PadToDivisor(batch, d)[i] = batch[i]
             /\ AutoPadded(batch, d) \in Seq(S) /\ Len(AutoPadded(batch, d)) = n + pad
             /\ \A i \in 1..n : AutoPadded(batch, d)[i] = batch[i]
<1> DEFINE n == Len(batch)
           pad == PadSize(n, d)
           A == PadToDivisor(batch, d)
           tail == [i \in 1..pad |-> batch[n]]
           C == batch \o tail
<1>0. n \in Nat /\ n > 0
  OBVIOUS
<1>1. n \in Nat /\ n > 0 /\ pad \in Nat
  BY <1>0, PadFacts
<1>2. A = [i \in 1..(n + pad) |-> batch[((i - 1) % n) + 1]]
  BY DEF PadToDivisor
<1>3. ASSUME NEW i \in Int PROVE ((i - 1) % n) + 1 \in 1..n
  BY <1>1, DivisionFacts
<1>4. \A i \in 1..n : batch[i] \in S
  OBVIOUS
<1>5. AutoPadded(batch, d) = C
  BY DEF AutoPadded
<1> HIDE DEF pad, n, A
<1>6. A \in [1..(n + pad) -> S]
  BY <1>1, <1>2, <1>3, <1>4
<1>7. A \in Seq(S) /\ Len(A) = n + pad
  BY <1>1, <1>6, RuleIsSequence
<1>8. \A i \in 1..n : A[i] = batch[i]
  <2> SUFFICES ASSUME NEW i \in 1..n PROVE A[i] = batch[i]
    OBVIOUS
  <2>1. i \in 1..(n + pad)
    BY <1>1
  <2>2. ((i - 1) % n) + 1 = i
    BY <1>1, SameRow
  <2> QED BY <1>2, <2>1, <2>2
<1>9. tail \in [1..pad -> S]
  BY <1>1, <1>4
<1>10. tail \in Seq(S) /\ Len(tail) = pad
  BY <1>1, <1>9, RuleIsSequence
<1> HIDE DEF tail
<1>11. C \in Seq(S) /\ Len(C) = n + pad
  BY <1>1, <1>10 DEF n
<1>12. \A i \in 1..n : C[i] = batch[i]
  BY <1>1, <1>10 DEF n
<1> QED BY <1>5, <1>7, <1>8, <1>11, <1>12 DEF n, pad, A

\* Every row of a call comes back with its own result, whatever the layout.
THEOREM RowsAlwaysComeBack ==
  ASSUME NEW layout, IsLayout(layout), NEW S, NEW batch \in Seq(S), batch # << >>
  PROVE  RowsComeBack(batch, layout) /\ CallersBatchGrows(batch, layout)
<1> DEFINE n == Len(batch)
           d == layout.dp
           pad == PadSize(n, d)
           flat == [dp |-> d, inner |-> 1, pp |-> 1]
           A == PadToDivisor(batch, d)
           C == AutoPadded(batch, d)
<1>1. n \in Nat /\ n > 0 /\ d \in Nat /\ d > 0
  BY DEF IsLayout
<1>2. IsLayout(flat) /\ flat.dp = d
  BY <1>1 DEF IsLayout
<1>3. pad \in Nat /\ (pad = 0 <=> (n % d) = 0)
  BY <1>1, PadFacts
<1>4. PICK size \in Nat : size > 0 /\ n + pad = d * size
  BY <1>1, PadFacts
<1>5. /\ A \in Seq(S) /\ Len(A) = n + pad /\ \A i \in 1..n : A[i] = batch[i]
      /\ C \in Seq(S) /\ Len(C) = n + pad /\ \A i \in 1..n : C[i] = batch[i]
  BY <1>1, PaddedBatches
<1>6. PaddedCall(batch, layout) = Unpad(Collected(A, layout), pad)
  BY DEF PaddedCall
<1>7. AutoPaddedCall(batch, d) = <<C, Unpad(Collected(C, flat), Len(C) - n)>>
  BY DEF AutoPaddedCall
<1> HIDE DEF A, C, flat, pad
<1>8. Unpad(Collected(A, layout), pad) = Results(batch) /\ Unpad(A, pad) = batch
  <2>1. Len(A) = layout.dp * size /\ n <= Len(A) /\ pad = Len(A) - n
    BY <1>1, <1>3, <1>4, <1>5
  <2> QED BY <1>4, <1>5, <2>1, UnpadResults
<1>9. Unpad(Collected(C, flat), Len(C) - n) = Results(batch)
  <2>1. Len(C) = flat.dp * size /\ n <= Len(C)
    BY <1>1, <1>2, <1>3, <1>4, <1>5
  <2> DEFINE p == Len(C) - n
  <2>2. p = Len(C) - Len(batch)
    OBVIOUS
  <2> HIDE DEF p
  <2>3. Unpad(Collected(C, flat), p) = Results(batch)
    BY <1>2, <1>4, <1>5, <2>1, <2>2, UnpadResults
  <2> QED BY <2>3 DEF p
<1>10. AutoPaddedCall(batch, d)[1] = C /\ AutoPaddedCall(batch, d)[2] = Results(batch)
  BY <1>7, <1>9
<1>11. RowsComeBack(batch, layout)
  BY <1>6, <1>8, <1>10 DEF RowsComeBack, A, pad
<1>12. Len(Results(batch)) = n
  BY <1>1, RuleIsSequence DEF Results
<1>13. CallersBatchGrows(batch, layout)
  BY <1>1, <1>10, <1>12, <1>3, <1>5 DEF CallersBatchGrows
<1> QED BY <1>11, <1>13

\* Where the repetitions of a row are.
LEMMA RepeatedAt ==
  ASSUME NEW n \in Nat, NEW times \in Nat, NEW i \in 1..n, NEW k \in 1..times
  PROVE  /\ (i - 1) * times + k \in 1..(n * times)
         /\ ((((i - 1) * times + k) - 1) \div times) + 1 = i
         /\ (k - 1) * n + i \in 1..(n * times)
         /\ ((((k - 1) * n + i) - 1) % n) + 1 = i
<1>1. times > 0 /\ n > 0
  OBVIOUS
<1>2. (i - 1) * times + k \in 1..(n * times)
  BY PieceIn
<1>3. (k - 1) * n + i \in 1..(n * times)
  BY PieceIn
<1> DEFINE p == i - 1
           q == k - 1
<1>4. p \in Int /\ q \in Int /\ 0 <= p /\ p < n /\ 0 <= q /\ q < times /\ p + 1 = i /\ q + 1 = k
  OBVIOUS
<1> HIDE DEF p, q
<1>5. (p * times + q) \div times = p /\ ((q * n + p) % n) = p
  BY <1>1, <1>4, DivMod
<1>6. ((i - 1) * times + k) - 1 = p * times + q
  BY <1>4 DEF p
<1>7. ((k - 1) * n + i) - 1 = q * n + p
  BY <1>4 DEF q
<1> QED BY <1>2, <1>3, <1>4, <1>5, <1>6, <1>7

\* The repetitions of a row stand together, for any batch.
THEOREM RepeatsAlwaysStandTogether ==
  ASSUME NEW S, NEW batch \in Seq(S), NEW times \in Nat, times > 0
  PROVE  RepeatsStandTogether(batch, times)
<1> DEFINE n == Len(batch)
           N == n * times
           together == Repeat(batch, times, TRUE)
           tiled == Repeat(batch, times, FALSE)
<1>1. n \in Nat /\ N \in Nat /\ DOMAIN batch = 1..n
  OBVIOUS
<1>2. together = [i \in 1..N |-> batch[((i - 1) \div times) + 1]]
  BY DEF Repeat
<1>3. tiled = [i \in 1..N |-> batch[((i - 1) % n) + 1]]
  BY DEF Repeat
<1>4. \A i \in 1..n : batch[i] \in S
  OBVIOUS
<1>5. ASSUME NEW i \in 1..N PROVE ((i - 1) \div times) + 1 \in 1..n /\ ((i - 1) % n) + 1 \in 1..n
  BY <1>1, DivisionFacts
<1> HIDE DEF N, n, together, tiled
<1>6. together \in [1..N -> S] /\ tiled \in [1..N -> S]
  BY <1>2, <1>3, <1>4, <1>5
<1>7. together \in Seq(S) /\ Len(together) = N /\ tiled \in Seq(S) /\ Len(tiled) = N
  BY <1>1, <1>6, RuleIsSequence
<1>8. ASSUME NEW i \in 1..n, NEW k \in 1..times
      PROVE  /\ times * (i - 1) + k \in 1..N /\ together[times * (i - 1) + k] = batch[i]
             /\ tiled[n * (k - 1) + i] = batch[i]
  <2>1. times * (i - 1) + k = (i - 1) * times + k /\ n * (k - 1) + i = (k - 1) * n + i
    BY <1>1
  <2>2. /\ (i - 1) * times + k \in 1..N /\ ((((i - 1) * times + k) - 1) \div times) + 1 = i
        /\ (k - 1) * n + i \in 1..N /\ ((((k - 1) * n + i) - 1) % n) + 1 = i
    BY <1>1, RepeatedAt DEF N
  <2> DEFINE x == (i - 1) * times + k
             y == (k - 1) * n + i
  <2>3. x \in 1..N /\ ((x - 1) \div times) + 1 = i /\ y \in 1..N /\ ((y - 1) % n) + 1 = i
    BY <2>2
  <2> HIDE DEF x, y
  <2>4. together[x] = batch[i] /\ tiled[y] = batch[i]
    BY <1>2, <1>3, <2>3
  <2> QED BY <2>1, <2>3, <2>4 DEF x, y
<1>9. ASSUME NEW i \in 1..n
      PROVE  SubSeq(together, times * (i - 1) + 1, times * i) = [k \in 1..times |-> batch[i]]
  BY <1>1, <1>7, <1>8, SubSeqFacts, SameSequence
<1>10. Len(together) = Len(tiled)
  BY <1>7
<1>11. \A i \in DOMAIN batch, k \in 1..times : together[times * (i - 1) + k] = tiled[n * (k - 1) + i]
  BY <1>1, <1>8
<1>12. \A i \in DOMAIN batch : SubSeq(together, times * (i - 1) + 1, times * i) = [k \in 1..times |-> batch[i]]
  BY <1>1, <1>9
<1> QED BY <1>10, <1>11, <1>12, Zenon DEF RepeatsStandTogether, together, tiled, n

\* What MCAlgorithms dispatches.
LEMMA ChooseDispatchSound == ChooseDispatch => DispatchRoundTrip'
<1> SUFFICES ASSUME NEW lens \in SequencesOf({1, 5}, 1..3) \cup {<<2, 1, 2, 5>>, <<1, 5, 2, 2, 1, 5>>},
                    NEW dp \in 1..7, NEW inner \in 1..2, NEW pp \in 1..3,
                    input' = [kind |-> "dispatch", chosen |-> TRUE, lens |-> lens, times |-> pp,
                              layout |-> [dp |-> dp, inner |-> inner, pp |-> pp]]
             PROVE  DispatchRoundTrip'
  BY DEF ChooseDispatch
<1> DEFINE layout == [dp |-> dp, inner |-> inner, pp |-> pp]
           batch == [i \in DOMAIN lens |-> 10 + i]
<1>1. PICK n \in Nat : n > 0 /\ DOMAIN lens = 1..n
  <2>1. CASE lens \in SequencesOf({1, 5}, 1..3)
    <3>1. PICK n \in 1..3 : lens \in [1..n -> {1, 5}]
      BY <2>1 DEF SequencesOf
    <3>2. n \in Nat /\ n > 0 /\ DOMAIN lens = 1..n
      BY <3>1
    <3> QED BY <3>2
  <2>2. CASE lens \in {<<2, 1, 2, 5>>, <<1, 5, 2, 2, 1, 5>>}
    <3>1. DOMAIN <<2, 1, 2, 5>> = 1..4 /\ DOMAIN <<1, 5, 2, 2, 1, 5>> = 1..6
      OBVIOUS
    <3>2. lens = <<2, 1, 2, 5>> \/ lens = <<1, 5, 2, 2, 1, 5>>
      BY <2>2
    <3>3. DOMAIN lens = 1..4 \/ DOMAIN lens = 1..6
      BY <3>1, <3>2
    <3>4. 4 \in Nat /\ 4 > 0 /\ 6 \in Nat /\ 6 > 0
      OBVIOUS
    <3> QED BY <3>3, <3>4
  <2> QED BY <2>1, <2>2
<1>2. batch \in Seq(Nat) /\ batch # << >>
  BY <1>1, RuleIsSequence
<1>3. IsLayout(layout)
  BY DEF IsLayout
<1>4. pp \in Nat /\ pp > 0
  OBVIOUS
<1>5. input'.lens = lens /\ input'.times = pp /\ input'.layout = layout
  OBVIOUS
<1>6. batch = [i \in DOMAIN input'.lens |-> 10 + i]
  BY <1>5
<1> HIDE DEF batch, layout
<1>7. RowsComeBack(batch, layout) /\ CallersBatchGrows(batch, layout)
  BY <1>2, <1>3, RowsAlwaysComeBack
<1>8. RepeatsStandTogether(batch, pp)
  BY <1>2, <1>4, RepeatsAlwaysStandTogether
<1> QED BY <1>5, <1>6, <1>7, <1>8, Zenon DEF DispatchRoundTrip

\* Whatever batch and layout are chosen, every row comes back with its own
\* result, the caller's batch grows when it was padded, and repetitions stand
\* together (protocol.py, decorator.py).
THEOREM DispatchAlwaysRoundTrips == AlgorithmsSpec => []DispatchRoundTrip
<1>1. AlgorithmsInit => DispatchRoundTrip
  BY DEF AlgorithmsInit, DispatchRoundTrip, Chosen
<1>2. DispatchRoundTrip /\ [AlgorithmsNext]_input => DispatchRoundTrip'
  BY ChooseDispatchSound, OneAction DEF DispatchRoundTrip, Chosen
<1> QED BY <1>1, <1>2, PTL DEF AlgorithmsSpec

-----------------------------------------------------------------------------
(* Structures that MCAlgorithms chooses.                                   *)

\* The sequences of MCAlgorithms are sequences.
LEMMA SequencesAre ==
  ASSUME NEW S, NEW N, N \in SUBSET Nat, NEW q \in SequencesOf(S, N)
  PROVE  q \in Seq(S)
<1>1. PICK n \in N : q \in [1..n -> S]
  BY DEF SequencesOf
<1>2. n \in Nat
  OBVIOUS
<1> QED BY <1>1, <1>2

\* Its structural rewards are sound.
LEMMA ChooseStructuresSound == ChooseStructures => GroupRewardsSound'
<1> SUFFICES ASSUME NEW first \in SequencesOf(Models, 0..2), NEW second \in SequencesOf(Models, 0..1),
                    NEW models \in SequencesOf(Models, 1..2),
                    input' = [kind |-> "structure", chosen |-> TRUE, models |-> models, iter |-> 3,
                              structures |-> AfterModels(AfterModels(NoStructures, first, 1), second, 2)]
             PROVE  GroupRewardsSound'
  BY DEF ChooseStructures
<1> DEFINE once == AfterModels(NoStructures, first, 1)
           twice == AfterModels(once, second, 2)
<1>1. first \in Seq(Models) /\ second \in Seq(Models) /\ models \in Seq(Models)
  BY SequencesAre
<1>2. 1 \in Int /\ 2 \in Int /\ 3 \in Int
  OBVIOUS
<1>3. NoStructures \in Structures(Models)
  BY NoStructuresFacts
<1>4. once \in Structures(Models)
  BY <1>1, <1>2, <1>3, CommittedAre
<1> HIDE DEF once
<1>5. twice \in Structures(Models)
  BY <1>1, <1>2, <1>4, CommittedAre
<1>6. input' = [kind |-> "structure", chosen |-> TRUE, models |-> models, iter |-> 3, structures |-> twice]
  BY DEF once
<1> HIDE DEF twice
<1>7. StructureSound(twice, models, 3)
  BY <1>1, <1>2, <1>5, StructureAlwaysSound
<1>8. /\ input'.structures = twice /\ input'.models = models /\ input'.iter = 3
      /\ input'.kind # "clusters" /\ input'.kind # "totals"
  BY <1>6
<1> QED BY <1>7, <1>8, Zenon DEF GroupRewardsSound, Chosen

\* Whatever group is chosen, its clusters are sound and do not depend on the
\* order of its rollouts, its consensus rewards are shares of one whole and agree
\* with what is committed, and so are its structural rewards; total rewards are
\* shares where the weights of each phase add up to one, as the defaults of the
\* code do (score_rollout_group, combine_rewards, preview_r4).
THEOREM GroupRewardsAlwaysSound == WeightsAreShares => (AlgorithmsSpec => []GroupRewardsSound)
<1> SUFFICES ASSUME WeightsAreShares PROVE AlgorithmsSpec => []GroupRewardsSound
  OBVIOUS
<1>1. AlgorithmsInit => GroupRewardsSound
  BY DEF AlgorithmsInit, GroupRewardsSound, Chosen
<1>2. GroupRewardsSound /\ [AlgorithmsNext]_input => GroupRewardsSound'
  <2> SUFFICES ASSUME GroupRewardsSound, [AlgorithmsNext]_input PROVE GroupRewardsSound'
    OBVIOUS
  <2>1. CASE input'.kind \notin {"clusters", "totals", "structure"}
    BY <2>1 DEF GroupRewardsSound, Chosen
  <2>2. CASE ChooseClusters
    BY <2>2, ChooseClustersSound
  <2>3. CASE ChooseTotals
    BY <2>3, ChooseTotalsSound
  <2>4. CASE ChooseStructures
    BY <2>4, ChooseStructuresSound
  <2>5. CASE UNCHANGED input
    BY <2>5 DEF GroupRewardsSound, Chosen
  <2> QED BY <2>1, <2>2, <2>3, <2>4, <2>5, OneAction
<1> QED BY <1>1, <1>2, PTL DEF AlgorithmsSpec

-----------------------------------------------------------------------------
(* Sums over some of the positions of a sequence.                          *)

UpTo(U, k) == {i \in U : i <= k}
Rank(U, k) == Cardinality(UpTo(U, k))

\* The k-th member of a set of numbers is the one of rank k.
LEMMA RankFacts ==
  ASSUME NEW n \in Nat, NEW U \in SUBSET (1..n)
  PROVE  /\ IsFiniteSet(U) /\ U \in SUBSET Int /\ Rank(U, 0) = 0 /\ Rank(U, n) = Cardinality(U)
         /\ \A k \in 0..n : Rank(U, k) \in 0..Cardinality(U)
         /\ \A k \in 1..n : IF k \in U THEN Rank(U, k) = Rank(U, k - 1) + 1 /\ Listed(U)[Rank(U, k)] = k
                            ELSE Rank(U, k) = Rank(U, k - 1)
<1>1. IsFiniteSet(U) /\ U \in SUBSET Int
  <2>1. IsFiniteSet(1..n)
    BY FS_Interval
  <2>2. U \in SUBSET Int
    OBVIOUS
  <2> QED BY <2>1, <2>2, FS_Subset
<1>2. UpTo(U, 0) = {} /\ UpTo(U, n) = U
  <2>1. \A i \in U : i \in 1..n
    OBVIOUS
  <2>2. \A i \in U : ~(i <= 0) /\ i <= n
    BY <2>1
  <2> QED BY <2>2, Zenon DEF UpTo
<1>3. Rank(U, 0) = 0 /\ Rank(U, n) = Cardinality(U)
  BY <1>2, FS_EmptySet DEF Rank
<1>4. ASSUME NEW k PROVE IsFiniteSet(UpTo(U, k)) /\ Rank(U, k) \in Nat /\ Rank(U, k) <= Cardinality(U)
  <2>1. UpTo(U, k) \in SUBSET U
    BY DEF UpTo
  <2> QED BY <1>1, <2>1, FS_Subset, FS_CardinalityType DEF Rank
<1>5. Cardinality(U) \in Nat
  BY <1>1, FS_CardinalityType
<1>6. ASSUME NEW k \in 1..n, k \in U PROVE Rank(U, k) = Rank(U, k - 1) + 1 /\ Listed(U)[Rank(U, k)] = k
  <2>0. \A i \in U : i \in Int
    OBVIOUS
  <2>1. UpTo(U, k) = UpTo(U, k - 1) \cup {k} /\ k \notin UpTo(U, k - 1)
    <3>1. k \in Int /\ ~(k <= k - 1) /\ \A i \in U : i <= k <=> i <= k - 1 \/ i = k
      BY <2>0
    <3> QED BY <1>6, <3>1, Zenon DEF UpTo
  <2>2. Rank(U, k) = Rank(U, k - 1) + 1
    BY <1>4, <2>1, FS_AddElement DEF Rank
  <2>3. {j \in U : j < k} = UpTo(U, k - 1)
    <3>1. \A i \in U : i < k <=> i <= k - 1
      BY <2>0
    <3> QED BY <3>1, Zenon DEF UpTo
  <2> DEFINE r == Rank(U, k)
  <2>4. r \in 1..Cardinality(U) /\ Cardinality({j \in U : j < k}) = r - 1
    BY <1>4, <1>5, <2>2, <2>3 DEF Rank
  <2> HIDE DEF r
  <2>5. ASSUME NEW i \in U, Cardinality({j \in U : j < i}) = r - 1 PROVE i = k
    <3>1. i \in Int /\ k \in Int
      OBVIOUS
    <3>2. i < k => Cardinality({j \in U : j < i}) < Cardinality({j \in U : j < k})
      BY <1>1, <1>6, RankGrows
    <3>3. k < i => Cardinality({j \in U : j < k}) < Cardinality({j \in U : j < i})
      BY <1>1, <1>6, RankGrows
    <3> QED BY <2>4, <2>5, <3>1, <3>2, <3>3
  <2>6. (CHOOSE i \in U : Cardinality({j \in U : j < i}) = r - 1) = k
    BY <1>6, <2>4, <2>5
  <2>7. Listed(U)[r] = k
    BY <2>4, <2>6 DEF Listed
  <2> QED BY <2>2, <2>7 DEF r
<1>7. ASSUME NEW k \in 1..n, k \notin U PROVE Rank(U, k) = Rank(U, k - 1)
  <2>0. \A i \in U : i \in Int
    OBVIOUS
  <2>1. UpTo(U, k) = UpTo(U, k - 1)
    <3>1. \A i \in U : i <= k <=> i <= k - 1
      BY <1>7, <2>0
    <3> QED BY <3>1, Zenon DEF UpTo
  <2> QED BY <2>1 DEF Rank
<1>8. \A k \in 0..n : Rank(U, k) \in 0..Cardinality(U)
  BY <1>4, <1>5
<1> QED BY <1>1, <1>3, <1>6, <1>7, <1>8

\* What is zero elsewhere is summed up at the listed positions.
LEMMA ListedSum ==
  ASSUME NEW n \in Nat, NEW U \in SUBSET (1..n), NEW s \in Seq(Int), Len(s) = n,
         \A t \in 1..n : t \notin U => s[t] = 0,
         NEW q \in Seq(Int), Len(q) = Cardinality(U), \A k \in 1..Cardinality(U) : q[k] = s[Listed(U)[k]]
  PROVE  TotalOf(q) = TotalOf(s)
<1> DEFINE m == Cardinality(U)
<1>1. PICK h \in [0..n -> Int] : h[0] = 0 /\ (\A k \in 1..n : h[k] = h[k - 1] + s[k]) /\ TotalOf(s) = h[n]
  BY TotalsUp
<1>2. PICK g \in [0..m -> Int] : g[0] = 0 /\ (\A k \in 1..m : g[k] = g[k - 1] + q[k]) /\ TotalOf(q) = g[m]
  BY TotalsUp
<1>3. /\ Rank(U, 0) = 0 /\ Rank(U, n) = m
      /\ \A k \in 0..n : Rank(U, k) \in 0..m
      /\ \A k \in 1..n : IF k \in U THEN Rank(U, k) = Rank(U, k - 1) + 1 /\ Listed(U)[Rank(U, k)] = k
                         ELSE Rank(U, k) = Rank(U, k - 1)
  BY RankFacts
<1>4. m \in Nat
  <2>1. IsFiniteSet(U)
    BY RankFacts
  <2> QED BY <2>1, FS_CardinalityType
<1>5. \A k \in 1..m : q[k] = s[Listed(U)[k]]
  OBVIOUS
<1> HIDE DEF m
<1>6. \A k \in 0..n : h[k] = g[Rank(U, k)]
  <2> DEFINE Fails == {k \in 0..n : h[k] # g[Rank(U, k)]}
  <2> SUFFICES ASSUME Fails # {} PROVE FALSE
    OBVIOUS
  <2>1. PICK k \in Fails : \A j \in Fails : k <= j
    <3>1. Fails \in SUBSET Nat
      OBVIOUS
    <3> QED BY <3>1, LeastElement
  <2>2. k # 0
    BY <1>1, <1>2, <1>3
  <2>3. k \in 1..n /\ k - 1 \in 0..n /\ k - 1 < k
    BY <2>2
  <2>4. h[k - 1] = g[Rank(U, k - 1)]
    BY <2>1, <2>3
  <2>5. CASE k \in U
    <3>1. Rank(U, k) = Rank(U, k - 1) + 1 /\ Listed(U)[Rank(U, k)] = k
      BY <1>3, <2>3, <2>5
    <3> DEFINE r == Rank(U, k)
    <3>2. r \in 1..m /\ Rank(U, k - 1) = r - 1 /\ Rank(U, k - 1) \in 0..m
      <4>1. Rank(U, k - 1) \in 0..m /\ r \in 0..m
        BY <1>3, <2>3
      <4> DEFINE p == Rank(U, k - 1)
      <4>2. r = p + 1
        BY <3>1
      <4> HIDE DEF r, p
      <4>3. m \in Nat /\ p \in 0..m /\ r \in 0..m
        BY <1>4, <4>1 DEF p
      <4>4. r \in 1..m /\ p = r - 1
        BY ONLY <4>2, <4>3
      <4> QED BY <4>1, <4>4 DEF p
    <3> HIDE DEF r
    <3>3. g[r] = g[r - 1] + q[r]
      BY <1>2, <3>2
    <3>4. q[r] = s[k]
      BY <1>5, <3>1, <3>2 DEF r
    <3>5. h[k] = g[r]
      BY <1>1, <2>3, <2>4, <3>2, <3>3, <3>4
    <3> QED BY <2>1, <3>5 DEF r
  <2>6. CASE k \notin U
    <3>1. Rank(U, k) = Rank(U, k - 1) /\ s[k] = 0
      BY <1>3, <2>3, <2>6
    <3>2. h[k] = h[k - 1] + 0 /\ h[k - 1] \in Int
      BY <1>1, <2>3, <3>1
    <3> QED BY <2>1, <2>4, <3>1, <3>2
  <2> QED BY <2>5, <2>6
<1>7. h[n] = g[m]
  BY <1>3, <1>6
<1> QED BY <1>1, <1>2, <1>7

\* The listed first numbers are these.
LEMMA FirstListed ==
  ASSUME NEW n \in Nat, NEW m \in 0..n
  PROVE  /\ 1..m \in SUBSET (1..n) /\ Cardinality(1..m) = m /\ Listed(1..m) = [k \in 1..m |-> k]
<1> DEFINE f == [k \in 1..m |-> k]
<1>0. m \in Nat /\ 1 \in Int
  OBVIOUS
<1>1. 1..m \in SUBSET (1..n) /\ 1..m \in SUBSET Int /\ IsFiniteSet(1..m)
  BY <1>0, FS_Interval
<1>2. f \in [1..m -> 1..m] /\ (\A k, l \in 1..m : k < l => f[k] < f[l]) /\ \A i \in 1..m : \E k \in 1..m : f[k] = i
  OBVIOUS
<1> HIDE DEF f
<1>3. Listed(1..m) = f /\ Cardinality(1..m) = m
  BY <1>0, <1>1, <1>2, ListedUnique
<1> QED BY <1>1, <1>3 DEF f

-----------------------------------------------------------------------------
(* Differences and products of fractions.                                  *)

\* Fractions in lowest terms of the same value are the same.
LEMMA ReducedEqual ==
  ASSUME NEW f, Reduced(f), NEW g, Reduced(g), f[1] * g[2] = g[1] * f[2]
  PROVE  f = g
<1>1. f[1] \in Int /\ f[2] \in Nat /\ f[2] > 0 /\ g[1] \in Int /\ g[2] \in Nat /\ g[2] > 0
  BY DEF Reduced, Fraction
<1>2. Frac(f[1], f[2]) = Frac(g[1], g[2])
  BY <1>1, FracEqual
<1> QED BY <1>2 DEF Reduced

\* Fractions in lowest terms that stand for the same are the same.
LEMMA SameFraction ==
  ASSUME NEW k \in Nat, k > 0, NEW m \in Int, NEW f, Reduced(f), Stands(f, m, k),
         NEW g, Reduced(g), Stands(g, m, k)
  PROVE  f = g
<1> DEFINE a == f[1]
           b == f[2]
           c == g[1]
           d == g[2]
<1>1. /\ a \in Int /\ b \in Int /\ c \in Int /\ d \in Int
      /\ a * k = m * b /\ c * k = m * d
  BY DEF Reduced, Stands, Fraction
<1> HIDE DEF a, b, c, d
<1> DEFINE x == a * d
           y == c * b
<1>2. x * k = (a * k) * d /\ y * k = (c * k) * b /\ (m * b) * d = (m * d) * b
  BY <1>1
<1>3. x * k = y * k /\ x \in Int /\ y \in Int
  BY <1>1, <1>2
<1> HIDE DEF x, y
<1>4. x = y
  BY <1>3, Cancel
<1> QED BY <1>4, ReducedEqual DEF x, y, a, b, c, d

\* The difference of fractions over one denominator.
LEMMA MinusStands ==
  ASSUME NEW k \in Nat, k > 0, NEW m \in Int, NEW n \in Int, NEW f, Stands(f, m, k), NEW g, Stands(g, n, k)
  PROVE  Stands(Minus(f, g), m - n, k) /\ Reduced(Minus(f, g))
<1> DEFINE h == <<-g[1], g[2]>>
           e == -n
<1>1. f[1] \in Int /\ f[2] \in Int /\ g[1] \in Int /\ g[2] \in Int /\ f \in Fraction /\ h \in Fraction
  BY DEF Stands, Fraction
<1>2. Stands(h, e, k) /\ e \in Int
  BY <1>1 DEF Stands, Fraction
<1>3. Minus(f, g) = Plus(f, h)
  BY <1>1 DEF Minus, Plus
<1> HIDE DEF h, e
<1>4. Stands(Plus(f, h), m + e, k)
  BY <1>2, StandsSum
<1>5. m + e = m - n
  BY DEF e
<1> QED BY <1>1, <1>3, <1>4, <1>5, PlusReduced

\* The product of two fractions.
LEMMA TimesStands ==
  ASSUME NEW k \in Nat, k > 0, NEW l \in Nat, l > 0, NEW m \in Int, NEW n \in Int,
         NEW f, Stands(f, m, k), NEW g, Stands(g, n, l)
  PROVE  Stands(Times(f, g), m * n, k * l) /\ Reduced(Times(f, g))
<1> DEFINE p == f[1]
           q == f[2]
           s == g[1]
           t == g[2]
           x == Times(f, g)[1]
           y == Times(f, g)[2]
<1>1. f \in Fraction /\ g \in Fraction /\ p * k = m * q /\ s * l = n * t
  BY DEF Stands
<1>2. p \in Int /\ s \in Int /\ q \in Nat /\ t \in Nat /\ q > 0 /\ t > 0
  BY <1>1 DEF Fraction
<1>3. Times(f, g) \in Fraction /\ x * (q * t) = (p * s) * y
  BY <1>1, TimesValue
<1>4. x \in Int /\ y \in Int
  BY <1>3 DEF Fraction
<1>5. Reduced(Times(f, g))
  BY <1>2, FracReduced DEF Times
<1> HIDE DEF p, q, s, t, x, y
<1> DEFINE z == q * t
           u == x * (k * l)
           w == (m * n) * y
<1>6. z \in Nat /\ z > 0 /\ u \in Int /\ w \in Int
  BY <1>2, <1>4
<1>7. u * z = w * z
  BY <1>1, <1>2, <1>3, <1>4
<1> HIDE DEF u, w, z
<1>8. u = w
  BY <1>6, <1>7, Cancel
<1> QED BY <1>3, <1>5, <1>8 DEF Stands, u, w, x, y

\* A value does not depend on a common factor.
LEMMA StandsReduced ==
  ASSUME NEW n \in Int, NEW k \in Nat, NEW j \in Nat, j > 0, NEW f, Stands(f, n * j, k * j)
  PROVE  Stands(f, n, k)
<1> DEFINE a == f[1]
           b == f[2]
           x == a * k
           y == n * b
<1>1. f \in Fraction /\ a \in Int /\ b \in Int /\ a * (k * j) = (n * j) * b
  BY DEF Stands, Fraction
<1> HIDE DEF a, b
<1>2. x \in Int /\ y \in Int /\ x * j = a * (k * j) /\ y * j = (n * j) * b
  BY <1>1
<1> HIDE DEF x, y
<1>3. x = y
  BY <1>1, <1>2, Cancel
<1> QED BY <1>1, <1>3 DEF Stands, x, y, a, b

\* A whole number over any denominator.
LEMMA WholeStands ==
  ASSUME NEW n \in Int, NEW k \in Int
  PROVE  Stands(Whole(n), n * k, k) /\ Reduced(Whole(n))
<1>1. Whole(n)[1] = n /\ Whole(n)[2] = 1 /\ Reduced(Whole(n)) /\ Whole(n) \in Fraction
  BY WholeReduced DEF Reduced
<1>2. n * k = (n * k) * 1
  OBVIOUS
<1> QED BY <1>1, <1>2 DEF Stands

\* What Frac returns stands for its arguments.
LEMMA FracIs ==
  ASSUME NEW n \in Int, NEW d \in Nat, d > 0
  PROVE  Stands(Frac(n, d), n, d) /\ Reduced(Frac(n, d)) /\ Frac(n, d) \in Fraction
BY FracStands, FracReduced DEF Reduced

\* Nothing is taken away, and one is no factor.
LEMMA NeutralFractions ==
  ASSUME NEW f, Reduced(f)
  PROVE  Minus(f, Zero) = f /\ Times(One, f) = f
<1> DEFINE a == f[1]
           b == f[2]
<1>1. a \in Int /\ b \in Nat /\ f = Frac(a, b)
  BY DEF Reduced, Fraction
<1>2. Minus(f, Zero) = Frac(a * 1 - 0 * b, b * 1) /\ Times(One, f) = Frac(1 * a, 1 * b)
  BY DEF Minus, Times, Zero, One, Whole
<1> HIDE DEF a, b
<1>3. a * 1 - 0 * b = a /\ b * 1 = b /\ 1 * a = a /\ 1 * b = b
  BY <1>1
<1> QED BY <1>1, <1>2, <1>3

-----------------------------------------------------------------------------
(* Sums of scores.                                                         *)

\* The sum of numbers is a number, Add is this sum.
LEMMA SumIsNumber ==
  ASSUME NEW scores \in Seq(Int)
  PROVE  TotalOf(scores) \in Int /\ Add(scores) = TotalOf(scores)
<1>1. PICK h \in [0..Len(scores) -> Int] : TotalOf(scores) = h[Len(scores)]
  BY TotalsUp
<1>2. Len(scores) \in 0..Len(scores)
  OBVIOUS
<1>3. Add(scores) = TotalOf(scores)
  BY DEF Add, TotalOf
<1> QED BY <1>1, <1>2, <1>3

\* A common factor of all scores is one of their sum.
LEMMA ScaledSum ==
  ASSUME NEW s \in Seq(Int), NEW c \in Int, NEW q \in Seq(Int), Len(q) = Len(s),
         \A k \in 1..Len(s) : q[k] = c * s[k]
  PROVE  TotalOf(q) = c * TotalOf(s)
<1> DEFINE n == Len(s)
<1>1. PICK h \in [0..n -> Int] : h[0] = 0 /\ (\A k \in 1..n : h[k] = h[k - 1] + s[k]) /\ TotalOf(s) = h[n]
  BY TotalsUp
<1> DEFINE g == [k \in 0..n |-> c * h[k]]
<1>2. n \in Nat /\ n \in 0..n /\ 0 \in 0..n
  OBVIOUS
<1>3. g \in [0..n -> Int]
  OBVIOUS
<1>4. g[0] = 0
  BY <1>1, <1>2
<1>5. ASSUME NEW k \in 1..n PROVE g[k] = g[k - 1] + q[k]
  <2> DEFINE a == h[k - 1]
             b == s[k]
  <2>1. k \in 0..n /\ k - 1 \in 0..n
    OBVIOUS
  <2>2. a \in Int /\ b \in Int /\ h[k] = a + b /\ q[k] = c * b
    <3>1. a \in Int
      BY <2>1
    <3>4. b \in Int
      OBVIOUS
    <3>2. h[k] = a + b
      BY <1>1
    <3>3. q[k] = c * b
      OBVIOUS
    <3> QED BY <3>1, <3>2, <3>3, <3>4
  <2>3. g[k] = c * h[k] /\ g[k - 1] = c * a
    BY <2>1
  <2> HIDE DEF a, b, g
  <2>4. c * (a + b) = c * a + c * b
    BY <2>2
  <2> QED BY <2>2, <2>3, <2>4
<1>6. g[n] = c * h[n]
  BY <1>2
<1> HIDE DEF g, n
<1>7. AddsUp(g, q)
  BY <1>3, <1>4, <1>5 DEF AddsUp, n
<1>8. TotalOf(q) = g[n]
  BY <1>7, TotalIs DEF n
<1> QED BY <1>1, <1>6, <1>8

\* The sum of equal numbers.
LEMMA EqualSum ==
  ASSUME NEW c \in Int, NEW q \in Seq(Int), \A k \in 1..Len(q) : q[k] = c
  PROVE  TotalOf(q) = Len(q) * c
<1> DEFINE n == Len(q)
           g == [k \in 0..n |-> k * c]
<1>1. n \in Nat /\ n \in 0..n /\ 0 \in 0..n
  OBVIOUS
<1>2. g \in [0..n -> Int] /\ g[0] = 0 /\ g[n] = n * c
  BY <1>1
<1>3. ASSUME NEW k \in 1..n PROVE g[k] = g[k - 1] + q[k]
  OBVIOUS
<1> HIDE DEF g, n
<1>4. AddsUp(g, q)
  BY <1>2, <1>3 DEF AddsUp, n
<1>5. TotalOf(q) = g[n]
  BY <1>4, TotalIs DEF n
<1> QED BY <1>2, <1>5 DEF n

\* The selected scores.
LEMMA SelectedSum ==
  ASSUME NEW N \in Nat, NEW U \in SUBSET (1..N), NEW f \in [1..N -> Int]
  PROVE  /\ Cardinality(U) \in Nat /\ Listed(U) \in [1..Cardinality(U) -> U]
         /\ Selected(f, U) \in Seq(Int) /\ Len(Selected(f, U)) = Cardinality(U)
         /\ TotalOf(Selected(f, U)) = TotalOf([r \in 1..N |-> IF r \in U THEN f[r] ELSE 0])
<1> DEFINE m == Cardinality(U)
           q == Selected(f, U)
           s == [r \in 1..N |-> IF r \in U THEN f[r] ELSE 0]
<1>1. m \in Nat /\ Listed(U) \in [1..m -> U]
  BY RankFacts, ListedFacts
<1>2. q = [k \in 1..m |-> f[Listed(U)[k]]]
  BY DEF Selected
<1>3. \A k \in 1..m : Listed(U)[k] \in U /\ Listed(U)[k] \in 1..N
  BY <1>1
<1> HIDE DEF m, q
<1>4. q \in [1..m -> Int]
  BY <1>2, <1>3
<1>5. q \in Seq(Int) /\ Len(q) = m
  BY <1>1, <1>4, RuleIsSequence
<1>6. s \in Seq(Int) /\ Len(s) = N /\ \A t \in 1..N : t \notin U => s[t] = 0
  BY RuleIsSequence
<1>7. \A k \in 1..m : q[k] = s[Listed(U)[k]]
  BY <1>2, <1>3
<1> HIDE DEF s
<1>8. TotalOf(q) = TotalOf(s)
  BY <1>5, <1>6, <1>7, ListedSum DEF m
<1> QED BY <1>1, <1>5, <1>8 DEF m, q, s

\* One score less.
LEMMA SelectedOneLess ==
  ASSUME NEW N \in Nat, NEW U \in SUBSET (1..N), NEW f \in [1..N -> Int], NEW i \in U
  PROVE  /\ Cardinality(U \ {i}) = Cardinality(U) - 1
         /\ TotalOf(Selected(f, U \ {i})) = TotalOf(Selected(f, U)) - f[i]
<1> DEFINE V == U \ {i}
           s == [r \in 1..N |-> IF r \in U THEN f[r] ELSE 0]
           t == [r \in 1..N |-> IF r \in V THEN f[r] ELSE 0]
           d == -f[i]
<1>1. V \in SUBSET (1..N) /\ i \in 1..N /\ f[i] \in Int /\ d \in Int
  OBVIOUS
<1>2. s \in [1..N -> Int] /\ t \in [1..N -> Int]
  OBVIOUS
<1>3. \A k \in 1..N : t[k] = IF k = i THEN s[k] + d ELSE s[k]
  OBVIOUS
<1>4. Cardinality(V) = Cardinality(U) - 1
  BY RankFacts, FS_RemoveElement
<1>5. TotalOf(Selected(f, U)) = TotalOf(s) /\ TotalOf(Selected(f, V)) = TotalOf(t)
  BY <1>1, SelectedSum
<1> HIDE DEF s, t, V, d
<1>6. s \in Seq(Int) /\ Len(s) = N /\ t \in Seq(Int) /\ Len(t) = N
  BY <1>2, RuleIsSequence
<1>7. TotalOf(t) = TotalOf(s) + d
  <2>1. Len(t) = Len(s) /\ i \in 1..Len(s) /\ \A k \in 1..Len(s) : t[k] = IF k = i THEN s[k] + d ELSE s[k]
    BY <1>1, <1>3, <1>6
  <2> QED BY <1>1, <1>6, <2>1, TotalOneChanged
<1>8. TotalOf(s) \in Int
  BY <1>6, SumIsNumber
<1>9. TotalOf(s) + d = TotalOf(s) - f[i]
  BY <1>1, <1>8 DEF d
<1> QED BY <1>4, <1>5, <1>7, <1>9 DEF V

-----------------------------------------------------------------------------
(* The estimators with outcome baselines, over the scores of a group.      *)

MeanOf(s) == Frac(TotalOf(s), Len(s))
SquaresOf(s) == [n \in DOMAIN s |-> s[n] * s[n]]
Deviation(s, n) == Minus(Whole(s[n]), MeanOf(s))
SquaredDeviations(s) == [n \in DOMAIN s |-> Times(Deviation(s, n), Deviation(s, n))]

\* The squared deviations from the mean add up to n squares less the square
\* of the sum.
LEMMA DeviationsAddUp ==
  ASSUME NEW s \in Seq(Int), NEW n \in Nat, n > 0, Len(s) = n
  PROVE  Stands(Sum(SquaredDeviations(s)), n * TotalOf(SquaresOf(s)) - TotalOf(s) * TotalOf(s), n)
<1> DEFINE T == TotalOf(s)
           Q == TotalOf(SquaresOf(s))
           devs == SquaredDeviations(s)
           A == n * n
           B == 2 * (n * T)
           C == T * T
<1>1. T \in Int
  BY SumIsNumber
<1>2. DOMAIN s = 1..n /\ \A k \in 1..n : s[k] \in Int
  OBVIOUS
<1>3. ASSUME NEW k \in 1..n PROVE Stands(devs[k], A * (s[k] * s[k]) - B * s[k] + C, A) /\ devs[k] \in Fraction
  <2> DEFINE x == s[k]
             part == n * x - T
             d == Deviation(s, k)
  <2>1. x \in Int /\ part \in Int
    BY <1>1, <1>2
  <2>2. Stands(d, part, n)
    BY <1>1, <2>1, AdvantageValue DEF Deviation, MeanOf, x
  <2>3. devs[k] = Times(d, d)
    BY <1>2 DEF SquaredDeviations
  <2>4. part * part = A * (x * x) - B * x + C
    <3> HIDE DEF x, T
    <3> QED BY <1>1, <2>1
  <2> HIDE DEF d, part, devs, A
  <2>5. Stands(Times(d, d), part * part, n * n)
    BY <2>1, <2>2, TimesStands
  <2>6. Times(d, d) \in Fraction
    BY <2>5 DEF Stands
  <2> QED BY <2>3, <2>4, <2>5, <2>6 DEF A
<1>4. PICK h \in [0..n -> Int] : h[0] = 0 /\ (\A k \in 1..n : h[k] = h[k - 1] + s[k]) /\ T = h[n]
  BY TotalsUp
<1>5. SquaresOf(s) \in Seq(Int) /\ Len(SquaresOf(s)) = n /\ \A k \in 1..n : SquaresOf(s)[k] = s[k] * s[k]
  BY <1>2 DEF SquaresOf
<1>6. PICK g \in [0..n -> Int] : g[0] = 0 /\ (\A k \in 1..n : g[k] = g[k - 1] + s[k] * s[k]) /\ Q = g[n]
  <2> DEFINE q == SquaresOf(s)
  <2>1. q \in Seq(Int) /\ Len(q) = n /\ \A k \in 1..n : q[k] = s[k] * s[k]
    BY <1>5
  <2> HIDE DEF q
  <2>2. PICK g \in [0..Len(q) -> Int] : g[0] = 0 /\ (\A k \in 1..Len(q) : g[k] = g[k - 1] + q[k]) /\ TotalOf(q) = g[Len(q)]
    BY <2>1, TotalsUp
  <2>3. g \in [0..n -> Int] /\ g[0] = 0 /\ (\A k \in 1..n : g[k] = g[k - 1] + q[k]) /\ TotalOf(q) = g[n]
    BY <2>1, <2>2
  <2>4. \A k \in 1..n : g[k] = g[k - 1] + s[k] * s[k]
    BY <2>1, <2>3
  <2> QED BY <2>3, <2>4 DEF q
<1>7. devs \in Seq(Fraction) /\ Len(devs) = n
  BY <1>2, <1>3, RuleIsSequence DEF SquaredDeviations
<1>8. PICK f \in [0..n -> Fraction] : f[0] = Zero /\ (\A k \in 1..n : f[k] = Plus(f[k - 1], devs[k])) /\ Sum(devs) = f[n]
  BY <1>7, SumsUp
<1> HIDE DEF T, Q, devs
<1>9. A \in Nat /\ A > 0 /\ B \in Int /\ C \in Int
  BY <1>1
<1> DEFINE Value(k) == A * g[k] - B * h[k] + k * C
<1>10. \A k \in 0..n : Stands(f[k], Value(k), A)
  <2> DEFINE Fails == {k \in 0..n : ~Stands(f[k], Value(k), A)}
  <2> SUFFICES ASSUME Fails # {} PROVE FALSE
    OBVIOUS
  <2>1. PICK k \in Fails : \A j \in Fails : k <= j
    <3>1. Fails \in SUBSET Nat
      OBVIOUS
    <3> QED BY <3>1, LeastElement
  <2>2. k # 0
    <3>1. Value(0) = 0 * A
      <4> HIDE DEF A, B, C
      <4> QED BY <1>4, <1>6, <1>9
    <3>2. Stands(Zero, 0 * A, A)
      BY <1>9, WholeStands DEF Zero
    <3> QED BY <1>8, <2>1, <3>1, <3>2
  <2>3. k \in 1..n /\ k - 1 \in 0..n /\ k - 1 < k
    BY <2>2
  <2>4. Stands(f[k - 1], Value(k - 1), A)
    BY <2>1, <2>3
  <2> DEFINE x == s[k]
             u == h[k - 1]
             v == g[k - 1]
             w == A * (x * x) - B * x + C
  <2>5. x \in Int /\ u \in Int /\ v \in Int /\ h[k] = u + x /\ g[k] = v + x * x
    BY <1>2, <1>4, <1>6, <2>3
  <2>6. Value(k) = Value(k - 1) + w /\ Value(k - 1) \in Int /\ w \in Int
    <3>1. Value(k) = A * (v + x * x) - B * (u + x) + k * C /\ Value(k - 1) = A * v - B * u + (k - 1) * C
      BY <2>5
    <3> HIDE DEF A, B, C, Value, x, u, v
    <3> DEFINE y == x * x
    <3>2. k \in Int /\ y \in Int
      BY <2>3, <2>5
    <3>3. A * (v + y) = A * v + A * y /\ B * (u + x) = B * u + B * x /\ (k - 1) * C = k * C - C
      BY <1>9, <2>5, <3>2
    <3>4. A * v \in Int /\ A * y \in Int /\ B * u \in Int /\ B * x \in Int /\ k * C \in Int /\ (k - 1) * C \in Int
      BY <1>9, <2>5, <3>2
    <3>5. w = A * y - B * x + C
      BY DEF w
    <3>6. Value(k) = A * (v + y) - B * (u + x) + k * C
      BY <3>1
    <3> HIDE DEF y, w
    <3>7. Value(k) = (A * v + A * y) - (B * u + B * x) + k * C /\ Value(k - 1) = A * v - B * u + (k * C - C)
      BY <3>1, <3>3, <3>6
    <3> DEFINE a == A * v
               b == A * y
               c == B * u
               d == B * x
               e == k * C
    <3>8. a \in Int /\ b \in Int /\ c \in Int /\ d \in Int /\ e \in Int /\ C \in Int
      BY <1>9, <3>4
    <3>9. w = b - d + C /\ Value(k) = (a + b) - (c + d) + e /\ Value(k - 1) = a - c + (e - C)
      BY <3>5, <3>7
    <3> HIDE DEF a, b, c, d, e
    <3> QED BY ONLY <3>8, <3>9
  <2>7. Stands(devs[k], w, A) /\ f[k] = Plus(f[k - 1], devs[k])
    BY <1>3, <1>8, <2>3
  <2> HIDE DEF A, B, C, Value, w
  <2>8. Stands(f[k], Value(k), A)
    BY <1>9, <2>4, <2>6, <2>7, StandsSum
  <2> QED BY <2>1, <2>8
<1> DEFINE X == n * Q - T * T
<1>11. Value(n) = X * n
  <2>1. Value(n) = (n * n) * Q - (2 * (n * T)) * T + n * (T * T)
    BY <1>4, <1>6
  <2>2. Q \in Int
    BY <1>5, SumIsNumber DEF Q
  <2> HIDE DEF Value
  <2> QED BY <1>1, <2>1, <2>2
<1>12. Stands(Sum(devs), X * n, n * n)
  BY <1>10, <1>11, <1>8
<1>13. X \in Int
  BY <1>1, <1>5, SumIsNumber DEF Q
<1> HIDE DEF X
<1>14. Stands(Sum(devs), X, n)
  BY <1>12, <1>13, StandsReduced
<1> QED BY <1>14 DEF X, T, Q, devs

\* The variance of a group in both forms.
LEMMA VarianceForms ==
  ASSUME NEW s \in Seq(Int), NEW n \in Nat, n > 1, Len(s) = n
  PROVE  Over(Sum(SquaredDeviations(s)), Whole(n - 1)) =
           Frac(n * TotalOf(SquaresOf(s)) - TotalOf(s) * TotalOf(s), n * (n - 1))
<1> DEFINE v == Sum(SquaredDeviations(s))
           X == n * TotalOf(SquaresOf(s)) - TotalOf(s) * TotalOf(s)
           a == v[1]
           b == v[2]
           m == n - 1
<1>1. Stands(v, X, n)
  BY DeviationsAddUp
<1>2. X \in Int
  <2>1. SquaresOf(s) \in Seq(Int)
    BY DEF SquaresOf
  <2>2. TotalOf(s) \in Int /\ TotalOf(SquaresOf(s)) \in Int
    BY <2>1, SumIsNumber
  <2> QED BY <2>2
<1>3. m \in Nat /\ m > 0
  OBVIOUS
<1> HIDE DEF v, X, m
<1>4. a \in Int /\ b \in Nat /\ b > 0 /\ a * n = X * b
  BY <1>1 DEF Stands, Fraction
<1>5. Over(v, Whole(m)) = Frac(a * 1, b * m)
  BY DEF Over, Whole
<1> HIDE DEF a, b
<1> DEFINE y == b * m
           z == n * m
<1>6. y \in Nat /\ y > 0 /\ z \in Nat /\ z > 0 /\ a * 1 = a
  BY <1>3, <1>4
<1>7. a * z = X * y
  BY <1>2, <1>3, <1>4
<1> HIDE DEF y, z
<1>8. Frac(a, y) = Frac(X, z)
  BY <1>2, <1>4, <1>6, <1>7, FracEqual
<1> QED BY <1>5, <1>6, <1>8 DEF y, z, v, X, m

\* The advantages of a score x in a group of n scores with sum T, in the forms of
\* RLOO and as a multiple of GRPO's.
LEMMA LeaveOneOutForms ==
  ASSUME NEW n \in Nat, n > 1, NEW T \in Int, NEW x \in Int
  PROVE  /\ Minus(Frac(x * n, n - 1), Times(Frac(T, n), Frac(n, n - 1))) = Frac(n * x - T, n - 1)
         /\ Minus(Whole(x), Frac(T - x, n - 1)) = Frac(n * x - T, n - 1)
         /\ Times(Frac(n, n - 1), Minus(Whole(x), Frac(T, n))) = Frac(n * x - T, n - 1)
<1> DEFINE m == n - 1
           X == n * x - T
<1>1. m \in Nat /\ m > 0 /\ X \in Int /\ n > 0
  OBVIOUS
<1>2. Stands(Frac(X, m), X, m) /\ Reduced(Frac(X, m))
  BY <1>1, FracIs
<1>3. m * n = n * m /\ x * n \in Int /\ T - x \in Int
  OBVIOUS
<1>4. X = x * n - T /\ X = x * m - (T - x)
  OBVIOUS
<1> HIDE DEF m, X
<1>5. Minus(Frac(x * n, m), Times(Frac(T, n), Frac(n, m))) = Frac(X, m)
  <2> DEFINE f == Frac(x * n, m)
             g == Times(Frac(T, n), Frac(n, m))
             y == x * n
  <2>1. Stands(f, y, m)
    BY <1>1, <1>3, FracIs
  <2>2. Stands(Frac(T, n), T, n) /\ Stands(Frac(n, m), n, m)
    BY <1>1, FracIs
  <2>3. Stands(g, T * n, n * m)
    BY <1>1, <2>2, TimesStands
  <2> HIDE DEF f, g, y
  <2>4. Stands(g, T, m)
    BY <1>1, <1>3, <2>3, StandsReduced
  <2>5. Stands(Minus(f, g), y - T, m) /\ Reduced(Minus(f, g))
    BY <1>1, <1>3, <2>1, <2>4, MinusStands DEF y
  <2>6. y - T = X
    BY <1>4 DEF y
  <2> QED BY <1>1, <1>2, <2>5, <2>6, SameFraction DEF f, g
<1>6. Minus(Whole(x), Frac(T - x, m)) = Frac(X, m)
  <2> DEFINE f == Whole(x)
             g == Frac(T - x, m)
             y == x * m
             z == T - x
  <2>1. Stands(f, y, m) /\ y \in Int /\ z \in Int
    BY <1>1, WholeStands
  <2>2. Stands(g, z, m)
    BY <1>1, <1>3, FracIs
  <2> HIDE DEF f, g, y, z
  <2>3. Stands(Minus(f, g), y - z, m) /\ Reduced(Minus(f, g))
    BY <1>1, <2>1, <2>2, MinusStands
  <2>4. y - z = X
    BY <1>4 DEF y, z
  <2> QED BY <1>1, <1>2, <2>3, <2>4, SameFraction DEF f, g
<1>7. Times(Frac(n, m), Minus(Whole(x), Frac(T, n))) = Frac(X, m)
  <2> DEFINE f == Frac(n, m)
             g == Minus(Whole(x), Frac(T, n))
             y == x * n
  <2>1. Stands(Whole(x), y, n) /\ Stands(Frac(T, n), T, n) /\ Stands(f, n, m) /\ y \in Int
    BY <1>1, FracIs, WholeStands
  <2> HIDE DEF f, y
  <2>2. Stands(g, y - T, n)
    BY <1>1, <2>1, MinusStands
  <2> HIDE DEF g
  <2>3. Stands(g, X, n)
    BY <1>4, <2>2 DEF y
  <2>4. Stands(Times(f, g), n * X, m * n) /\ Reduced(Times(f, g))
    BY <1>1, <2>1, <2>3, TimesStands
  <2>5. n * X = X * n
    BY <1>1
  <2>6. Stands(Times(f, g), X, m)
    BY <1>1, <2>4, <2>5, StandsReduced
  <2> QED BY <1>1, <1>2, <2>4, <2>6, SameFraction DEF f, g
<1> QED BY <1>5, <1>6, <1>7 DEF m, X

-----------------------------------------------------------------------------
(* Batches of rows of one width.                                           *)

RowsOfWidth(W, G) ==
  [mask : [1..W -> {0, 1}], rewards : [1..W -> Int], values : [1..W -> Int],
   weights : [1..W -> Nat \ {0}], group : G]

TrainedTokens(row) == {t \in Tokens(row) : row.mask[t] = 1}
ScoresOf(batch) == [r \in DOMAIN batch |-> OutcomeScore(batch[r])]

\* The unmasked tokens and the score of a row.
LEMMA RowFacts ==
  ASSUME NEW W \in Nat, NEW G, NEW row \in RowsOfWidth(W, G)
  PROVE  /\ Tokens(row) = 1..W /\ TrainedTokens(row) \in SUBSET (1..W) /\ Unmasked(row) = Listed(TrainedTokens(row))
         /\ Cardinality(TrainedTokens(row)) \in Nat /\ Length(row) = Cardinality(TrainedTokens(row))
         /\ DOMAIN Unmasked(row) = 1..Length(row) /\ Unmasked(row) \in [1..Length(row) -> TrainedTokens(row)]
         /\ OutcomeScore(row) \in Int
<1>1. Tokens(row) = 1..W
  BY DEF Tokens, RowsOfWidth
<1>2. TrainedTokens(row) \in SUBSET (1..W) /\ Unmasked(row) = Listed(TrainedTokens(row))
  BY <1>1 DEF TrainedTokens, Unmasked
<1>3. Cardinality(TrainedTokens(row)) \in Nat /\ Listed(TrainedTokens(row)) \in [1..Cardinality(TrainedTokens(row)) -> TrainedTokens(row)]
  BY <1>2, RankFacts, ListedFacts
<1>4. Len(Listed(TrainedTokens(row))) = Cardinality(TrainedTokens(row))
  BY <1>3, RuleIsSequence
<1>5. OutcomeScore(row) \in Int
  BY RuleIsSequence, SumIsNumber DEF RowsOfWidth, OutcomeScore
<1> QED BY <1>1, <1>2, <1>3, <1>4, <1>5 DEF Length

\* The rows of a group and their scores.
LEMMA RowsTogether ==
  ASSUME NEW W \in Nat, NEW G, NEW batch \in Seq(RowsOfWidth(W, G)), NEW i \in DOMAIN batch
  PROVE  /\ DOMAIN batch = 1..Len(batch) /\ Len(batch) \in Nat
         /\ ScoresOf(batch) \in [1..Len(batch) -> Int] /\ ScoresOf(batch)[i] = OutcomeScore(batch[i])
         /\ Together(batch, i) \in SUBSET (1..Len(batch)) /\ i \in Together(batch, i)
         /\ RowsOf(batch, i) \in [1..Cardinality(Together(batch, i)) -> Together(batch, i)]
         /\ Cardinality(Together(batch, i)) \in Nat /\ Cardinality(Together(batch, i)) > 0
         /\ Len(RowsOf(batch, i)) = Cardinality(Together(batch, i))
         /\ GroupScores(batch, i) = Selected(ScoresOf(batch), Together(batch, i))
         /\ GroupScores(batch, i) \in Seq(Int) /\ Len(GroupScores(batch, i)) = Cardinality(Together(batch, i))
<1> DEFINE U == Together(batch, i)
           N == Len(batch)
           n == Cardinality(U)
           sc == ScoresOf(batch)
<1>1. DOMAIN batch = 1..N /\ N \in Nat /\ \A r \in 1..N : batch[r] \in RowsOfWidth(W, G)
  OBVIOUS
<1>2. sc \in [1..N -> Int] /\ sc[i] = OutcomeScore(batch[i])
  BY <1>1, RowFacts DEF ScoresOf
<1>3. U \in SUBSET (1..N) /\ i \in U
  BY <1>1 DEF Together
<1>4. n \in Nat /\ Listed(U) \in [1..n -> U] /\ Selected(sc, U) \in Seq(Int) /\ Len(Selected(sc, U)) = n
  BY <1>1, <1>2, <1>3, SelectedSum
<1>5. n > 0
  <2>1. IsFiniteSet(U)
    BY <1>1, <1>3, RankFacts
  <2> QED BY <1>3, <1>4, <2>1, FS_EmptySet
<1>6. RowsOf(batch, i) = Listed(U)
  BY DEF RowsOf
<1> HIDE DEF U, N
<1>7. Len(Listed(U)) = n /\ DOMAIN Listed(U) = 1..n
  BY <1>4, RuleIsSequence
<1>8. GroupScores(batch, i) = Selected(sc, U)
  BY <1>1, <1>3, <1>4, <1>6, <1>7 DEF GroupScores, Selected, ScoresOf
<1> QED BY <1>1, <1>2, <1>3, <1>4, <1>5, <1>6, <1>7, <1>8 DEF U, N

\* Both forms of the statistics of a group are the same.
LEMMA StatisticsAgree ==
  ASSUME NEW batch, NEW i, NEW s \in Seq(Int), s = GroupScores(batch, i), NEW n \in Nat, n > 0, Len(s) = n
  PROVE  /\ GrpoStatistics(batch, i) = VectorStatistics(batch, i)
         /\ GrpoStatistics(batch, i)[1] = IF n = 1 THEN Zero ELSE Frac(TotalOf(s), n)
<1>1. Add(s) = TotalOf(s) /\ DOMAIN s = 1..n
  BY SumIsNumber
<1>2. CASE n = 1
  BY <1>2 DEF GrpoStatistics, VectorStatistics
<1>3. CASE n # 1
  <2> DEFINE mean == Frac(TotalOf(s), n)
             m == n - 1
  <2>1. GrpoStatistics(batch, i) = <<mean, Over(Sum(SquaredDeviations(s)), Whole(m))>>
    <3>1. SquaredDeviations(s) = [k \in DOMAIN s |-> Times(Minus(Whole(s[k]), mean), Minus(Whole(s[k]), mean))]
      BY DEF SquaredDeviations, Deviation, MeanOf
    <3> QED BY <1>1, <1>3, <3>1, Zenon DEF GrpoStatistics
  <2>2. Add(SquaresOf(s)) = TotalOf(SquaresOf(s))
    <3>1. SquaresOf(s) \in Seq(Int)
      BY DEF SquaresOf
    <3> QED BY <3>1, SumIsNumber
  <2>3. VectorStatistics(batch, i) = <<mean, Frac(n * TotalOf(SquaresOf(s)) - TotalOf(s) * TotalOf(s), n * m)>>
    <3>1. SquaresOf(s) = [k \in DOMAIN s |-> s[k] * s[k]]
      BY DEF SquaresOf
    <3> QED BY <1>1, <1>3, <2>2, <3>1, Zenon DEF VectorStatistics
  <2>4. Over(Sum(SquaredDeviations(s)), Whole(m)) = Frac(n * TotalOf(SquaresOf(s)) - TotalOf(s) * TotalOf(s), n * m)
    BY <1>3, VarianceForms
  <2> HIDE DEF mean, m
  <2>5. GrpoStatistics(batch, i) = VectorStatistics(batch, i)
    BY <2>1, <2>3, <2>4
  <2>6. GrpoStatistics(batch, i)[1] = mean
    BY <2>1
  <2> QED BY <1>3, <2>5, <2>6 DEF mean
<1> QED BY <1>2, <1>3

SumOver(batch, rows) == Add([k \in DOMAIN rows |-> OutcomeScore(batch[rows[k]])])

ListsOthers(batch, others, i) == \A r \in Together(batch, i) : r # i => \E k \in DOMAIN others : others[k] = r

\* The sum of the other scores.
LEMMA OthersSum ==
  ASSUME NEW W \in Nat, NEW G, NEW batch \in Seq(RowsOfWidth(W, G)), NEW i \in DOMAIN batch,
         NEW others, others = Listed(Together(batch, i) \ {i})
  PROVE  /\ SumOver(batch, others) = TotalOf(GroupScores(batch, i)) - OutcomeScore(batch[i])
         /\ ListsOthers(batch, others, i)
<1> DEFINE U == Together(batch, i)
           V == U \ {i}
           N == Len(batch)
           sc == ScoresOf(batch)
           c == Cardinality(V)
           q == [k \in DOMAIN others |-> OutcomeScore(batch[others[k]])]
<1>1. /\ DOMAIN batch = 1..N /\ N \in Nat /\ sc \in [1..N -> Int] /\ sc[i] = OutcomeScore(batch[i])
      /\ U \in SUBSET (1..N) /\ i \in U /\ GroupScores(batch, i) = Selected(sc, U)
  BY RowsTogether
<1>2. V \in SUBSET (1..N)
  BY <1>1
<1> HIDE DEF U, N, sc
<1>10. others = Listed(V)
  BY DEF U
<1>3. c = Cardinality(U) - 1 /\ TotalOf(Selected(sc, V)) = TotalOf(Selected(sc, U)) - sc[i]
  BY <1>1, SelectedOneLess
<1>4. c \in Nat /\ others \in [1..c -> V] /\ Selected(sc, V) \in Seq(Int)
  <2> HIDE DEF V, c
  <2>1. Cardinality(V) \in Nat /\ Listed(V) \in [1..Cardinality(V) -> V] /\ Selected(sc, V) \in Seq(Int)
    BY <1>1, <1>2, SelectedSum
  <2> QED BY <1>10, <2>1 DEF c
<1>5. \A r \in V : \E k \in 1..c : others[k] = r
  <2>1. IsFiniteSet(V) /\ V \in SUBSET Int
    BY <1>1, <1>2, RankFacts
  <2> HIDE DEF V, c
  <2>2. \A r \in V : \E k \in 1..Cardinality(V) : Listed(V)[k] = r
    BY <2>1, ListedFacts
  <2> QED BY <1>10, <2>2 DEF c
<1>6. q = Selected(sc, V)
  <2>1. \A k \in 1..c : others[k] \in DOMAIN batch
    BY <1>1, <1>2, <1>4
  <2>2. Selected(sc, V) = [k \in 1..c |-> sc[others[k]]]
    <3> HIDE DEF V
    <3> QED BY <1>10 DEF Selected
  <2>3. \A k \in 1..c : sc[others[k]] = OutcomeScore(batch[others[k]])
    BY <2>1 DEF sc, ScoresOf
  <2>4. DOMAIN others = 1..c
    BY <1>4
  <2> HIDE DEF V, c
  <2> QED BY <2>2, <2>3, <2>4
<1>7. Add(q) = TotalOf(Selected(sc, V))
  BY <1>4, <1>6, SumIsNumber
<1>8. DOMAIN others = 1..c
  BY <1>4
<1>9. SumOver(batch, others) = Add(q)
  BY DEF SumOver
<1> HIDE DEF q
<1> QED BY <1>1, <1>3, <1>5, <1>7, <1>8, <1>9 DEF V, U, ListsOthers

\* Rows of one length weigh alike.
LEMMA EqualLengths ==
  ASSUME NEW W \in Nat, NEW G, NEW batch \in Seq(RowsOfWidth(W, G)), NEW i \in DOMAIN batch,
         NEW L \in Nat, L > 0, \A r \in Together(batch, i) : Length(batch[r]) = L,
         NEW n \in Nat, n > 1, n = Cardinality(Together(batch, i))
  PROVE  Opo(batch, i) = Minus(Whole(OutcomeScore(batch[i])), Frac(TotalOf(GroupScores(batch, i)), n))
<1> DEFINE rows == RowsOf(batch, i)
           U == Together(batch, i)
           s == GroupScores(batch, i)
           T == TotalOf(s)
           lengths == [k \in DOMAIN rows |-> Length(batch[rows[k]])]
           weighted == [k \in DOMAIN rows |-> lengths[k] * s[k]]
<1>1. rows \in [1..n -> U] /\ Len(rows) = n /\ s \in Seq(Int) /\ Len(s) = n
  BY RowsTogether
<1>2. DOMAIN rows = 1..n
  BY <1>1
<1>3. \A k \in 1..n : lengths[k] = L
  BY <1>1, <1>2
<1>4. Opo(batch, i) = Minus(Whole(OutcomeScore(batch[i])), Frac(Add(weighted), Add(lengths)))
  <2>1. Len(rows) # 1
    BY <1>1
  <2> QED BY <2>1 DEF Opo
<1> HIDE DEF s, rows
<1>5. lengths \in Seq(Int) /\ Len(lengths) = n
  <2>1. lengths = [k \in 1..n |-> lengths[k]]
    BY <1>2
  <2> HIDE DEF lengths
  <2>2. lengths \in [1..n -> Int]
    BY <1>3, <2>1
  <2> QED BY <2>2, RuleIsSequence
<1> HIDE DEF lengths
<1>6. \A k \in 1..n : weighted[k] = L * s[k]
  BY <1>2, <1>3
<1>7. weighted \in Seq(Int) /\ Len(weighted) = n
  <2>1. weighted = [k \in 1..n |-> weighted[k]]
    BY <1>2
  <2> HIDE DEF weighted
  <2>2. \A k \in 1..n : s[k] \in Int
    BY <1>1
  <2>3. weighted \in [1..n -> Int]
    BY <1>6, <2>1, <2>2
  <2> QED BY <2>3, RuleIsSequence
<1> HIDE DEF weighted
<1>8. Add(lengths) = n * L
  <2>1. TotalOf(lengths) = Len(lengths) * L
    BY <1>3, <1>5, EqualSum
  <2>2. Add(lengths) = TotalOf(lengths)
    BY <1>5, SumIsNumber
  <2> QED BY <1>5, <2>1, <2>2
<1>9. TotalOf(weighted) = L * T /\ T \in Int
  <2>1. L \in Int /\ Len(weighted) = Len(s) /\ \A k \in 1..Len(s) : weighted[k] = L * s[k]
    BY <1>1, <1>6, <1>7
  <2>2. TotalOf(weighted) = L * TotalOf(s)
    BY <1>1, <1>7, <2>1, ScaledSum
  <2> QED BY <1>1, <2>2, SumIsNumber
<1>10. Add(weighted) = L * T
  BY <1>7, <1>9, SumIsNumber
<1> HIDE DEF T
<1>11. n * L = L * n
  OBVIOUS
<1>12. Frac(L * T, L * n) = Frac(T, n)
  BY <1>9, FracScaled
<1> QED BY <1>4, <1>8, <1>10, <1>11, <1>12 DEF T, s

\* Two implementations of one estimator give a row the same advantage, and so do
\* estimators that differ in their baseline only where the baselines are the
\* same, for any rows whose responses have a token: GRPO's two statistics, the two
\* forms of RLOO, RLOO as leave-one-out and as a multiple of GRPO, OPO over equal
\* lengths, GPG when no score is zero (core_algos.py, groupwise.py).
THEOREM VariantsAlwaysAgree ==
  ASSUME NEW W \in Nat, NEW G, NEW batch \in Seq(RowsOfWidth(W, G)),
         \A r \in DOMAIN batch : Length(batch[r]) > 0
  PROVE  VariantsAgree(batch)
<1> SUFFICES ASSUME NEW i \in DOMAIN batch,
                    NEW n, n = Len(RowsOf(batch, i)),
                    NEW others, others = Listed(Together(batch, i) \ {i}),
                    NEW mean, mean = Frac(Add([k \in DOMAIN others |-> OutcomeScore(batch[others[k]])]), n - 1)
             PROVE  /\ GrpoStatistics(batch, i) = VectorStatistics(batch, i)
                    /\ n > 1 => /\ Rloo(batch, i) = RlooVectorized(batch, i)
                                /\ Rloo(batch, i) = Minus(Whole(OutcomeScore(batch[i])), mean)
                                /\ Times(Frac(n, n - 1), Grpo(batch, i)) = Rloo(batch, i)
                    /\ n = 1 => /\ Rloo(batch, i) = Whole(OutcomeScore(batch[i]))
                                /\ RlooVectorized(batch, i) = Zero
                    /\ (\A k \in DOMAIN others : Length(batch[others[k]]) = Length(batch[i])) =>
                         Opo(batch, i) = Grpo(batch, i)
                    /\ (\A r \in DOMAIN batch : OutcomeScore(batch[r]) # 0) => Gpg(batch, i) = Grpo(batch, i)
  BY Zenon DEF VariantsAgree
<1> DEFINE U == Together(batch, i)
           s == GroupScores(batch, i)
           T == TotalOf(s)
           x == OutcomeScore(batch[i])
           N == Len(batch)
<1>1. /\ DOMAIN batch = 1..N /\ N \in Nat /\ N > 0 /\ U \in SUBSET (1..N) /\ i \in U
      /\ n = Cardinality(U) /\ n \in Nat /\ n > 0
      /\ s \in Seq(Int) /\ Len(s) = n
  BY RowsTogether
<1>2. batch[i] \in RowsOfWidth(W, G) /\ Length(batch[i]) \in Nat /\ Length(batch[i]) > 0 /\ x \in Int
  BY RowFacts
<1>3. T \in Int /\ Add(s) = T
  BY <1>1, SumIsNumber
<1>4. /\ Add([k \in DOMAIN others |-> OutcomeScore(batch[others[k]])]) = T - x
      /\ \A r \in U : r # i => \E k \in DOMAIN others : others[k] = r
  <2>1. /\ SumOver(batch, others) = TotalOf(GroupScores(batch, i)) - OutcomeScore(batch[i])
        /\ ListsOthers(batch, others, i)
    <3>1. W \in Nat /\ batch \in Seq(RowsOfWidth(W, G)) /\ i \in DOMAIN batch /\ others = Listed(Together(batch, i) \ {i})
      OBVIOUS
    <3> QED BY ONLY <3>1, OthersSum
  <2> QED BY <2>1 DEF SumOver, ListsOthers
<1>5. mean = Frac(T - x, n - 1)
  BY <1>4
<1>6. GrpoStatistics(batch, i) = VectorStatistics(batch, i) /\ GrpoStatistics(batch, i)[1] = IF n = 1 THEN Zero ELSE Frac(T, n)
  BY <1>1, StatisticsAgree
<1> HIDE DEF T, x, U, N
<1>7. Grpo(batch, i) = Minus(Whole(x), IF n = 1 THEN Zero ELSE Frac(T, n))
  BY <1>6 DEF Grpo, x
<1>8. Reduced(Whole(x))
  BY <1>2, WholeReduced
<1>9. Reduced(Grpo(batch, i))
  <2>1. CASE n = 1
    BY <1>7, <1>8, <2>1, NeutralFractions
  <2>2. CASE n # 1
    <3>1. Stands(Whole(x), x * n, n) /\ Stands(Frac(T, n), T, n) /\ x * n \in Int
      <4>1. n \in Int /\ x * n \in Int
        BY <1>1, <1>2
      <4> QED BY <1>1, <1>2, <1>3, <4>1, WholeStands, FracIs
    <3> QED BY <1>1, <1>3, <1>7, <2>2, <3>1, MinusStands
  <2> QED BY <2>1, <2>2
<1>10. n > 1 => /\ Rloo(batch, i) = RlooVectorized(batch, i)
                /\ Rloo(batch, i) = Minus(Whole(x), mean)
                /\ Times(Frac(n, n - 1), Grpo(batch, i)) = Rloo(batch, i)
  <2> SUFFICES ASSUME n > 1
               PROVE  /\ Rloo(batch, i) = RlooVectorized(batch, i)
                      /\ Rloo(batch, i) = Minus(Whole(x), mean)
                      /\ Times(Frac(n, n - 1), Grpo(batch, i)) = Rloo(batch, i)
    OBVIOUS
  <2>1. n # 1
    BY <1>1
  <2>2. Rloo(batch, i) = Minus(Frac(x * n, n - 1), Times(Frac(T, n), Frac(n, n - 1)))
    BY <1>1, <1>3, <2>1 DEF Rloo, x
  <2>3. RlooVectorized(batch, i) = Frac(n * x - T, n - 1)
    BY <1>1, <1>3, <2>1 DEF RlooVectorized, x
  <2>4. /\ Minus(Frac(x * n, n - 1), Times(Frac(T, n), Frac(n, n - 1))) = Frac(n * x - T, n - 1)
        /\ Minus(Whole(x), Frac(T - x, n - 1)) = Frac(n * x - T, n - 1)
        /\ Times(Frac(n, n - 1), Minus(Whole(x), Frac(T, n))) = Frac(n * x - T, n - 1)
    BY <1>1, <1>2, <1>3, LeaveOneOutForms
  <2> QED BY <1>5, <1>7, <2>1, <2>2, <2>3, <2>4
<1>11. n = 1 => Rloo(batch, i) = Whole(x) /\ RlooVectorized(batch, i) = Zero
  BY <1>1 DEF Rloo, RlooVectorized, x
<1>12. ASSUME \A k \in DOMAIN others : Length(batch[others[k]]) = Length(batch[i]) PROVE Opo(batch, i) = Grpo(batch, i)
  <2>1. CASE n = 1
    <3>1. Opo(batch, i) = Whole(x)
      BY <2>1 DEF Opo, x
    <3> QED BY <1>7, <1>8, <2>1, <3>1, NeutralFractions
  <2>2. CASE n # 1
    <3> DEFINE L == Length(batch[i])
    <3>1. \A r \in U : Length(batch[r]) = L
      <4> SUFFICES ASSUME NEW r \in U, r # i PROVE Length(batch[r]) = L
        OBVIOUS
      <4>1. PICK k \in DOMAIN others : others[k] = r
        BY <1>4
      <4> QED BY <1>12, <4>1
    <3>2. n > 1 /\ L \in Nat /\ L > 0
      BY <1>1, <1>2, <2>2
    <3> HIDE DEF L
    <3>3. Opo(batch, i) = Minus(Whole(OutcomeScore(batch[i])), Frac(TotalOf(GroupScores(batch, i)), n))
      <4>1. n = Cardinality(Together(batch, i)) /\ \A r \in Together(batch, i) : Length(batch[r]) = L
        BY <1>1, <3>1 DEF U
      <4>2. n \in Nat
        BY <1>1
      <4> HIDE DEF x, T, U, s, N
      <4> QED BY <3>2, <4>1, <4>2, EqualLengths
    <3> QED BY <1>7, <2>2, <3>3 DEF x, T
  <2> QED BY <2>1, <2>2
<1>13. ASSUME \A r \in DOMAIN batch : OutcomeScore(batch[r]) # 0 PROVE Gpg(batch, i) = Grpo(batch, i)
  <2>1. {r \in DOMAIN batch : OutcomeScore(batch[r]) # 0} = 1..N
    BY <1>1, <1>13
  <2>2. Cardinality(1..N) = N
    <3>1. N \in 0..N
      BY <1>1
    <3> QED BY <1>1, <3>1, FirstListed
  <2>3. Gpg(batch, i) = Times(Frac(N, N), Grpo(batch, i))
    <3>1. N # 0
      BY <1>1
    <3> QED BY <2>1, <2>2, <3>1, Zenon DEF Gpg, N
  <2>4. Frac(N, N) = One
    BY <1>1, FracOfAll
  <2> QED BY <1>9, <2>3, <2>4, NeutralFractions
<1> QED BY <1>6, <1>10, <1>11, <1>12, <1>13 DEF x

-----------------------------------------------------------------------------
(* Rows without their masked tokens.                                       *)

\* c has the unmasked tokens of a row first, and nothing behind them.
Packs(row, c, W) ==
  \A k \in 1..W :
    IF k <= Length(row)
    THEN /\ c.mask[k] = 1 /\ c.rewards[k] = row.rewards[Unmasked(row)[k]]
         /\ c.values[k] = row.values[Unmasked(row)[k]] /\ c.weights[k] = row.weights[Unmasked(row)[k]]
    ELSE c.mask[k] = 0 /\ c.rewards[k] = 0

\* The unmasked tokens in order.
Climbs(row, W) ==
  /\ \A k \in 1..Length(row) : Unmasked(row)[k] \in 1..W /\ row.mask[Unmasked(row)[k]] = 1
  /\ \A j, k \in 1..Length(row) : (k <= j) <=> (Unmasked(row)[k] <= Unmasked(row)[j])

LEMMA CompactFacts ==
  ASSUME NEW W \in Nat, NEW G, NEW row \in RowsOfWidth(W, G)
  PROVE  /\ Length(row) \in 0..W /\ Climbs(row, W)
         /\ Compact(row) \in RowsOfWidth(W, G) /\ Compact(row).group = row.group
         /\ Packs(row, Compact(row), W)
         /\ TrainedTokens(Compact(row)) = 1..Length(row)
         /\ Unmasked(Compact(row)) = [k \in 1..Length(row) |-> k] /\ Length(Compact(row)) = Length(row)
<1> DEFINE m == Length(row)
           u == Unmasked(row)
           U == TrainedTokens(row)
           c == Compact(row)
           moved(s, pad) == [t \in 1..W |-> IF t <= m THEN s[u[t]] ELSE pad]
<1>1. /\ Tokens(row) = 1..W /\ U \in SUBSET (1..W) /\ u = Listed(U) /\ m \in Nat /\ m = Cardinality(U)
      /\ u \in [1..m -> U] /\ m = Len(u)
  BY RowFacts DEF Length
<1>2. m <= W
  <2>1. IsFiniteSet(1..W) /\ Cardinality(1..W) = W
    BY FirstListed, FS_Interval
  <2> QED BY <1>1, <2>1, FS_Subset
<1>3. \A k \in 1..m : u[k] \in 1..W /\ row.mask[u[k]] = 1
  BY <1>1 DEF TrainedTokens
<1>4. \A j, k \in 1..m : (k <= j) <=> (u[k] <= u[j])
  <2>1. \A j, k \in 1..m : j < k => u[j] < u[k]
    BY <1>1, RankFacts, ListedFacts
  <2> HIDE DEF u, m
  <2> QED BY <1>1, <1>3, <2>1
<1>5. c = [mask |-> moved(row.mask, 0), rewards |-> moved(row.rewards, 0), values |-> moved(row.values, 0),
           weights |-> moved(row.weights, 1), group |-> row.group]
  <2>1. row = [mask |-> row.mask, rewards |-> row.rewards, values |-> row.values, weights |-> row.weights,
               group |-> row.group]
    BY DEF RowsOfWidth
  <2>2. c = [row EXCEPT !.mask = moved(row.mask, 0), !.rewards = moved(row.rewards, 0),
                        !.values = moved(row.values, 0), !.weights = moved(row.weights, 1)]
    <3>1. Tokens(row) = 1..W /\ Len(Unmasked(row)) = m
      BY <1>1
    <3> HIDE DEF m
    <3> QED BY <3>1, Zenon DEF Compact
  <2> HIDE DEF moved, c
  <2> QED BY <2>1, <2>2
<1>6. /\ row.mask \in [1..W -> {0, 1}] /\ row.rewards \in [1..W -> Int] /\ row.values \in [1..W -> Int]
      /\ row.weights \in [1..W -> Nat \ {0}] /\ row.group \in G
  BY DEF RowsOfWidth
<1> HIDE DEF u, m, c
<1>7. c \in RowsOfWidth(W, G) /\ c.group = row.group
  <2>1. /\ moved(row.mask, 0) \in [1..W -> {0, 1}] /\ moved(row.rewards, 0) \in [1..W -> Int]
        /\ moved(row.values, 0) \in [1..W -> Int] /\ moved(row.weights, 1) \in [1..W -> Nat \ {0}]
    <3>1. \A t \in 1..W : t <= m => u[t] \in 1..W
      BY <1>1, <1>3
    <3>2. moved(row.mask, 0) \in [1..W -> {0, 1}]
      BY <1>6, <3>1
    <3>3. ASSUME NEW f \in [1..W -> Int] PROVE moved(f, 0) \in [1..W -> Int]
      <4>1. \A t \in 1..W : moved(f, 0)[t] \in Int
        BY <3>1
      <4> QED BY <4>1
    <3>4. moved(row.weights, 1) \in [1..W -> Nat \ {0}]
      <4>1. \A t \in 1..W : moved(row.weights, 1)[t] \in Nat \ {0}
        BY <1>6, <3>1
      <4> QED BY <4>1
    <3> HIDE DEF moved
    <3> QED BY <1>6, <3>2, <3>3, <3>4
  <2> HIDE DEF moved
  <2> QED BY <1>5, <1>6, <2>1 DEF RowsOfWidth
<1>8. Packs(row, c, W)
  BY <1>3, <1>5 DEF Packs, m, u
<1>9. TrainedTokens(c) = 1..m
  <2>1. \A k \in 1..W : (c.mask[k] = 1) <=> (k <= m)
    BY <1>8 DEF Packs, m
  <2>2. Tokens(c) = 1..W
    BY <1>7, RowFacts
  <2>3. TrainedTokens(c) = {k \in 1..W : c.mask[k] = 1}
    BY <2>2 DEF TrainedTokens
  <2>4. m \in Nat /\ m <= W
    BY <1>1, <1>2
  <2> QED BY <2>1, <2>3, <2>4
<1>10. Unmasked(c) = [k \in 1..m |-> k] /\ Length(c) = m
  <2>1. Unmasked(c) = Listed(1..m) /\ Length(c) = Cardinality(1..m)
    BY <1>7, <1>9, RowFacts
  <2>2. m \in 0..W
    BY <1>1, <1>2
  <2> QED BY <2>1, <2>2, FirstListed
<1> QED BY <1>1, <1>2, <1>3, <1>4, <1>7, <1>8, <1>9, <1>10 DEF u, m, c, Climbs

PacksNumbers(row, s, c, W) ==
  /\ \A t \in 1..W : row.mask[t] = 0 => s[t] = 0
  /\ \A k \in 1..W : c[k] = IF k <= Length(row) THEN s[Unmasked(row)[k]] ELSE 0

\* Nothing at masked tokens: the sum of what is at the others.
LEMMA PackedSum ==
  ASSUME NEW W \in Nat, NEW G, NEW row \in RowsOfWidth(W, G), NEW s \in [1..W -> Int], NEW c \in [1..W -> Int],
         PacksNumbers(row, s, c, W)
  PROVE  Add(c) = Add(s)
<1> DEFINE m == Length(row)
           U == TrainedTokens(row)
           q == [k \in 1..m |-> c[k]]
<1> USE DEF PacksNumbers
<1>1. m \in 0..W /\ U \in SUBSET (1..W) /\ Unmasked(row) = Listed(U) /\ m = Cardinality(U)
  <2>1. m \in 0..W
    BY CompactFacts
  <2>2. U \in SUBSET (1..W) /\ Unmasked(row) = Listed(U) /\ m = Cardinality(U)
    BY RowFacts
  <2> QED BY <2>1, <2>2
<1>2. s \in Seq(Int) /\ Len(s) = W /\ c \in Seq(Int) /\ Len(c) = W
  BY RuleIsSequence
<1>3. \A t \in 1..W : t \notin U => s[t] = 0
  BY RowFacts DEF TrainedTokens, RowsOfWidth
<1>4. \A k \in 1..m : q[k] = s[Listed(U)[k]] /\ q[k] = c[k]
  BY <1>1
<1>5. q \in Seq(Int) /\ Len(q) = m
  BY <1>1, RuleIsSequence
<1>6. 1..m \in SUBSET (1..W) /\ Cardinality(1..m) = m /\ \A k \in 1..m : Listed(1..m)[k] = k
  <2> HIDE DEF m
  <2>1. m \in 0..W
    BY <1>1
  <2>2. 1..m \in SUBSET (1..W) /\ Cardinality(1..m) = m /\ Listed(1..m) = [k \in 1..m |-> k]
    BY <2>1, FirstListed
  <2> QED BY <2>2
<1>7. \A t \in 1..W : t \notin 1..m => c[t] = 0
  BY <1>1
<1> HIDE DEF m, U, q
<1>8. TotalOf(q) = TotalOf(s)
  BY <1>1, <1>2, <1>3, <1>4, <1>5, ListedSum
<1>9. TotalOf(q) = TotalOf(c)
  <2> DEFINE V == 1..m
  <2>1. V \in SUBSET (1..W) /\ Len(q) = Cardinality(V) /\ (\A k \in 1..Cardinality(V) : q[k] = c[Listed(V)[k]])
        /\ \A t \in 1..W : t \notin V => c[t] = 0
    BY <1>4, <1>5, <1>6, <1>7
  <2> HIDE DEF V
  <2> QED BY <1>2, <1>5, <2>1, ListedSum
<1> QED BY <1>2, <1>8, <1>9, SumIsNumber

\* Sums of rewards and weights at a token are those at its number.
PacksSums(row, c, W) ==
  /\ \A k \in 1..Length(row) : /\ RewardsToGo(row)[Unmasked(row)[k]] = RewardsToGo(c)[k]
                               /\ Energy(row)[Unmasked(row)[k]] = Energy(c)[k]
  /\ \A k \in 1..W : k > Length(row) => RewardsToGo(c)[k] = 0
  /\ RewardsToGo(row) \in [1..W -> Int] /\ RewardsToGo(c) \in [1..W -> Int]

LEMMA SumsOfTokens ==
  ASSUME NEW W \in Nat, NEW G, NEW row \in RowsOfWidth(W, G)
  PROVE  PacksSums(row, Compact(row), W)
<1> DEFINE m == Length(row)
           u == Unmasked(row)
           c == Compact(row)
           Rewards(r, k) == [x \in 1..W |-> IF x >= k THEN r.rewards[x] * r.mask[x] ELSE 0]
           Weights(r, k) == [x \in 1..W |-> IF x <= k THEN r.weights[x] * r.mask[x] ELSE 0]
<1>1. m \in 0..W /\ Climbs(row, W) /\ c \in RowsOfWidth(W, G) /\ Packs(row, c, W)
  BY CompactFacts
<1>2. ASSUME NEW r \in RowsOfWidth(W, G)
      PROVE  /\ Tokens(r) = 1..W
             /\ \A k \in Int : Rewards(r, k) \in [1..W -> Int] /\ Weights(r, k) \in [1..W -> Int]
             /\ \A x \in 1..W : r.mask[x] \in {0, 1} /\ r.rewards[x] \in Int /\ r.weights[x] \in Int
  <2>1. \A x \in 1..W : r.mask[x] \in {0, 1} /\ r.rewards[x] \in Int /\ r.weights[x] \in Int
    BY DEF RowsOfWidth
  <2>2. Tokens(r) = 1..W
    BY RowFacts
  <2>3. ASSUME NEW k \in Int PROVE Rewards(r, k) \in [1..W -> Int] /\ Weights(r, k) \in [1..W -> Int]
    BY <2>1
  <2> QED BY <2>1, <2>2, <2>3
<1>3. ASSUME NEW r \in RowsOfWidth(W, G), NEW k \in 1..W
      PROVE  RewardsToGo(r)[k] = Add(Rewards(r, k)) /\ Energy(r)[k] = Add(Weights(r, k)) /\ Add(Rewards(r, k)) \in Int
  <2>1. Tokens(r) = 1..W /\ Rewards(r, k) \in Seq(Int)
    BY <1>2, RuleIsSequence
  <2> QED BY <2>1, SumIsNumber DEF RewardsToGo, Energy
<1>4. \A r \in RowsOfWidth(W, G) : RewardsToGo(r) \in [1..W -> Int]
  BY <1>2, <1>3 DEF RewardsToGo
<1>5. \A k \in 1..m : u[k] \in 1..W /\ row.mask[u[k]] = 1 /\ \A j \in 1..m : (k <= j) <=> (u[k] <= u[j])
  BY <1>1 DEF Climbs
<1>6. \A k \in 1..W : IF k <= m THEN c.mask[k] = 1 /\ c.rewards[k] = row.rewards[u[k]] /\ c.weights[k] = row.weights[u[k]]
                                ELSE c.mask[k] = 0 /\ c.rewards[k] = 0
  BY <1>1 DEF Packs
<1> HIDE DEF c, m, u
<1>7. ASSUME NEW j \in 1..m
      PROVE  Add(Rewards(c, j)) = Add(Rewards(row, u[j])) /\ Add(Weights(c, j)) = Add(Weights(row, u[j]))
  <2> DEFINE s == Rewards(row, u[j])
             d == Rewards(c, j)
             v == Weights(row, u[j])
             e == Weights(c, j)
  <2>1. j \in 1..W /\ u[j] \in 1..W
    BY <1>1, <1>5
  <2>2. s \in [1..W -> Int] /\ d \in [1..W -> Int] /\ v \in [1..W -> Int] /\ e \in [1..W -> Int]
    <3>1. j \in Int /\ u[j] \in Int
      BY <2>1
    <3> QED BY <1>1, <1>2, <3>1
  <2>3. (\A t \in 1..W : row.mask[t] = 0 => s[t] = 0) /\ \A t \in 1..W : row.mask[t] = 0 => v[t] = 0
    BY <1>2, <2>1
  <2>4. ASSUME NEW k \in 1..W
        PROVE  d[k] = (IF k <= m THEN s[u[k]] ELSE 0) /\ e[k] = (IF k <= m THEN v[u[k]] ELSE 0)
    <3>1. CASE k <= m
      BY <1>1, <1>5, <1>6, <2>1, <3>1
    <3>2. CASE ~(k <= m)
      <4>1. c.rewards[k] \in Int /\ c.weights[k] \in Int /\ c.mask[k] = 0
        BY <1>1, <1>2, <1>6, <3>2
      <4> QED BY <3>2, <4>1
    <3> QED BY <3>1, <3>2
  <2> HIDE DEF s, d, v, e
  <2>5. Add(d) = Add(s)
    <3>1. PacksNumbers(row, s, d, W)
      BY <2>3, <2>4 DEF m, u, PacksNumbers
    <3> QED BY <2>2, <3>1, PackedSum
  <2>6. Add(e) = Add(v)
    <3>1. PacksNumbers(row, v, e, W)
      BY <2>3, <2>4 DEF m, u, PacksNumbers
    <3> QED BY <2>2, <3>1, PackedSum
  <2> QED BY <2>5, <2>6 DEF s, d, v, e
<1>8. ASSUME NEW k \in 1..W, k > m PROVE Add(Rewards(c, k)) = 0
  <2> DEFINE d == Rewards(c, k)
  <2>1. d \in Seq(Int) /\ Len(d) = W
    <3>1. d \in [1..W -> Int]
      BY <1>1, <1>2
    <3> HIDE DEF d
    <3> QED BY <3>1, RuleIsSequence
  <2>2. \A x \in 1..W : d[x] = 0
    BY <1>1, <1>6, <1>8
  <2> HIDE DEF d
  <2>3. TotalOf(d) = Len(d) * 0
    BY <2>1, <2>2, EqualSum
  <2> QED BY <2>1, <2>3, SumIsNumber DEF d
<1>9. ASSUME NEW k \in 1..m PROVE RewardsToGo(row)[u[k]] = RewardsToGo(c)[k] /\ Energy(row)[u[k]] = Energy(c)[k]
  <2>1. k \in 1..W /\ u[k] \in 1..W
    BY <1>1, <1>5
  <2>2. RewardsToGo(row)[u[k]] = Add(Rewards(row, u[k])) /\ Energy(row)[u[k]] = Add(Weights(row, u[k]))
    BY <1>3, <2>1
  <2>3. RewardsToGo(c)[k] = Add(Rewards(c, k)) /\ Energy(c)[k] = Add(Weights(c, k))
    BY <1>1, <1>3, <2>1
  <2> QED BY <1>7, <2>2, <2>3
<1>10. \A k \in 1..W : k > m => RewardsToGo(c)[k] = 0
  BY <1>1, <1>3, <1>8
<1>11. RewardsToGo(row) \in [1..W -> Int] /\ RewardsToGo(c) \in [1..W -> Int]
  BY <1>1, <1>4
<1> QED BY <1>9, <1>10, <1>11 DEF PacksSums, c, m, u

\* What holds at first and from each number to the next, holds throughout.
LEMMA NothingFails ==
  ASSUME NEW n \in Nat, NEW Bad \in SUBSET (0..n), 0 \notin Bad, \A k \in 1..n : k - 1 \notin Bad => k \notin Bad
  PROVE  Bad = {}
<1> SUFFICES ASSUME Bad # {} PROVE FALSE
  OBVIOUS
<1>1. Bad \in SUBSET Nat
  OBVIOUS
<1>2. PICK k \in Bad : \A j \in Bad : k <= j
  BY <1>1, LeastElement
<1> QED BY <1>2

\* What is put in front of a list, step by step, is in it in the other order.
LEMMA PutInFront ==
  ASSUME NEW n \in Nat, NEW X, NEW o \in [0..n -> Seq(X)], NEW g \in [1..n -> X],
         o[0] = << >>, \A k \in 1..n : o[k] = <<g[k]>> \o o[k - 1]
  PROVE  Len(o[n]) = n /\ \A t \in 1..n : o[n][t] = g[(n + 1) - t]
<1> DEFINE Bad == {k \in 0..n : ~(Len(o[k]) = k /\ \A t \in 1..k : o[k][t] = g[(k + 1) - t])}
<1>1. ASSUME NEW k \in 1..n, k - 1 \notin Bad PROVE k \notin Bad
  <2> DEFINE p == o[k - 1]
             q == o[k]
  <2>1. k - 1 \in 0..n /\ p \in Seq(X) /\ q = <<g[k]>> \o p
    OBVIOUS
  <2>2. Len(p) = k - 1 /\ \A t \in 1..(k - 1) : p[t] = g[((k - 1) + 1) - t]
    BY <1>1, <2>1
  <2> HIDE DEF p, q
  <2>3. Len(q) = k /\ q[1] = g[k] /\ \A t \in 2..k : q[t] = p[t - 1]
    <3> DEFINE e == g[k]
    <3>1. p \in Seq(X) /\ e \in X /\ q = <<e>> \o p /\ Len(p) = k - 1 /\ k \in Nat
      BY <2>1, <2>2
    <3> HIDE DEF e
    <3>2. Len(q) = k /\ q[1] = e
      BY <3>1
    <3>3. \A t \in 2..k : q[t] = p[t - 1]
      BY <3>1
    <3> QED BY <3>2, <3>3 DEF e
  <2>4. \A t \in 2..k : t - 1 \in 1..(k - 1) /\ ((k - 1) + 1) - (t - 1) = (k + 1) - t
    OBVIOUS
  <2>5. \A t \in 1..k : q[t] = g[(k + 1) - t]
    <3> SUFFICES ASSUME NEW t \in 1..k PROVE q[t] = g[(k + 1) - t]
      OBVIOUS
    <3>1. CASE t = 1
      BY <2>3, <3>1
    <3>2. CASE t \in 2..k
      BY <2>2, <2>3, <2>4, <3>2
    <3> QED BY <3>1, <3>2
  <2> QED BY <2>3, <2>5 DEF q
<1>2. 0 \notin Bad /\ Bad \in SUBSET (0..n)
  OBVIOUS
<1>3. Bad = {}
  BY <1>1, <1>2, NothingFails
<1>4. n \in 0..n /\ n \notin Bad
  <2> HIDE DEF Bad
  <2> QED BY <1>3
<1> QED BY <1>4

\* Sums, differences and products of fractions are fractions.
LEMMA FractionsStay ==
  ASSUME NEW a \in Fraction, NEW b \in Fraction
  PROVE  Plus(a, b) \in Fraction /\ Minus(a, b) \in Fraction /\ Times(a, b) \in Fraction
<1> DEFINE d == <<-b[1], b[2]>>
<1>1. d \in Fraction /\ a[1] * b[2] \in Int /\ b[1] * a[2] \in Int /\ (-b[1]) * a[2] = -(b[1] * a[2])
  BY DEF Fraction
<1>2. Plus(a, d) = Minus(a, b)
  BY <1>1 DEF Plus, Minus
<1> HIDE DEF d
<1> QED BY <1>1, <1>2, PlusValue, TimesValue

\* The rank of a trained token is its number.
LEMMA RankOfToken ==
  ASSUME NEW W \in Nat, NEW G, NEW row \in RowsOfWidth(W, G), NEW k \in 1..Length(row)
  PROVE  /\ Unmasked(row)[k] \in 1..W
         /\ Rank(TrainedTokens(row), Unmasked(row)[k]) = k
         /\ Rank(TrainedTokens(row), Unmasked(row)[k] - 1) = k - 1
<1> DEFINE U == TrainedTokens(row)
           u == Unmasked(row)
           m == Length(row)
           t == u[k]
           r == Rank(U, t)
<1>1. m \in 0..W /\ U \in SUBSET (1..W) /\ u = Listed(U) /\ m = Cardinality(U) /\ u \in [1..m -> U]
  <2>1. m \in 0..W
    BY CompactFacts
  <2> QED BY <2>1, RowFacts
<1>2. \A j, l \in 1..m : j < l => u[j] < u[l]
  <2>1. IsFiniteSet(U) /\ U \in SUBSET Int
    BY <1>1, RankFacts
  <2> HIDE DEF U
  <2> QED BY <1>1, <2>1, ListedFacts
<1>3. t \in U /\ t \in 1..W /\ t - 1 \in 0..W /\ r \in 0..m /\ Rank(U, t - 1) \in 0..m
  <2>1. t \in U /\ t \in 1..W /\ t - 1 \in 0..W /\ t \in 0..W
    BY <1>1
  <2> HIDE DEF t
  <2> QED BY <1>1, <2>1, RankFacts
<1>4. r = Rank(U, t - 1) + 1 /\ u[r] = t
  <2>1. \A x \in 1..W : x \in U => Rank(U, x) = Rank(U, x - 1) + 1 /\ Listed(U)[Rank(U, x)] = x
    BY <1>1, RankFacts
  <2> HIDE DEF t, U
  <2> QED BY <1>1, <1>3, <2>1
<1>5. r \in 1..m
  BY <1>1, <1>3, <1>4
<1>6. r = k
  BY <1>1, <1>2, <1>3, <1>4, <1>5 DEF m
<1> QED BY <1>3, <1>4, <1>6

GaeState == [next : Fraction, gae : Fraction, out : Seq(Fraction)]
GaeStart == [next |-> Zero, gae |-> Zero, out |-> << >>]

\* The advantage of an unmasked token.
GaeValue(state, reward, value, gamma, lam) ==
  Plus(Minus(Plus(Whole(reward), Times(gamma, state.next)), Whole(value)), Times(gamma, Times(lam, state.gae)))

StepsBack(new, state, row, t, gamma, lam) ==
  /\ new \in GaeState /\ new.out = <<new.gae>> \o state.out
  /\ row.mask[t] = 1 => /\ new.next = Whole(row.values[t])
                        /\ new.gae = GaeValue(state, row.rewards[t], row.values[t], gamma, lam)
  /\ row.mask[t] = 0 => new.next = state.next /\ new.gae = state.gae

LEMMA GaeStepIs ==
  ASSUME NEW W \in Nat, NEW G, NEW row \in RowsOfWidth(W, G), NEW t \in 1..W,
         NEW gamma \in Fraction, NEW lam \in Fraction, NEW state \in GaeState
  PROVE  StepsBack(GaeStep(state, row, t, gamma, lam), state, row, t, gamma, lam)
<1> DEFINE delta == Minus(Plus(Whole(row.rewards[t]), Times(gamma, state.next)), Whole(row.values[t]))
           value == Plus(delta, Times(gamma, Times(lam, state.gae)))
           next == IF row.mask[t] = 1 THEN Whole(row.values[t]) ELSE state.next
           gae == IF row.mask[t] = 1 THEN value ELSE state.gae
           new == GaeStep(state, row, t, gamma, lam)
<1>1. state.next \in Fraction /\ state.gae \in Fraction /\ state.out \in Seq(Fraction)
  BY DEF GaeState
<1>2. Whole(row.rewards[t]) \in Fraction /\ Whole(row.values[t]) \in Fraction
  BY DEF RowsOfWidth, Whole, Fraction
<1>3. delta \in Fraction /\ value \in Fraction
  BY <1>1, <1>2, FractionsStay
<1>4. value = GaeValue(state, row.rewards[t], row.values[t], gamma, lam)
  BY DEF GaeValue
<1>5. new = [next |-> next, gae |-> gae, out |-> <<gae>> \o state.out]
  BY DEF GaeStep
<1>6. row.mask[t] \in {0, 1}
  BY DEF RowsOfWidth
<1> HIDE DEF value, delta, new
<1>7. next \in Fraction /\ gae \in Fraction
  BY <1>1, <1>2, <1>3
<1>8. <<gae>> \o state.out \in Seq(Fraction)
  BY <1>1, <1>7
<1>9. new.next = next /\ new.gae = gae /\ new.out = <<gae>> \o state.out
  BY <1>5
<1>10. new \in GaeState
  BY <1>5, <1>7, <1>8 DEF GaeState
<1> QED BY <1>4, <1>6, <1>9, <1>10 DEF new, StepsBack

\* The tokens of a row from the last one back.
LEMMA TokensBack ==
  ASSUME NEW W \in Nat, NEW G, NEW row \in RowsOfWidth(W, G)
  PROVE  DOMAIN Reverse(Steps(row)) = 1..W /\ \A k \in 1..W : Reverse(Steps(row))[k] = (W + 1) - k
<1>1. Steps(row) = [t \in 1..W |-> t]
  BY RowFacts DEF Steps
<1>2. Len(Steps(row)) = W /\ \A t \in 1..W : Steps(row)[t] = t
  BY <1>1
<1>3. Reverse(Steps(row)) = [k \in 1..W |-> Steps(row)[(W - k) + 1]]
  BY <1>2 DEF Reverse
<1>4. \A k \in 1..W : (W - k) + 1 \in 1..W /\ (W - k) + 1 = (W + 1) - k
  OBVIOUS
<1> QED BY <1>2, <1>3, <1>4

\* The states of the scan, from the last token back.
Scans(h, row, gamma, lam, W) ==
  h[0] = GaeStart /\ \A k \in 1..W : h[k] = GaeStep(h[k - 1], row, (W + 1) - k, gamma, lam)

LEMMA GaeScans ==
  ASSUME NEW W \in Nat, NEW G, NEW row \in RowsOfWidth(W, G), NEW gamma \in Fraction, NEW lam \in Fraction
  PROVE  \E h \in [0..W -> GaeState] : Scans(h, row, gamma, lam, W) /\ Gae(row, gamma, lam) = h[W].out
<1> DEFINE V == GaeState
           ids == Reverse(Steps(row))
           F == [x \in V \X (1..W) |-> GaeStep(x[1], row, (W + 1) - x[2], gamma, lam)]
<1>1. GaeStart \in V /\ \A x \in V, k \in 1..W : GaeStep(x, row, (W + 1) - k, gamma, lam) \in V
  <2>1. Zero \in Fraction /\ << >> \in Seq(Fraction)
    BY DEF Zero, Whole, Fraction
  <2>2. GaeStart \in V
    BY <2>1 DEF GaeStart, GaeState
  <2>3. \A k \in 1..W : (W + 1) - k \in 1..W
    OBVIOUS
  <2> QED BY <2>2, <2>3, GaeStepIs DEF StepsBack
<1>2. DOMAIN ids = 1..W /\ \A k \in 1..W : ids[k] = (W + 1) - k
  BY TokensBack
<1>3. F \in [V \X (1..W) -> V] /\ \A x \in V, k \in 1..W : F[<<x, k>>] = GaeStep(x, row, (W + 1) - k, gamma, lam)
  BY <1>1
<1> HIDE DEF F, V, ids
<1> DEFINE Solves(it) ==
     it = [s \in SUBSET (1..W) |-> IF s = {} THEN GaeStart ELSE GaeStep(it[s \ {Max(s)}], row, ids[Max(s)], gamma, lam)]
<1>4. Gae(row, gamma, lam) = (CHOOSE it : Solves(it))[1..W].out
  BY <1>2, Zenon DEF Gae, FoldLeft, MapThenFoldSet, GaeStart, ids
<1>5. \E it : Solves(it)
  <2>1. PICK it \in [SUBSET (1..W) -> V] : FoldsOver(it, W, F, GaeStart)
    BY <1>1, <1>3, FoldExists
  <2>2. \A s \in SUBSET (1..W) :
          it[s] = IF s = {} THEN GaeStart ELSE GaeStep(it[s \ {Max(s)}], row, ids[Max(s)], gamma, lam)
    BY <1>2, <1>3, <2>1, MaxOfFirst DEF FoldsOver
  <2>3. it = [s \in SUBSET (1..W) |-> it[s]]
    OBVIOUS
  <2>4. Solves(it)
    BY <2>2, <2>3
  <2> HIDE DEF Solves
  <2> QED BY <2>4
<1> DEFINE fold == CHOOSE it : Solves(it)
<1>6. Solves(fold)
  BY <1>5
<1> HIDE DEF fold
<1>7. fold[{}] = GaeStart
  BY <1>6
<1>8. ASSUME NEW s \in SUBSET (1..W), s # {}, fold[s \ {Max(s)}] \in V
      PROVE  fold[s] = F[<<fold[s \ {Max(s)}], Max(s)>>]
  <2>1. Max(s) \in 1..W
    BY <1>8, MaxOfFirst
  <2>2. fold[s] = GaeStep(fold[s \ {Max(s)}], row, ids[Max(s)], gamma, lam)
    BY <1>6, <1>8
  <2> QED BY <1>2, <1>3, <1>8, <2>1, <2>2
<1> HIDE DEF Solves
<1>9. FoldsIn(fold, W, F, GaeStart, V)
  BY <1>7, <1>8 DEF FoldsIn
<1>10. PICK h \in [0..W -> V] : GoesThrough(h, W, F, GaeStart, V) /\ h[W] = fold[1..W]
  BY <1>1, <1>3, <1>9, FoldHistory DEF HasHistory
<1>11. Scans(h, row, gamma, lam, W)
  <2>1. \A k \in 1..W : h[k - 1] \in V
    OBVIOUS
  <2> QED BY <1>3, <1>10, <2>1 DEF GoesThrough, Scans
<1> QED BY <1>4, <1>10, <1>11 DEF fold, V

\* The two scans agree behind a token.
SameState(x, y) == x.next = y.next /\ x.gae = y.gae

\* Until the first unmasked token there is nothing to add.
LEMMA NothingBehind ==
  ASSUME NEW W \in Nat, NEW G, NEW row \in RowsOfWidth(W, G), NEW m \in 0..W, \A t \in 1..W : t > m => row.mask[t] = 0,
         NEW gamma \in Fraction, NEW lam \in Fraction, NEW h \in [0..W -> GaeState], Scans(h, row, gamma, lam, W)
  PROVE  SameState(h[W - m], GaeStart)
<1> DEFINE n == W - m
           Bad == {k \in 0..n : ~SameState(h[k], GaeStart)}
<1>1. n \in 0..W /\ n \in Nat
  OBVIOUS
<1>2. 0 \notin Bad /\ Bad \in SUBSET (0..n)
  BY DEF Scans, SameState
<1>3. ASSUME NEW k \in 1..n, k - 1 \notin Bad PROVE k \notin Bad
  <2> DEFINE t == (W + 1) - k
  <2>1. k \in 1..W /\ k - 1 \in 0..W /\ k - 1 \in 0..n /\ t \in 1..W /\ t > m
    BY <1>1
  <2>2. SameState(h[k - 1], GaeStart)
    BY <1>3, <2>1
  <2>3. h[k] = GaeStep(h[k - 1], row, t, gamma, lam) /\ row.mask[t] = 0 /\ h[k - 1] \in GaeState
    BY <2>1 DEF Scans
  <2> HIDE DEF t
  <2>4. h[k].next = h[k - 1].next /\ h[k].gae = h[k - 1].gae
    <3>1. StepsBack(h[k], h[k - 1], row, t, gamma, lam)
      BY <2>1, <2>3, GaeStepIs
    <3> QED BY <2>3, <3>1 DEF StepsBack
  <2> QED BY <2>2, <2>4 DEF SameState
<1>4. Bad = {}
  BY <1>1, <1>2, <1>3, NothingFails
<1> QED BY <1>1, <1>4

\* The lists of a scan hold its advantages.
LEMMA GaeList ==
  ASSUME NEW W \in Nat, NEW G, NEW row \in RowsOfWidth(W, G), NEW gamma \in Fraction, NEW lam \in Fraction,
         NEW h \in [0..W -> GaeState], Scans(h, row, gamma, lam, W), NEW t \in 1..W
  PROVE  h[W].out[t] = h[(W + 1) - t].gae
<1> DEFINE o == [k \in 0..W |-> h[k].out]
           g == [k \in 1..W |-> h[k].gae]
<1>1. o \in [0..W -> Seq(Fraction)] /\ g \in [1..W -> Fraction]
  BY DEF GaeState
<1>2. o[0] = << >>
  BY DEF Scans, GaeStart
<1>3. ASSUME NEW k \in 1..W PROVE o[k] = <<g[k]>> \o o[k - 1]
  <2> DEFINE x == (W + 1) - k
  <2>1. k \in 0..W /\ k - 1 \in 0..W /\ x \in 1..W /\ h[k - 1] \in GaeState /\ h[k] = GaeStep(h[k - 1], row, x, gamma, lam)
    BY DEF Scans
  <2> HIDE DEF x
  <2>2. h[k].out = <<h[k].gae>> \o h[k - 1].out
    <3>1. StepsBack(h[k], h[k - 1], row, x, gamma, lam)
      BY <2>1, GaeStepIs
    <3> QED BY <3>1 DEF StepsBack
  <2> QED BY <2>1, <2>2
<1>4. W \in 0..W /\ (W + 1) - t \in 1..W
  OBVIOUS
<1>5. o[W] = h[W].out /\ g[(W + 1) - t] = h[(W + 1) - t].gae
  BY <1>4
<1> HIDE DEF o, g
<1>6. o[W][t] = g[(W + 1) - t]
  BY <1>1, <1>2, <1>3, PutInFront
<1> QED BY <1>5, <1>6

PacksGae(row, c, gamma, lam) ==
  \A k \in 1..Length(row) : Gae(row, gamma, lam)[Unmasked(row)[k]] = Gae(c, gamma, lam)[k]

\* Unmasked tokens have the advantages they have without the others.
LEMMA GaeOfTokens ==
  ASSUME NEW W \in Nat, NEW G, NEW row \in RowsOfWidth(W, G), NEW gamma \in Fraction, NEW lam \in Fraction
  PROVE  PacksGae(row, Compact(row), gamma, lam)
<1> DEFINE c == Compact(row)
           m == Length(row)
           u == Unmasked(row)
           U == TrainedTokens(row)
<1>1. m \in 0..W /\ c \in RowsOfWidth(W, G) /\ Packs(row, c, W)
  BY CompactFacts
<1>2. U \in SUBSET (1..W) /\ u = Listed(U) /\ m = Cardinality(U) /\ Tokens(row) = 1..W
  BY RowFacts
<1>3. PICK a \in [0..W -> GaeState] : Scans(a, row, gamma, lam, W) /\ Gae(row, gamma, lam) = a[W].out
  BY GaeScans
<1> HIDE DEF c, m, u, U
<1>4. PICK b \in [0..W -> GaeState] : Scans(b, c, gamma, lam, W) /\ Gae(c, gamma, lam) = b[W].out
  BY <1>1, GaeScans
<1>5. /\ Rank(U, 0) = 0 /\ Rank(U, W) = m
      /\ \A k \in 0..W : Rank(U, k) \in 0..m
      /\ \A t \in 1..W : IF t \in U THEN Rank(U, t) = Rank(U, t - 1) + 1 /\ u[Rank(U, t)] = t
                         ELSE Rank(U, t) = Rank(U, t - 1)
  BY <1>2, RankFacts
<1> DEFINE At(k) == W - Rank(U, W - k)
           Bad == {k \in 0..W : ~SameState(a[k], b[At(k)])}
<1>6. SameState(a[0], b[At(0)])
  <2>1. At(0) = W - m
    BY <1>1, <1>5
  <2>2. \A t \in 1..W : t > m => c.mask[t] = 0
    BY <1>1 DEF Packs, m
  <2> HIDE DEF At
  <2>3. SameState(b[W - m], GaeStart)
    BY <1>1, <1>4, <2>2, NothingBehind
  <2> QED BY <1>3, <2>1, <2>3 DEF Scans, SameState
<1>7. ASSUME NEW k \in 1..W, SameState(a[k - 1], b[At(k - 1)]) PROVE SameState(a[k], b[At(k)])
  <2> DEFINE t == (W + 1) - k
             p == Rank(U, t)
             q == Rank(U, t - 1)
  <2>1. t \in 1..W /\ t \in 0..W /\ t - 1 \in 0..W /\ k - 1 \in 0..W /\ W - k = t - 1 /\ W - (k - 1) = t
    OBVIOUS
  <2>2. At(k - 1) = W - p /\ At(k) = W - q
    BY <2>1
  <2>3. p \in 0..m /\ q \in 0..m /\ IF t \in U THEN p = q + 1 /\ u[p] = t ELSE p = q
    BY <1>5, <2>1
  <2>4. a[k] = GaeStep(a[k - 1], row, t, gamma, lam) /\ a[k - 1] \in GaeState
    BY <1>3, <2>1 DEF Scans
  <2> HIDE DEF t, p, q, At
  <2>5. CASE t \in U
    <3>1. p \in 1..m /\ p \in 1..W /\ p <= m /\ q = p - 1
      BY <1>1, <2>3, <2>5
    <3> DEFINE l == W - q
    <3>2. l \in 1..W /\ l - 1 \in 0..W /\ (W + 1) - l = p /\ l - 1 = W - p
      BY <3>1
    <3>3. b[l] = GaeStep(b[l - 1], c, p, gamma, lam) /\ b[l - 1] \in GaeState
      BY <1>4, <3>2 DEF Scans
    <3>4. SameState(a[k - 1], b[l - 1]) /\ At(k) = l
      BY <1>7, <2>2, <3>2
    <3> HIDE DEF l
    <3>5. row.mask[t] = 1
      BY <2>5 DEF U, TrainedTokens
    <3>6. c.mask[p] = 1 /\ c.rewards[p] = row.rewards[t] /\ c.values[p] = row.values[t]
      BY <1>1, <2>3, <2>5, <3>1 DEF Packs, m, u
    <3>7. a[k].next = Whole(row.values[t]) /\ a[k].gae = GaeValue(a[k - 1], row.rewards[t], row.values[t], gamma, lam)
      <4>1. StepsBack(a[k], a[k - 1], row, t, gamma, lam)
        BY <2>1, <2>4, GaeStepIs
      <4> QED BY <3>5, <4>1 DEF StepsBack
    <3>8. b[l].next = Whole(c.values[p]) /\ b[l].gae = GaeValue(b[l - 1], c.rewards[p], c.values[p], gamma, lam)
      <4>1. StepsBack(b[l], b[l - 1], c, p, gamma, lam)
        BY <1>1, <3>1, <3>3, GaeStepIs
      <4> QED BY <3>6, <4>1 DEF StepsBack
    <3> QED BY <3>4, <3>6, <3>7, <3>8 DEF SameState, GaeValue
  <2>6. CASE t \notin U
    <3>1. row.mask[t] = 0
      BY <1>2, <2>1, <2>6 DEF U, TrainedTokens, RowsOfWidth
    <3>2. a[k].next = a[k - 1].next /\ a[k].gae = a[k - 1].gae
      <4>1. StepsBack(a[k], a[k - 1], row, t, gamma, lam)
        BY <2>1, <2>4, GaeStepIs
      <4> QED BY <3>1, <4>1 DEF StepsBack
    <3>3. At(k) = At(k - 1)
      BY <2>2, <2>3, <2>6
    <3> QED BY <1>7, <3>2, <3>3 DEF SameState
  <2> QED BY <2>5, <2>6
<1>8. Bad = {}
  <2>1. 0 \notin Bad /\ Bad \in SUBSET (0..W)
    BY <1>6
  <2>2. ASSUME NEW k \in 1..W, k - 1 \notin Bad PROVE k \notin Bad
    BY <1>7, <2>2
  <2> HIDE DEF Bad
  <2> QED BY <2>1, <2>2, NothingFails
<1>9. ASSUME NEW j \in 1..m PROVE Gae(row, gamma, lam)[u[j]] = Gae(c, gamma, lam)[j]
  <2> DEFINE t == u[j]
             k == (W + 1) - t
  <2>1. t \in 1..W /\ Rank(U, t - 1) = j - 1
    BY RankOfToken DEF m, u, U
  <2> HIDE DEF t
  <2>2. k \in 0..W /\ W - k = t - 1 /\ j \in 1..W
    BY <1>1, <2>1
  <2>3. At(k) = (W + 1) - j
    BY <2>1, <2>2
  <2> HIDE DEF At, k
  <2>4. SameState(a[k], b[At(k)])
    BY <1>8, <2>2
  <2>5. a[W].out[t] = a[k].gae
    BY <1>3, <2>1, GaeList DEF k
  <2>6. b[W].out[j] = b[(W + 1) - j].gae
    BY <1>1, <1>4, <2>2, GaeList
  <2> QED BY <1>3, <1>4, <2>3, <2>4, <2>5, <2>6 DEF SameState, t
<1> QED BY <1>9 DEF PacksGae, c, m, u

ReturnState == [running : Int, out : Seq(Int)]
ReturnStart == [running |-> 0, out |-> << >>]

\* The states of the running return, from the last token back.
Runs(h, row, W) ==
  h[0] = ReturnStart /\ \A k \in 1..W : h[k] = ReinforceStep(h[k - 1], row, (W + 1) - k)

LEMMA ReturnsRun ==
  ASSUME NEW W \in Nat, NEW G, NEW row \in RowsOfWidth(W, G)
  PROVE  \E h \in [0..W -> ReturnState] : Runs(h, row, W) /\ ReinforceReturns(row) = h[W].out
<1> DEFINE V == ReturnState
           ids == Reverse(Steps(row))
           F == [x \in V \X (1..W) |-> ReinforceStep(x[1], row, (W + 1) - x[2])]
<1>1. ReturnStart \in V /\ \A x \in V, k \in 1..W : ReinforceStep(x, row, (W + 1) - k) \in V
  <2>1. ReturnStart \in V
    BY DEF ReturnStart, ReturnState
  <2>2. ASSUME NEW x \in V, NEW k \in 1..W PROVE ReinforceStep(x, row, (W + 1) - k) \in V
    <3> DEFINE t == (W + 1) - k
               r == row.rewards[t] + x.running
    <3>1. t \in 1..W
      OBVIOUS
    <3> HIDE DEF t
    <3>2. row.rewards[t] \in Int /\ row.mask[t] \in Int /\ x.running \in Int /\ x.out \in Seq(Int)
      BY <3>1 DEF RowsOfWidth, ReturnState
    <3>3. r \in Int /\ r * row.mask[t] \in Int
      BY <3>2
    <3>4. ReinforceStep(x, row, t) = [running |-> r * row.mask[t], out |-> <<r>> \o x.out]
      BY DEF ReinforceStep
    <3> HIDE DEF r
    <3>5. <<r>> \o x.out \in Seq(Int)
      BY <3>2, <3>3
    <3>6. ReinforceStep(x, row, t) \in ReturnState
      BY <3>3, <3>4, <3>5 DEF ReturnState
    <3> QED BY <3>6 DEF t
  <2> QED BY <2>1, <2>2
<1>2. DOMAIN ids = 1..W /\ \A k \in 1..W : ids[k] = (W + 1) - k
  BY TokensBack
<1>3. F \in [V \X (1..W) -> V] /\ \A x \in V, k \in 1..W : F[<<x, k>>] = ReinforceStep(x, row, (W + 1) - k)
  BY <1>1
<1> HIDE DEF F, V, ids
<1> DEFINE Solves(it) ==
     it = [s \in SUBSET (1..W) |-> IF s = {} THEN ReturnStart ELSE ReinforceStep(it[s \ {Max(s)}], row, ids[Max(s)])]
<1>4. ReinforceReturns(row) = (CHOOSE it : Solves(it))[1..W].out
  BY <1>2, Zenon DEF ReinforceReturns, FoldLeft, MapThenFoldSet, ReturnStart, ids
<1>5. \E it : Solves(it)
  <2>1. PICK it \in [SUBSET (1..W) -> V] : FoldsOver(it, W, F, ReturnStart)
    BY <1>1, <1>3, FoldExists
  <2>2. \A s \in SUBSET (1..W) :
          it[s] = IF s = {} THEN ReturnStart ELSE ReinforceStep(it[s \ {Max(s)}], row, ids[Max(s)])
    BY <1>2, <1>3, <2>1, MaxOfFirst DEF FoldsOver
  <2>3. it = [s \in SUBSET (1..W) |-> it[s]]
    OBVIOUS
  <2>4. Solves(it)
    BY <2>2, <2>3
  <2> HIDE DEF Solves
  <2> QED BY <2>4
<1> DEFINE fold == CHOOSE it : Solves(it)
<1>6. Solves(fold)
  BY <1>5
<1> HIDE DEF fold
<1>7. fold[{}] = ReturnStart
  BY <1>6
<1>8. ASSUME NEW s \in SUBSET (1..W), s # {}, fold[s \ {Max(s)}] \in V
      PROVE  fold[s] = F[<<fold[s \ {Max(s)}], Max(s)>>]
  <2>1. Max(s) \in 1..W
    BY <1>8, MaxOfFirst
  <2>2. fold[s] = ReinforceStep(fold[s \ {Max(s)}], row, ids[Max(s)])
    BY <1>6, <1>8
  <2> QED BY <1>2, <1>3, <1>8, <2>1, <2>2
<1> HIDE DEF Solves
<1>9. FoldsIn(fold, W, F, ReturnStart, V)
  BY <1>7, <1>8 DEF FoldsIn
<1>10. PICK h \in [0..W -> V] : GoesThrough(h, W, F, ReturnStart, V) /\ h[W] = fold[1..W]
  BY <1>1, <1>3, <1>9, FoldHistory DEF HasHistory
<1>11. Runs(h, row, W)
  <2>1. \A k \in 1..W : h[k - 1] \in V
    OBVIOUS
  <2> QED BY <1>3, <1>10, <2>1 DEF GoesThrough, Runs
<1> QED BY <1>4, <1>10, <1>11 DEF fold, V

RewardsFrom(row, t, W) == [x \in 1..W |-> IF x >= t THEN row.rewards[x] * row.mask[x] ELSE 0]

\* The rewards from a token on.
LEMMA AheadFacts ==
  ASSUME NEW W \in Nat, NEW G, NEW row \in RowsOfWidth(W, G), NEW t \in 1..(W + 1)
  PROVE  /\ RewardsFrom(row, t, W) \in [1..W -> Int] /\ TotalOf(RewardsFrom(row, t, W)) \in Int
         /\ (\A x \in 1..W : x >= t => row.mask[x] = 0) => TotalOf(RewardsFrom(row, t, W)) = 0
         /\ t \in 1..W => /\ RewardsToGo(row)[t] = TotalOf(RewardsFrom(row, t, W))
                          /\ TotalOf(RewardsFrom(row, t, W)) = TotalOf(RewardsFrom(row, t + 1, W)) + row.rewards[t] * row.mask[t]
<1> DEFINE s == RewardsFrom(row, t, W)
           q == RewardsFrom(row, t + 1, W)
<1>1. \A x \in 1..W : row.rewards[x] \in Int /\ row.mask[x] \in {0, 1} /\ row.rewards[x] * row.mask[x] \in Int
  <2>1. \A x \in 1..W : row.rewards[x] \in Int /\ row.mask[x] \in {0, 1}
    BY DEF RowsOfWidth
  <2> QED BY <2>1
<1>2. s \in [1..W -> Int] /\ q \in [1..W -> Int]
  BY <1>1 DEF RewardsFrom
<1>3. s \in Seq(Int) /\ Len(s) = W /\ q \in Seq(Int) /\ Len(q) = W
  BY <1>2, RuleIsSequence
<1>4. TotalOf(s) \in Int /\ Add(s) = TotalOf(s)
  BY <1>3, SumIsNumber
<1>5. ASSUME \A x \in 1..W : x >= t => row.mask[x] = 0 PROVE TotalOf(s) = 0
  <2>1. \A x \in 1..W : s[x] = 0
    BY <1>1, <1>5 DEF RewardsFrom
  <2>2. TotalOf(s) = Len(s) * 0
    BY <1>3, <2>1, EqualSum
  <2> QED BY <1>3, <2>2
<1>6. ASSUME t \in 1..W PROVE RewardsToGo(row)[t] = TotalOf(s) /\ TotalOf(s) = TotalOf(q) + row.rewards[t] * row.mask[t]
  <2>1. RewardsToGo(row)[t] = Add(s)
    BY <1>6, RowFacts DEF RewardsToGo, RewardsFrom
  <2> DEFINE d == row.rewards[t] * row.mask[t]
  <2>2. d \in Int /\ \A x \in 1..W : s[x] = IF x = t THEN q[x] + d ELSE q[x]
    BY <1>1, <1>6 DEF RewardsFrom
  <2> HIDE DEF s, q, d
  <2>3. TotalOf(s) = TotalOf(q) + d
    <3>1. Len(s) = Len(q) /\ t \in 1..Len(q) /\ \A x \in 1..Len(q) : s[x] = IF x = t THEN q[x] + d ELSE q[x]
      BY <1>3, <1>6, <2>2
    <3> QED BY <1>3, <2>2, <3>1, TotalOneChanged
  <2> QED BY <1>4, <2>1, <2>3 DEF d
<1> QED BY <1>2, <1>4, <1>5, <1>6

\* A row whose first m tokens are unmasked.
FirstOnly(c, m, W) == \A t \in 1..W : IF t <= m THEN c.mask[t] = 1 ELSE c.mask[t] = 0 /\ c.rewards[t] = 0

\* Without observations in between, the running return is what is left to come.
LEMMA ReturnsToGo ==
  ASSUME NEW W \in Nat, NEW G, NEW c \in RowsOfWidth(W, G), NEW m \in 0..W, FirstOnly(c, m, W)
  PROVE  \A t \in 1..W : ReinforceReturns(c)[t] = RewardsToGo(c)[t]
<1> USE DEF FirstOnly
<1> DEFINE Left(t) == TotalOf(RewardsFrom(c, t, W))
<1>1. PICK h \in [0..W -> ReturnState] : Runs(h, c, W) /\ ReinforceReturns(c) = h[W].out
  BY ReturnsRun
<1>2. ASSUME NEW t \in 1..(W + 1) PROVE Left(t) \in Int /\ (t > m => Left(t) = 0)
  <2>1. t > m => \A x \in 1..W : x >= t => c.mask[x] = 0
    OBVIOUS
  <2> QED BY <2>1, AheadFacts
<1>3. \A t \in 1..W : RewardsToGo(c)[t] = Left(t) /\ Left(t) = Left(t + 1) + c.rewards[t] * c.mask[t]
  <2>1. \A t \in 1..W : t \in 1..(W + 1)
    OBVIOUS
  <2> QED BY <2>1, AheadFacts
<1> HIDE DEF Left
<1>4. ASSUME NEW k \in 1..W, h[k - 1].running = Left((W + 1) - (k - 1))
      PROVE  h[k].running = Left((W + 1) - k) /\ h[k].out = <<Left((W + 1) - k)>> \o h[k - 1].out
  <2> DEFINE t == (W + 1) - k
             r == c.rewards[t] + h[k - 1].running
  <2>1. t \in 1..W /\ t \in 1..(W + 1) /\ t + 1 \in 1..(W + 1) /\ (W + 1) - (k - 1) = t + 1 /\ k - 1 \in 0..W
    OBVIOUS
  <2>2. h[k] = [running |-> r * c.mask[t], out |-> <<r>> \o h[k - 1].out]
    BY <1>1 DEF Runs, ReinforceStep
  <2>3. h[k - 1].running = Left(t + 1)
    BY <1>4, <2>1
  <2> HIDE DEF t
  <2>4. c.rewards[t] \in Int /\ Left(t) \in Int /\ Left(t + 1) \in Int
    BY <1>2, <2>1 DEF RowsOfWidth
  <2>5. CASE t <= m
    <3>1. c.mask[t] = 1
      BY <2>1, <2>5
    <3>2. Left(t) = Left(t + 1) + c.rewards[t]
      BY <1>3, <2>1, <2>4, <3>1
    <3>3. r = Left(t) /\ r * c.mask[t] = r
      BY <2>3, <2>4, <3>1, <3>2
    <3> QED BY <2>2, <3>3 DEF t
  <2>6. CASE ~(t <= m)
    <3>1. c.mask[t] = 0 /\ c.rewards[t] = 0 /\ Left(t) = 0 /\ Left(t + 1) = 0
      BY <1>2, <2>1, <2>6
    <3>2. r = 0 /\ r * c.mask[t] = 0
      BY <2>3, <3>1
    <3> QED BY <2>2, <3>1, <3>2 DEF t
  <2> QED BY <2>5, <2>6
<1>5. \A k \in 0..W : h[k].running = Left((W + 1) - k)
  <2> DEFINE Bad == {k \in 0..W : ~(h[k].running = Left((W + 1) - k))}
  <2>1. h[0].running = 0 /\ (W + 1) - 0 = W + 1 /\ W + 1 \in 1..(W + 1) /\ W + 1 > m
    BY <1>1 DEF Runs, ReturnStart
  <2>2. 0 \notin Bad /\ Bad \in SUBSET (0..W)
    BY <1>2, <2>1
  <2>3. ASSUME NEW k \in 1..W, k - 1 \notin Bad PROVE k \notin Bad
    <3>1. k - 1 \in 0..W
      OBVIOUS
    <3> QED BY <1>4, <2>3, <3>1
  <2>4. Bad = {}
    <3> HIDE DEF Bad
    <3> QED BY <2>2, <2>3, NothingFails
  <2> QED BY <2>4
<1> DEFINE o == [k \in 0..W |-> h[k].out]
           g == [k \in 1..W |-> Left((W + 1) - k)]
<1>6. o \in [0..W -> Seq(Int)] /\ o[0] = << >> /\ g \in [1..W -> Int]
  <2>1. \A k \in 0..W : h[k].out \in Seq(Int)
    BY DEF ReturnState
  <2>2. h[0].out = << >>
    BY <1>1 DEF Runs, ReturnStart
  <2>3. \A k \in 1..W : (W + 1) - k \in 1..(W + 1)
    OBVIOUS
  <2> QED BY <1>2, <2>1, <2>2, <2>3
<1>7. ASSUME NEW k \in 1..W PROVE o[k] = <<g[k]>> \o o[k - 1]
  <2>1. k - 1 \in 0..W /\ k \in 0..W
    OBVIOUS
  <2> QED BY <1>4, <1>5, <2>1
<1>8. ASSUME NEW t \in 1..W PROVE h[W].out[t] = Left(t)
  <2>1. (W + 1) - t \in 1..W /\ (W + 1) - ((W + 1) - t) = t /\ W \in 0..W
    OBVIOUS
  <2>2. g[(W + 1) - t] = Left(t) /\ o[W] = h[W].out
    BY <2>1
  <2> HIDE DEF o, g
  <2>3. o[W][t] = g[(W + 1) - t]
    <3> DEFINE X == Int
    <3>1. W \in Nat /\ t \in 1..W /\ o \in [0..W -> Seq(X)] /\ g \in [1..W -> X] /\ o[0] = << >>
      BY <1>6, <1>8
    <3> HIDE DEF X
    <3> QED BY ONLY <1>7, <3>1, PutInFront
  <2> QED BY <2>2, <2>3
<1> QED BY <1>1, <1>3, <1>8

CompactRows(batch) == [r \in DOMAIN batch |-> Compact(batch[r])]

\* What the token baselines are made of.
PackedAt(row, s) == [n \in Tokens(row) |-> IF n <= Length(row) THEN s[Unmasked(row)[n]] ELSE 0]
TurnReturns(batch) == [r \in DOMAIN batch |-> PackedAt(batch[r], RewardsToGo(batch[r]))]
TurnEnergy(batch) == [r \in DOMAIN batch |-> PackedAt(batch[r], Energy(batch[r]))]
TokenReturns(batch) == [r \in DOMAIN batch |-> RewardsToGo(batch[r])]
TokenEnergy(batch) == [r \in DOMAIN batch |-> [t \in Tokens(batch[r]) |-> Energy(batch[r])[t] * batch[r].mask[t]]]
BaselineAt(batch, rows, i, zeroTail, returns, energy, t) ==
  IF Len(rows) = 1 \/ (zeroTail /\ InZeroTail(batch, rows, i, t)) THEN Zero ELSE StepBaseline(returns, energy, rows, t)

\* The compact rows are in the groups of the rows, and as long.
LEMMA CompactBatch ==
  ASSUME NEW W \in Nat, NEW G, NEW batch \in Seq(RowsOfWidth(W, G)), NEW i \in DOMAIN batch
  PROVE  /\ CompactRows(batch) \in Seq(RowsOfWidth(W, G)) /\ DOMAIN CompactRows(batch) = DOMAIN batch
         /\ RowsOf(CompactRows(batch), i) = RowsOf(batch, i)
         /\ \A r \in DOMAIN batch : /\ batch[r] \in RowsOfWidth(W, G) /\ CompactRows(batch)[r] = Compact(batch[r])
                                    /\ Length(CompactRows(batch)[r]) = Length(batch[r])
<1> DEFINE C == CompactRows(batch)
<1>1. DOMAIN batch = 1..Len(batch) /\ Len(batch) \in Nat /\ \A r \in DOMAIN batch : batch[r] \in RowsOfWidth(W, G)
  OBVIOUS
<1>2. \A r \in DOMAIN batch : /\ Compact(batch[r]) \in RowsOfWidth(W, G) /\ Compact(batch[r]).group = batch[r].group
                              /\ Length(Compact(batch[r])) = Length(batch[r])
  BY <1>1, CompactFacts
<1>3. DOMAIN C = DOMAIN batch /\ \A r \in DOMAIN batch : C[r] = Compact(batch[r])
  BY DEF CompactRows
<1>4. C \in [1..Len(batch) -> RowsOfWidth(W, G)]
  BY <1>1, <1>2 DEF CompactRows
<1> HIDE DEF C
<1>5. C \in Seq(RowsOfWidth(W, G))
  BY <1>1, <1>4, RuleIsSequence
<1>6. Together(C, i) = Together(batch, i)
  BY <1>2, <1>3 DEF Together
<1>7. RowsOf(C, i) = RowsOf(batch, i)
  BY <1>6 DEF RowsOf
<1> QED BY <1>1, <1>2, <1>3, <1>5, <1>7 DEF C

\* By number or by column of compact rows, returns and energies are the same.
LEMMA SameColumns ==
  ASSUME NEW W \in Nat, NEW G, NEW batch \in Seq(RowsOfWidth(W, G))
  PROVE  TurnReturns(batch) = TokenReturns(CompactRows(batch)) /\ TurnEnergy(batch) = TokenEnergy(CompactRows(batch))
<1> DEFINE C == CompactRows(batch)
<1>1. ASSUME NEW r \in DOMAIN batch
      PROVE  /\ PackedAt(batch[r], RewardsToGo(batch[r])) = RewardsToGo(C[r])
             /\ PackedAt(batch[r], Energy(batch[r])) = [t \in Tokens(C[r]) |-> Energy(C[r])[t] * C[r].mask[t]]
  <2> DEFINE row == batch[r]
             c == Compact(row)
             m == Length(row)
  <2>1. row \in RowsOfWidth(W, G) /\ C[r] = c
    BY CompactBatch
  <2> HIDE DEF row, C
  <2>2. m \in 0..W /\ c \in RowsOfWidth(W, G) /\ Packs(row, c, W)
    BY <2>1, CompactFacts
  <2>3. PacksSums(row, c, W)
    BY <2>1, SumsOfTokens
  <2> HIDE DEF c
  <2>4. Tokens(row) = 1..W /\ Tokens(c) = 1..W
    BY <2>1, <2>2, RowFacts
  <2>5. PackedAt(row, RewardsToGo(row)) = RewardsToGo(c)
    <3>1. \A k \in 1..W : RewardsToGo(c)[k] = IF k <= m THEN RewardsToGo(row)[Unmasked(row)[k]] ELSE 0
      <4> SUFFICES ASSUME NEW k \in 1..W
                   PROVE  RewardsToGo(c)[k] = IF k <= m THEN RewardsToGo(row)[Unmasked(row)[k]] ELSE 0
        OBVIOUS
      <4>1. CASE k <= m
        BY <2>2, <2>3, <4>1 DEF PacksSums
      <4>2. CASE ~(k <= m)
        BY <2>2, <2>3, <4>2 DEF PacksSums
      <4> QED BY <4>1, <4>2
    <3>2. RewardsToGo(c) = [k \in 1..W |-> RewardsToGo(c)[k]]
      BY <2>3 DEF PacksSums
    <3> QED BY <2>4, <3>1, <3>2 DEF PackedAt
  <2>6. PackedAt(row, Energy(row)) = [t \in Tokens(c) |-> Energy(c)[t] * c.mask[t]]
    <3>1. \A k \in 1..W : Energy(c)[k] \in Int
      <4> SUFFICES ASSUME NEW k \in 1..W PROVE Energy(c)[k] \in Int
        OBVIOUS
      <4> DEFINE s == [x \in 1..W |-> IF x <= k THEN c.weights[x] * c.mask[x] ELSE 0]
      <4>1. \A x \in 1..W : c.weights[x] \in Int /\ c.mask[x] \in {0, 1}
        BY <2>2 DEF RowsOfWidth
      <4>2. s \in [1..W -> Int]
        BY <4>1
      <4>3. Energy(c)[k] = Add(s)
        BY <2>4 DEF Energy
      <4> HIDE DEF s
      <4> QED BY <4>2, <4>3, RuleIsSequence, SumIsNumber
    <3>2. \A k \in 1..W : Energy(c)[k] * c.mask[k] = IF k <= m THEN Energy(row)[Unmasked(row)[k]] ELSE 0
      <4> SUFFICES ASSUME NEW k \in 1..W
                   PROVE  Energy(c)[k] * c.mask[k] = IF k <= m THEN Energy(row)[Unmasked(row)[k]] ELSE 0
        OBVIOUS
      <4>1. CASE k <= m
        <5>1. c.mask[k] = 1 /\ Energy(row)[Unmasked(row)[k]] = Energy(c)[k]
          BY <2>2, <2>3, <4>1 DEF PacksSums, Packs
        <5> QED BY <3>1, <4>1, <5>1
      <4>2. CASE ~(k <= m)
        BY <2>2, <3>1, <4>2 DEF Packs
      <4> QED BY <4>1, <4>2
    <3> QED BY <2>4, <3>2 DEF PackedAt
  <2> QED BY <2>1, <2>5, <2>6 DEF row
<1>2. DOMAIN C = DOMAIN batch
  BY DEF CompactRows
<1> HIDE DEF C
<1>3. TurnReturns(batch) = TokenReturns(C)
  BY <1>1, <1>2 DEF TurnReturns, TokenReturns
<1>4. TurnEnergy(batch) = TokenEnergy(C)
  BY <1>1, <1>2 DEF TurnEnergy, TokenEnergy
<1> QED BY <1>3, <1>4 DEF C

PacksBaselines(batch, c, i, zeroTail) ==
  \A k \in 1..Length(batch[i]) : TurnBaseline(batch, i, zeroTail)[Unmasked(batch[i])[k]] = TokenBaseline(c, i, zeroTail)[k]

\* The multi-turn token baseline is that of the compact rows.
LEMMA BaselinesOfTokens ==
  ASSUME NEW W \in Nat, NEW G, NEW batch \in Seq(RowsOfWidth(W, G)), NEW i \in DOMAIN batch,
         \A r \in DOMAIN batch : Length(batch[r]) > 0, NEW zeroTail \in BOOLEAN
  PROVE  PacksBaselines(batch, CompactRows(batch), i, zeroTail)
<1> DEFINE C == CompactRows(batch)
           rows == RowsOf(batch, i)
           m == Length(batch[i])
           u == Unmasked(batch[i])
           returns == TurnReturns(batch)
           energy == TurnEnergy(batch)
<1>1. /\ C \in Seq(RowsOfWidth(W, G)) /\ DOMAIN C = DOMAIN batch /\ RowsOf(C, i) = rows
      /\ \A r \in DOMAIN batch : Length(C[r]) = Length(batch[r])
      /\ batch[i] \in RowsOfWidth(W, G) /\ C[i] = Compact(batch[i])
  BY CompactBatch
<1>2. TokenReturns(C) = returns /\ TokenEnergy(C) = energy
  BY SameColumns
<1>3. Listed({r \in Together(batch, i) : Length(batch[r]) > 0}) = rows
  BY DEF Together, RowsOf
<1>4. \A n \in DOMAIN rows : rows[n] \in DOMAIN batch
  <2>1. rows \in [1..Cardinality(Together(batch, i)) -> Together(batch, i)] /\ Together(batch, i) \in SUBSET DOMAIN batch
    BY RowsTogether
  <2> QED BY <2>1
<1>5. m \in 0..W /\ Packs(batch[i], C[i], W) /\ C[i] \in RowsOfWidth(W, G)
  BY <1>1, CompactFacts
<1>6. Tokens(batch[i]) = 1..W /\ Tokens(C[i]) = 1..W
  BY <1>1, <1>5, RowFacts
<1> HIDE DEF C, rows, returns, energy
<1>7. ASSUME NEW k \in 1..m PROVE TurnBaseline(batch, i, zeroTail)[u[k]] = TokenBaseline(C, i, zeroTail)[k]
  <2> DEFINE t == u[k]
             nth == Cardinality({x \in Tokens(batch[i]) : x <= t /\ batch[i].mask[x] = 1})
  <2>1. t \in 1..W /\ Rank(TrainedTokens(batch[i]), t) = k
    BY <1>1, RankOfToken
  <2>2. batch[i].mask[t] = 1 /\ C[i].mask[k] = 1 /\ k \in 1..W
    BY <1>1, <1>5, CompactFacts DEF Climbs, Packs
  <2> HIDE DEF t
  <2>3. nth = k
    BY <2>1 DEF UpTo, TrainedTokens, Rank
  <2>4. TurnBaseline(batch, i, zeroTail)[t] = Minus(Whole(returns[i][nth]), BaselineAt(batch, rows, i, zeroTail, returns, energy, nth))
    BY <1>3, <1>6, <2>1, <2>2, Zenon DEF TurnBaseline, BaselineAt, returns, energy, TurnReturns, TurnEnergy, PackedAt
  <2>5. TokenBaseline(C, i, zeroTail)[k] = Minus(Whole(returns[i][k]), BaselineAt(C, rows, i, zeroTail, returns, energy, k))
    <3>1. TokenBaseline(C, i, zeroTail)[k] =
            Minus(Whole(TokenReturns(C)[i][k]), BaselineAt(C, RowsOf(C, i), i, zeroTail, TokenReturns(C), TokenEnergy(C), k))
      BY <1>6, <2>2, Zenon DEF TokenBaseline, BaselineAt, TokenReturns, TokenEnergy
    <3> QED BY <1>1, <1>2, <3>1
  <2> HIDE DEF nth
  <2>6. InZeroTail(batch, rows, i, k) <=> InZeroTail(C, rows, i, k)
    BY <1>1, <1>4 DEF InZeroTail
  <2> QED BY <2>3, <2>4, <2>5, <2>6 DEF BaselineAt, t
<1> QED BY <1>7 DEF PacksBaselines, C

\* Observation tokens do not count, for any rows whose responses have a token,
\* any discounts and either treatment of the tail: GAE and the multi-turn token
\* baseline give the other tokens what they give them without observations, and
\* the running return of REINFORCE++ is then the reward to go (core_algos.py).
THEOREM MaskedTokensNeverCount ==
  ASSUME NEW W \in Nat, NEW G, NEW batch \in Seq(RowsOfWidth(W, G)),
         \A r \in DOMAIN batch : Length(batch[r]) > 0,
         NEW gamma \in Fraction, NEW lam \in Fraction, NEW zeroTail \in BOOLEAN
  PROVE  MaskedTokensDoNotCount(batch, gamma, lam, zeroTail)
<1> DEFINE C == CompactRows(batch)
<1> SUFFICES ASSUME NEW i \in DOMAIN batch
             PROVE  /\ AtUnmasked(batch[i], Gae(batch[i], gamma, lam)) = AtUnmasked(C[i], Gae(C[i], gamma, lam))
                    /\ AtUnmasked(batch[i], TurnBaseline(batch, i, zeroTail)) = AtUnmasked(C[i], TokenBaseline(C, i, zeroTail))
                    /\ AtUnmasked(C[i], ReinforceReturns(C[i])) = AtUnmasked(C[i], RewardsToGo(C[i]))
                    /\ AtUnmasked(C[i], RewardsToGo(C[i])) = AtUnmasked(batch[i], RewardsToGo(batch[i]))
  BY Zenon DEF MaskedTokensDoNotCount, CompactRows
<1> DEFINE row == batch[i]
           c == C[i]
           m == Length(row)
           u == Unmasked(row)
<1>1. row \in RowsOfWidth(W, G) /\ c = Compact(row)
  BY CompactBatch
<1>2. PacksBaselines(batch, C, i, zeroTail)
  BY BaselinesOfTokens
<1> HIDE DEF C, row
<1>3. m \in 0..W /\ c \in RowsOfWidth(W, G) /\ Packs(row, c, W) /\ Unmasked(c) = [k \in 1..m |-> k]
  BY <1>1, CompactFacts
<1>4. PacksGae(row, c, gamma, lam) /\ PacksSums(row, c, W)
  BY <1>1, GaeOfTokens, SumsOfTokens
<1>5. DOMAIN u = 1..m
  BY <1>1, RowFacts
<1> HIDE DEF c, m, u
<1>6. \A s : AtUnmasked(row, s) = [k \in 1..m |-> s[u[k]]]
  BY <1>5 DEF AtUnmasked, u
<1>7. \A s : AtUnmasked(c, s) = [k \in 1..m |-> s[k]]
  BY <1>3 DEF AtUnmasked
<1>0. ASSUME NEW s, NEW t, \A k \in 1..m : s[u[k]] = t[k] PROVE AtUnmasked(row, s) = AtUnmasked(c, t)
  <2>1. [k \in 1..m |-> s[u[k]]] = [k \in 1..m |-> t[k]]
    BY <1>0
  <2> QED BY <1>6, <1>7, <2>1, Zenon
<1>8. \A k \in 1..m : Gae(row, gamma, lam)[u[k]] = Gae(c, gamma, lam)[k]
  BY <1>4 DEF PacksGae, m, u
<1>9. \A k \in 1..m : TurnBaseline(batch, i, zeroTail)[u[k]] = TokenBaseline(C, i, zeroTail)[k]
  BY <1>2 DEF PacksBaselines, m, u, row
<1>10. \A k \in 1..m : RewardsToGo(row)[u[k]] = RewardsToGo(c)[k]
  BY <1>4 DEF PacksSums, m, u
<1>11. \A k \in 1..m : ReinforceReturns(c)[k] = RewardsToGo(c)[k]
  <2>1. FirstOnly(c, m, W)
    BY <1>3 DEF Packs, m, FirstOnly
  <2>2. \A t \in 1..W : ReinforceReturns(c)[t] = RewardsToGo(c)[t]
    BY <1>3, <2>1, ReturnsToGo
  <2>3. \A k \in 1..m : k \in 1..W
    BY <1>3
  <2> QED BY <2>2, <2>3
<1>12. AtUnmasked(row, Gae(row, gamma, lam)) = AtUnmasked(c, Gae(c, gamma, lam))
  BY <1>0, <1>8, Zenon
<1>13. AtUnmasked(row, TurnBaseline(batch, i, zeroTail)) = AtUnmasked(c, TokenBaseline(C, i, zeroTail))
  BY <1>0, <1>9, Zenon
<1>14. AtUnmasked(c, ReinforceReturns(c)) = AtUnmasked(c, RewardsToGo(c))
  BY <1>7, <1>11
<1>15. AtUnmasked(c, RewardsToGo(c)) = AtUnmasked(row, RewardsToGo(row))
  BY <1>0, <1>10, Zenon
<1> QED BY <1>12, <1>13, <1>14, <1>15 DEF row, c

\* The rows that MCAlgorithms chooses.
LEMMA RowsAreRows ==
  ASSUME NEW row \in Rows, NEW g \in Int
  PROVE  [row EXCEPT !.group = g] \in RowsOfWidth(3, Int) /\ Length([row EXCEPT !.group = g]) > 0
<1>1. PICK m \in SUBSET (1..3), r \in SUBSET (1..3), odd \in BOOLEAN :
        /\ m # {}
        /\ row = [mask |-> [t \in 1..3 |-> IF t \in m THEN 1 ELSE 0], rewards |-> [t \in 1..3 |-> IF t \in r THEN 1 ELSE 0],
                  values |-> IF odd THEN <<1, 2, 3>> ELSE <<2, 0, 1>>, weights |-> IF odd THEN <<1, 2, 1>> ELSE <<3, 1, 2>>,
                  group |-> 1]
  BY DEF Rows
<1> DEFINE new == [row EXCEPT !.group = g]
           mask == [t \in 1..3 |-> IF t \in m THEN 1 ELSE 0]
           rewards == [t \in 1..3 |-> IF t \in r THEN 1 ELSE 0]
           values == IF odd THEN <<1, 2, 3>> ELSE <<2, 0, 1>>
           weights == IF odd THEN <<1, 2, 1>> ELSE <<3, 1, 2>>
<1>2. mask \in [1..3 -> {0, 1}] /\ rewards \in [1..3 -> Int]
  OBVIOUS
<1>3. values \in [1..3 -> Int] /\ weights \in [1..3 -> Nat \ {0}]
  OBVIOUS
<1>4. new = [mask |-> mask, rewards |-> rewards, values |-> values, weights |-> weights, group |-> g]
  BY <1>1
<1>5. \E t \in 1..3 : mask[t] = 1
  BY <1>1
<1> HIDE DEF new, mask, rewards, values, weights
<1>6. new \in RowsOfWidth(3, Int) /\ new.mask = mask
  BY <1>2, <1>3, <1>4 DEF RowsOfWidth
<1>7. TrainedTokens(new) # {} /\ IsFiniteSet(TrainedTokens(new)) /\ Length(new) = Cardinality(TrainedTokens(new)) /\ Length(new) \in Nat
  <2>1. /\ Tokens(new) = 1..3 /\ TrainedTokens(new) \in SUBSET (1..3)
        /\ Length(new) = Cardinality(TrainedTokens(new)) /\ Length(new) \in Nat
    BY <1>6, RowFacts
  <2>2. IsFiniteSet(TrainedTokens(new))
    BY <2>1, RankFacts
  <2> QED BY <1>5, <1>6, <2>1, <2>2 DEF TrainedTokens
<1>8. Length(new) > 0
  BY <1>7, FS_EmptySet
<1> QED BY <1>6, <1>8 DEF new

LEMMA ChooseRowsSound == ChooseRows => EstimatorsAgree'
<1> SUFFICES ASSUME NEW rows \in SequencesOf(PossibleRows, {1}) \cup (PossibleRows \X MoreRows) \cup [1..3 -> FewRows],
                    NEW numbers \in {<<1, 1, 1>>, <<1, 2, 1>>}, NEW decay \in {One, Half},
                    input' = [kind |-> "estimators", chosen |-> TRUE, rows |-> InGroups(rows, numbers), gamma |-> decay,
                              lam |-> decay, zeroTail |-> decay = One]
             PROVE  EstimatorsAgree'
  BY DEF ChooseRows
<1> DEFINE batch == InGroups(rows, numbers)
           zeroTail == decay = One
<1>1. PICK n \in 1..3 : DOMAIN rows = 1..n /\ \A i \in 1..n : rows[i] \in Rows
  BY DEF PossibleRows, MoreRows, FewRows, SequencesOf
<1>2. \A i \in 1..3 : numbers[i] \in Int
  OBVIOUS
<1>3. batch = [i \in 1..n |-> [rows[i] EXCEPT !.group = numbers[i]]]
  BY <1>1 DEF InGroups
<1> HIDE DEF batch
<1>4. ASSUME NEW i \in 1..n PROVE batch[i] \in RowsOfWidth(3, Int) /\ Length(batch[i]) > 0
  BY <1>1, <1>2, <1>3, RowsAreRows
<1>5. batch \in Seq(RowsOfWidth(3, Int)) /\ DOMAIN batch = 1..n
  <2>1. batch \in [1..n -> RowsOfWidth(3, Int)] /\ n \in Nat
    BY <1>3, <1>4
  <2> QED BY <2>1, RuleIsSequence
<1>6. decay \in Fraction /\ zeroTail \in BOOLEAN
  <2>1. One \in Fraction
    BY DEF One, Whole, Fraction
  <2>2. Half \in Fraction
    BY FracIs DEF Half
  <2> QED BY <2>1, <2>2
<1> HIDE DEF zeroTail
<1>7. MaskedTokensDoNotCount(batch, decay, decay, zeroTail)
  BY <1>4, <1>5, <1>6, MaskedTokensNeverCount
<1>8. VariantsAgree(batch)
  BY <1>4, <1>5, VariantsAlwaysAgree
<1>9. input'.rows = batch /\ input'.gamma = decay /\ input'.lam = decay /\ input'.zeroTail = zeroTail
  BY DEF batch, zeroTail
<1> QED BY <1>7, <1>8, <1>9, Zenon DEF EstimatorsAgree

\* Whatever rows, groups and discounts are chosen, observation tokens do not
\* count and the estimators agree where their baselines do (core_algos.py).
THEOREM EstimatorsAlwaysAgree == AlgorithmsSpec => []EstimatorsAgree
<1>1. AlgorithmsInit => EstimatorsAgree
  BY DEF AlgorithmsInit, EstimatorsAgree, Chosen
<1>2. EstimatorsAgree /\ [AlgorithmsNext]_input => EstimatorsAgree'
  BY ChooseRowsSound, OneAction DEF EstimatorsAgree, Chosen
<1> QED BY <1>1, <1>2, PTL DEF AlgorithmsSpec
=============================================================================
