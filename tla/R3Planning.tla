----------------------------- MODULE R3Planning -----------------------------
(***************************************************************************)
(* The robustness (r3) cases of the tasks of a run: two planner texts for  *)
(* each sample, generated in one call, parsed into a base scale and        *)
(* patched instances (ppo/staror_fit.py, reward/r3_batch_planner.py), and  *)
(* the heuristic perturbation that replaces them where no plan is needed   *)
(* (reward/perturbation.py).                                               *)
(*                                                                         *)
(* A sample has an instance (key -> a number, or NoNumber for any other    *)
(* value), features (id -> key) and the default scale of its context.  A   *)
(* text that does not parse is NoText; otherwise it is [scale] for the     *)
(* first job of a sample and [tests] for the second.  A test is [patches,  *)
(* scale], a patch is [fid, op, value].                                    *)
(*                                                                         *)
(* An int n is [whole |-> TRUE, n |-> n].  A finite float is [whole |->    *)
(* FALSE, n |-> n] and counted in fractions of 1.0, FloatOne of them; so   *)
(* is the value of a patch.                                                *)
(***************************************************************************)
EXTENDS Integers, Sequences, FiniteSets, SequencesExt, FiniteSetsExt, ObjectiveScale

CONSTANTS
  NoText, NoNumber, NoScale,
  Unit,                     \* 1.0 in the units of the objectives, which are finer
  Grain,                    \* the last digit round(_, 6) keeps, in fractions of 1.0
  PerCent                   \* how many of these digits make 0.01

FloatOne == 100 * PerCent * Grain

ASSUME PlanningAssumption ==
  /\ Unit \in Nat \ {0, 1} /\ Grain \in Nat \ {0} /\ PerCent \in Nat \ {0}
  /\ NoNumber \notin Int /\ NoNumber \notin [whole : BOOLEAN, n : Int]

\* round(): halves to the even neighbour.
Rounded(n, d) ==
  LET down == n \div d
      twice == 2 * (n - d * down)
  IN  IF twice < d \/ (twice = d /\ down % 2 = 0) THEN down ELSE down + 1

\* The patched value of a number, in fractions of 1.0 if it is a float.
NewNumber(patch, old) ==
  LET whole(f) == Rounded(f, FloatOne) IN
  IF old.whole
  THEN CASE patch.op = "scale" -> whole(old.n * patch.value)
         [] patch.op = "shift" -> whole(old.n * FloatOne + patch.value)
         [] patch.op = "replace" -> whole(patch.value)
  ELSE CASE patch.op = "scale" -> (old.n * patch.value) \div FloatOne
         [] patch.op = "shift" -> old.n + patch.value
         [] patch.op = "replace" -> patch.value

\* An int stays an int.
NewValue(patch, old) == [old EXCEPT !.n = NewNumber(patch, old)]

\* _normalize_patch: a patch that names no numeric key, or has no number of
\* its own, is left out.
Usable(patch, features, instance) ==
  /\ patch.fid \in DOMAIN features
  /\ features[patch.fid] \in DOMAIN instance
  /\ instance[features[patch.fid]] # NoNumber
  /\ patch.value # NoNumber

Patched(state, patch, features) ==
  IF ~Usable(patch, features, state.instance) THEN state
  ELSE LET key == features[patch.fid]
           old == state.instance[key]
           new == NewValue(patch, old)
       IN  [state EXCEPT !.instance[key] = new,
                         !.patches = Append(@, [key |-> key, old |-> old, new |-> new])]

\* _has_valid_scale
ValidScale(s) ==
  \/ s.kind = "point" /\ s.point # Unbounded
  \/ s.kind = "union" /\ s.ranges # << >>
  \/ s.kind = "interval" /\ Bounded(s.ranges[1])
  \/ s.sign # "any"
  \/ s.minOrder # Unbounded \/ s.maxOrder # Unbounded

\* A range around the same centre, six fifths as wide and at least 2 wide.
Stretched(r) ==
  IF r.lower = Unbounded \/ r.upper = Unbounded THEN r
  ELSE LET center == (r.lower + r.upper) \div 2
           half == Max({Unit, (Magnitude(r.upper - r.lower) * 3) \div 5})
       IN  [lower |-> center - half, upper |-> center + half]

\* _expand_scale with its factor of 1.2 and _expand_magnitude
StretchedScale(s) ==
  LET orders == [s EXCEPT !.minOrder = IF @ = Unbounded THEN @ ELSE @ - 1,
                          !.maxOrder = IF @ = Unbounded THEN @ ELSE @ + 1]
      tol == Max({Magnitude(s.point) \div 5, IF s.tolAbs = 0 THEN Unit ELSE s.tolAbs})
  IN  IF s.kind # "point" THEN [orders EXCEPT !.ranges = [i \in DOMAIN @ |-> Stretched(@[i])]]
      ELSE IF s.point = Unbounded
      THEN [orders EXCEPT !.kind = "interval", !.ranges = <<[lower |-> Unbounded, upper |-> Unbounded]>>]
      ELSE [orders EXCEPT !.tolAbs = (tol * 6) \div 5]

\* What _force_closed_interval_scale closes no test looks at.
ScaleOr(raw, fallback) ==
  Expanded(Normalized(IF raw = NoScale \/ ~ValidScale(Normalized(raw)) THEN fallback ELSE raw))

\* One case of _normalize_llm_plan
CaseOf(test, sample, base) ==
  LET start == [base |-> sample.instance, instance |-> sample.instance, patches |-> << >>]
      final == FoldLeft(LAMBDA state, p : Patched(state, p, sample.features), start, test.patches)
  IN  [instance |-> final.instance, patches |-> final.patches,
       scale |-> ScaleOr(test.scale, StretchedScale(base))]

Disabled(sample) == [source |-> "disabled", base |-> ScaleOr(NoScale, sample.default), cases |-> << >>]

\* build_sample_r3_plan without the heuristic, attach_r3_plan_to_instance: a
\* test none of whose patches can be used is dropped, and a plan without any
\* case is worth nothing, its base scale included.
PlanOf(sample, baseText, testsText) ==
  LET base == ScaleOr(IF baseText = NoText THEN NoScale ELSE baseText.scale, sample.default)
      tests == IF testsText = NoText THEN << >> ELSE testsText.tests
      built == [n \in DOMAIN tests |-> CaseOf(tests[n], sample, base)]
      cases == Selected(built, {n \in DOMAIN built : built[n].patches # << >>})
  IN  IF cases = << >> THEN Disabled(sample)
      ELSE [source |-> "llm_split", base |-> base, cases |-> cases]

\* Mutation: the jobs are taken for all base scales first and all tests then.
MutantJobOf(i, kind, n) == IF kind = "base" THEN i ELSE n + i

\* prompt_jobs: two for each sample.
JobOf(i, kind, n) == IF kind = "base" THEN 2 * i - 1 ELSE 2 * i

\* _prepare_r3_for_samples; outputs may be shorter than the jobs.
Prepared(samples, outputs) ==
  LET text(i, kind) == LET job == JobOf(i, kind, Len(samples)) IN
                       IF job <= Len(outputs) THEN outputs[job] ELSE NoText
  IN  [i \in DOMAIN samples |-> PlanOf(samples[i], text(i, "base"), text(i, "tests"))]
-----------------------------------------------------------------------------
(* generate_perturbed_instances_from_map over the keys in focus            *)

Downwards(caseIdx, localIdx) == (caseIdx + localIdx) % 2 = 0

Turn(caseIdx, localIdx) == (caseIdx + localIdx) % 3

\* Hundredths of a number moved by 8, 12 or 16 percent.
Scaled(n, caseIdx, localIdx) ==
  LET percent == 8 + 4 * Turn(caseIdx, localIdx)
  IN  n * (IF Downwards(caseIdx, localIdx) THEN 100 - percent ELSE 100 + percent)

\* An int moves by 1 at least, and not below zero.
PerturbedWhole(n, caseIdx, localIdx) ==
  LET moved == Rounded(Scaled(n, caseIdx, localIdx), 100)
      new == IF moved # n THEN moved ELSE IF Downwards(caseIdx, localIdx) THEN n - 1 ELSE n + 1
  IN  IF n >= 0 /\ new < 0 THEN 0 ELSE new

\* Mutation: a share is not kept between 0.0 and 1.0.
MutantPerturbedSmall(n, caseIdx, localIdx) ==
  LET step == (3 + 2 * Turn(caseIdx, localIdx)) * PerCent * Grain
  IN  Grain * Rounded(IF Downwards(caseIdx, localIdx) THEN n - step ELSE n + step, Grain)

\* A float between -1.0 and 1.0 moves by 0.03, 0.05 or 0.07; a share stays one.
PerturbedSmall(n, caseIdx, localIdx) ==
  LET step == (3 + 2 * Turn(caseIdx, localIdx)) * PerCent * Grain
      moved == IF Downwards(caseIdx, localIdx) THEN n - step ELSE n + step
      kept == IF n < 0 THEN moved ELSE IF moved < 0 THEN 0
              ELSE IF moved > FloatOne THEN FloatOne ELSE moved
  IN  Grain * Rounded(kept, Grain)

PerturbedLarge(n, caseIdx, localIdx) ==
  Grain * Rounded(Scaled(n, caseIdx, localIdx), 100 * Grain)

\* _perturb_value
PerturbedValue(old, caseIdx, localIdx) ==
  [old EXCEPT !.n =
     IF old.whole THEN PerturbedWhole(@, caseIdx, localIdx)
     ELSE IF Magnitude(@) <= FloatOne THEN PerturbedSmall(@, caseIdx, localIdx)
     ELSE PerturbedLarge(@, caseIdx, localIdx)]

\* The keys of case number caseIdx, from 0: one, two or three in a row of a
\* focus that may hold a key twice.
PickedKeys(focus, caseIdx) ==
  [n \in 1..(1 + (caseIdx % Min({3, Len(focus)}))) |-> focus[((caseIdx + n - 1) % Len(focus)) + 1]]

\* The last place of a key decides; each starts from the value of the base.
LastPlace(picked, key) == Max({n \in DOMAIN picked : picked[n] = key})

PerturbedInstance(instance, focus, caseIdx) ==
  LET picked == PickedKeys(focus, caseIdx)
  IN  [key \in DOMAIN instance |->
         IF key \in ToSet(picked)
         THEN PerturbedValue(instance[key], caseIdx, LastPlace(picked, key) - 1)
         ELSE instance[key]]
-----------------------------------------------------------------------------
(* What the planning promises                                              *)

\* A sample is planned as if it were alone, whatever the texts of the others
\* are and wherever the outputs end.
PlannedAlone(samples, outputs) ==
  \A i \in DOMAIN samples :
    LET own == SubSeq(outputs, 2 * i - 1, Min({2 * i, Len(outputs)})) IN
    Prepared(samples, outputs)[i] = Prepared(<<samples[i]>>, own)[1]

\* A case is the base instance but for the keys it lists, and the list tells
\* how each of them got its value: a patch starts from what the one before it,
\* of the same key, has left.
CasesExplainThemselves(samples, outputs) ==
  \A i \in DOMAIN samples :
    LET plan == Prepared(samples, outputs)[i]
        base == samples[i].instance
    IN  /\ (plan.source = "disabled") <=> (plan.cases = << >>)
        /\ \A n \in DOMAIN plan.cases :
             LET c == plan.cases[n]
                 before(key, m) == {l \in 1..(m - 1) : c.patches[l].key = key}
                 value(key, m) == IF before(key, m) = {} THEN base[key]
                                  ELSE c.patches[Max(before(key, m))].new
             IN  /\ DOMAIN c.instance = DOMAIN base
                 /\ \A m \in DOMAIN c.patches : /\ c.patches[m].key \in DOMAIN base
                                                /\ c.patches[m].old = value(c.patches[m].key, m)
                 /\ \A key \in DOMAIN base : c.instance[key] = value(key, Len(c.patches) + 1)

\* A case for which the planner gave no scale accepts every objective the base
\* instance does.
DefaultScaleIsWider(v, raw) ==
  LET base == ScaleOr(raw, raw) IN
  Matches(v, base) => Matches(v, ScaleOr(NoScale, StretchedScale(base)))

\* Where there is no room to move: a zero does not go down (0.0 neither), and 1.0
\* does not go up.
NoRoom(value, caseIdx, localIdx) ==
  IF Downwards(caseIdx, localIdx) THEN value.n = 0 ELSE ~value.whole /\ value.n = FloatOne

\* A perturbed instance differs from its base in each key it picked and in no
\* other, except where a value has no room to move: such a case may be the base
\* instance itself.  Ints stay ints, nothing turns negative, a share between 0.0
\* and 1.0 remains one, and a focus without repetitions is picked without any.
PerturbationMoves(instance, focus, caseIdx) ==
  LET picked == PickedKeys(focus, caseIdx)
      changed == PerturbedInstance(instance, focus, caseIdx)
  IN  /\ \A key \in DOMAIN instance \ ToSet(picked) : changed[key] = instance[key]
      /\ \A key \in ToSet(picked) :
           LET old == instance[key]
               new == changed[key]
           IN  /\ (new = old) <=> NoRoom(old, caseIdx, LastPlace(picked, key) - 1)
               /\ new.whole = old.whole
               /\ old.n >= 0 => new.n >= 0
               /\ ~old.whole /\ old.n \in 0..FloatOne => new.n \in 0..FloatOne
      /\ IsInjective(focus) => Cardinality(ToSet(picked)) = Len(picked)
=============================================================================
