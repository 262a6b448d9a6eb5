-------------------------- MODULE StructuralReward --------------------------
(***************************************************************************)
(* The structural reward r4 (reward/clusters.py StructuralCluster,         *)
(* reward/default_reward.py): how far the model a program builds agrees    *)
(* with those of the other rollouts.  A model is its features (sense,      *)
(* numbers of variables of each kind and of constraints), a function with  *)
(* a common domain; a rollout without a complete model has NoModel.        *)
(*                                                                         *)
(* r4 is the sum over the features of sqrt(agreement), divided by their    *)
(* number times sqrt(capacity) and cut to [0, 1].  Agreements and capacity *)
(* are exact here, the roots are not taken.                                *)
(***************************************************************************)
EXTENDS Integers, Sequences, FiniteSets, SequencesExt, Fractions

CONSTANTS
  NoModel,
  DecayNum, DecayDen,       \* r4_decay, per iteration
  StructAlphaNum, StructAlphaDen,   \* r4_alpha
  StructK                   \* r4_k

ASSUME StructureAssumption ==
  /\ DecayNum \in Nat /\ DecayDen \in Nat \ {0} /\ DecayNum <= DecayDen
  /\ StructAlphaNum \in Nat /\ StructAlphaDen \in Nat \ {0}
  /\ StructK \in Nat

\* The samples that have a model, and the number of all of them.
NoStructures == [samples |-> << >>, total |-> 0]

\* add_sample: a rollout without a model counts in the total only.
AddSample(structures, model, iter) ==
  [samples |-> IF model = NoModel THEN structures.samples
               ELSE Append(structures.samples, [model |-> model, iter |-> iter]),
   total |-> structures.total + 1]

\* decay ** n
Decay[n \in Nat] == IF n = 0 THEN One ELSE Times(Decay[n - 1], Frac(DecayNum, DecayDen))

Weight(sample, iter) == Decay[IF iter >= sample.iter THEN iter - sample.iter ELSE 0]

\* What an earlier rollout adds to the agreement of a feature.
Vote(sample, iter, model, feature) ==
  IF sample.model[feature] = model[feature] THEN Weight(sample, iter) ELSE Zero

\* _prepare_structural_group: model -> how many rollouts of the group have it.
ModelCounts(models) ==
  [m \in ToSet(models) \ {NoModel} |-> Cardinality({i \in DOMAIN models : models[i] = m})]

\* psi of one feature: the earlier rollouts by their age, and those of the
\* group with the same value.
Agreement(structures, models, iter, model, feature) ==
  LET counts == ModelCounts(models)
      same == SetToSeq({m \in DOMAIN counts : m[feature] = model[feature]})
      old == structures.samples
  IN  Plus(Sum([n \in DOMAIN old |-> Vote(old[n], iter, model, feature)]),
           Sum([n \in DOMAIN same |-> Whole(counts[same[n]])]))

\* Mutation: samples without a model do not count.
MutantCapacity(structures, models, localScope) ==
  LET different == Cardinality(DOMAIN ModelCounts(models))
      k == IF localScope /\ different > StructK THEN different ELSE StructK
  IN  Plus(Whole(Len(structures.samples) + Len(models)), Frac(StructAlphaNum * k, StructAlphaDen))

\* What the agreements are compared with: all samples, those without a model
\* too, and alpha for each of k; in local scope k grows with the models.
Capacity(structures, models, localScope) ==
  LET different == Cardinality(DOMAIN ModelCounts(models))
      k == IF localScope /\ different > StructK THEN different ELSE StructK
  IN  Plus(Whole(structures.total + Len(models)), Frac(StructAlphaNum * k, StructAlphaDen))

\* preview_r4, _compute_local_r4: what r4 is computed from.
Preview(structures, models, iter, model, localScope) ==
  LET known == IF localScope THEN NoStructures ELSE structures IN
  [agreement |-> [f \in DOMAIN model |-> Agreement(known, models, iter, model, f)],
   capacity |-> Capacity(known, models, localScope)]

\* What a scored group leaves behind in global scope.
AfterModels(structures, models, iter) ==
  FoldLeft(LAMBDA s, model : AddSample(s, model, iter), structures, models)
-----------------------------------------------------------------------------
\* r4 needs no cutting: an agreement is never more than the capacity, and a
\* rollout of the group at least agrees with itself.  What is committed counts
\* as it was previewed, rollouts without a model included, and weighs no more
\* an iteration later; local scope sees a part of what global scope does, and
\* the same in the first group.
StructureSound(structures, models, iter) ==
  \A i \in {n \in DOMAIN models : models[n] # NoModel} :
    LET whole == Preview(structures, models, iter, models[i], FALSE)
        alone == Preview(structures, models, iter, models[i], TRUE)
        after == AfterModels(structures, models, iter)
        later == Preview(after, << >>, iter + 1, models[i], FALSE)
    IN  /\ Preview(after, << >>, iter, models[i], FALSE) = whole
        /\ later.capacity = whole.capacity
        /\ \A f \in DOMAIN models[i] :
             /\ AtMost(One, alone.agreement[f]) /\ AtMost(alone.agreement[f], alone.capacity)
             /\ AtMost(alone.agreement[f], whole.agreement[f]) /\ AtMost(whole.agreement[f], whole.capacity)
             /\ AtMost(later.agreement[f], whole.agreement[f])
        /\ structures = NoStructures => whole.agreement = alone.agreement
=============================================================================
