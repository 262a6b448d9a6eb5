---------------------------- MODULE MCAlgorithms ----------------------------
(***************************************************************************)
(* The pure algorithms of the repository on all inputs within small        *)
(* bounds: a step chooses the input of one algorithm, and the properties   *)
(* relate what the algorithm computes from it to what it promises.         *)
(***************************************************************************)
EXTENDS ConsensusReward, StructuralReward, R3Planning, GrpoGroup, Advantages, BatchDispatch

VARIABLE input              \* [kind |-> an algorithm] and its arguments

Algorithms == {"clusters", "totals", "structure", "scale", "plan", "perturb", "group", "estimators",
               "partition", "micro", "uids", "loss", "dispatch"}

\* Sequences over S of a length in N.
SequencesOf(S, N) == UNION {[1..n -> S] : n \in N}

MCWeights == [early |-> <<2, 5, 2, 1>>, middle |-> <<4, 4, 1, 1>>, late |-> <<6, 2, 1, 1>>]

Asks(kind) == input = [kind |-> kind]
-----------------------------------------------------------------------------
(* Rewards: a tolerance of 1 percent, so 10000, 10060 and 10120 are a      *)
(* chain whose ends are apart, on both sides of zero.                      *)

Printed(obj) ==
  [code |-> TRUE, run |-> "ok", obj |-> obj, inScale |-> TRUE, r4 |-> Zero, cases |-> << >>]

Objectives == {NoObjective, 0, 10000, 10060, 10120, 10180, -10000, -10060}

AllPrinted(objs) == [i \in DOMAIN objs |-> Printed(objs[i])]

Remembered == {10000, 10060, 10120}

\* An empty memory, and one of an earlier group.
Memories ==
  {EmptyMemory} \cup {AfterGroup(EmptyMemory, AllPrinted(objs), FALSE) : objs \in SequencesOf(Remembered, {2})}

ChooseClusters ==
  /\ Asks("clusters")
  /\ \E objs \in SequencesOf(Objectives, 1..3), mem \in Memories, localScope \in BOOLEAN :
       /\ localScope => mem = EmptyMemory
       /\ input' = [kind |-> "clusters", chosen |-> TRUE, mem |-> mem, localScope |-> localScope,
                    g |-> AllPrinted(objs)]

Half == Frac(1, 2)

Outcomes ==
  {Printed(10000), Printed(0), Printed(-10000), [Printed(10000) EXCEPT !.inScale = FALSE, !.r4 = One],
   [Printed(10000) EXCEPT !.run = "timeout", !.cases = <<"failed">>],
   [Printed(NoObjective) EXCEPT !.run = "quiet", !.r4 = Half, !.cases = <<"passed", "offScale", "failed">>],
   [Printed(NoObjective) EXCEPT !.run = "error", !.code = FALSE],
   [Printed(10060) EXCEPT !.run = "marked", !.r4 = Half, !.cases = <<"passed", "passed">>]}

RewardSettings ==
  {[r3On |-> r3, r4On |-> r4, dynamic |-> n # 0, force |-> FALSE, iter |-> n, planned |-> planned,
    multiplier |-> 5] : r3, r4, planned \in BOOLEAN, n \in {0, 3, 4, 6}}

ChooseTotals ==
  /\ Asks("totals")
  /\ \E g \in SequencesOf(Outcomes, 1..2), mem \in Memories, localScope \in BOOLEAN, s \in RewardSettings :
       /\ localScope => mem = EmptyMemory
       /\ mem.total > 0 => mem.leaders[1] = 10000
       /\ input' = [kind |-> "totals", chosen |-> TRUE, mem |-> mem, localScope |-> localScope,
                    g |-> g, settings |-> s]

\* Models in two of the features, and two earlier groups.
Models == [{"sense", "vars"} -> {1, 2}] \cup {NoModel}

ChooseStructures ==
  /\ Asks("structure")
  /\ \E first \in SequencesOf(Models, 0..2), second \in SequencesOf(Models, 0..1),
        models \in SequencesOf(Models, 1..2) :
       input' = [kind |-> "structure", chosen |-> TRUE, models |-> models, iter |-> 3,
                 structures |-> AfterModels(AfterModels(NoStructures, first, 1), second, 2)]
-----------------------------------------------------------------------------
(* Scales in steps of 1.0, which is 100 here so that no division rounds.   *)

Edges == {Unbounded, -20000, -300, 0, 100, 20000}
Ranges == [lower : Edges, upper : Edges]
Orders == {<<Unbounded, Unbounded>>, <<2, 3>>, <<4, 2>>, <<Unbounded, 2>>}

ScaleOf(kind, ranges, point, tolAbs, sign, orders) ==
  [kind |-> kind, ranges |-> ranges, point |-> point, tolAbs |-> tolAbs, tolPercent |-> 5, sign |-> sign,
   minOrder |-> orders[1], maxOrder |-> orders[2], useAbs |-> sign # "any", reject |-> {0}]

Scales ==
  {ScaleOf("interval", <<r>>, Unbounded, 0, sign, o) :
     r \in Ranges, sign \in {"any", "nonnegative", "nonpositive"}, o \in Orders}
  \cup {ScaleOf("union", <<r, q>>, Unbounded, 0, sign, <<4, 2>>) :
     r \in Ranges, q \in {s \in Ranges : s.lower \in {Unbounded, 100}}, sign \in {"any", "nonzero"}}
  \cup {ScaleOf("point", << >>, p, tolAbs, sign, o) :
     p \in Edges, tolAbs \in {0, 500}, sign \in {"any", "positive", "negative"}, o \in Orders}

Probes == {-22000, -20000, -330, -100, 0, 10, 100, 110, 1000, 20000}

ChooseScale ==
  /\ Asks("scale")
  /\ \E raw \in Scales, v \in Probes :
       input' = [kind |-> "scale", chosen |-> TRUE, raw |-> raw, v |-> v]
-----------------------------------------------------------------------------
(* Planning: two samples that differ in everything, and every pair of      *)
(* patches, by halves.                                                     *)

Interval(lo, hi) == ScaleOf("interval", <<[lower |-> lo, upper |-> hi]>>, Unbounded, 0, "any", <<Unbounded, Unbounded>>)

AnInt(v) == [whole |-> TRUE, n |-> v]
AFloat(v) == [whole |-> FALSE, n |-> v]

Samples ==
  <<[instance |-> [a |-> AnInt(3), b |-> AnInt(10)], features |-> [f1 |-> "a", f2 |-> "b"], default |-> Interval(0, 100)],
    [instance |-> [a |-> AFloat((3 * FloatOne) \div 2), c |-> NoNumber], features |-> [f1 |-> "a", f2 |-> "c", f3 |-> "d"],
     default |-> Interval(Unbounded, Unbounded)]>>

Patches ==
  {[fid |-> f, op |-> op, value |-> v] : f \in {"f1", "f2", "f4"}, op \in {"scale", "shift", "replace"},
                                         v \in {NoNumber, 0, FloatOne \div 2}}

BaseTexts == {NoText, [scale |-> NoScale], [scale |-> Interval(100, 20000)]}
TestsTexts ==
  {NoText, [tests |-> << >>]} \cup
  {[tests |-> <<[patches |-> <<[fid |-> "f1", op |-> "shift", value |-> v]>>, scale |-> Interval(0, 300)],
               [patches |-> <<[fid |-> "f2", op |-> "replace", value |-> v]>>, scale |-> NoScale]>>] :
     v \in {FloatOne, 2 * FloatOne}}

ChoosePlan ==
  /\ Asks("plan")
  /\ \/ \E n \in 1..2, texts \in (BaseTexts \X TestsTexts \X BaseTexts \X TestsTexts), len \in 0..4 :
          /\ len <= 2 * n
          /\ input' = [kind |-> "plan", chosen |-> TRUE, samples |-> SubSeq(Samples, 1, n),
                       outputs |-> SubSeq(texts, 1, len)]
     \/ \E n \in 1..2, patches \in SequencesOf(Patches, 1..2) :
          input' = [kind |-> "plan", chosen |-> TRUE, samples |-> <<Samples[n]>>,
                    outputs |-> <<NoText, [tests |-> <<[patches |-> patches, scale |-> NoScale]>>]>>]

\* Numbers where a clamp or a rounding may bite, and a focus with a key twice.
SmallNumbers ==
  {AnInt(v) : v \in {-3, -1, 0, 1, 2, 7}} \cup
  {AFloat(v) : v \in {-FloatOne, 0, FloatOne \div 50, FloatOne - 1, FloatOne, 3 * FloatOne}}
Focuses == {[i \in 1..n |-> i] : n \in 1..4} \cup {<<1, 2, 1>>}

ChoosePerturbation ==
  /\ Asks("perturb")
  /\ \E focus \in Focuses, small \in [1..2 -> SmallNumbers], large \in {12, 100}, caseIdx \in 0..7 :
       input' = [kind |-> "perturb", chosen |-> TRUE, focus |-> focus, caseIdx |-> caseIdx,
                 instance |-> [i \in 1..5 |-> IF i <= 2 THEN small[i] ELSE AnInt(large)]]
-----------------------------------------------------------------------------
(* Groups of up to three completions, smaller and larger than a mini batch *)

Completion(error, reward, mask, stage, ids, match) ==
  [error |-> error, reward |-> reward, mask |-> mask, stage |-> stage, ids |-> ids, match |-> match]

Completions ==
  {Completion(FALSE, 1, {1, 2, 3}, "part", 2, 2), Completion(FALSE, 2, {1, 3}, "part", 3, 1),
   Completion(TRUE, 0, {1, 2}, "part", 2, 0), Completion(TRUE, 1, {2, 3}, "short", 0, 0),
   Completion(FALSE, 0, {2}, "whole", 1, 1), Completion(FALSE, 1, {1, 2, 4}, "part", 0, 0)}

GroupSettings ==
  {[filter |-> f, adapt |-> a, stageOnly |-> s, miniBatch |-> m, padFails |-> p] :
     f, a, s, p \in BOOLEAN, m \in {2, 4}}

ChooseGroup ==
  /\ Asks("group")
  /\ \E g \in SequencesOf(Completions, 1..3), s \in GroupSettings :
       input' = [kind |-> "group", chosen |-> TRUE, g |-> g, settings |-> s]

\* Rows of three tokens with rewards on trained tokens only.
Rows ==
  {[mask |-> [t \in 1..3 |-> IF t \in m THEN 1 ELSE 0], rewards |-> [t \in 1..3 |-> IF t \in r THEN 1 ELSE 0],
    values |-> IF odd THEN <<1, 2, 3>> ELSE <<2, 0, 1>>, weights |-> IF odd THEN <<1, 2, 1>> ELSE <<3, 1, 2>>,
    group |-> 1] : m \in (SUBSET (1..3)) \ {{}}, r \in SUBSET (1..3), odd \in BOOLEAN}

PossibleRows == {row \in Rows : \A t \in 1..3 : row.rewards[t] <= row.mask[t]}
MoreRows == {row \in PossibleRows : row.mask[1] = row.mask[3] \/ row.mask[2] = 0}
FewRows == {row \in PossibleRows : row.mask[2] = 1 /\ row.values[1] = 1 /\ row.rewards[1] = row.rewards[2]}

InGroups(rows, groups) == [i \in DOMAIN rows |-> [rows[i] EXCEPT !.group = groups[i]]]

ChooseRows ==
  /\ Asks("estimators")
  /\ \E rows \in SequencesOf(PossibleRows, {1}) \cup (PossibleRows \X MoreRows) \cup [1..3 -> FewRows], groups \in {<<1, 1, 1>>, <<1, 2, 1>>},
        decay \in {One, Half} :
       input' = [kind |-> "estimators", chosen |-> TRUE, rows |-> InGroups(rows, groups), gamma |-> decay,
                 lam |-> decay, zeroTail |-> decay = One]
-----------------------------------------------------------------------------
(* Partitions, micro batches, losses and dispatch                          *)

ChoosePartition ==
  /\ Asks("partition")
  /\ \E work \in SequencesOf({1, 2, 4, 7}, 1..5), k \in 1..4 :
       /\ k <= Len(work)
       /\ input' = [kind |-> "partition", chosen |-> TRUE, work |-> work, k |-> k]

MicroSettings ==
  {[maxTokens |-> m, minMicro |-> min, dividedBy |-> d, groupSize |-> size, balance |-> b] :
     m \in {6, 10}, min \in {0, 2}, d \in {1, 2}, size \in {1, 2}, b \in BOOLEAN}

ChooseMicroBatches ==
  /\ Asks("micro")
  /\ \E lens \in SequencesOf({1, 3, 6}, 2..4), other \in {<< >>, <<2, 6>>, <<2, 6, 2, 2>>, <<6, 6, 6, 2>>}, s \in MicroSettings :
       input' = [kind |-> "micro", chosen |-> TRUE, settings |-> s,
                 ranks |-> IF other = << >> THEN <<lens>> ELSE <<lens, other>>]

ChooseUids ==
  /\ Asks("uids")
  /\ \E lens \in [1..5 -> {1, 4}], ends \in SUBSET (1..4), k \in 1..3 :
       input' = [kind |-> "uids", chosen |-> TRUE, lens |-> lens, k |-> k,
                 uids |-> [i \in 1..5 |-> Cardinality({e \in ends : e < i})]]

ChooseLosses ==
  /\ Asks("loss")
  /\ \E first \in SequencesOf({<< >>, <<1>>, <<3, 1, 1>>}, 2..3),
        second \in SequencesOf({<< >>, <<2>>, <<1, 4>>}, {0, 2}) \cup {<< <<2>>, <<1, 4>>, <<2>> >>},
        mode \in {"token-mean", "seq-mean-token-sum", "seq-mean-token-mean"}, s \in MicroSettings :
       /\ s.groupSize = 1 /\ s.maxTokens = 6 /\ (s.balance <=> s.minMicro = 2)
       /\ Len(second) \in {0, Len(first)}
       /\ input' = [kind |-> "loss", chosen |-> TRUE, mode |-> mode, settings |-> s,
                    ranks |-> IF second = << >> THEN <<first>> ELSE <<first, second>>]

ChooseDispatch ==
  /\ Asks("dispatch")
  /\ \E lens \in SequencesOf({1, 5}, 1..3) \cup {<<2, 1, 2, 5>>, <<1, 5, 2, 2, 1, 5>>}, dp \in 1..7, inner \in 1..2, pp \in 1..3 :
       input' = [kind |-> "dispatch", chosen |-> TRUE, lens |-> lens, times |-> pp,
                 layout |-> [dp |-> dp, inner |-> inner, pp |-> pp]]

AlgorithmsInit == \E kind \in Algorithms : input = [kind |-> kind]

AlgorithmsNext ==
  \/ ChooseClusters \/ ChooseTotals \/ ChooseStructures \/ ChooseScale \/ ChoosePlan \/ ChoosePerturbation
  \/ ChooseGroup \/ ChooseRows \/ ChoosePartition \/ ChooseMicroBatches \/ ChooseUids
  \/ ChooseLosses \/ ChooseDispatch

AlgorithmsSpec == AlgorithmsInit /\ [][AlgorithmsNext]_input
-----------------------------------------------------------------------------
Chosen(kind) == input.kind = kind /\ "chosen" \in DOMAIN input

\* The greedy clusters of a group are sound and do not depend on the order of
\* the rollouts, its consensus rewards are shares of one whole and agree with
\* what is committed afterwards, total rewards are shares, and structural rewards
\* are shares of one whole, committed as previewed (score_rollout_group,
\* matching_leader, preview_r1, combine_rewards, preview_r4, add_sample).
GroupRewardsSound ==
  /\ Chosen("clusters") => GroupClustersSound(input.mem, input.g, input.localScope)
  /\ Chosen("totals") => GroupTotalsAreShares(input.mem, input.g, input.localScope, input.settings)
  /\ Chosen("structure") => StructureSound(input.structures, input.models, input.iter)

\* The r3 cases of a sample come from its own texts and are explained by their
\* patches, a heuristic case moves each key it picks but for a zero that would
\* have to go down, and widening a scale, by the margin of the final choice or for
\* a case without one, never rejects what it accepted (_prepare_r3_for_samples,
\* _normalize_llm_plan, generate_perturbed_instances_from_map).
TestPlansSound ==
  /\ Chosen("plan") => /\ PlannedAlone(input.samples, input.outputs)
                       /\ CasesExplainThemselves(input.samples, input.outputs)
  /\ Chosen("perturb") => PerturbationMoves(input.instance, input.focus, input.caseIdx)
  /\ Chosen("scale") => /\ ExpansionKeepsMatches(input.v, input.raw)
                        /\ DefaultScaleIsWider(input.v, input.raw)

\* The search and the backend filter a group alike, rewards survive the stage
\* mask, and the actor's padded batch is the group (grpo_rollout_group).
GroupBookkeeping ==
  Chosen("group") => /\ RecordsMatchGenerations(input.g, input.settings)
                     /\ RewardsSurviveMasking(input.g, input.settings)
                     /\ BatchIsTheGroup(input.g, input.settings)

\* Masked tokens do not influence the others, and the advantage estimators of
\* core_algos.py agree where their baselines are the same.
EstimatorsAgree ==
  Chosen("estimators") => /\ MaskedTokensDoNotCount(input.rows, input.gamma, input.lam, input.zeroTail)
                          /\ VariantsAgree(input.rows)

\* Partitions cover their items once and are balanced, micro batches are as many
\* on every rank and come back in order, no uid is divided among ranks, the loss
\* of a mini batch does not depend on how it is divided, and balancing loses no row
\* (seqlen_balancing.py, agg_loss, forward_backward_batch, _balance_batch).
SplitsSound ==
  /\ Chosen("partition") => PartitionBalanced(input.work, input.k)
  /\ Chosen("micro") => MicroBatchesSound(input.ranks, input.settings)
  /\ Chosen("uids") => UidsTogether(input.lens, input.uids, input.k)
  /\ Chosen("loss") =>
       LossIndependentOfSplit(input.ranks, [r \in DOMAIN input.ranks |->
                                [i \in DOMAIN input.ranks[r] |-> Len(input.ranks[r][i]) + 1]],
                              input.mode, input.settings)
  /\ Chosen("dispatch") => BalancingPermutes(input.lens, input.layout)

\* Every row of a call to the workers comes back with its own result, a batch
\* padded on the way stays padded for its caller, and repeating a batch keeps
\* the rollouts of a row together (protocol.py, decorator.py).
DispatchRoundTrip ==
  Chosen("dispatch") =>
    LET batch == [i \in DOMAIN input.lens |-> 10 + i] IN
    /\ RowsComeBack(batch, input.layout)
    /\ CallersBatchGrows(batch, input.layout)
    /\ RepeatsStandTogether(batch, input.times)
=============================================================================
