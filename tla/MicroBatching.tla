--------------------------- MODULE MicroBatching ---------------------------
(***************************************************************************)
(* How a batch is cut into micro batches of balanced work, put together    *)
(* again, and how the losses of the parts add up to the loss of the batch  *)
(* (utils/seqlen_balancing.py, agg_loss of ppo/core_algos.py, the engine's *)
(* forward_backward_batch and the older actor's update_policy).            *)
(***************************************************************************)
EXTENDS Integers, Sequences, FiniteSets, SequencesExt, FiniteSetsExt, Fractions

CONSTANT LinearCost         \* work of a token beside its square, 24576 in the code

ASSUME LinearCostAssumption == LinearCost \in Nat

Workload(len) == LinearCost * len + len * len

SumAll(ns) == FoldLeft(+, 0, ns)
Numbered(s) == [i \in DOMAIN s |-> i]
SortedSet(S) == SetToSortSeq(S, <)
-----------------------------------------------------------------------------
(* karmarkar_karp: a state is k sets in decreasing order; a set has a sum  *)
(* and its items, in the order they came in.                               *)

Larger(a, b) ==
  \/ a.sum > b.sum
  \/ a.sum = b.sum /\ Len(a.items) > Len(b.items)
  \/ a.sum = b.sum /\ Len(a.items) = Len(b.items) /\ a.items # << >> /\ a.items[1] > b.items[1]

EmptySet == [sum |-> 0, items |-> << >>]
Ordered(sets) == SortSeq(sets, Larger)

Holding(work, items, k) ==
  Ordered([i \in 1..k |-> IF i <= Len(items) THEN [sum |-> work[items[i]], items |-> <<items[i]>>]
                          ELSE EmptySet])

Spread(state) == state[1].sum - state[Len(state)].sum

\* The heap's order: the largest spread, then the larger first set.
Before(a, b) == Spread(a) > Spread(b) \/ (Spread(a) = Spread(b) /\ Larger(a[1], b[1]))

\* The largest set takes the smallest of the other state.
Merged(a, b) ==
  LET other(i) == b[Len(b) + 1 - i] IN
  Ordered([i \in DOMAIN a |-> [sum |-> a[i].sum + other(i).sum, items |-> a[i].items \o other(i).items]])

\* The items by work, one in a state or k of them.
InitialStates(work, k, equalSize) ==
  LET byWork == SetToSortSeq(DOMAIN work, LAMBDA i, j : work[i] < work[j] \/ (work[i] = work[j] /\ i < j))
      per == IF equalSize THEN k ELSE 1
  IN  {Holding(work, SubSeq(byWork, per * n + 1, per * n + per), k) : n \in 0..((Len(byWork) \div per) - 1)}

FirstOfHeap(states) == CHOOSE s \in states : \A t \in states \ {s} : Before(s, t)

\* Two states leave the heap and one comes back, until one is left.
KarmarkarKarp(work, k, equalSize) ==
  LET start == InitialStates(work, k, equalSize)
      step(states) ==
        LET a == FirstOfHeap(states)
            b == FirstOfHeap(states \ {a})
        IN  (states \ {a, b}) \cup {Merged(a, b)}
      final == FoldLeft(LAMBDA states, n : step(states), start, [n \in 1..(Cardinality(start) - 1) |-> n])
  IN  FirstOfHeap(final)

\* get_seqlen_balanced_partitions
BalancedPartitions(work, k, equalSize) ==
  LET state == KarmarkarKarp(work, k, equalSize) IN
  [i \in 1..k |-> SortedSet(ToSet(state[i].items))]

\* greedy_partition without equal_size: each item to the first smallest part.
GreedyPartition(work, k) ==
  LET put(parts, i) ==
        LET load == [p \in 1..k |-> SumAll([n \in DOMAIN parts[p] |-> work[parts[p][n]]])]
            least == CHOOSE p \in 1..k : \A q \in 1..k : load[p] < load[q] \/ (load[p] = load[q] /\ p <= q)
        IN  [parts EXCEPT ![least] = Append(@, i)]
  IN  FoldLeft(put, [p \in 1..k |-> << >>], Numbered(work))
-----------------------------------------------------------------------------
(* rearrange_micro_batches.  settings: maxTokens, minMicro (0: none),      *)
(* dividedBy (1: none), groupSize, balance.                                *)

CeilDiv(a, b) == -((-a) \div b)

MicroBatchesWanted(lens, settings) ==
  LET n == Min({Len(lens) \div settings.groupSize, CeilDiv(SumAll(lens), settings.maxTokens)}) IN
  Max({n, settings.minMicro})

\* The largest number any rank wants, rounded up to whole pipeline rounds.
MicroBatchCount(ranks, settings) ==
  settings.dividedBy *
    CeilDiv(Max({MicroBatchesWanted(ranks[r], settings) : r \in DOMAIN ranks}), settings.dividedBy)

\* The code asserts that no rank has fewer groups than micro batches.
Divisible(ranks, settings) ==
  \A r \in DOMAIN ranks : /\ Len(ranks[r]) % settings.groupSize = 0
                          /\ MicroBatchCount(ranks, settings) <= Len(ranks[r]) \div settings.groupSize
                          /\ \A i \in DOMAIN ranks[r] : ranks[r][i] <= settings.maxTokens

GroupWork(lens, size) ==
  [g \in 1..(Len(lens) \div size) |-> SumAll([i \in 1..size |-> Workload(lens[size * (g - 1) + i])])]

Members(groups, size) ==
  FlattenSeq([n \in DOMAIN groups |-> [i \in 1..size |-> size * (groups[n] - 1) + i]])

\* The small ones at both ends: every second of the sorted ones, backwards,
\* and then the others.
EndsSmall(parts) ==
  LET odd == SelectSeq(Numbered(parts), LAMBDA i : i % 2 = 1)
      even == SelectSeq(Numbered(parts), LAMBDA i : i % 2 = 0)
  IN  [i \in DOMAIN odd |-> parts[odd[Len(odd) + 1 - i]]] \o [i \in DOMAIN even |-> parts[even[i]]]

\* The samples of each micro batch of one rank.
MicroBatches(lens, count, settings) ==
  LET work == GroupWork(lens, settings.groupSize)
      parts == BalancedPartitions(work, count, FALSE)
      load(p) == SumAll([n \in DOMAIN p |-> work[p[n]]])
      heavier(p, q) == load(p) > load(q) \/ (load(p) = load(q) /\ p[1] > q[1])
      arranged == IF settings.balance THEN EndsSmall(SortSeq(parts, heavier)) ELSE parts
  IN  [m \in DOMAIN arranged |-> Members(arranged[m], settings.groupSize)]

\* Mutation: the index list itself is applied once more.
MutantReverseIdx(indices) == indices

\* get_reverse_idx
ReverseIdx(indices) ==
  [i \in DOMAIN indices |-> CHOOSE j \in DOMAIN indices : indices[j] = i]

\* restore_dynamic_batch: the outputs, concatenated by micro batch, in the
\* order of the samples.
Restored(outputs, batches) ==
  LET back == ReverseIdx(FlattenSeq(batches)) IN [i \in DOMAIN outputs |-> outputs[back[i]]]

\* get_group_balanced_partitions: rows with the same uid stand together.
UidGroups(uids) ==
  FoldLeft(LAMBDA groups, i :
             IF groups # << >> /\ uids[i] = uids[i - 1]
             THEN [groups EXCEPT ![Len(groups)] = Append(@, i)] ELSE Append(groups, <<i>>),
           << >>, Numbered(uids))

GroupPartitions(lens, uids, k) ==
  LET groups == UidGroups(uids)
      work == [g \in DOMAIN groups |-> SumAll([n \in DOMAIN groups[g] |-> Workload(lens[groups[g][n]])])]
      parts == BalancedPartitions(work, k, TRUE)
  IN  [p \in 1..k |-> SortedSet(UNION {ToSet(groups[g]) : g \in ToSet(parts[p])})]
-----------------------------------------------------------------------------
(* Losses: a row is the sequence of its unmasked tokens' losses.           *)

TokenSum(row) == SumAll(row)
Trained(rows) == Cardinality({i \in DOMAIN rows : rows[i] # << >>})
TokenCount(rows) == SumAll([i \in DOMAIN rows |-> Len(rows[i])])

\* Sum of the rows' losses before it is divided by the size of the batch.
RowLosses(rows, mode) ==
  Sum([i \in DOMAIN rows |->
         IF rows[i] = << >> THEN Zero
         ELSE IF mode = "seq-mean-token-mean" THEN Frac(TokenSum(rows[i]), Len(rows[i]))
         ELSE Whole(TokenSum(rows[i]))])

\* Mutation: the parts are not scaled by the number of ranks.
MutantAggLoss(rows, mode, dpSize, tokens, size) ==
  Over(RowLosses(rows, mode), Whole(IF mode = "token-mean" THEN tokens ELSE size))

\* agg_loss; tokens and size are numbers of the whole mini batch.
AggLoss(rows, mode, dpSize, tokens, size) ==
  Times(Whole(dpSize),
        Over(RowLosses(rows, mode), Whole(IF mode = "token-mean" THEN tokens ELSE size)))

RowsAt(rows, indices) == [n \in DOMAIN indices |-> rows[indices[n]]]

\* forward_backward_batch of the engine: one rank adds up its micro batches,
\* the ranks' gradients are averaged.
EngineLoss(ranks, lensOf, mode, settings) ==
  LET lens == [r \in DOMAIN ranks |-> [i \in DOMAIN ranks[r] |-> lensOf[r][i]]]
      count == MicroBatchCount(lens, settings)
      tokens == SumAll([r \in DOMAIN ranks |-> TokenCount(ranks[r])])
      size == SumAll([r \in DOMAIN ranks |-> Len(ranks[r])])
      rankLoss(r) == Sum([m \in 1..count |->
        AggLoss(RowsAt(ranks[r], MicroBatches(lens[r], count, settings)[m]), mode, Len(ranks), tokens, size)])
  IN  Over(Sum([r \in DOMAIN ranks |-> rankLoss(r)]), Whole(Len(ranks)))

\* The older actor has no global numbers: a micro batch is averaged over its
\* own rows or tokens and weighted by its share of the rank's rows.
LegacyLoss(ranks, lensOf, mode, settings) ==
  LET lens == [r \in DOMAIN ranks |-> [i \in DOMAIN ranks[r] |-> lensOf[r][i]]]
      count == MicroBatchCount(lens, settings)
      part(r, m) == RowsAt(ranks[r], MicroBatches(lens[r], count, settings)[m])
      share(r, m) == Times(AggLoss(part(r, m), mode, 1, TokenCount(part(r, m)), Trained(part(r, m))),
                           Frac(Len(part(r, m)), Len(ranks[r])))
  IN  Over(Sum([r \in DOMAIN ranks |-> Sum([m \in 1..count |-> share(r, m)])]), Whole(Len(ranks)))
-----------------------------------------------------------------------------
(* What the partitioning promises                                          *)

\* Every index is in exactly one part and no part is empty.
CoversOnce(parts, n) ==
  /\ SortedSet(ToSet(FlattenSeq(parts))) = [i \in 1..n |-> i]
  /\ Len(FlattenSeq(parts)) = n
  /\ \A p \in DOMAIN parts : parts[p] # << >>

Loads(parts, work) == {SumAll([n \in DOMAIN parts[p] |-> work[parts[p][n]]]) : p \in DOMAIN parts}

\* The parts differ by no more than one item's work, neither does a greedy
\* assignment; with equal sizes every part has as many items.
PartitionBalanced(work, k) ==
  LET free == BalancedPartitions(work, k, FALSE)
      largest == Max(ToSet(work))
      greedy == Loads(GreedyPartition(work, k), work)
  IN  /\ CoversOnce(free, Len(work))
      /\ Max(Loads(free, work)) - Min(Loads(free, work)) <= largest
      /\ Max(greedy) - Min(greedy) <= largest
      /\ Len(work) % k = 0 =>
           LET equal == BalancedPartitions(work, k, TRUE) IN
           /\ CoversOnce(equal, Len(work))
           /\ \A p \in 1..k : k * Len(equal[p]) = Len(work)

\* Every rank has the same number of micro batches, none is empty, groups of
\* samples stay together, and restoring brings every output back to its row.
MicroBatchesSound(ranks, settings) ==
  LET count == MicroBatchCount(ranks, settings) IN
  Divisible(ranks, settings) =>
    \A r \in DOMAIN ranks :
      LET batches == MicroBatches(ranks[r], count, settings)
          size == settings.groupSize
          groupOf(i) == (i - 1) \div size
      IN  /\ Len(batches) = count /\ count % settings.dividedBy = 0
          /\ CoversOnce(batches, Len(ranks[r]))
          /\ \A m \in DOMAIN batches : \A i \in ToSet(batches[m]) :
               {j \in DOMAIN ranks[r] : groupOf(j) = groupOf(i)} \subseteq ToSet(batches[m])
          /\ Restored(FlattenSeq(batches), batches) = Numbered(ranks[r])

\* Samples of one uid are never divided among the ranks.
UidsTogether(lens, uids, k) ==
  LET parts == GroupPartitions(lens, uids, k) IN
  Len(UidGroups(uids)) % k = 0 =>
    /\ CoversOnce(parts, Len(lens))
    /\ \A p, q \in 1..k : p # q => {uids[i] : i \in ToSet(parts[p])} \cap {uids[i] : i \in ToSet(parts[q])} = {}

\* The loss does not depend on how the mini batch is divided among ranks and
\* micro batches; the older actor gets the same as long as losses are averaged
\* by row and no row is masked in full.
LossIndependentOfSplit(ranks, lensOf, mode, settings) ==
  LET rows == FlattenSeq(ranks)
      whole == AggLoss(rows, mode, 1, TokenCount(rows), Len(rows))
      lens == [r \in DOMAIN ranks |-> [i \in DOMAIN ranks[r] |-> lensOf[r][i]]]
  IN  Divisible(lens, settings) /\ TokenCount(rows) > 0 =>
        /\ EngineLoss(ranks, lensOf, mode, settings) = whole
        /\ mode # "token-mean" /\ Trained(rows) = Len(rows) =>
             LegacyLoss(ranks, lensOf, mode, settings) = whole
=============================================================================
