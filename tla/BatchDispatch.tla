--------------------------- MODULE BatchDispatch ---------------------------
(***************************************************************************)
(* How the driver's batch reaches the workers and comes back (protocol.py, *)
(* single_controller/base/decorator.py, single_controller/ray/base.py):    *)
(* padding to a divisor, balancing, equal chunks, one chunk for all ranks  *)
(* of a data-parallel group, outputs collected from one rank of each.      *)
(* A batch is a sequence of rows.  layout: dp, inner (the ranks of the     *)
(* tensor, context and sequence axes, which vary fastest) and pp (the      *)
(* pipeline stages, which vary slowest).                                   *)
(***************************************************************************)
EXTENDS Integers, Sequences, FiniteSets, SequencesExt, FiniteSetsExt, Selections, MicroBatching

Taken(s, n) == SubSeq(s, 1, n)
PadSize(n, divisor) == IF n % divisor = 0 THEN 0 ELSE divisor - (n % divisor)

\* Mutation: the front of the batch is appended only once.
MutantPadToDivisor(batch, divisor) ==
  batch \o Taken(batch, Min({PadSize(Len(batch), divisor), Len(batch)}))

\* pad_dataproto_to_divisor: the batch from its front, as often as needed.
PadToDivisor(batch, divisor) ==
  [i \in 1..(Len(batch) + PadSize(Len(batch), divisor)) |-> batch[((i - 1) % Len(batch)) + 1]]

\* unpad_dataproto
Unpad(batch, padSize) == Taken(batch, Len(batch) - padSize)

\* DataProto.padding without a candidate: the last row.  It changes the batch
\* of the caller.
AutoPadded(batch, chunks) ==
  batch \o [i \in 1..PadSize(Len(batch), chunks) |-> batch[Len(batch)]]

\* DataProto.chunk of a divisible batch
Chunk(batch, chunks) ==
  LET size == Len(batch) \div chunks IN
  [c \in 1..chunks |-> SubSeq(batch, (c - 1) * size + 1, c * size)]

Repeat(batch, times, interleave) ==
  [i \in 1..(Len(batch) * times) |->
     IF interleave THEN batch[((i - 1) \div times) + 1] ELSE batch[((i - 1) % Len(batch)) + 1]]

\* _balance_batch, the rows by rank: sorted by work, the light ones at both
\* ends.
BalancedOrder(lens, dp) ==
  LET work == [i \in DOMAIN lens |-> Workload(lens[i])]
      parts == BalancedPartitions(work, dp, TRUE)
      sorted(p) == SetToSortSeq(ToSet(p), LAMBDA i, j : work[i] < work[j] \/ (work[i] = work[j] /\ i < j))
      ends(p) == SelectSeq(Numbered(p), LAMBDA i : i % 2 = 1) \o Reverse(SelectSeq(Numbered(p), LAMBDA i : i % 2 = 0))
  IN  FlattenSeq([d \in 1..dp |-> [n \in DOMAIN parts[d] |-> sorted(parts[d])[ends(parts[d])[n]]]])
-----------------------------------------------------------------------------
WorldSize(layout) == layout.dp * layout.inner * layout.pp

\* get_data_parallel_rank, from 0
DpRank(layout, rank) == (rank \div layout.inner) % layout.dp

\* is_mp_src_rank_with_outputs: the first inner rank of the last stage.
IsCollect(layout, rank) ==
  /\ rank % layout.inner = 0
  /\ rank \div (layout.inner * layout.dp) = layout.pp - 1

\* dispatch_nd_compute: rank -> chunk
Dispatched(batch, layout) ==
  [rank \in 0..(WorldSize(layout) - 1) |-> Chunk(batch, layout.dp)[DpRank(layout, rank) + 1]]

\* What a worker returns: a result for each row, and nothing where the model's
\* last layer is not computed.
Output(layout, rank, rows) ==
  IF rank \div (layout.inner * layout.dp) = layout.pp - 1 THEN [i \in DOMAIN rows |-> <<"done", rows[i]>>]
  ELSE << >>

\* collect_nd_compute: by global rank.
Collected(batch, layout) ==
  LET given == Dispatched(batch, layout)
      ranks == Listed({r \in DOMAIN given : IsCollect(layout, r)})
  IN  FlattenSeq([n \in DOMAIN ranks |-> Output(layout, ranks[n], given[ranks[n]])])

\* A call through a worker group whose batch is padded by the caller.
PaddedCall(batch, layout) ==
  Unpad(Collected(PadToDivisor(batch, layout.dp), layout), PadSize(Len(batch), layout.dp))

\* A call of dispatch mode DP_COMPUTE_PROTO with auto padding: a worker for
\* every chunk; the first element of the pair is what the caller's batch is
\* afterwards.
AutoPaddedCall(batch, workers) ==
  LET flat == [dp |-> workers, inner |-> 1, pp |-> 1]
      padded == AutoPadded(batch, workers)
  IN  <<padded, Unpad(Collected(padded, flat), Len(padded) - Len(batch))>>
-----------------------------------------------------------------------------
(* What a call promises                                                    *)

Results(batch) == [i \in DOMAIN batch |-> <<"done", batch[i]>>]

\* Every row gets its own result, in the caller's order, whatever the layout
\* and however many times the batch has to be repeated to fill it.
RowsComeBack(batch, layout) ==
  /\ PaddedCall(batch, layout) = Results(batch)
  /\ AutoPaddedCall(batch, layout.dp)[2] = Results(batch)
  /\ Unpad(PadToDivisor(batch, layout.dp), PadSize(Len(batch), layout.dp)) = batch

\* An auto-padded call is not free of side effects: the caller's batch stays
\* padded, so the results no longer fit it unless it was divisible.
CallersBatchGrows(batch, layout) ==
  LET call == AutoPaddedCall(batch, layout.dp) IN
  (Len(call[1]) = Len(call[2])) <=> (Len(batch) % layout.dp = 0)

\* Balancing gives each rank as many rows, and no row is lost or sent twice.
BalancingPermutes(lens, layout) ==
  Len(lens) % layout.dp = 0 =>
    LET order == BalancedOrder(lens, layout.dp) IN
    /\ Len(order) = Len(lens)
    /\ ToSet(order) = DOMAIN lens

\* Rollouts of a prompt stand together when the batch is interleaved, as the
\* group indices expect; either way repetition n of a row is the same row.
RepeatsStandTogether(batch, times) ==
  LET together == Repeat(batch, times, TRUE)
      tiled == Repeat(batch, times, FALSE)
  IN  /\ Len(together) = Len(tiled)
      /\ \A i \in DOMAIN batch : SubSeq(together, times * (i - 1) + 1, times * i) = [n \in 1..times |-> batch[i]]
      /\ \A i \in DOMAIN batch, n \in 1..times : together[times * (i - 1) + n] = tiled[Len(batch) * (n - 1) + i]
=============================================================================
