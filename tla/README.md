# StarOR: TLA+ models and proofs

StarOR answers an optimisation problem stated in words with a program that
models and solves it. For every sample it runs a staged Monte-Carlo tree search
(Sets and parameters, Variables, Model, Code) whose rollouts come from a
language model; each rollout is completed to a program, the program is run, and
its reward both guides the search and trains a transient LoRA adapter (GRPO at
test time). The adapter is dropped when the sample is done.

StarOR's own code is `src/verl/trainer/staror_runtime/`,
`src/verl/trainer/ppo/staror_fit.py`, `src/verl/utils/dataset/staror_dataset.py`,
`src/tools/` and `src/examples/StarOR/`. The rest of `src/verl` is the verl
reinforcement-learning library bundled with it. Of the library this project
models what StarOR's training goes through (advantages, losses, micro batches,
dispatch to the workers), the checkpoints of the trainer StarOR's loop branches off from
(`RayPPOTrainer.fit`), its one concurrent trainer
(`experimental/fully_async_policy`), how such a trainer's weights reach
separate rollout replicas (`checkpoint_engine`), and how conversations go on
through such a push (`experimental/agent_loop`). The repository has no tests of StarOR's own
code.

This directory holds TLA+ modules of these parts, TLC configurations for small
instances, and TLAPS proofs for all instances.

## 1. Inventory

### The parts and what they keep

| part | source | state | operations |
|---|---|---|---|
| outer loop | `ppo/staror_fit.py: run_staror_fit` | pending samples, `total_budget`, `trainer.global_steps` | start, skip what has `result.json`, run the samples in order |
| task episode | `pipeline/staror.py: StarORRunner.run_task` | files of the sample's directory | begin, search, save the trace, write the result, end |
| policy backend | `ppo/staror_fit.py: VerlRayPolicyBackend` | the actor's LoRA adapter, the rollout engine's copy of it | `grpo_rollout_group` (sample, filter, score, update, push), `end_episode` (reset, push) |
| tree search | `mcts/tree.py: FourStageMCTS` | the tree (visits, value sums, records), the selection history, the CODE-entry counters and suppression, the stop reason | select, gate, expand, backpropagate, cluster update, repair, stop, choose the answer |
| reward calculator | `reward/default_reward.py` | the execution cache, the number of scored groups, reference objectives | score a group, score a repair |
| executor | `reward/executor.py` | worker directories with solution, LP and bytecode files | run a program, run many on perturbed instances |
| clusters | `reward/clusters.py` | none | group rollouts by objective and structure |
| R3 planner | `reward/r3_batch_planner.py`, `perturbation.py` | a cache of perturbed instances | plan tests for many samples in batches |
| prompts, mapping | `prompts/`, `mapping/` | none | build and parse text |
| datasets, tools | `dataset/`, `staror_dataset.py`, `src/tools/` | none | read samples, aggregate results |
| group data | `ppo/staror_fit.py: grpo_rollout_group` | none | filter, mask, reward, pad to mini batches, report |
| estimators and losses | `ppo/core_algos.py` | none | advantages, aggregation of losses |
| batching | `utils/seqlen_balancing.py`, `workers/engine/fsdp/transformer_impl.py` | none | balance work, cut and restore micro batches |
| dispatch | `protocol.py`, `single_controller/` | none | pad, chunk, send to ranks, collect |
| checkpoints | `ppo/ray_trainer.py: RayPPOTrainer.fit`, `utils/checkpoint/` | step, epoch and loader; of each worker group what it has trained on and its manager's `previous_saved_paths`; the step folders, `data.pt` and the tracker | train a batch, save, make room, register, resume |
| fully asynchronous trainer | `experimental/fully_async_policy/` | pending and active samples, staleness, pause flag and lock; message queue; version and local step; checkpoints | generate, pause, resume, put, get, train, push weights, reset staleness, save, resume from a checkpoint |
| pushing weights | `checkpoint_engine/base.py`, `nixl_checkpoint_engine.py`, `vllm_rollout/` | buckets, messages and notifications of each agent; a shared buffer per rank; the weights and `global_steps` of each inference worker and server | pause replicas, connect, send, pass on, hand over, load, resume |
| agent loops | `experimental/agent_loop/`, `fully_async_policy/agent_loop/`, `vllm_async_server.py` | of each conversation its text, mask, log probabilities, turns and versions; requests at the servers; the balancer's counts and LRU cache | acquire and release a server, generate, retry, call tools, hear the user, finish |
| other substrate | the rest of `src/verl` | GPU workers | generate, compute log probabilities, update, push weights |

### How they interact

`run_staror_fit` calls `run_task` for one sample after the other. `run_task`
calls `begin_episode`, `FourStageMCTS.search` and `end_episode`. Every iteration
of the search calls `grpo_rollout_group` at most once; that samples with the
rollout engine, calls back into the search's scoring function (which runs the
programs on a pool of threads), updates the actor and pushes the adapter. The
reward calculator is told the iteration number and the "CODE entry was
attempted" flag through the metadata of the trajectories. Between two starts of
the program only the disk is shared.

When `staror.enable` is off, `RayPPOTrainer.fit` trains on the batches of the data
loader, epoch after epoch. From time to time it saves: the actor's and the critic's
worker groups write their shards, each manager removing older folders of its own, then the
driver writes the loader's state, and last the tracker that names the step. The next
launch starts from what the tracker names.

In the fully asynchronous trainer three Ray actors run side by side. The
rollouter takes samples from the data, generates each in a task and puts it into
the message queue; the trainer takes them, trains, and after
`trigger_parameter_sync_step` steps pushes its weights and calls the
rollouter's `reset_staleness`. The rollouter pauses itself when the queue is full or
too much is outstanding; the reset and a monitor resume it.

To push weights, `CheckpointEngineManager.update_weights` pauses the replicas,
connects rank 0 of the trainer and all rollout ranks to a chain, and calls
`update_weights` on all of them at once. Rank 0 fills buckets and offers them to
rank 1; each rank reads a bucket from the one before it, offers it to the next,
and hands its tensors through a shared buffer to the inference worker on its
device. When all have returned the replicas are resumed.

A conversation of the rollouter is a coroutine. For every request it asks the
load balancer for a server, preferably the one it had before, and waits for
the server's answer; then it runs tools or hears a user, and asks again. A push
of weights cuts the requests off; the answer then says so, and the request is
sent again with what has been generated so far.

### What is hard about each part, and what makes it right

* *Search.* One loop with some twenty early exits. State of one iteration is
  used in later ones (one-shot suppression, attempt counter, anchor of the
  selection history, consensus window). Right means: nodes are expanded once,
  statistics stay consistent under fractional cluster updates, the gate
  turns away exactly as configured, every stop is justified by a record, and
  the search does not end while there is something left.
* *Reward execution.* Threads race on one cache; directories, file names and
  bytecode files outlive the runs that made them; programs hang. Right means: a
  trajectory is scored by a run of its own program, equal programs get equal
  answers, and a group is always scored.
* *Outer loop.* The program dies anywhere and decides from files what is left
  to do; the reset of an adapter may fail half way. Right means: results are
  written once and kept, each beside its trace, no sample is left out, no task
  learns from another one's adapter, and groups are sampled from the policy
  they train.
* *Clusters, final selection.* Greedy grouping under a tolerance that is neither
  symmetric nor transitive, so that the order of the input could matter. Right
  means: rewards do not depend on the order of the rollouts, shares add up to no
  more than one, what is committed is what was previewed, and an exact majority
  prevails.
* *R3 planning.* Batched calls whose answers are found again by index, and
  scales that several routines normalise, widen and stretch. Right means: a
  sample's cases come from its own texts, and widening rejects nothing that
  was accepted.
* *Group data, batching, dispatch.* Rows are filtered, padded, permuted and cut
  in several places, and put back by inverse permutations. Right means: every
  result reaches its own row, and neither masked tokens nor the division into
  parts change an advantage or a loss.
* *Checkpoints.* A checkpoint is several files written one after the other, older
  ones are removed on the way, and the loader's state at the end of an epoch is useless.
  Right means: wherever a save was cut off the next launch can go on from a checkpoint whose
  parts belong together, and every batch is trained once, in its place.
* *Fully asynchronous trainer.* Decisions are taken before a lock is waited for
  and used after it; a full queue drops messages; a resume loses what was under
  way. Right means: staleness is bounded, a sample is trained once, what is
  lost is bounded, and training ends.
* *Pushing weights.* Two buckets per rank change roles while a neighbour reads one
  of them and copies wait on the device; a failed pause is swallowed. Right means:
  a replica serves with one version of all its tensors, the one it reports, and
  every push ends.

* *Agent loops.* A request may be cut off at every token and go on at another
  server with other weights; only one of two handlers that add text looks at
  the length. Right means: the transcript shows no trace of interruptions,
  what is reported as its versions encloses them all, and every conversation ends.

The full list of hazards, each with its line and the properties that cover it,
is under `hazards` in `PROJECT.json`.

## 2. Modules

| module | models | by |
|---|---|---|
| `FourStageMCTS` | the loop of `FourStageMCTS.search` with `_select_leaf`, the CODE-entry gate, group handling, `_backpropagate`, `_propagate_cluster_lineage_from_selected`, `_run_code_terminal_refine` and the early stops | 15 actions over 20 variables |
| `MCFourStageMCTS` | outcomes and weights of small instances | |
| `SearchProofs` | theorems about the search and the final selection | TLAPS |
| `FinalSelection` | `_resolve_best_trajectory` and what it calls, on the tree and the records `FourStageMCTS` ends with | operators, and one variable for the last logged iteration |
| `MCFinalSelection` | outcomes for it | TLC |
| `RewardExecution` | `score_rollout_group` and `_execute` of the reward calculator, `run`, `run_many` and `_run_in_sandbox` of the executor | threads of a pool, each stepping by itself |
| `MemoizedExecution` | abstract: one answer per program for a whole task | implemented by `RewardExecution` |
| `MCRewardExecution` | instances | TLC |
| `RewardProofs` | theorems about `RewardExecution`, `ConsensusReward` and `StructuralReward` | TLAPS |
| `StarORFit` | `run_staror_fit`, `run_task`, the backend's adapters, crash and restart | one process that may die at any step |
| `ResultLedger` | abstract: results are recorded once and kept | implemented by `StarORFit` |
| `MCStarORFit`, `StarORFitProofs` | instances, theorems | TLC, TLAPS |
| `FullyAsync` | `FullyAsyncRollouter`, `MessageQueue` and `FullyAsyncTrainer` with crash and resume | processor coroutine, generation tasks, monitor, reset and trainer, each stepping by itself |
| `MCFullyAsync`, `FullyAsyncProofs` | instance; theorems | |
| `WeightTransfer` | `CheckpointEngineManager.update_weights`, `NIXLCheckpointEngine`, `BucketedWeightSender` and `BucketedWeightReceiver`, the pausing of vLLM servers | manager, trainer, rollout ranks, devices and inference workers, each stepping by itself |
| `WeightDelivery` | abstract: replicas serve one version, and are loaded only while they are closed | implemented by `WeightTransfer` |
| `MCWeightTransfer`, `WeightTransferProofs` | instance, theorems | TLC, TLAPS |
| `AgentRollout` | `ToolAgentLoop`, `GlobalRequestLoadBalancer`, `FullyAsyncLLMServerManager.generate`, `vLLMHttpServer` and `CheckpointEngineManager.update_weights` | conversations, each stepping by itself, over the replicas of `WeightDelivery` |
| `MCAgentRollout`, `AgentRolloutProofs` | instance, theorems | TLC, TLAPS |
| `TrainerCheckpoints` | `RayPPOTrainer.fit`, `_save_checkpoint` and `_load_checkpoint`, the retention of `BaseCheckpointManager`, `FSDPCheckpointManager` | one driver that may die before and after each write |
| `MCTrainerCheckpoints`, `TrainerCheckpointsProofs` | instance, theorems | TLC, TLAPS |
| `ConsensusReward` | `score_rollout_group` after the executions: clusters, r1 to r3, weight plans, totals | operators, each reward an exact fraction |
| `StructuralReward` | r4: `StructuralCluster`, `_prepare_structural_group`, `_compute_local_r4` | operators; the agreements are exact, their roots are not taken |
| `ObjectiveScale` | scales: `_normalize_scale_spec`, `_objective_matches_scale`, `_expand_obj_scale_margin` | operators on whole numbers |
| `R3Planning` | `_prepare_r3_for_samples`, `build_sample_r3_plan`, `_normalize_llm_plan`, `generate_perturbed_instances_from_map` | operators |
| `GrpoGroup` | one call of `grpo_rollout_group` and the records the search keeps of it | operators |
| `Advantages` | GAE, REINFORCE++, GRPO, RLOO, OPO, GPG and the token baselines of `core_algos.py` | operators |
| `MicroBatching` | `seqlen_balancing.py`, `agg_loss` and how an engine and the older actor sum losses | operators |
| `BatchDispatch` | padding, chunks, `dispatch_nd_compute`, `collect_nd_compute`, `_balance_batch`, `repeat` | operators |
| `Fractions` | floats, as exact fractions | operators |
| `Selections` | the numbers, or the elements of a sequence, that satisfy a condition, in order | operators |
| `MCAlgorithms` | one step that chooses an input for one of the modules above | TLC |
| `AlgorithmProofs` | theorems about the other pure algorithms, and, with those of `RewardProofs`, about every step of `MCAlgorithms` | TLAPS |

`map` in `PROJECT.json` gives the lines of every definition.

### FourStageMCTS

The variables are named after the attributes and locals of the code (`iter` is
`iter_idx`, `history` is `selection_history`, `attempts` is
`code_entry_attempt_total`, `force3` is `dynamic_reward_force_stage3`, `stop`
is `stop_info`). Nodes are numbered in the order of their creation, and a record
of the search is a node together with the iteration that made it (`born`);
the records the repair flow appends are in `repaired`. An iteration is
`SelectLeaf`, then perhaps `DeferCodeEntry` or `AdmitCodeEntry`, then `Expand`
or `EmptyGroup`, then either the CODE flow (`ChooseCandidate`, `RepairCode`,
`RepairYieldsNothing`, `StopAtCode`, `FallBackToSearch`) or the checks of the
other stages (`StopOnConsensus`, `StopOnReward`, `ContinueSearch`).

Abstractions: what running a rollout's program returns is any record of
`Outcomes` (reward, objective, flags), so every combination of scores is
explored; objectives are compared as integers with an absolute tolerance, which
like the code's relative one is not transitive; which leaf PUCT prefers is
any leaf the descent from the (possibly anchored) start can reach, a superset of
what the formula picks. A group without records comes from the filter only (`EmptyGroup`); a generation call
that returns no rollout at all is left out. Visits and values are exact integers in the
units `Unit` and `Scale`, so that the fractional cluster weights 0.6 * 0.8^l
are exact.

### FinalSelection

Extends the search by `logged`, the iteration of the last entry of
`iteration_logs`, which the last fallback needs and nothing else reads.
`Answer` follows the code: the record a stop names; otherwise, of a search
that ran out of iterations or leaves, `ExhaustiveChoice` among the records on
the reference scale, and if there are none the chain `FallbackAnswer` (a cluster of at least 40
percent, the last logged iteration, all records). Python's `max` and stable
sorts are `FirstBest`, the first of the greatest in the order of the records.
Whether an objective is on the expanded reference scale is a flag of the
outcome.

### RewardExecution

A thread goes through `TakeCached` or `TakeToRun`, `Start`, `WriteLp`, `Exit`
or `TimedOut`, `Return`; between any two of these other threads step. `Start`
is the interpreter's import of the solution file, with its bytecode cache: it
accepts a bytecode file whose recorded time (whole seconds) and size match. A
run keeps which program really ran, which program wrote the LP file that was
read, and which LP file the removal before the run has left (`left`). A directory has one LP file, the newest, since only
that is read: of several (under different names, after a removal that failed), the removal leaves
the newest, or takes all; that it takes the newest and leaves an older one, which is then what is read, is not modelled. The pool is made for each call and its threads are gone after it; the
directories stay. The environment that is not under `src/` (thread pools,
import system, subprocess time-outs) is modelled from how the code uses it.

### StarORFit

An adapter is the set of samples whose rewards have trained it since it was
last initialised, for the actor and for the rollout engine. The action list is
the order of calls in the code: `Start`, `BeginTask`, groups of `SampleGroup`
and then `KeepPolicy` or `UpdateActor`, `UpdateWeights`; `EndSearch`, `SaveTrace`,
`CreateResult`, `FillResult`; and one of `ResetAdapter`, `ResetFails`,
`ResetIsNotSynced`, `KeepAdapter`. `Crash` may come between any two. A file is
absent, partial or whole. The search itself is reduced to the number of groups
it asks for.

### FullyAsync

The rollouter is one asyncio event loop: `processor` is where
`_processor_worker` waits, and every action runs to the next `await`. `lock` is the
`asyncio.Lock` behind `self.condition`, a queue of those who wait; the processor keeps it while
it waits for tasks (`Drain`, `Slot`, `EndDrain`). `CheckPause` decides before it has the
lock and `Pause` acts after it, as in the code. `active` still holds tasks that are done
until somebody reaps them, `running` does not. `MonitorWake`, `MonitorResume`, `MonitorLook`
are `_async_monitor_loop`, `ResetStart` and `ResetEnd` the two halves of
`reset_staleness` around its call to the queue. A processor that `MonitorResume` wakes queues for the lock before the monitor's next
look; `asyncio` may let it queue after that look, which changes nothing but the lock. The trainer's actions follow
`fit_step`: `Collect`, `Stop`, `Train`, `Sync`, `Save`, `LastSave`. `Crash` restarts from
`saved`, the last checkpoint with the position of the data loader (`Fed`, which is ahead of
what has been generated).

Two guards state which interleavings are left out. `Busy` says that a coroutine
which has all it needs runs before anything else of the event loop does: the loop
is single threaded. `HandOver` says that a training step, which takes
seconds or minutes, does not fit between two coroutines passing the lock on. A
put into the queue and the end of its task are one step, since the reply arrives
long before the trainer has trained on the sample. The pending queue does not run
empty before the data does.

### WeightTransfer

`manager` is where `update_weights` of the manager is. An agent has two buckets,
`buf`, whose roles alternate (`send`); `op` is the `readable_op` it must still wait
for, `notes` the notifications it has got. `chain` is where the generator
`receive_weights` and the loop of `async_send_weights` that draws from it stand: they are one
coroutine. `pend` holds the non-blocking copies a device still has to make, in
order, `xfer` the read a rank has begun; `DeviceCopy` and `ReadBucket` may come
at any time before the host waits for them. A bucket is bytes, and a byte is a tensor with its
version, so that bytes that are overwritten too early or copied from the wrong
bucket are seen (`VersionAt`). Waits that follow one another without a step in
between (`Turn`, `HandOverLast`) are one guard: what has become true stays true.

Abstractions: a read takes place at once, anywhere between its begin and its
end, and with it the notification of the other agent; messages between two
agents arrive in order. Ranks of the trainer but 0 only consume their tensors
and are left out. vLLM is 0.12 or later, where pausing lasts until it is resumed; replicas
stand alone, so that they neither sleep nor wake. Nothing in the code handles a
rank that dies during a push (a failed read ends the process), and none does here. A worker loads
full weights; an adapter is discussed under the disagreements. `AbortFails` is the exception `abort_all_requests`
logs.

`WeightDelivery` has per replica the weights of its workers, the version it
reports and whether it serves. A replica that could not be paused is excused until the
next push, since the code goes on without noticing.

### AgentRollout

The replicas and the push are those of `WeightDelivery`, taken in by `INSTANCE`: `Publish`, `AbortAll`,
`LoadWorker`, `SetGlobalSteps` and `ResumeGeneration` are its steps in the order
`update_weights` makes them, so what `WeightTransfer` implements is what a conversation
meets. `pc` is where a conversation's coroutine waits: `asking` for a server, its
request `sent`, `running` in the engine or `answered`, for its `tools`, for its user
(`interacting`), or not any more (`done`, `failed`). `talk` is its `AgentData`, `output` what
`generate` has collected over its retries, `part` and `answer` what the server
has. A token is who wrote it and, if the model did, the versions of the
weights it comes from and the position it was generated for; log probabilities are the tokens
they belong to. So a token that is sent twice, left out or put at a wrong place is seen.
`owed` is the release of a server that is on its way to the balancer.

Abstractions: a conversation's releases reach the balancer before its next
request for a server, as calls of one actor to another do. The engine's
scheduler is any order of `Token`; it ends an answer at any token, at the latest with the last it may. The
answer's label is read with its last token or when it is cut off: the server's event loop
wakes the coroutine before it takes the call that changes the label. Several tools of one
turn are one feed, whose length is any of `Feeds`. Images, sampling parameters and the timing of tools
are left out. `max_model_len` leaves room for prompt and response. A server that
could not be paused is `WeightDelivery`'s matter: there the answers are excused.

### TrainerCheckpoints

`trained` is what each worker group has trained on, the batches with the launch that trained
them: a folder holds a copy of it (`shards`), so that a checkpoint put together of different
launches or an order that a resume disturbs is seen. `step` is `global_steps`, `at` the number of
batches the loader has given of `epoch`; `data` are the files `data.pt`, `tracker` is
`latest_checkpointed_iteration.txt`, `paths` the lists `previous_saved_paths`. A save goes through
`SaveOrder`; each of its files is opened and then written, and between the two it is partial (the
tracker empty). `OpenShards` is `ensure_checkpoint_capacity` and the begin of the ranks' writes,
`WriteShards` their end and `register_checkpoint`. A crash keeps the files and nothing else; a launch
starts from scratch, resumes, or raises (`Refuse`).

Abstractions: the shards of all ranks are one file, complete when the barrier before
`register_checkpoint` is passed; the removal of a folder is one step. The expiry of a capacity block
(`should_save_ckpt_esi`) may ask for a save after any batch. `resume_mode` is `auto`, the critic has no warm-up,
`save_freq` is positive, the settings and the number of ranks are those of the first launch. What a step computes
(generation, rewards, advantages) is left out, and so is the saving in the background
of Megatron's managers (`async_save`).

### The pure algorithms

`ConsensusReward` to `BatchDispatch` in the table have no variables: they are functions of the
code as operators, loops as folds, floats as exact fractions or as integers in
a small unit. `MCAlgorithms` has the single variable `input`; `AlgorithmsInit` chooses an
algorithm and one step an argument, so that TLC's states are the inputs. Where the code
divides by a standard deviation plus an epsilon, the module keeps the
variance; where it whitens, the module stops before. Both loops of the two
implementations of an estimator are translated, each from its own function,
and then compared.

Numbers of an instance are ints or finite floats (`R3Planning`). A float counts in fractions of 1.0, `FloatOne` of them:
`PerCent` times 100 multiples of the sixth decimal, and `Grain` finer fractions to each, so that
`round(x, 6)` rounds to a multiple of `Grain`. The theorems hold for both of any size, the code's sixth decimal (`PerCent` = 10000)
included; the run takes `PerCent` = 2 and `Grain` = 3. What a float has beyond the finer fractions is cut off (`NewNumber`), as are
overflow and the binary error of a product; infinite floats are no subject.

Left out of these modules: the mode `seq-mean-token-sum-norm` of `agg_loss` (`core_algos.py:1182`), which is another mode up to a
factor that is constant on the trainer's padded rows; the branch `keep_minibatch` of `_balance_batch`
(`ray_trainer.py:1128`), with which `RayPPOTrainer.fit` never calls it and which would drop the rows of an incomplete mini batch.
`IsCollect` has the pipeline dimension of Megatron's workers, which the FSDP engine of StarOR's script does not: it covers more
layouts than StarOR uses.

Taken as given: the settings of `examples/StarOR/run_staror.sh` where a module
has no constant for them (`dynamic_reward` on, `code_refine` on, sandbox mode,
logs saved, completed samples skipped); no verl checkpoint is resumed, so the
step counter starts at 0; different samples have different directories; between
two groups at least a second passes, since the language model generates.

## 3. What TLC checks

### Passing runs

| run | instance | shows |
|---|---|---|
| `search_gate` | 3 stages, 2 rollouts, 6 iterations, gate, cluster update and one repair | the tree and its statistics (`ExpandedOnce`, `QBounded`, `VisitAccounting`), the reward phase (`LateWeightsAfterCodeAttempt`), that no anchored descent ends a search that has leaves elsewhere (`NoLeafMeansExhausted`), and that the gate before CODE costs a search one iteration at most and only once (`GateCostsOneIteration`) |
| `search_chain` | 4 stages, 1 rollout, 7 iterations, six kinds of outcome (objectives on and off scale, errors), filter, 2 repairs | the search ends (`Termination`), goes on after CODE only when the final candidate is unusable (`NoGoodCodeAbandoned`), and a stop for consensus, for an early verdict or for good CODE names a record that has what the reason says (`StopJustified`) |
| `answer` | 7 stages in a chain, 6 records of eight kinds (objectives close to each other, far, off scale, none) in every order | the answer of a search that was not stopped early: an exact majority prevails whatever the order (`MajorityWins`), and no objective is answered only when three contradict each other (`SilenceMeansContradiction`) |
| `exec_groups` | 3 programs (two of equal size, one endless), 2 threads, 2 groups, 1 case | one answer per program (`ImplementsMemo`), each from its own run (`OwnProgram`), with its own LP file but for one that could not be removed (`FreshStructure`), and groups get scored (`GroupsAreScored`) |
| `fit_crashes` | 3 samples, 2 iterations, 2 crashes, restarts with any setting | results implement `ResultLedger`, have their trace (`TraceBeforeResult`), all get written (`EverySampleGetsResult`), leaks need a failed reset (`LeakNeedsFailedReset`), groups are on policy (`OnPolicyOnceLearned`) |
| `algorithms` | every input within the bounds below | rewards: clusters are sound and independent of the order, and consensus and structural rewards are shares of a whole, committed as previewed (`GroupRewardsSound`); cases are of their own sample and move what they pick, ints and floats, if there is room, and widening a scale keeps its matches (`TestPlansSound`); a group's records, rows and generations are about the same rollouts (`GroupBookkeeping`); masked tokens do not count and estimators agree where their baselines do (`EstimatorsAgree`); partitions are balanced and lose no row, micro batches are restored and losses do not depend on the division (`SplitsSound`); rows come back from any layout with their own results, padded or not, and repeats stay with their rows (`DispatchRoundTrip`) |
| `fully_async` | 10 samples, weights pushed every 2 steps, 2 tasks at once, queue and staleness limit 3, 1 crash | staleness is bounded (`FreshnessBound`), a sample is in one place and trained once (`OnePlace`), what is lost is bounded (`NothingLeftBehind`), training ends (`TrainingEnds`) |
| `weights` | 4 tensors in 3 buckets, a chain of 3 rollout ranks in 2 replicas, 1 push, 1 replica that cannot be paused | whatever the order of copies, reads and answers, the push implements `WeightDelivery` (`ImplementsDelivery`), and it ends with nothing left for the next (`EveryPushEnds`) |
| `checkpoints` | 3 epochs of 2 batches, last step the 4th, saves every 2nd step or at any, actor and critic with any limit of 1, 2, 3 or none, 3 crashes | what the tracker names can be resumed and comes from one launch (`TrackedRestores`), batches are trained once and in order (`BatchesInOrder`), the last step is exceeded by at most one per crash (`StopsInTime`), and training ends unless the crash hit the only copy of something (`TrainingEnds`) |
| `rollout` | 2 conversations of up to 2 turns with tools and users, 2 servers, a balancer that remembers 1, responses of 3 tokens, 1 push | cut off and continued at any token on any server, a transcript is what one uninterrupted generation could have written, with its mask and log probabilities (`TranscriptKept`), reported versions enclose those of all tokens (`VersionsCover`), and every conversation ends, without room only if a user talked into it (`EveryAgentEnds`) |

Every property of a passing run has a mutant of the code's model in
`PROJECT.json` that violates it. The mutated forms stand in the modules before
the definitions they change.

### Runs that disagree with the repository's text

| run | what the code does | what the text says |
|---|---|---|
| `repair_weights` | repaired programs are scored without the flag that forces the late weights | `tree.py:106`: after the first attempt, late-phase weights |
| `exec_stale` | file numbers restart with every pool while directories and bytecode stay: within one second, an r3 run can execute the bytecode of another trajectory's program of equal size | `executor.py:122` and `:337`: the workspace is reused for speed, and stale files are removed |

### Further disagreements, without a run of their own

Met while modelling; each is what the cited definition computes, and only a
wording disagrees with it.

* `config.py:25` asks for two consecutive attempts to enter CODE on the same node; the
  gate (`tree.py:207`) counts the attempts of the whole search, and the second may be
  for another node, with other iterations in between. `search_gate` has such searches.
* `tree.py:1921` says "highest-visit record"; the final choice truncates
  fractional visits to integers first (`FinalSelection!NodeVisits`).
* The README of `fully_async_policy` bounds what is generated between two pushes
  by `max_required_samples` less the stale samples. A reset does not count the sample the processor holds
  while it waits for a slot, so there may be one more than
  `max_required_samples` outstanding: `FreshnessBound`, and TLC reaches it.
* The trainer's last push is made only if `local_trigger_step` is 1
  (`_fit_update_weights`), while its caller asks for it after the finish
  signal in general: the steps after the last full group of
  `trigger_parameter_sync_step` are trained but neither pushed nor given a version (`Stop`).
* The finish signal goes into a queue that may be full and then drops a finished
  sample (`End`). A resume does not generate again what was pending, running or
  queued; a comment in the code admits it.
* RLOO's loop gives a group of one its score, its vectorized form nothing.
* The docstring of the multi-turn token baseline says `handle_zero_tail` is
  off by default; the signature turns it on.
* `rearrange_micro_batches` documents that it pads empty micro batches, the code asserts there
  are none (`Divisible`); and `max_token_len` is no bound on a micro
  batch: 6, 6 and 6 with a limit of 10 are put into two.
* `_perturb_value` leaves a zero that would have to go down as it is, and a float 1.0 that would
  have to go up, because it keeps shares between 0.0 and 1.0; so a
  case may be its base instance (`PerturbationMoves` states both exceptions, `NoRoom`).
* `_cleanup_lp_artifacts` (`executor.py:428`) swallows every error: an LP file that cannot be removed stays, the
  run goes on, and if its program dumps no model of its own, the earlier one's structure is read for it (`executor.py:455`).
  `AfterCleanup` removes or not, and `FreshStructure` excepts a file that was there right before the run (`left`). The
  property then still says that no older or later file is read, and none of a run whose program wrote one.
* `build_process_group` wants lists as long as the world; with one rollout rank
  the nixl `build_topology` makes a list of two, and the push stops at an assertion.
* An adapter pushed through the shared buffer is added once per bucket under one id
  (`_update_weights`), so of an adapter larger than a bucket the last part would
  replace the others. With a checkpoint engine the trainer collects the weights with
  `base_sync_done` off (`engine_workers.py:687`), which leaves an unmerged adapter
  out: such a push sends the base model only.
* `end_episode` prints the exception of a failed reset and goes on
  (`staror_fit.py:489`), and nothing resets at the next begin, so a task may sample and
  train with the adapter of the one before; `model/backend.py:16` and `:20` say adapters are initialised for one task
  and dropped after it. `LeakNeedsFailedReset` is what holds.
* The README of `fully_async_policy` says that without `partial_rollout` a push
  waits for the tasks to complete (line 216). `update_weights` aborts all requests in either mode; without
  `partial_rollout` the conversation takes the torso for the whole answer (`Retries`). If it is empty
  and the first, and a user then talks, the conversation has a mask without log probabilities
  (`TranscriptKept` fails with `PartialRollout = FALSE`); if nothing follows, `prompt_ids[-0:]` returns the prompt
  as the response (`LastOf`).
* `FullyAsyncLLMServerManager` makes interruptions "invisible to the AgentLoop", but each retry's budget is
  computed afresh from the length of what is sent (`MaxTokens`): after a prompt shorter than `prompt_length`, a
  response that was cut off may become longer than `response_length`, which `run` then shortens.
* `_handle_interacting_state` does not look at the length of the response, as
  `_handle_processing_tools_state` does: a talkative user leaves a request without room for an answer, which
  the engine refuses; the exception ends the conversation and with it the `gather` of its batch (`Refuse`).
* `ensure_checkpoint_capacity` says that with `max_ckpt_to_keep=1` "we keep the existing checkpoint
  until the new save completes successfully". `register_checkpoint` removes the previous actor folder when the
  actor's shards are written, before critic, `data.pt` and tracker: a crash in between leaves a tracker
  that names an incomplete checkpoint, and no launch resumes (`TrackedRestores` and `TrainingEnds` except this case).
* The tracker, written last "for atomic usage" (`ray_trainer.py:968`), is emptied by `open` before it is
  written; a crash between the two makes every later launch fail in `int("")` although complete
  checkpoints are there (`Refuse`).
* `previous_saved_paths` is empty after a restart (`Resume`), so what earlier launches saved is never removed and more than
  `max_ckpt_to_keep` checkpoints stay.
* A run that is resumed from its last checkpoint, with epochs left, trains one more step, and
  saves it: `total_training_steps` is exceeded by one for each such resume (`StopsInTime`).
* Automatic padding appends rows to the caller's own batch (`CallersBatchGrows`).

### The bounds, and why they are enough

* The CODE-entry gate, the iteration after it, and a CODE group below another
  node than the deferred one need five iterations over three stages: one per
  stage before CODE, the deferral, the other expansion. `search_gate` has one
  more, so that the search goes on after a CODE group. Its anchored descents start after a run
  of two equal selections (`max(2, max(2, K) // 2)`) and exhaust the anchor's
  subtree while its siblings have leaves; the whole tree would take eight iterations, which were tried
  with one outcome. Four stages with K = 1 reach the gate, two
  fallbacks and an exhausted tree in seven iterations (`search_chain`). The
  consensus window of three iterations of three stages needs four stages and
  three iterations; the fourth lets a window be preceded by something.
* The answer depends on records only, so `answer` makes one per iteration and
  uses the seven stages of the SolverLLM order to have room for six: enough for
  a majority of four, for two clusters of three (where the average prior
  decides) and for three pairs.
* Two threads are enough for every race on one cache entry, one file or one
  directory: both take part in pairs of accesses only. Two groups show what
  outlives a pool. Three programs have equal sizes, different sizes, LP files,
  and no end.
* Two crashes let a restart be interrupted itself; three samples have one
  before, one during and one after the crash. A group more or less per task makes
  no difference to the files, two show a group after an update.
* `fully_async`: ten samples are three times the staleness limit, so that the
  rollouter pauses, is reset and resumed several times before and after the crash; a limit
  of 3 with pushes every 2 steps makes the queue fill both from tasks that were
  running at a pause and at the end. Two tasks are the least with which a sample
  waits for a slot while another is done and not reaped. One crash suffices: a
  second one starts from a state the first can reach too, except for the amount lost,
  which `NothingLeftBehind` counts per crash. Other settings (two samples
  per step, no trigger, a limit of 2 or 4, saves every second version) were tried
  with the same results.
* `algorithms`: groups of up to three rollouts show a chain of three objectives
  of which only neighbours are within the tolerance; two earlier groups let
  structural samples have two ages; two rows in a group show
  a mean, three a singleton beside a pair; three tokens put an observation between two
  turns; up to five items in up to four parts make the differencing method merge
  states of all shapes; two ranks that want different numbers of micro
  batches are what their synchronisation is for; up to six rows on up to seven data-parallel ranks
  need a batch to be repeated more than once as padding.

* `weights`: three buckets are the least of which one is read while another is
  written and a third is to come; the last of three ranks has no next, the middle
  one both neighbours; a bucket of two tensors and buckets of one
  make a shared buffer be filled over several copies and handed over after the buckets
  it came from have changed roles. A replica of two ranks needs both its workers, one of
  one rank is the other's neighbour. Nothing but emptied queues outlives a push (`EveryPushEnds`), so
  one push is like the next.

* `rollout`: two servers and two conversations let the balancer prefer either, and with
  room for one in its cache the other is forgotten and moved. Prompts of one and of two tokens are one
  shorter than and one as long as `prompt_length`; three tokens leave room for an
  answer that is cut off, one that goes on and a feed. Two turns make first and later turns differ in what they
  report. One push lets a request be cut off before its first token, between two, or not at all, before and
  after either turn; an instance with two pushes has 6.3 million states and was checked for the two invariants once.

* `checkpoints`: two batches per epoch have one within and one at the end; the last step ends the second
  epoch, and the third has room for runs that are resumed behind it, once within the epoch and once with no epoch left. Limits up to three, different
  for the two groups, let `ensure_checkpoint_capacity` and `register_checkpoint` remove
  at every save, at some, and never. Three crashes let a resumed launch be interrupted while it overwrites what the first one left, and training be resumed behind its last step until the epochs are over.

`MaxIterations` is the program's own bound. `MaxGroups`, `MaxClock`, `MaxUpdates`,
`MaxFailures` and `MaxCrashes` bound the model only. `PendingMax` and `MaxRequired` are the program's own,
small.

### Fairness

The search and the outer loop are single Python loops: weak fairness of their
whole step. In `StarORFit` that includes `Start`, that is, somebody starts the
program again after it died; it dies finitely often. In `RewardExecution` each
thread is scheduled, an endless program is killed by the time-out the executor
passes to `subprocess.run`, and the scorer goes on when its pool is done.
Neither `Tick` nor any new group is forced.

In `FullyAsync` the event loop runs what is ready (weak fairness of the processor,
the monitor and the reset), each generation comes to an end (weak fairness of
`Finish`), and the trainer takes its steps: strong fairness, because the monitor
takes the lock again and again and `HandOver` withholds `Train` each time, which says
only that the two do not coincide, not that training is slower for it. No
crash is forced. The stale pause described under `CheckPause` makes the fairness of the monitor
necessary: without it nobody resumes a rollouter that has paused with nothing outstanding.

In `WeightTransfer` hosts, devices and workers go on (weak fairness of all steps but
a new push and a failure): reads and copies end, and Ray calls are made.

In `TrainerCheckpoints` the driver goes on and is launched again after a crash (weak fairness of
`Launch`, `Train` and `Save`); it crashes finitely often.

In `AgentRollout` a push that has begun goes on and each coroutine takes its steps (weak
fairness of `Push`, and of `Agent` and `Release` for each conversation): servers generate,
tools and users answer. Which token ends an answer is left open; that there is a last one comes
from `MaxTokens`. No push is forced.

## 4. What is proved

Checked by TLAPS for every value of the constants that satisfies the named
assumptions (sizes at least 1, rewards in their range, a mean within the range
of what it averages; cluster weights at most one; finitely many samples at
different positions; a unit of scales of at least 2). `GroupRewardsAlwaysSound` has as hypothesis that the four
weights of each phase add up to ten tenths, as the defaults in `default_reward.py:459-466` do. No bound of section 3 is used,
except by the theorems that speak of `MCAlgorithms` itself.

*SearchProofs*, the search. `TypeCorrect` with the invariant `TypeInv`: `TypeOK` and
the fact that a selected node stays childless and not at CODE until it is expanded (`LeafSelected`),
without which an expansion could not be typed. The node budget in `TypeOK` needs
the position in the iteration. `LeavesExpandedOnce` follows from `LeafSelected`: what gets
children has none. `QValuesBounded`: path and cluster updates add a value that
is the group's mean times the visits they add, so the quotient stays within the
bounds of the mean. `CodeOnlyAfterDeferral`, `SuppressionIsOneShot` and `LateWeights`
share `GateInv`, which ties the attempt counter, the deferral and the pending
suppression to the iteration and says that the late-weights flag is set before
a CODE node or anything after the deferral can be created.

Paths are sets given by a recursive function over node numbers. `Descent` (a node's parent has a smaller
number) makes that function exist and lets facts about paths be proved from the least
node they fail for (`LeastElement`, `AncestorInduction`): every created node's path leads to the root through created
nodes, and two nodes of one path lie on each other's (`PathChain`). With them
`ExhaustedOnlyWhenNoLeafIsLeft`: the descent starts at an anchor only if something below it can be
expanded, so a search that finds nothing looked below the root, which is everywhere.
`VisitsCountGroups`: a group counts in the subtrees of exactly the nodes on the selected
path; a peer hangs beside that path and gets less than one visit, and the group counts below its parent (`PathHasNoLineage`,
`OldNodeVisits`).

`OneIterationForTheGate` counts: every iteration that is through has scored a group or is the one that was
deferred (`CountInv`), and by `GateInv` there is one deferral at most, because the attempts are counted over the
whole search and never taken back. `StopsAreJustified` needs `OutcomeInv`, which says who
produced what and when: nodes belong to this iteration or an earlier one (`GroupInv`), the repair flow
appends one record an iteration and then leaves it (`RepairInv`), and its
candidate is the group's best node or a repaired program (`CandInv`). Without it a stop could name a
record of another iteration. `GoodCodeEndsTheSearch` adds `AbandonInv`, which keeps for each CODE group left
behind why it was; no later step adds to that group's records.

*SearchProofs*, the final selection. Both properties follow in every state from `TypeInv` and `RepairInv`: the work is in what the
operators return. Iteration and node give each record a rank (`RankOrders`), the records are
finitely many, and `Before` is the order of ranks. The recursive function behind `Leaders`
exists because it does up to any rank (`LeadersExist`); its clusters then divide the records, equal
objectives stay together (`ClusterFacts`), and keys of numbers have a
first best candidate (`FirstBestIn`), for which sums of priors must be numbers (`PriorSumTyped`). `MajorityObjectiveWins`: a cluster
with more than half of the records is the only largest one. `SilenceNeedsContradiction`: leaders
match no other leader, so without three contradicting records there are two clusters at most and one of them
qualifies.

*RewardProofs*, the executor. `TypeCorrect` with `TypeInv`: `TypeOK` and `JobsOK`
(each taken job is with exactly one thread or answered, which gives the results
a pool waits for). `MemoImplemented`: every step of threads and scorer is a step
of `MemoizedExecution` or leaves its variables alone; the second look at the
cache under the lock is where it is needed. `StructureIsFresh` with `LpInv`
(the LP file in a directory whose program runs is of that program, or the one the removal has left, or absent).
`GroupRunsOwnPrograms` with `ProgramInv`: bytecode files have a time in the
past, and those with the current second have file numbers that no thread uses
any more in this call, so that no import of a group's run finds a stale one. For r3 runs this
argument fails, and `exec_stale` shows how.

*StarORFitProofs.* All from one invariant `FitInv`: `BudgetInv` (steps made,
groups the task may still make and a whole task for each pending sample fit
into the budget), `FilesInv` (how far the running task's files are, and that
pending samples have no result), `AdapterInv` (only samples that are not pending have
trained the actor; while resets work, only the running one; after an update and
its push both adapters are equal). From it `TypeCorrect`, `ResultsHaveTraces`,
`BudgetIsEnough`, `NoSilentLeak`, `GroupsAreOnPolicy` and the refinement
`LedgerImplemented`.

*FullyAsyncProofs.* `TypeCorrect` with `TypeInv`: a sample is in hand whenever one
waits for a slot or is submitted, and the checkpoint's position lies within the data. `SamplesInOnePlace`
with `PlacesInv`: the finish signal is the last message, so that the queue never holds
it twice; nothing is further on than what has been taken, so that a taken sample
is new; and what the checkpoint has trained lies below its position, so that a
resume finds no sample it will generate again. `StalenessBounds` with `FreshInv`:
the staleness counter is at least what is outstanding, but for the one sample that
waits for a slot while a reset runs. A reset keeps this although it counts and sums up in two
steps, because it holds the lock in between: no sample is submitted, and its count
covers what still runs (`ResetCounts`). No step but taking a sample adds to what is
outstanding (`OutstandingGrows`). `LittleIsLeftBehind` with three more: `ResetInv` (at most one reset is
in the lock, and the trainer waits for it), `EndInv` (the order of the end: all data is taken, then nothing runs, then
the finish signal is sent, then the trainer sees it with nothing behind it) and the
account `LossInv`: what is neither trained, nor dropped, nor on its way
(`Missing`) is at most one crash's loss per crash and less than one training step at the
end, and the same of the checkpoint with one crash more. A
crash turns what the checkpoint lacks into what is missing, which is why the
checkpoint needs its own account.

*WeightTransferProofs.* `DeliveryIsImplemented`: the transfer of buckets implements `WeightDelivery`. Its
steps map one to one or stutter; the work is in what makes `Report` and `Reopen` legal, that all
workers have all tensors of this push whole. `IInv` (`TransferInvariant`) says why. Between an agent and the next rank there is at
most one of a message, a read and a notification, and the bucket it is about still holds what the
message lists (`LinkOK`), because the agent fills its other bucket until it is notified. Within a rank,
what is listed for the worker stands in the shared buffer or is still being copied there, apart from what
else is listed (`SharedOK`), and every copy has taken place before the list is handed over, so
that what the worker clones is of this push (`HandOK`). `Coverage` keeps each tensor of each rank loaded, inside the rank or
before it in the chain, and `LastInv` says that the last bucket is announced by those only who had it and that nothing follows it. So a
worker that is done has loaded everything (`DoneHasLoaded`): nothing is left anywhere before it. Between two pushes nothing
is under way (`Quiet`), which is what lets the next one start with new buckets.
`DeliveryServesOneVersion`: a replica of `WeightDelivery` that serves and was paused has one version on all its
workers. It is inductive with the types, because no worker belongs to two replicas (`ReplicasDisjoint`), so that loading a closed
replica leaves the open ones alone; with the refinement the transfer has it (`OneVersion`).
The assumptions are those of the code's assertions (every tensor fits into a bucket, at least two rollout ranks) and
the types of the constants.

*AgentRolloutProofs.* `TypeCorrect` and `VersionsEnclose`, from `VersionInv`. Its part about
the servers, `OneLabel`, says that all open servers have one label and the weights it
names, since none is opened before all are loaded and labelled. Its part about a conversation
says that its bounds enclose its versions, that what it has seen is on no open server's future
(`Seen`), and that bounds of its text are not after those of the output in hand
(`NotAfter`); from these a merge and a turn keep the bounds in order. A push
keeps all of it because labels change under closed servers only and grow (`Forward`).
`TranscriptsAreKept` with `TranscriptInv`: text, mask and log probabilities are aligned, the output in
hand continues the text, and what a request has collected continues what the
server was sent (`Ordered`); a finished turn has left a mask, so that the response is cut where the prompt ends. It is
proved with partial rollout on, the setting the trainer needs for pushes under
way. Without it the property is false, for the reason in section 3: a cut-off answer is empty.

*TrainerCheckpointsProofs.* `TypeCorrect` with `TypeInv`. `TrackedCheckpointRestores` with `SaveInv`: the
paths of a manager increase, and its newest is the tracked checkpoint until the manager registers the one being saved
(`PathsOK`), so that making room and registering spare it as long as more than one is kept; the worker groups
agree on what they have trained on, as long as the step says (`Progress`); whatever is whole has the length of its
step (`WholeLengths`); and what the save at hand has written is there (`Written`). `StepsBounded`: the tracker is below the last step, but for one step per crash. `BatchesOrdered` with
`OrderInv`: step, epoch and position name one batch (`Number`), and a saved position the last one before it; that a
resume computes the same epoch from the step alone is the uniqueness of division (`NumberUnique`).

*RewardProofs*, the formulas, and *AlgorithmProofs.* The modules of the pure algorithms, for inputs of any size. What a fold
returns is the last value of a recursive function over positions (`FoldExists`, `FoldSteps`, `FoldHistory`), and claims about that
function are proved from the least position they fail at (`LeastElement`). Lists of what satisfies a condition are defined in
`Selections` by rank, as sets are counted, because the library's recursive filter tells the provers nothing (`ListedFacts`,
`SelectedFacts`, `ListedSum`). The theorems about `MCAlgorithms` (those of its invariants) apply the general ones to whatever its
step may choose: the initial states have chosen nothing, and each action is the only one that disturbs its conjunct of an invariant
(`OneAction`). `RewardProofs` has the paragraphs on clusters, consensus and structural rewards, `AlgorithmProofs` the others.

* Scales: both forms of a range are one interval in either order (`NormalizedIs`), widening a normal scale takes
  what the scale took (`WiderTakes`), hence `ExpansionAlwaysKeepsMatches` and `DefaultScaleIsAlwaysWider`.
* Plans: `SamplesArePlannedAlone`. `PerturbationAlwaysMoves` rests on `PerturbedValueMoves`, one lemma for each
  branch of `_perturb_value`: an int is moved by one when rounding would take the factor's change back
  (`PerturbedWholeMoves`); a float up to 1.0 moves by at least three grains before it is rounded to one, and a clamped one
  stays only where it was at the clamp already (`PerturbedSmallMoves`); a larger float moves by more than
  rounding can take back (`PerturbedLargeMoves`). `NoRoom` is what remains, for any focus, repetitions included.
  `CasesAlwaysExplainThemselves` follows a case through its patches (`CaseStart`, `PatchExplained`):
  keys not patched keep their values, patched ones have what the record of the patch says.
* Groups: record by record, callback and backend speak of the same completion (`RecordStep`, `RolloutsAreKept`); priors taken by position
  are the records' since they are equal (`EqualPriors`). A row's score is its reward, wherever the reward stands and
  whatever the mask, because an empty mask gets a token (`ScoreIsReward`); differences from a mean cancel
  (`DifferencesCancel`). Padding copies the first row fewer times than a mini batch has rows (`BatchRows`).
* Clusters: the greedy pass opens a leader for a value if no earlier leader is within the tolerance. What it opens is
  determined by the set of values alone (`OpenValuesFacts`), the code's sorted order being fixed by it; from that the independence of the
  order in `ClustersAlwaysSound`.
* Consensus rewards: `IsMemory` (leaders distinct, a count for each, the total their sum) holds of an empty memory and after each
  commit (`CommitKnown`, `CommitNew`), so that the counts after a group are those before plus its own
  (`GrownCounts`) and shares of one whole add up to at most that whole (`ShareFacts`, `SharesAddUp`). Sums of
  parts of ten tenths stay between nothing and all (`TenthsAdd`, `TermsAreShares`): `TotalsAlwaysShares`.
* Structural rewards: votes of a group do not depend on the order its structures are listed in (`GroupVotesAre`), the decay of older
  votes is a power below one (`DecayIs`), so older votes are fewer an iteration later (`OldVotesBounds`), and what has been
  committed is what the votes count (`AfterVotes`). Agreements are sums of such parts over the features a capacity sums
  up in full: `StructureAlwaysSound`.
* Dispatch: `RowsAlwaysComeBack`. Exactly one rank of each data-parallel group collects, and in the order of the groups (`CollectedRanks`), pieces of
  one length put together are the batch they were cut from (`FlattenPieces`), and padding is taken off the end (`UnpadResults`, `PaddedBatches`).
* Exact fractions: Euclid's algorithm has a recursion that ends (`GcdExists`, `GcdRecursion`), a fraction has its value whatever it was
  written from (`FracEqual`), and two fractions in lowest terms of one value are the same (`SameFraction`): the relation `Stands` (f is a/b) is
  what the proofs compute with. With it
  `VariantsAlwaysAgree`: squares of deviations add up to what the sums of scores and of squares give (`VarianceForms`),
  and the three forms of leave-one-out are one fraction (`LeaveOneOutForms`).

* Masked tokens: `MaskedTokensNeverCount`. The tokens of a row without its observations are those of the row that its mask keeps, by rank
  (`CompactFacts`, `Packs`), and a sum in which the others count for nothing is the same over both (`PackedSum`). Two scans that run
  back over rows of different lengths are compared position by position from the end: a masked token leaves the scan's state alone
  (`GaeStepIs`), so that the state ahead of a token is the one ahead of its copy (`GaeOfTokens`), and what is put in front
  of a list is found again by its distance from the end (`PutInFront`). Rewards to go are sums of what lies ahead (`ReturnsToGo`). The
  baselines compare sums over the columns of a group (`SameColumns`, `BaselinesOfTokens`). `EstimatorsAlwaysAgree`
  takes both theorems to every choice of rows.

`CodeOnlyAfterDeferral`, `SuppressionIsOneShot` and `BudgetIsEnough` hold for all constants and are not among the
runs' properties; TLC was used to find their invariants.

Only model-checked:

* the liveness properties (`Termination`, `GroupsAreScored`, `EverySampleGetsResult`, `TrainingEnds` of both trainers,
  `EveryPushEnds`, `EveryAgentEnds`), which are out of the prover's reach;
* `SplitsSound`: its partitions come from the library's sorting, filtering and flattening of sequences, which are defined by
  recursion or by choice among permutations and tell the provers nothing; the losses are sums over those partitions.

## 5. Not modelled

* How priors are computed, and the PUCT formula itself: floating-point formulas
  over node statistics. Any leaf the descent can reach is explored instead, so what
  is checked holds for every prior.
* How the features of a model are read from its LP file; r4 itself is in
  `StructuralReward`.
* The subprocess mode of the executor, which StarOR's script does not use.
* Files written after `result.json` (runtime summary, selected trajectory): the
  code promises nothing about them after a crash.
* Prompts, parsing, mapping extraction, the heuristics that read keys and scales out of a
  description: text processing whose wording no property depends on.
* Dataset loading and the scripts of `src/tools`: planned, sequential and offline.
* Tensors and collectives. An update, a push and a reset are seen through what
  they do to the adapters; whitening, clipping and the policy losses of
  `core_algos.py` through none of the properties.
* The nccl, hccl, kimi and mooncake checkpoint engines: broadcasts of the collective
  libraries, whose ordering is theirs. Scaling replicas up and down.
* Agent loops other than `ToolAgentLoop`: the single-turn loop is its first turn, diffusion models have no
  tokens. The padding and the rewards of a batch of conversations.
* What `RayPPOTrainer.fit` does within a step, Megatron's checkpoint managers, reward loops, one-step-off policy, VLA,
  transfer queue, model definitions, kernels, Megatron and vendored code: most of the
  repository's lines. They are library code StarOR does not run (its script uses the
  FSDP engine with vLLM and `staror_fit`), or numerical code TLC cannot compute with. The share
  of mapped lines is low for that reason.

## 6. Plan

1. `FourStageMCTS`: the search (done). 2. `RewardExecution` over `MemoizedExecution`
   (done). 3. `StarORFit` over `ResultLedger` (done).
4. `FinalSelection` over `FourStageMCTS` (done).
5. `ConsensusReward`, `StructuralReward` and `ObjectiveScale` (done).
6. `GrpoGroup`, `Advantages`, `MicroBatching`, `BatchDispatch` (done).
7. `R3Planning` (done; the online retries of single samples are left).
8. `FullyAsync` (done). 9. `WeightTransfer` over `WeightDelivery` (done).
10. `AgentRollout` over `WeightDelivery` (done).
11. `TrainerCheckpoints` (done).
12. Left: a composition of the search with the calculator's counters, so that the
   weight plan of records, repairs and groups is followed over both; `GrpoGroup` in
   place of `StarORFit`'s choice between `KeepPolicy` and `UpdateActor`; dataset
   loader and evaluation tools as functions over small inputs.

Theorems to add: that partitions lose no row, the provable part of `SplitsSound`.
