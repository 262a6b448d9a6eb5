----------------------------- MODULE GrpoGroup -----------------------------
(***************************************************************************)
(* One GRPO group of the search (ppo/staror_fit.py grpo_rollout_group,     *)
(* mcts/tree.py reward callback): filtering by execution errors, the part  *)
(* of a response that is trained, terminal rewards, advantages, the batch  *)
(* given to the actor, and what the search gets back.                      *)
(*                                                                         *)
(* A group is a sequence of completions, each a record                     *)
(*   error     its program ended with an execution error                   *)
(*   reward    its total reward, a whole number here                       *)
(*   mask      the positions of its response mask, not empty               *)
(*   stage     the text up to the stage's last tag: "short" (below 21      *)
(*             characters), "whole" (all of the completion) or "part"      *)
(*   ids       the number of tokens of that text                           *)
(*   match     how many of them are the response's own first tokens        *)
(* settings: filter (filter_rollout), adapt (enable_adaptation), stageOnly *)
(* (stage_update), miniBatch (ppo_mini_batch_size * rollout.n) and         *)
(* padFails (the batch cannot be padded).                                  *)
(***************************************************************************)
EXTENDS Integers, Sequences, FiniteSets, SequencesExt, FiniteSetsExt, Fractions, Selections

Positions(s) == [i \in DOMAIN s |-> i]

\* keep_mask of the group: the callback leaves one entry for each completion.
Kept(g, settings) ==
  Listed({i \in DOMAIN g : settings.filter => ~g[i].error})

\* _build_stage_update_response_mask: how many tokens of the row are trained.
SelectedLength(c) ==
  LET valid == Cardinality(c.mask) IN
  IF c.stage \in {"short", "whole"} \/ (c.match = 0 /\ c.ids = 0) THEN valid
  ELSE Min({valid, IF c.match > 0 THEN c.match ELSE c.ids})

\* The first n positions of a mask.
FirstOf(mask, n) == {p \in mask : Cardinality({q \in mask : q < p}) < n}

\* The response mask and the stage's mask.
TrainedMask(c, settings) ==
  IF settings.adapt /\ settings.stageOnly THEN c.mask \cap FirstOf(c.mask, SelectedLength(c))
  ELSE c.mask

\* _terminal_reward_tensor: the last token that is trained gets the reward.
TerminalToken(c, settings) == Max(TrainedMask(c, settings))

\* The rows of the batch: token -> reward.
RewardRow(c, settings) ==
  [p \in c.mask |-> IF p = TerminalToken(c, settings) THEN c.reward ELSE 0]

Score(c, settings) ==
  MapThenSumSet(LAMBDA p : RewardRow(c, settings)[p], TrainedMask(c, settings))

\* compute_grpo_outcome_advantage before the division by the standard
\* deviation, which changes no sign: a group of one keeps its score.
Advantage(g, settings, i) ==
  LET kept == Kept(g, settings)
      scores == [j \in DOMAIN kept |-> Score(g[kept[j]], settings)]
      total == FoldLeft(+, 0, scores)
  IN  IF Len(kept) = 1 THEN Whole(Score(g[i], settings))
      ELSE Minus(Whole(Score(g[i], settings)), Frac(total, Len(kept)))

Padding(n, settings) ==
  IF n % settings.miniBatch = 0 THEN 0 ELSE settings.miniBatch - (n % settings.miniBatch)

\* The rows the actor is updated with, as completions: the group and copies
\* of its first row.
ActorBatch(g, settings) ==
  LET kept == Kept(g, settings) IN
  IF settings.padFails THEN kept
  ELSE kept \o [i \in 1..Padding(Len(kept), settings) |-> kept[1]]

\* report["updated"]
Updated(g, settings) ==
  /\ settings.adapt
  /\ Kept(g, settings) # << >>
  /\ Len(ActorBatch(g, settings)) % settings.miniBatch = 0

\* Mutation: a generation has its position in the filtered group.
MutantRolloutIndex(kept, j) == j

RolloutIndex(kept, j) == kept[j]

\* The generations the search gets back, with a uniform prior.
Generations(g, settings) ==
  LET kept == Kept(g, settings) IN
  [j \in DOMAIN kept |-> [index |-> RolloutIndex(kept, j), reward |-> g[kept[j]].reward,
                          prior |-> Frac(1, Len(kept))]]

\* group_rollouts: the records the reward callback has kept for the search.
GroupRollouts(g, settings) ==
  FoldLeft(LAMBDA rollouts, i :
             IF settings.filter /\ g[i].error THEN rollouts
             ELSE Append(rollouts, [index |-> i, reward |-> g[i].reward]),
           << >>, Positions(g))

\* What the CODE stage passes instead: every generation, filtered or not.
CodeGenerations(g) ==
  [i \in DOMAIN g |-> [index |-> i, reward |-> g[i].reward, prior |-> Frac(1, Len(g))]]

\* _resolve_child_priors without trained priors: by position, normalised.
FallbackPriors(rollouts, generations) ==
  LET mass == Sum([j \in DOMAIN rollouts |-> generations[j].prior]) IN
  [j \in DOMAIN rollouts |-> Over(generations[j].prior, mass)]
-----------------------------------------------------------------------------
(* What the group promises                                                 *)

\* The j-th record of the search and the j-th generation of the backend are
\* about the same completion, although one list is filtered by the callback
\* and the other by the backend; the fallback priors, taken by position, are
\* those of the records also where CODE generations are not filtered.
RecordsMatchGenerations(g, settings) ==
  LET rollouts == GroupRollouts(g, settings)
      generations == Generations(g, settings)
  IN  /\ Len(generations) = Len(rollouts)
      /\ \A j \in DOMAIN rollouts : /\ generations[j].index = rollouts[j].index
                                    /\ generations[j].reward = rollouts[j].reward
      /\ rollouts # << >> =>
           FallbackPriors(rollouts, generations) = FallbackPriors(rollouts, CodeGenerations(g))

\* Every row keeps exactly its reward whatever part of it is trained, and the
\* advantages of a group of several rows sum to nothing.
RewardsSurviveMasking(g, settings) ==
  LET kept == Kept(g, settings) IN
  /\ \A j \in DOMAIN kept : Score(g[kept[j]], settings) = g[kept[j]].reward
  /\ Len(kept) > 1 => Sum([j \in DOMAIN kept |-> Advantage(g, settings, kept[j])]) = Zero
  /\ Len(kept) = 1 => Advantage(g, settings, kept[1]) = Whole(g[kept[1]].reward)

\* The actor is given whole mini batches that hold every kept row, no filtered
\* one, fewer copies than a mini batch has rows, and copies of the first row
\* only.
BatchIsTheGroup(g, settings) ==
  LET kept == Kept(g, settings)
      batch == ActorBatch(g, settings)
      times(i) == Cardinality({r \in DOMAIN batch : batch[r] = i})
  IN  Updated(g, settings) =>
        /\ Len(batch) % settings.miniBatch = 0
        /\ Len(batch) - Len(kept) < settings.miniBatch
        /\ ToSet(batch) = ToSet(kept)
        /\ \A j \in DOMAIN kept : j > 1 => times(kept[j]) = 1
=============================================================================
