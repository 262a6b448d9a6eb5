----------------------------- MODULE Advantages -----------------------------
(***************************************************************************)
(* The advantage estimators of ppo/core_algos.py that one another's values *)
(* can be compared with, in exact fractions: no epsilon, no whitening and  *)
(* no division by the standard deviation, whose square is kept instead.    *)
(*                                                                         *)
(* A batch is a sequence of rows, each a record of sequences over the      *)
(* tokens: mask (0 or 1), rewards, values, weights (w_per_timestep, above  *)
(* zero), and the group (index) of the row.                                *)
(***************************************************************************)
EXTENDS Integers, Sequences, FiniteSets, SequencesExt, Fractions, Selections

Tokens(row) == DOMAIN row.mask
Steps(row) == [t \in Tokens(row) |-> t]
Unmasked(row) == Listed({t \in Tokens(row) : row.mask[t] = 1})
Length(row) == Len(Unmasked(row))

\* The row without its masked tokens, padded to its old size.
Compact(row) ==
  LET u == Unmasked(row)
      moved(s, pad) == [t \in Tokens(row) |-> IF t <= Len(u) THEN s[u[t]] ELSE pad]
  IN  [row EXCEPT !.mask = moved(@, 0), !.rewards = moved(@, 0), !.values = moved(@, 0),
                  !.weights = moved(@, 1)]

\* What is at the unmasked tokens.
AtUnmasked(row, s) == [n \in DOMAIN Unmasked(row) |-> s[Unmasked(row)[n]]]

Add(ns) == FoldLeft(+, 0, ns)
OutcomeScore(row) == Add(row.rewards)

Together(batch, i) == {r \in DOMAIN batch : batch[r].group = batch[i].group}
RowsOf(batch, i) == Listed(Together(batch, i))
GroupScores(batch, i) == [n \in DOMAIN RowsOf(batch, i) |-> OutcomeScore(batch[RowsOf(batch, i)[n]])]
-----------------------------------------------------------------------------
(* Generalized advantage estimation, one scan from the last token back     *)

\* Mutation: the value of an observation token is used like any other.
MutantGaeStep(state, row, t, gamma, lam) ==
  LET delta == Minus(Plus(Whole(row.rewards[t]), Times(gamma, state.next)), Whole(row.values[t]))
      gae == Plus(delta, Times(gamma, Times(lam, state.gae)))
  IN  [next |-> Whole(row.values[t]), gae |-> IF row.mask[t] = 1 THEN gae ELSE state.gae,
       out |-> <<IF row.mask[t] = 1 THEN gae ELSE state.gae>> \o state.out]

\* Observation tokens are passed over.
GaeStep(state, row, t, gamma, lam) ==
  LET delta == Minus(Plus(Whole(row.rewards[t]), Times(gamma, state.next)), Whole(row.values[t]))
      gae == IF row.mask[t] = 1 THEN Plus(delta, Times(gamma, Times(lam, state.gae))) ELSE state.gae
  IN  [next |-> IF row.mask[t] = 1 THEN Whole(row.values[t]) ELSE state.next, gae |-> gae,
       out |-> <<gae>> \o state.out]

\* compute_gae_advantage_return before whitening
Gae(row, gamma, lam) ==
  FoldLeft(LAMBDA state, t : GaeStep(state, row, t, gamma, lam),
           [next |-> Zero, gae |-> Zero, out |-> << >>], Reverse(Steps(row))).out

\* (rewards * mask) summed from each token on: ReMax and the token baselines.
RewardsToGo(row) ==
  [t \in Tokens(row) |-> Add([u \in Tokens(row) |-> IF u >= t THEN row.rewards[u] * row.mask[u] ELSE 0])]

\* compute_reinforce_plus_plus_outcome_advantage with gamma = 1: the running
\* return starts again at every masked token.
ReinforceStep(state, row, t) ==
  LET r == row.rewards[t] + state.running IN [running |-> r * row.mask[t], out |-> <<r>> \o state.out]

ReinforceReturns(row) ==
  FoldLeft(LAMBDA state, t : ReinforceStep(state, row, t), [running |-> 0, out |-> << >>],
           Reverse(Steps(row))).out
-----------------------------------------------------------------------------
(* Outcome baselines of a group                                            *)

\* Mean and variance of compute_grpo_outcome_advantage.
GrpoStatistics(batch, i) ==
  LET s == GroupScores(batch, i)
      mean == Frac(Add(s), Len(s))
      square(x) == Times(x, x)
  IN  IF Len(s) = 1 THEN <<Zero, One>>
      ELSE <<mean, Over(Sum([n \in DOMAIN s |-> square(Minus(Whole(s[n]), mean))]), Whole(Len(s) - 1))>>

\* group_mean_std: from the sums of scores and of their squares.
VectorStatistics(batch, i) ==
  LET s == GroupScores(batch, i)
      squares == Add([n \in DOMAIN s |-> s[n] * s[n]])
  IN  IF Len(s) = 1 THEN <<Zero, One>>
      ELSE <<Frac(Add(s), Len(s)), Frac(Len(s) * squares - Add(s) * Add(s), Len(s) * (Len(s) - 1))>>

Grpo(batch, i) == Minus(Whole(OutcomeScore(batch[i])), GrpoStatistics(batch, i)[1])

\* compute_rloo_outcome_advantage
Rloo(batch, i) ==
  LET s == GroupScores(batch, i)
      n == Len(s)
  IN  IF n = 1 THEN Whole(OutcomeScore(batch[i]))
      ELSE Minus(Frac(OutcomeScore(batch[i]) * n, n - 1), Times(Frac(Add(s), n), Frac(n, n - 1)))

\* compute_rloo_vectorized_outcome_advantage: a group of one gets nothing.
RlooVectorized(batch, i) ==
  LET s == GroupScores(batch, i)
      n == Len(s)
  IN  IF n = 1 THEN Zero ELSE Frac(n * OutcomeScore(batch[i]) - Add(s), n - 1)

\* compute_opo_outcome_advantage: the mean weighted by the lengths.
Opo(batch, i) ==
  LET rows == RowsOf(batch, i)
      lengths == [n \in DOMAIN rows |-> Length(batch[rows[n]])]
      scores == GroupScores(batch, i)
      weighted == Add([n \in DOMAIN rows |-> lengths[n] * scores[n]])
  IN  IF Len(rows) = 1 THEN Whole(OutcomeScore(batch[i]))
      ELSE Minus(Whole(OutcomeScore(batch[i])), Frac(weighted, Add(lengths)))

\* compute_gpg_outcome_advantage: scaled by the rows that have a score.
Gpg(batch, i) ==
  LET nonzero == Cardinality({r \in DOMAIN batch : OutcomeScore(batch[r]) # 0}) IN
  Times(Frac(Len(batch), IF nonzero = 0 THEN 1 ELSE nonzero), Grpo(batch, i))
-----------------------------------------------------------------------------
(* Optimal token baselines                                                 *)

\* w_cumulative
Energy(row) ==
  [t \in Tokens(row) |-> Add([u \in Tokens(row) |-> IF u <= t THEN row.weights[u] * row.mask[u] ELSE 0])]

\* B_t of the rows of a group, over the given returns and energies; none
\* where nothing weighs.
StepBaseline(returns, energy, rows, t) ==
  LET weight == Add([n \in DOMAIN rows |-> energy[rows[n]][t]]) IN
  IF weight = 0 THEN Zero
  ELSE Frac(Add([n \in DOMAIN rows |-> returns[rows[n]][t] * energy[rows[n]][t]]), weight)

\* handle_zero_tail: the tokens of the only longest row behind the second one.
InZeroTail(batch, rows, i, t) ==
  /\ \A n \in DOMAIN rows : rows[n] # i => Length(batch[rows[n]]) < Length(batch[i])
  /\ \A n \in DOMAIN rows : rows[n] # i => Length(batch[rows[n]]) < t

\* compute_optimal_token_baseline_advantage: by column of the batch.
TokenBaseline(batch, i, zeroTail) ==
  LET rows == RowsOf(batch, i)
      returns == [r \in DOMAIN batch |-> RewardsToGo(batch[r])]
      energy == [r \in DOMAIN batch |-> [t \in Tokens(batch[r]) |-> Energy(batch[r])[t] * batch[r].mask[t]]]
      base(t) == IF Len(rows) = 1 \/ (zeroTail /\ InZeroTail(batch, rows, i, t)) THEN Zero
                 ELSE StepBaseline(returns, energy, rows, t)
  IN  [t \in Tokens(batch[i]) |->
         IF batch[i].mask[t] = 1 THEN Minus(Whole(returns[i][t]), base(t)) ELSE Zero]

\* compute_multi_turn_optimal_token_baseline_advantage: by the number of the
\* unmasked token; rows without any are in no group.
TurnBaseline(batch, i, zeroTail) ==
  LET rows == Listed({r \in Together(batch, i) : Length(batch[r]) > 0})
      packed(r, s) == [n \in Tokens(batch[r]) |->
                         IF n <= Length(batch[r]) THEN s[Unmasked(batch[r])[n]] ELSE 0]
      returns == [r \in DOMAIN batch |-> packed(r, RewardsToGo(batch[r]))]
      energy == [r \in DOMAIN batch |-> packed(r, Energy(batch[r]))]
      base(n) == IF Len(rows) = 1 \/ (zeroTail /\ InZeroTail(batch, rows, i, n)) THEN Zero
                 ELSE StepBaseline(returns, energy, rows, n)
      nth(t) == Cardinality({u \in Tokens(batch[i]) : u <= t /\ batch[i].mask[u] = 1})
  IN  [t \in Tokens(batch[i]) |->
         IF batch[i].mask[t] = 1 THEN Minus(Whole(returns[i][nth(t)]), base(nth(t))) ELSE Zero]
-----------------------------------------------------------------------------
(* How the estimators are related                                          *)

\* Observation tokens do not count: where they stand between the turns of a
\* response, GAE and the multi-turn token baseline give the other tokens what
\* they would have without them.
MaskedTokensDoNotCount(batch, gamma, lam, zeroTail) ==
  LET compact == [r \in DOMAIN batch |-> Compact(batch[r])] IN
  \A i \in DOMAIN batch :
    /\ AtUnmasked(batch[i], Gae(batch[i], gamma, lam)) = AtUnmasked(compact[i], Gae(compact[i], gamma, lam))
    /\ AtUnmasked(batch[i], TurnBaseline(batch, i, zeroTail)) =
         AtUnmasked(compact[i], TokenBaseline(compact, i, zeroTail))
    /\ AtUnmasked(compact[i], ReinforceReturns(compact[i])) = AtUnmasked(compact[i], RewardsToGo(compact[i]))
    /\ AtUnmasked(compact[i], RewardsToGo(compact[i])) = AtUnmasked(batch[i], RewardsToGo(batch[i]))

\* Two implementations of one estimator agree, and estimators that differ in
\* their baseline agree where the baselines are the same.  Only a group of one
\* row divides the two forms of RLOO: its score, or nothing.
VariantsAgree(batch) ==
  \A i \in DOMAIN batch :
    LET n == Len(RowsOf(batch, i))
        others == Listed(Together(batch, i) \ {i})
        mean == Frac(Add([k \in DOMAIN others |-> OutcomeScore(batch[others[k]])]), n - 1)
    IN  /\ GrpoStatistics(batch, i) = VectorStatistics(batch, i)
        /\ n > 1 => /\ Rloo(batch, i) = RlooVectorized(batch, i)
                    /\ Rloo(batch, i) = Minus(Whole(OutcomeScore(batch[i])), mean)
                    /\ Times(Frac(n, n - 1), Grpo(batch, i)) = Rloo(batch, i)
        /\ n = 1 => /\ Rloo(batch, i) = Whole(OutcomeScore(batch[i]))
                    /\ RlooVectorized(batch, i) = Zero
        /\ (\A k \in DOMAIN others : Length(batch[others[k]]) = Length(batch[i])) =>
             Opo(batch, i) = Grpo(batch, i)
        /\ (\A r \in DOMAIN batch : OutcomeScore(batch[r]) # 0) => Gpg(batch, i) = Grpo(batch, i)
=============================================================================
