-------------------------- MODULE ConsensusReward --------------------------
(***************************************************************************)
(* What score_rollout_group computes from the executions of a group        *)
(* (reward/default_reward.py, reward/clusters.py): the greedy clusters of  *)
(* objectives, the consensus reward r1 over the group (local scope) or     *)
(* over the group and all committed ones (global scope), the other terms   *)
(* and the weights they are combined with.  Objectives are integers in a   *)
(* unit far below the tolerance, rewards are fractions.                    *)
(***************************************************************************)
EXTENDS Integers, Sequences, FiniteSets, SequencesExt, Fractions

CONSTANTS
  NoObjective,              \* an execution without a usable objective
  TolNum, TolDen,           \* global_consensus_rel_tol
  AlphaNum, AlphaDen,       \* r1_alpha
  MinClusters,              \* r1_min_clusters
  WeightsOf                 \* phase -> <<w1, w2, w3, w4>>, in tenths

ASSUME RewardAssumption ==
  /\ NoObjective \notin Int
  /\ TolNum \in Nat /\ TolDen \in Nat \ {0}
  /\ AlphaNum \in Nat \ {0} /\ AlphaDen \in Nat \ {0}
  /\ MinClusters \in Nat

\* _within_rel_tol: not symmetric, the leader's size sets the tolerance.
WithinTol(v, leader) == TolDen * Abs(v - leader) <= TolNum * Abs(leader)
-----------------------------------------------------------------------------
(* SemanticCluster: the leaders in the order they were added, their counts *)
(* and the number of samples.                                              *)

EmptyMemory == [leaders |-> << >>, count |-> << >>, total |-> 0]

\* matching_leader: the first that fits.
Matching(mem, v) ==
  LET fits == {i \in DOMAIN mem.leaders : WithinTol(v, mem.leaders[i])}
  IN  IF fits = {} THEN NoObjective
      ELSE mem.leaders[CHOOSE i \in fits : \A j \in fits : i <= j]

\* commit_sample
Committed(mem, leader) ==
  IF \E i \in DOMAIN mem.leaders : mem.leaders[i] = leader
  THEN [mem EXCEPT !.count = [i \in DOMAIN @ |-> @[i] + IF mem.leaders[i] = leader THEN 1 ELSE 0],
                   !.total = @ + 1]
  ELSE [leaders |-> Append(mem.leaders, leader), count |-> Append(mem.count, 1),
        total |-> mem.total + 1]

CountIn(mem, leader) ==
  IF \E i \in DOMAIN mem.leaders : mem.leaders[i] = leader
  THEN mem.count[CHOOSE i \in DOMAIN mem.leaders : mem.leaders[i] = leader] ELSE 0
-----------------------------------------------------------------------------
(* One group: a sequence of records                                        *)
(*   code      the trajectory has code                                     *)
(*   run       how its program ended: "ok", "quiet" (no result, but no     *)
(*             error text either), "marked" (a solver's success text),     *)
(*             "error" or "timeout"                                        *)
(*   obj       the objective it printed, NoObjective if there is none      *)
(*   inScale   the objective fits the task's scale                         *)
(*   r4        the structural reward of its LP file, Zero without one      *)
(*   cases     how its r3 cases ended                                      *)

\* _r2_execution_success: a timeout never counts.
R2Success(r) ==
  \/ r.run = "ok"
  \/ r.run # "timeout" /\ (r.obj # NoObjective \/ r.run \in {"marked", "quiet"})

\* _effective_execution_success: what a program printed before its time was
\* over still counts.
EffectiveSuccess(r) == R2Success(r) \/ r.obj # NoObjective

\* r1_eligible: code, an effective execution and a finite objective.
Eligible(g) == {i \in DOMAIN g : g[i].code /\ EffectiveSuccess(g[i]) /\ g[i].obj # NoObjective}

\* Mutation: objectives are looked at in the order of the rollouts.
MutantEarlier(g, i, j) == i < j

\* eligible_items.sort: by objective, then by position.
Earlier(g, i, j) == g[i].obj < g[j].obj \/ (g[i].obj = g[j].obj /\ i < j)

\* The committed clusters that count: none in local scope.
History(mem, localScope) == IF localScope THEN EmptyMemory ELSE mem

\* The rollouts whose objective opens a cluster of its own: no committed
\* leader takes it, and no cluster that was opened before.
Openers(hist, g) ==
  LET opens[i \in Eligible(g)] ==
        /\ Matching(hist, g[i].obj) = NoObjective
        /\ \A j \in Eligible(g) :
             Earlier(g, j, i) /\ WithinTol(g[i].obj, g[j].obj) => ~opens[j]
  IN  {i \in Eligible(g) : opens[i]}

\* _prepare_semantic_group: the leader of each eligible rollout.
LeaderOf(mem, g, localScope) ==
  LET hist == History(mem, localScope)
      opened == Openers(hist, g)
      first(i) == CHOOSE j \in opened :
        /\ WithinTol(g[i].obj, g[j].obj)
        /\ \A k \in opened : WithinTol(g[i].obj, g[k].obj) => k = j \/ Earlier(g, j, k)
  IN  [i \in Eligible(g) |->
         IF i \in opened THEN g[i].obj
         ELSE IF Matching(hist, g[i].obj) # NoObjective THEN Matching(hist, g[i].obj)
         ELSE g[first(i)].obj]

GroupCount(lead, l) == Cardinality({i \in DOMAIN lead : lead[i] = l})
LeadersOf(lead) == {lead[i] : i \in DOMAIN lead}
AtLeast(a, b) == IF a >= b THEN a ELSE b

\* What preview_r1 counts for a leader: the committed samples and the group's.
PreviewCount(hist, lead, l) == CountIn(hist, l) + GroupCount(lead, l)
PreviewTotal(hist, lead) == hist.total + Cardinality(DOMAIN lead)

\* Mutation: in global scope the group's new clusters do not count in k.
MutantPriorClusters(hist, lead, localScope) ==
  IF localScope THEN AtLeast(Cardinality(LeadersOf(lead)), MinClusters)
  ELSE AtLeast(Len(hist.leaders), MinClusters)

\* k of the two formulas: the clusters there are, and one more in global scope.
PriorClusters(hist, lead, localScope) ==
  LET all == LeadersOf(lead) \cup ToSet(hist.leaders) IN
  AtLeast(Cardinality(all) + (IF localScope THEN 0 ELSE 1), MinClusters)

\* _compute_local_r1, SemanticCluster.preview_r1:
\* (count + alpha) / (n + alpha * k) of a leader.
ClusterShare(mem, g, localScope, l) ==
  LET lead == LeaderOf(mem, g, localScope)
      hist == History(mem, localScope)
  IN  Frac(PreviewCount(hist, lead, l) * AlphaDen + AlphaNum,
           PreviewTotal(hist, lead) * AlphaDen + AlphaNum * PriorClusters(hist, lead, localScope))

R1(mem, g, localScope, i) ==
  IF i \in Eligible(g) THEN ClusterShare(mem, g, localScope, LeaderOf(mem, g, localScope)[i])
  ELSE Zero

\* What a group leaves behind: nothing in local scope.
AfterGroup(mem, g, localScope) ==
  IF localScope THEN mem
  ELSE LET lead == LeaderOf(mem, g, localScope) IN
       FoldLeft(LAMBDA m, i : IF i \in DOMAIN lead THEN Committed(m, lead[i]) ELSE m,
                mem, [i \in DOMAIN g |-> i])
-----------------------------------------------------------------------------
(* The other terms and their combination.  settings: r3On, r4On, dynamic,  *)
(* force, iter, planned (the r3 cases could be planned) and multiplier     *)
(* (r1_obj_scale_fail_multiplier, in tenths).                              *)

R2(r) == IF R2Success(r) THEN One ELSE Zero

\* An effective case counts in full, or by the multiplier when its objective
\* is off the case's scale.
CaseScore(c, settings) ==
  CASE c = "passed" -> 10 [] c = "offScale" -> settings.multiplier [] c = "failed" -> 0

\* _compute_r3_with_details: a task whose planning failed gives everyone 1,
\* one without cases nobody anything.
R3(r, settings) ==
  IF ~settings.planned THEN One
  ELSE IF r.cases = << >> THEN Zero
  ELSE Frac(FoldLeft(LAMBDA s, c : s + CaseScore(c, settings), 0, r.cases), 10 * Len(r.cases))

\* A disabled r3 gives its weight to r2, a disabled r4 to r1.
EffectiveWeights(w, settings) ==
  <<w[1] + (IF settings.r4On THEN 0 ELSE w[4]), w[2] + (IF settings.r3On THEN 0 ELSE w[3]),
    IF settings.r3On THEN w[3] ELSE 0, IF settings.r4On THEN w[4] ELSE 0>>

\* _resolve_reward_weight_plan
PhaseOf(settings) ==
  IF ~settings.dynamic \/ settings.force THEN "late"
  ELSE IF settings.iter <= 3 THEN "early" ELSE IF settings.iter <= 5 THEN "middle" ELSE "late"

\* r1_weight_scale: an objective off the scale loses part of r1, but only
\* where r3, which planned the scale, is on.
ScaleFactor(r, settings) ==
  IF settings.r3On /\ ~r.inScale THEN Frac(settings.multiplier, 10) ELSE One

\* combine_rewards
Total(r1, r, settings) ==
  LET w == EffectiveWeights(WeightsOf[PhaseOf(settings)], settings)
      tenths(n) == Frac(n, 10)
  IN  Sum(<<Times(tenths(w[1]), Times(ScaleFactor(r, settings), r1)),
            Times(tenths(w[2]), R2(r)),
            Times(tenths(w[3]), IF settings.r3On THEN R3(r, settings) ELSE Zero),
            Times(tenths(w[4]), IF settings.r4On THEN r.r4 ELSE Zero)>>)
-----------------------------------------------------------------------------
(* What the scoring of a group promises.  The tolerance is not symmetric   *)
(* and not transitive, so none of this follows from its definition.        *)

\* Only a rollout with an objective is in a cluster, and its leader is within
\* the tolerance; equal objectives share a leader; what opens a cluster is
\* within the tolerance of no leader that was there before it; and the
\* clusters do not depend on the order of the rollouts.
GroupClustersSound(mem, g, localScope) ==
  LET lead == LeaderOf(mem, g, localScope)
      hist == History(mem, localScope)
      opened == Openers(hist, g)
      mixed(order) == [i \in DOMAIN g |-> g[order[i]]]
      orders == {o \in [DOMAIN g -> DOMAIN g] : ToSet(o) = DOMAIN g}
  IN  /\ \A i \in DOMAIN lead : WithinTol(g[i].obj, lead[i])
      /\ \A i, j \in DOMAIN lead : g[i].obj = g[j].obj => lead[i] = lead[j]
      /\ \A i \in opened :
           /\ \A n \in DOMAIN hist.leaders : ~WithinTol(g[i].obj, hist.leaders[n])
           /\ \A j \in opened : g[j].obj < g[i].obj => ~WithinTol(g[i].obj, g[j].obj)
      /\ \A o \in orders :
           LeaderOf(mem, mixed(o), localScope) =
             [i \in {n \in DOMAIN g : o[n] \in DOMAIN lead} |-> lead[o[i]]]

\* The shares of all clusters add up to at most one, what is committed after
\* the group is what was previewed, and the total reward is within 0 and 1
\* and is 1 where every enabled term is, whatever terms are switched off.
GroupTotalsAreShares(mem, g, localScope, settings) ==
  LET lead == LeaderOf(mem, g, localScope)
      hist == History(mem, localScope)
      after == AfterGroup(mem, g, localScope)
      leaders == LeadersOf(lead) \cup ToSet(hist.leaders)
      listed == SetToSeq(leaders)
      total(i) == Total(R1(mem, g, localScope, i), g[i], settings)
      perfect == [code |-> TRUE, run |-> "ok", obj |-> 0, inScale |-> TRUE, r4 |-> One, cases |-> <<"passed">>]
  IN  /\ AtMost(Sum([n \in DOMAIN listed |-> ClusterShare(mem, g, localScope, listed[n])]), One)
      /\ ~localScope => /\ \A l \in leaders : CountIn(after, l) = PreviewCount(hist, lead, l)
                        /\ after.total = PreviewTotal(hist, lead)
                        /\ after.total = FoldLeft(+, 0, after.count)
      /\ \A i \in DOMAIN g : AtMost(Zero, total(i)) /\ AtMost(total(i), One)
      /\ Total(One, perfect, settings) = One
=============================================================================
