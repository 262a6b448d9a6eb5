--------------------------- MODULE FourStageMCTS ---------------------------
(***************************************************************************)
(* The staged Monte-Carlo tree search of one optimisation task             *)
(* (src/verl/trainer/staror_runtime/mcts/tree.py, FourStageMCTS.search).   *)
(*                                                                         *)
(* A node of the tree is one stage of a model (stage 0 is the root, stage  *)
(* NumStages is CODE).  Every iteration selects a childless node, samples  *)
(* a group of K rollouts of the next stage below it, scores them by        *)
(* running the code they lead to, and propagates the rewards.  The scores  *)
(* and the PUCT formula are data here: a rollout's result is any member of *)
(* Outcomes and selection may pick any leaf the code's descent can reach.  *)
(***************************************************************************)
EXTENDS Integers, FiniteSets, Sequences

CONSTANTS
  MaxIterations,     \* MCTSConfig.max_iterations, at least 1
  K,                 \* GRPOConfig.num_generations
  NumStages,         \* length of stage_order; the last stage is CODE
  SecondAttempt,     \* MCTSConfig.code_entry_second_attempt
  FilterRollout,     \* MCTSConfig.filter_rollout
  StopOnRewardOne,   \* MCTSConfig.stop_on_reward_one
  ClusterUpdate,     \* MCTSConfig.mcts_cluster_update
  CodeRepair,        \* MCTSConfig.code_repair
  Outcomes,          \* what scoring a rollout may return
  NoObj,             \* "no finite objective value was extracted"
  Tol,               \* half width within which two objectives are the same
  MaxReward,         \* rewards are integers in 0..MaxReward
  RewardOne,         \* the 0.9 of stop_on_reward_one, on the same scale
  Unit,              \* visit counts are in units of 1/Unit
  Scale,             \* q values are in units of 1/Scale of a reward
  LevelWeight,       \* cluster_coef * decay^level, in units of 1/Unit
  GroupMean(_),      \* Scale times the mean of a group's rewards
  None

Outcome == [ reward : 0..MaxReward, prior : Nat, obj : Int \cup {NoObj},
             inScale : BOOLEAN, effective : BOOLEAN, success : BOOLEAN,
             r2 : BOOLEAN, err : BOOLEAN, marker : BOOLEAN ]

ASSUME SizeAssumption ==
  /\ MaxIterations \in Nat \ {0}
  /\ K \in Nat \ {0}
  /\ NumStages \in Nat /\ NumStages >= 2
  /\ CodeRepair \in Nat
  /\ {SecondAttempt, FilterRollout, StopOnRewardOne, ClusterUpdate} \subseteq BOOLEAN

ASSUME RewardAssumption ==
  /\ MaxReward \in Nat /\ RewardOne \in 0..MaxReward
  /\ Unit \in Nat \ {0} /\ Scale \in Nat \ {0} /\ Tol \in Nat
  /\ LevelWeight \in [0..NumStages -> 0..Unit]

\* What every execution summary satisfies: a finite objective counts as an
\* effective success, so does r2, and a normal exit is an r2 success.
ASSUME OutcomeAssumption ==
  \A o \in Outcomes : /\ o.reward \in 0..MaxReward
                      /\ o.prior \in Nat
                      /\ o.obj # NoObj => o.obj \in Int /\ o.effective
                      /\ o.r2 => o.effective
                      /\ o.success => o.r2

\* A mean lies between the bounds of what it averages.
ASSUME MeanAssumption ==
  \A k \in 1..K : \A g \in [1..k -> 0..MaxReward] :
    GroupMean(g) \in 0..(MaxReward * Scale)

\* None stands for "not there": it is no record of the search.
ASSUME NoneAssumption ==
  /\ None \notin [iter : Int, node : Int]
  /\ None \notin [target : Int, nodes : SUBSET Int]

\* How many rollouts i iterations make.
Capacity(i) == i * K

Node == 0..Capacity(MaxIterations)      \* 0 is the root
Root == 0

VARIABLES
  pc,         \* which part of the iteration runs
  iter,       \* iter_idx
  n,          \* nodes 1..n have been created
  parent,     \* SearchNode.parent
  stage,      \* SearchNode.stage
  born,       \* StageExpansionRecord.iteration of the node's record
  result,     \* the node's trajectory reward and execution metadata
  phase,      \* the weight plan its reward was computed with
  visits,     \* SearchNode.visits
  value,      \* SearchNode.value_sum
  selected,   \* the leaf this iteration expands
  history,    \* selection_history
  attempts,   \* code_entry_attempt_total
  deferred,   \* the code_entry_gate entry of iteration_logs
  suppress,   \* code_entry_one_shot_suppression
  force3,     \* dynamic_reward_force_stage3
  scored,     \* StarORRewardCalculator._current_iteration
  cand,       \* the candidate of the CODE terminal flow
  repaired,   \* the records the CODE terminal flow appended
  stop        \* stop_info

tree == <<n, parent, stage, born, result, phase, visits, value>>
gate == <<attempts, deferred, suppress>>
vars == <<pc, iter, tree, selected, history, gate, force3, scored, cand, repaired, stop>>
-----------------------------------------------------------------------------
(* The tree.                                                               *)

Created == 0..n
Children(x) == {y \in 1..n : parent[y] = x}
NextStage(x) == stage[x] + 1

\* Mutation: an inner node counts as a leaf.
MutantExpandable(x) == stage[x] < NumStages

\* Childless, and not already a CODE node (_iter_leaves, _next_stage).
Expandable(x) == stage[x] < NumStages /\ Children(x) = {}

\* x, its parent, ... up to the root.
Path(x) ==
  LET up[y \in Node] == IF y = Root THEN {Root} ELSE {y} \cup up[parent[y]]
  IN  up[x]

Subtree(r) == {x \in Created : r \in Path(x)}
SubtreeHasExpandableLeaf(r) == \E x \in Subtree(r) : Expandable(x)

(* What a scored rollout says.                                             *)

\* FourStageMCTS._within_rel_tol
Close(a, b) == a - b <= Tol /\ b - a <= Tol
SameObj(o, p) == o.obj # NoObj /\ p.obj # NoObj /\ Close(o.obj, p.obj)

\* _rollout_has_execution_error: what filter_rollout drops
ExecutionError(o) == o.err \/ (~o.success /\ ~o.r2)

\* _classify_terminal_issue: its last tests ask for effective_success, which a
\* finite objective and r2 both imply.
TerminalIssue(o) ==
  IF o.marker THEN "infeasible"
  ELSE IF o.err \/ ~o.effective THEN "error" ELSE "ok"

\* Mutation: an objective off the reference scale blocks too.
MutantBlocked(o) == o.obj = NoObj \/ ~o.inScale \/ TerminalIssue(o) # "ok"

\* need_repair, and at the end of the flow fallback_to_original
Blocked(o) == o.obj = NoObj \/ TerminalIssue(o) \in {"error", "infeasible"}

\* max(..., key = (reward, prior)) prefers o to p
Outranks(o, p) == o.reward > p.reward \/ (o.reward = p.reward /\ o.prior > p.prior)

\* Mutation: the code-seen flag is not looked at.
MutantWeightPhase(iterNum, force) ==
  IF iterNum <= 3 THEN "early" ELSE IF iterNum <= 5 THEN "middle" ELSE "late"

\* _resolve_reward_weight_plan, dynamic_reward on
WeightPhase(iterNum, force) ==
  IF force THEN "late"
  ELSE IF iterNum <= 3 THEN "early" ELSE IF iterNum <= 5 THEN "middle" ELSE "late"
-----------------------------------------------------------------------------
(* Selection.                                                              *)

Larger(a, b) == IF a > b THEN a ELSE b
BlockedSiblingThreshold == Larger(2, Larger(2, K) \div 2)

\* The positions of the last run of equal sibling groups.
LastRun ==
  {i \in 1..Len(history) :
     \A j \in i..Len(history) : history[j].group = history[Len(history)].group}

\* The first node of that run.
Anchor == history[CHOOSE i \in LastRun : \A j \in LastRun : i <= j].node

\* Mutation: the descent starts at the anchor whatever is left below it.
MutantSelectionRoot ==
  IF Cardinality(LastRun) >= BlockedSiblingThreshold THEN Anchor ELSE Root

\* The descent starts at the anchor of a run of selections among siblings
\* that is long enough, if the anchor still has something to expand.
SelectionRoot ==
  IF Cardinality(LastRun) >= BlockedSiblingThreshold /\ SubtreeHasExpandableLeaf(Anchor)
    THEN Anchor ELSE Root

EntersCode(x) == NextStage(x) = NumStages

\* for iter_idx in range(max(1, max_iterations))
MoreIterations == iter < MaxIterations

\* What is left of the suppression once this iteration has selected.
SuppressionLeft ==
  IF suppress # None /\ suppress.target <= iter THEN None ELSE suppress

\* One pass of selection.  The suppression of the target iteration is used
\* up, CODE-entry switches the reward weights before the gate is asked, and
\* the selection is remembered whether or not the gate lets it through.
SelectLeaf(x) ==
  /\ pc = "select" /\ MoreIterations
  /\ x \in Subtree(SelectionRoot) /\ Expandable(x)
  /\ selected' = x
  /\ suppress' = SuppressionLeft
  /\ force3' = (force3 \/ EntersCode(x))
  /\ history' = IF x = Root THEN history
                ELSE Append(history, [group |-> <<parent[x], stage[x]>>, node |-> x])
  /\ pc' = IF EntersCode(x) /\ SecondAttempt THEN "gate" ELSE "rollout"
  /\ UNCHANGED <<iter, tree, attempts, deferred, scored, cand, repaired, stop>>

\* stop_info; the record it names is that of a node, or (node = Root) the one
\* the CODE terminal flow appended in iteration from.
Stop(reason, node, from) ==
  /\ pc' = "done"
  /\ stop' = [reason |-> reason, iter |-> iter, node |-> node, from |-> from]

NoExpandableLeaf ==
  /\ pc = "select" /\ MoreIterations
  /\ ~SubtreeHasExpandableLeaf(SelectionRoot)
  /\ Stop("no_expandable_leaf", Root, iter)
  /\ UNCHANGED <<iter, tree, selected, history, gate, force3, scored, cand, repaired>>

IterationsExhausted ==
  /\ pc = "select" /\ ~MoreIterations
  /\ Stop("max_iterations", Root, iter)
  /\ UNCHANGED <<iter, tree, selected, history, gate, force3, scored, cand, repaired>>

NextIteration ==
  /\ pc' = "select" /\ iter' = iter + 1 /\ selected' = Root
-----------------------------------------------------------------------------
(* The CODE-entry gate.                                                    *)

SameClusterNodes(x) ==
  {x} \cup {y \in 1..n : SameObj(result[x], result[y])}

\* Mutation: the attempt under way is not counted.
MutantEnoughAttempts == attempts >= 2

\* attempt < 2 turns an attempt away, whichever node the earlier one was for
EnoughAttempts == attempts + 1 >= 2

\* The first attempt of the search is turned away.
DeferCodeEntry ==
  /\ pc = "gate" /\ ~EnoughAttempts
  /\ attempts' = attempts + 1
  /\ suppress' = [target |-> iter + 1, nodes |-> SameClusterNodes(selected)]
  /\ deferred' = [iter |-> iter, node |-> selected]
  /\ NextIteration
  /\ UNCHANGED <<tree, history, force3, scored, cand, repaired, stop>>

AdmitCodeEntry ==
  /\ pc = "gate" /\ EnoughAttempts
  /\ attempts' = attempts + 1
  /\ pc' = "rollout"
  /\ UNCHANGED <<iter, tree, selected, history, deferred, suppress, force3, scored,
                 cand, repaired, stop>>
-----------------------------------------------------------------------------
(* One rollout group.                                                      *)

\* filter_rollout drops rollouts with execution errors before they reach the
\* tree; without it all K of them are kept.
Dropped == {o \in Outcomes : FilterRollout /\ ExecutionError(o)}
KeptOutcomes == Outcomes \ Dropped
KeptSizes == IF Dropped = {} THEN {K} ELSE 1..K
Groups == UNION {[1..k -> KeptOutcomes] : k \in KeptSizes}

\* Mutation: a node of the path is its own peer.
MutantPeer(c, x) ==
  c # Root /\ x # Root /\ parent[x] = parent[c] /\ SameObj(result[c], result[x])

\* _propagate_cluster_lineage_from_selected: the siblings of the selected
\* path whose objective matches their sibling on the path, weighted by how
\* far up they hang.  A node has one depth, so seen_ids never bites.
Peer(c, x) ==
  /\ c # Root /\ x # Root /\ x # c /\ parent[x] = parent[c]
  /\ SameObj(result[c], result[x])

LineageVisits(x) ==
  IF ClusterUpdate /\ x \in Created /\ \E c \in Path(selected) : Peer(c, x)
    THEN LevelWeight[Larger(0, stage[selected] - stage[x])] ELSE 0

\* visits gained by _backpropagate and child.update
PathVisits(x) == IF x \in Path(selected) THEN Unit ELSE 0

\* Mutation: the reward of a peer is not weighted like its visit.
MutantValueGain(x, mean) ==
  mean * (PathVisits(x) + (IF LineageVisits(x) > 0 THEN Unit ELSE 0))

\* ... and the value that goes with them: both are weighted alike.
ValueGain(x, mean) == mean * (PathVisits(x) + LineageVisits(x))

\* Everything filtered out: the iteration ends with nothing added.
EmptyGroup ==
  /\ pc = "rollout" /\ Dropped # {}
  /\ NextIteration
  /\ UNCHANGED <<tree, history, gate, force3, scored, cand, repaired, stop>>

\* The kept rollouts become children of the selected leaf; each child takes
\* its own reward, the path and the matching siblings the group's mean.
Expand(g) ==
  LET New == (n + 1)..(n + Len(g))
      mean == GroupMean([i \in 1..Len(g) |-> g[i].reward])
  IN
  /\ pc = "rollout"
  /\ n' = n + Len(g)
  /\ parent' = [x \in Node |-> IF x \in New THEN selected ELSE parent[x]]
  /\ stage' = [x \in Node |-> IF x \in New THEN NextStage(selected) ELSE stage[x]]
  /\ born' = [x \in Node |-> IF x \in New THEN iter ELSE born[x]]
  /\ result' = [x \in Node |-> IF x \in New THEN g[x - n] ELSE result[x]]
  /\ phase' = [x \in Node |-> IF x \in New THEN WeightPhase(iter + 1, force3) ELSE phase[x]]
  /\ visits' = [x \in Node |->
       IF x \in New THEN Unit ELSE visits[x] + PathVisits(x) + LineageVisits(x)]
  /\ value' = [x \in Node |->
       IF x \in New THEN g[x - n].reward * Scale * Unit
       ELSE value[x] + ValueGain(x, mean)]
  /\ scored' = scored + 1
  /\ pc' = IF EntersCode(selected) THEN "terminal" ELSE "checks"
  /\ UNCHANGED <<iter, selected, history, gate, force3, cand, repaired, stop>>

\* The nodes of the group just added, and the first best one among a set.
GroupNodes == {x \in 1..n : born[x] = iter}
IsBestNode(x, S) ==
  /\ x \in S
  /\ \A y \in S : ~Outranks(result[y], result[x])
  /\ \A y \in S : y < x => Outranks(result[x], result[y])
-----------------------------------------------------------------------------
(* The CODE terminal flow (_run_code_terminal_refine).                     *)

ChooseCandidate(x) ==
  /\ pc = "terminal" /\ cand = None
  /\ IsBestNode(x, GroupNodes)
  /\ cand' = [node |-> x, out |-> result[x], rounds |-> 0, phase |-> phase[x]]
  /\ UNCHANGED <<pc, iter, tree, selected, history, gate, force3, scored, repaired, stop>>

Repairing == pc = "terminal" /\ cand # None

\* Mutation: a round that repaired something is not counted.
MutantRoundsAfterRepair == cand.rounds

\* range(repair_rounds) counts every round
RoundsAfterRepair == cand.rounds + 1

\* One repair round.  A repaired program replaces the candidate whatever its
\* reward is; it is scored without the iteration's metadata, hence with the
\* weight plan of the number of groups scored so far.
RepairCode(o) ==
  /\ Repairing /\ cand.rounds < CodeRepair /\ Blocked(cand.out)
  /\ cand' = [node |-> Root, out |-> o, rounds |-> RoundsAfterRepair,
              phase |-> WeightPhase(scored + 1, FALSE)]
  /\ UNCHANGED <<pc, iter, tree, selected, history, gate, force3, scored, repaired, stop>>

\* The repair prompt produced no program: the candidate stays.
RepairYieldsNothing ==
  /\ Repairing /\ cand.rounds < CodeRepair /\ Blocked(cand.out)
  /\ cand' = [cand EXCEPT !.rounds = RoundsAfterRepair]
  /\ UNCHANGED <<pc, iter, tree, selected, history, gate, force3, scored, repaired, stop>>

\* A repaired candidate has no record yet; an original one has.
RecordCandidate ==
  repaired' = IF cand.node # Root THEN repaired
              ELSE repaired \cup {[iter |-> iter, parent |-> selected,
                                   out |-> cand.out, phase |-> cand.phase]}

RepairOver == Repairing /\ (cand.rounds = CodeRepair \/ ~Blocked(cand.out))

StopAtCode ==
  /\ RepairOver /\ ~Blocked(cand.out)
  /\ RecordCandidate
  /\ Stop("expanded_to_code", cand.node, iter)
  /\ UNCHANGED <<iter, tree, selected, history, gate, force3, scored, cand>>

FallBackToSearch ==
  /\ RepairOver /\ Blocked(cand.out)
  /\ RecordCandidate
  /\ cand' = None
  /\ NextIteration
  /\ UNCHANGED <<tree, history, gate, force3, scored, stop>>
-----------------------------------------------------------------------------
(* Early stops after a group of another stage.                             *)

\* The records of iteration i, in the order records.append saw them.
RecordsOf(i) ==
  {[iter |-> i, stage |-> stage[x], node |-> x, out |-> result[x]] :
     x \in {y \in 1..n : born[y] = i}}
  \cup {[iter |-> i, stage |-> NumStages, node |-> Root, out |-> r.out] :
     r \in {q \in repaired : q.iter = i}}

Before(r, s) ==
  \/ r.iter < s.iter
  \/ r.iter = s.iter /\ (s.node = Root \/ r.node < s.node) /\ r.node # Root

\* _pick_record_max_reward_prior: the first maximum, if there is a record
Best(S) ==
  {r \in S : \A s \in S \ {r} :
     ~Outranks(s.out, r.out) /\ (Before(s, r) => Outranks(r.out, s.out))}

WithObj(i) == {r \in RecordsOf(i) : r.out.obj # NoObj}

\* _check_recent_top_obj_alignment
RecentTopsAligned ==
  /\ iter >= 2
  /\ \E a \in Best(WithObj(iter - 2)), b \in Best(WithObj(iter - 1)), c \in Best(WithObj(iter)) :
       /\ a.stage # b.stage /\ b.stage # c.stage /\ a.stage # c.stage
       /\ SameObj(b.out, a.out) /\ SameObj(c.out, a.out)

\* _cluster_records_by_obj: a record joins the first leader it matches, and
\* leads a cluster of its own if there is none.
Leaders(S) ==
  LET leads[r \in S] == \A q \in S : Before(q, r) /\ SameObj(r.out, q.out) => ~leads[q]
  IN  {r \in S : leads[r]}
Cluster(S, l) ==
  {r \in S : /\ SameObj(r.out, l.out)
             /\ \A k \in Leaders(S) : Before(k, l) => ~SameObj(r.out, k.out)}

\* Mutation: records off the reference scale take part.
MutantEligibleRecords ==
  {r \in UNION {WithObj(i) : i \in (iter - 2)..iter} : r.out.effective}

EligibleRecords ==
  {r \in UNION {WithObj(i) : i \in (iter - 2)..iter} : r.out.effective /\ r.out.inScale}

\* Cluster C goes before D: more records, then a better best reward.
Dominates(C, D) ==
  \/ Cardinality(C) > Cardinality(D)
  \/ /\ Cardinality(C) = Cardinality(D)
     /\ \E r \in C : \A s \in D : r.out.reward > s.out.reward

\* The first of the largest clusters, if it holds half of the records.
MajorityClusters(E) ==
  {Cluster(E, l) : l \in {k \in Leaders(E) :
     /\ \A m \in Leaders(E) \ {k} :
          /\ ~Dominates(Cluster(E, m), Cluster(E, k))
          /\ Before(m, k) => Dominates(Cluster(E, k), Cluster(E, m))
     /\ 2 * Cardinality(Cluster(E, k)) >= Cardinality(E)}}

Latest(S) == {r \in S : \A q \in S : q.iter <= r.iter}

\* _check_recent_obj_consensus: the record to return, or nothing.
ConsensusRecord ==
  IF RecentTopsAligned THEN UNION {Best(Latest(C)) : C \in MajorityClusters(EligibleRecords)}
  ELSE {}

StopOnConsensus ==
  /\ pc = "checks"
  /\ \E r \in ConsensusRecord : Stop("recent_obj_consensus", r.node, r.iter)
  /\ UNCHANGED <<iter, tree, selected, history, gate, force3, scored, cand, repaired>>

HitRewardOne ==
  IF StopOnRewardOne THEN {x \in GroupNodes : result[x].reward >= RewardOne} ELSE {}

StopOnReward(x) ==
  /\ pc = "checks" /\ ConsensusRecord = {}
  /\ IsBestNode(x, HitRewardOne)
  /\ Stop("reward_one", x, iter)
  /\ UNCHANGED <<iter, tree, selected, history, gate, force3, scored, cand, repaired>>

ContinueSearch ==
  /\ pc = "checks" /\ ConsensusRecord = {} /\ HitRewardOne = {}
  /\ NextIteration
  /\ UNCHANGED <<tree, history, gate, force3, scored, cand, repaired, stop>>
-----------------------------------------------------------------------------
Init ==
  /\ pc = "select" /\ iter = 0 /\ n = 0
  /\ parent = [x \in Node |-> Root]
  /\ stage = [x \in Node |-> 0]
  /\ born = [x \in Node |-> 0]
  /\ result = [x \in Node |-> None]
  /\ phase = [x \in Node |-> "early"]
  /\ visits = [x \in Node |-> 0]
  /\ value = [x \in Node |-> 0]
  /\ selected = Root /\ history = << >>
  /\ attempts = 0 /\ deferred = None /\ suppress = None
  /\ force3 = FALSE /\ scored = 0
  /\ cand = None /\ repaired = {} /\ stop = None

Terminated == pc = "done" /\ UNCHANGED vars

Step ==
  \/ \E x \in Node : SelectLeaf(x)
  \/ NoExpandableLeaf
  \/ IterationsExhausted
  \/ DeferCodeEntry
  \/ AdmitCodeEntry
  \/ EmptyGroup
  \/ \E g \in Groups : Expand(g)
  \/ \E x \in Node : ChooseCandidate(x)
  \/ \E o \in Outcomes : RepairCode(o)
  \/ RepairYieldsNothing
  \/ StopAtCode
  \/ FallBackToSearch
  \/ StopOnConsensus
  \/ \E x \in Node : StopOnReward(x)
  \/ ContinueSearch

Next == Step \/ Terminated

Spec == Init /\ [][Next]_vars

\* The search is one Python loop: it keeps running until it returns.
FairSpec == Spec /\ WF_vars(Step)
-----------------------------------------------------------------------------
(* Properties.                                                             *)

StopReasons == {"max_iterations", "no_expandable_leaf", "expanded_to_code",
                "recent_obj_consensus", "reward_one"}
Phases == {"early", "middle", "late"}
Candidate == [node : Node, out : Outcomes, rounds : 0..CodeRepair, phase : Phases]
StopInfo == [reason : StopReasons, iter : 0..MaxIterations, node : Node,
             from : 0..MaxIterations]

\* Nodes the search may have created when it is at this point of the iteration.
NodeBudget ==
  IF pc \in {"terminal", "checks", "done"} THEN Capacity(iter + 1) ELSE Capacity(iter)

LoopOK ==
  /\ pc \in {"select", "gate", "rollout", "terminal", "checks", "done"}
  /\ iter \in 0..MaxIterations
  /\ pc \in {"gate", "rollout", "terminal", "checks"} => iter < MaxIterations
  /\ n \in Node /\ n <= NodeBudget
  /\ selected \in Created

TreeOK ==
  /\ parent \in [Node -> Node]
  /\ stage \in [Node -> 0..NumStages]
  /\ born \in [Node -> 0..MaxIterations]
  /\ phase \in [Node -> Phases]
  /\ \A x \in 1..n : result[x] \in Outcomes
  /\ visits \in [Node -> Nat] /\ value \in [Node -> Nat]

GateOK ==
  /\ history \in Seq([group : Node \X (0..NumStages), node : Node])
  /\ attempts \in Nat /\ force3 \in BOOLEAN /\ scored \in Nat
  /\ deferred = None \/ deferred \in [iter : 0..MaxIterations, node : 1..n]
  /\ suppress = None \/ suppress \in [target : 0..MaxIterations, nodes : SUBSET (1..n)]

FlowOK ==
  /\ cand = None \/ cand \in Candidate
  /\ repaired \subseteq [iter : 0..MaxIterations, parent : Node, out : Outcomes,
                         phase : Phases]
  /\ pc = "done" => stop \in StopInfo

\* Types, and the number of nodes an iteration may have created: the tree never
\* outgrows num_generations nodes per iteration.
TypeOK == LoopOK /\ TreeOK /\ GateOK /\ FlowOK

\* Each node is expanded at most once: its children come from one iteration,
\* later than its own, and there are at most K of them.
ExpandedOnce ==
  \A x, y \in 1..n : parent[x] = parent[y] => born[x] = born[y] /\ x - y < K

\* The q value PUCT multiplies by the suppression weights stays between 0 and
\* the largest reward, fractional cluster updates included: a weight below one
\* then lowers a score and never raises it.
QBounded ==
  \A x \in Created : value[x] >= 0 /\ value[x] <= MaxReward * Scale * visits[x]

\* Visits count groups: a node's own reward and every expansion at or below it
\* count one each, and the cluster update adds less than if the expansions
\* below its siblings had been its own.
Expansions(S) == {y \in S : Children(y) # {}}
VisitAccounting ==
  \A x \in Created :
    LET own == IF x = Root THEN 0 ELSE 1
        floor == Unit * (own + Cardinality(Expansions(Subtree(x))))
        ceiling == Unit * (own + Cardinality(Expansions(Subtree(parent[x]) \ {parent[x]})))
    IN  IF x = Root \/ ~ClusterUpdate THEN visits[x] = floor
        ELSE floor <= visits[x] /\ visits[x] <= ceiling

\* With the second-attempt gate on, a CODE node exists only after an earlier
\* iteration turned one CODE entry away.
CodeAfterDeferral ==
  SecondAttempt =>
    \A x \in 1..n : stage[x] = NumStages =>
      attempts >= 2 /\ deferred # None /\ deferred.iter < born[x]

\* The gate takes at most one iteration of a search; every other iteration scores one
\* group and adds it to the tree, whole if nothing is filtered: no iteration is
\* lost to a second deferral, and the calculator's count of groups, which the
\* weight plan of a repair is made of, runs behind the loop's by that one.
NoGroupInLast == {"no_expandable_leaf", "max_iterations"}
Finished ==
  IF pc \in {"terminal", "checks"} \/ (pc = "done" /\ stop.reason \notin NoGroupInLast)
    THEN iter + 1 ELSE iter
Deferrals == IF deferred = None THEN 0 ELSE 1
GateCostsOneIteration ==
  /\ n <= Capacity(Finished - Deferrals)
  /\ ~FilterRollout => n = Capacity(Finished - Deferrals) /\ scored = Finished - Deferrals

\* The suppression a deferral installs is for the very next selection: it is
\* never seen by a later one and covers the node that was turned away.
OneShotSuppression ==
  suppress # None =>
    /\ pc \in {"select", "done"} /\ suppress.target = iter
    /\ deferred # None /\ deferred.iter + 1 = iter
    /\ deferred.node \in suppress.nodes

\* A stop that names a trajectory names one the search recorded, and the
\* record has what the stop reason claims.
StoppedOn(r) == pc = "done" /\ stop.reason = r
StopRecords == {r \in RecordsOf(stop.from) : r.node = stop.node}
StopJustified ==
  /\ StoppedOn("expanded_to_code") =>
       \E r \in StopRecords : /\ r.stage = NumStages /\ r.out.obj # NoObj
                             /\ ~r.out.marker /\ ~r.out.err
  /\ StoppedOn("reward_one") =>
       \E r \in StopRecords : r.stage # NumStages /\ r.out.reward >= RewardOne
  /\ StoppedOn("recent_obj_consensus") =>
       \E r \in StopRecords : r.out.obj # NoObj /\ r.out.inScale

\* The anchored descent never ends a search early: when it stops for want of a
\* leaf, every leaf of the whole tree is a CODE node.
NoLeafMeansExhausted ==
  StoppedOn("no_expandable_leaf") =>
    \A x \in Created : Children(x) = {} => stage[x] = NumStages

\* The search goes on after a CODE group only when the group's final candidate
\* has no objective or a blocking issue.
FinalCandidate(i) ==
  IF \E r \in repaired : r.iter = i THEN (CHOOSE r \in repaired : r.iter = i).out
  ELSE result[CHOOSE x \in 1..n : IsBestNode(x, {y \in 1..n : born[y] = i})]
NoGoodCodeAbandoned ==
  \A x \in 1..n :
    stage[x] = NumStages /\ born[x] < iter =>
      LET o == FinalCandidate(born[x]) IN o.obj = NoObj \/ o.err \/ o.marker

\* tree.py's comment on dynamic_reward_force_stage3: from the first attempt to
\* enter CODE on, rewards use the late-phase weights.  For the records of the
\* search's own groups:
LateWeightsAfterCodeAttempt ==
  \A x \in 1..n : (deferred # None /\ born[x] > deferred.iter) \/ stage[x] = NumStages
                    => phase[x] = "late"

\* ... and for every record, those of the repair flow included.
LateWeightsForRepairs == \A r \in repaired : r.phase = "late"

\* The loop ends.
Termination == <>(pc = "done")
=============================================================================
