---------------------------- MODULE SearchProofs ----------------------------
(***************************************************************************)
(* Proofs about FourStageMCTS and FinalSelection, for every value of the   *)
(* constants: the search, then what the greedy clustering of its records   *)
(* returns, and the answer chosen from it.                                 *)
(***************************************************************************)
EXTENDS FinalSelection, TLAPS, FiniteSetTheorems, WellFoundedInduction

-----------------------------------------------------------------------------
(* Arithmetic the provers are given once.                                  *)

\* Products of naturals are naturals.
LEMMA ProductInNat == ASSUME NEW a \in Nat, NEW b \in Nat PROVE a * b \in Nat
  OBVIOUS

\* Multiplication by a natural is monotone.
LEMMA ProductMonotone ==
  ASSUME NEW a \in Nat, NEW b \in Nat, NEW w \in Nat, a <= b
  PROVE  a * w <= b * w
  OBVIOUS

\* What the provers need to know of the number of nodes: it is never expanded.
LEMMA CapacityFacts ==
  /\ \A i \in Nat : Capacity(i) \in Nat
  /\ \A i, j \in Nat : i <= j => Capacity(i) <= Capacity(j)
  /\ \A i \in Nat : Capacity(i + 1) = Capacity(i) + K
  /\ Capacity(0) = 0
<1>1. K \in Nat
  BY SizeAssumption
<1>2. \A i \in Nat : Capacity(i) \in Nat
  BY <1>1, ProductInNat DEF Capacity
<1>3. \A i, j \in Nat : i <= j => Capacity(i) <= Capacity(j)
  BY <1>1, ProductMonotone DEF Capacity
<1>4. \A i \in Nat : Capacity(i + 1) = Capacity(i) + K
  BY <1>1 DEF Capacity
<1>5. Capacity(0) = 0
  BY <1>1 DEF Capacity
<1> QED
  BY <1>2, <1>3, <1>4, <1>5

\* How many nodes iteration i may start with, and end with.
LEMMA CapacityAtIteration ==
  ASSUME NEW i \in Nat, i <= MaxIterations
  PROVE  /\ Capacity(MaxIterations) \in Nat
         /\ Capacity(i) \in Nat /\ Capacity(i + 1) = Capacity(i) + K
         /\ Capacity(i) <= Capacity(MaxIterations)
         /\ i < MaxIterations => Capacity(i + 1) <= Capacity(MaxIterations)
<1>1. MaxIterations \in Nat
  BY SizeAssumption
<1>2. Capacity(MaxIterations) \in Nat /\ Capacity(i) \in Nat /\ Capacity(i) <= Capacity(MaxIterations)
  BY <1>1, CapacityFacts
<1>3. Capacity(i + 1) = Capacity(i) + K
  BY CapacityFacts
<1>4. ASSUME i < MaxIterations PROVE Capacity(i + 1) <= Capacity(MaxIterations)
  <2>1. i + 1 \in Nat /\ i + 1 <= MaxIterations
    BY <1>1, <1>4
  <2> QED
    BY <1>1, <2>1, CapacityFacts
<1> QED
  BY <1>2, <1>3, <1>4
-----------------------------------------------------------------------------
(* Rollout groups.                                                         *)

\* A group is a non-empty sequence of at most K outcomes.
LEMMA GroupShape ==
  ASSUME NEW g \in Groups
  PROVE  /\ Len(g) \in 1..K
         /\ g \in [1..Len(g) -> Outcomes]
         /\ GroupMean([i \in 1..Len(g) |-> g[i].reward]) \in 0..(MaxReward * Scale)
<1>1. PICK k \in KeptSizes : g \in [1..k -> KeptOutcomes]
  BY DEF Groups
<1>2. k \in 1..K /\ KeptOutcomes \subseteq Outcomes
  BY SizeAssumption DEF KeptSizes, KeptOutcomes
<1>3. Len(g) = k
  BY <1>1, <1>2, SizeAssumption
<1>4. g \in [1..Len(g) -> Outcomes]
  BY <1>1, <1>2, <1>3
<1>5. [i \in 1..Len(g) |-> g[i].reward] \in [1..k -> 0..MaxReward]
  BY <1>3, <1>4, OutcomeAssumption
<1> QED
  BY <1>2, <1>3, <1>4, <1>5, MeanAssumption
-----------------------------------------------------------------------------
(* Type correctness.                                                       *)

\* What typing needs besides TypeOK: the leaf being expanded is one, and only
\* a leaf of the last modelling stage is held at the gate.
LeafSelected ==
  /\ pc \in {"gate", "rollout"} => Expandable(selected)
  /\ pc = "gate" => EntersCode(selected)
  /\ stage[Root] = 0

TypeInv == TypeOK /\ LeafSelected

\* The search starts well typed.
LEMMA InitTypeInv == Init => TypeInv
<1> SUFFICES ASSUME Init PROVE TypeInv
  OBVIOUS
<1> USE SizeAssumption, CapacityFacts
<1>1. << >> \in Seq([group : Node \X (0..NumStages), node : Node])
  OBVIOUS
<1>2. LoopOK
  BY DEF Init, LoopOK, NodeBudget, Node, Root, Created
<1>3. TreeOK
  BY DEF Init, TreeOK, Node, Root, Phases
<1>4. GateOK /\ FlowOK
  BY <1>1 DEF Init, GateOK, FlowOK
<1>5. LeafSelected
  BY DEF Init, LeafSelected, Root, Node
<1> QED
  BY <1>2, <1>3, <1>4, <1>5 DEF TypeInv, TypeOK

\* The loop's own variables, one step per action.
LEMMA StepLoopOK == TypeInv /\ [Next]_vars => LoopOK'
<1> SUFFICES ASSUME LoopOK, [Next]_vars PROVE LoopOK'
  BY DEF TypeInv, TypeOK
<1>0. /\ iter \in Nat /\ iter <= MaxIterations /\ K \in Nat \ {0}
      /\ MaxIterations \in Nat /\ Capacity(MaxIterations) \in Nat
      /\ Capacity(iter) \in Nat /\ Capacity(iter + 1) = Capacity(iter) + K
      /\ Capacity(iter) <= Capacity(MaxIterations)
      /\ iter < MaxIterations => Capacity(iter + 1) <= Capacity(MaxIterations)
  BY SizeAssumption, CapacityAtIteration DEF LoopOK
<1> USE <1>0 DEF LoopOK, NodeBudget, Node, Root, Created, tree
<1>1. ASSUME NEW x \in Node, SelectLeaf(x) PROVE LoopOK'
  BY <1>1 DEF SelectLeaf, MoreIterations, Subtree
<1>2. ASSUME NoExpandableLeaf PROVE LoopOK'
  BY <1>2 DEF NoExpandableLeaf, MoreIterations, Stop
<1>3. ASSUME IterationsExhausted PROVE LoopOK'
  BY <1>3 DEF IterationsExhausted, MoreIterations, Stop
<1>4. ASSUME DeferCodeEntry PROVE LoopOK'
  BY <1>4 DEF DeferCodeEntry, NextIteration
<1>5. ASSUME AdmitCodeEntry PROVE LoopOK'
  BY <1>5 DEF AdmitCodeEntry
<1>6. ASSUME EmptyGroup PROVE LoopOK'
  BY <1>6 DEF EmptyGroup, NextIteration
<1>7. ASSUME NEW g \in Groups, Expand(g) PROVE LoopOK'
  <2>1. /\ Len(g) \in 1..K /\ n' = n + Len(g) /\ iter' = iter /\ selected' = selected
        /\ pc = "rollout" /\ pc' \in {"terminal", "checks"}
    BY <1>7, GroupShape DEF Expand
  <2>2. n + Len(g) <= Capacity(iter + 1)
    BY <2>1
  <2> QED
    BY <2>1, <2>2
<1>8. ASSUME NEW x \in Node, ChooseCandidate(x) PROVE LoopOK'
  BY <1>8 DEF ChooseCandidate
<1>9. ASSUME NEW o \in Outcomes, RepairCode(o) PROVE LoopOK'
  BY <1>9 DEF RepairCode, Repairing
<1>10. ASSUME RepairYieldsNothing PROVE LoopOK'
  BY <1>10 DEF RepairYieldsNothing, Repairing
<1>11. ASSUME StopAtCode PROVE LoopOK'
  BY <1>11 DEF StopAtCode, RepairOver, Repairing, Stop
<1>12. ASSUME FallBackToSearch PROVE LoopOK'
  <2>1. /\ pc = "terminal" /\ pc' = "select"
        /\ iter' = iter + 1 /\ n' = n /\ selected' = 0
    BY <1>12 DEF FallBackToSearch, RepairOver, Repairing, NextIteration
  <2> QED
    BY <2>1
<1>13. ASSUME StopOnConsensus PROVE LoopOK'
  BY <1>13 DEF StopOnConsensus, Stop
<1>14. ASSUME NEW x \in Node, StopOnReward(x) PROVE LoopOK'
  <2>1. /\ pc = "checks" /\ pc' = "done"
        /\ iter' = iter /\ n' = n /\ selected' = selected
    BY <1>14 DEF StopOnReward, Stop
  <2> QED
    BY <2>1
<1>15. ASSUME ContinueSearch PROVE LoopOK'
  BY <1>15 DEF ContinueSearch, NextIteration
<1>16. CASE UNCHANGED vars
  BY <1>16 DEF vars
<1> QED
  BY <1>1, <1>2, <1>3, <1>4, <1>5, <1>6, <1>7, <1>8, <1>9, <1>10, <1>11, <1>12,
     <1>13, <1>14, <1>15, <1>16 DEF Next, Step, Terminated

\* The tree grows by whole groups and in no other way.
LEMMA OnlyExpandChangesTree ==
  ASSUME [Next]_vars
  PROVE  UNCHANGED tree \/ \E g \in Groups : Expand(g)
<1>1. CASE UNCHANGED vars
  BY <1>1 DEF vars
<1>2. CASE Terminated
  BY <1>2 DEF Terminated, vars
<1>3. CASE Step
  BY <1>3 DEF Step, SelectLeaf, NoExpandableLeaf, IterationsExhausted, DeferCodeEntry,
     AdmitCodeEntry, EmptyGroup, ChooseCandidate, RepairCode, RepairYieldsNothing,
     StopAtCode, FallBackToSearch, StopOnConsensus, StopOnReward, ContinueSearch
<1> QED
  BY <1>1, <1>2, <1>3 DEF Next

\* Expanding is a step of the search.
LEMMA ExpandIsStep == ASSUME NEW g \in Groups, Expand(g) PROVE [Next]_vars
  BY DEF Next, Step

\* The leaf being expanded has a next stage.
LEMMA StageRange ==
  ASSUME TypeInv, NEW x \in Node
  PROVE  /\ selected \in Node /\ stage[selected] \in 0..NumStages
         /\ stage[x] \in 0..NumStages
<1>1. selected \in Node
  BY CapacityAtIteration DEF TypeInv, TypeOK, LoopOK, Created, Node
<1> QED
  BY <1>1 DEF TypeInv, TypeOK, TreeOK

\* What one group adds to the visit counts.
LEMMA Gains ==
  ASSUME TypeInv, NEW x \in Node
  PROVE  PathVisits(x) \in Nat /\ LineageVisits(x) \in Nat
<1>1. PathVisits(x) \in Nat
  BY RewardAssumption DEF PathVisits
<1>2. LineageVisits(x) \in Nat
  <2>1. CASE ClusterUpdate /\ x \in Created /\ \E c \in Path(selected) : Peer(c, x)
    <3>1. selected \in Node /\ stage[selected] \in 0..NumStages /\ stage[x] \in 0..NumStages
      BY StageRange
    <3>2. Larger(0, stage[selected] - stage[x]) \in 0..NumStages
      BY <3>1, SizeAssumption DEF Larger
    <3>3. LevelWeight[Larger(0, stage[selected] - stage[x])] \in 0..Unit
      BY <3>2, RewardAssumption
    <3> QED
      BY <2>1, <3>3, RewardAssumption DEF LineageVisits
  <2>2. CASE ~(ClusterUpdate /\ x \in Created /\ \E c \in Path(selected) : Peer(c, x))
    BY <2>2 DEF LineageVisits
  <2> QED
    BY <2>1, <2>2
<1> QED
  BY <1>1, <1>2

\* A group keeps the tree well typed.
LEMMA ExpandTreeOK ==
  ASSUME TypeInv, NEW g \in Groups, Expand(g)
  PROVE  TreeOK'
<1> DEFINE New == (n + 1)..(n + Len(g))
           mean == GroupMean([i \in 1..Len(g) |-> g[i].reward])
<1>1. /\ Len(g) \in 1..K /\ g \in [1..Len(g) -> Outcomes]
      /\ mean \in 0..(MaxReward * Scale)
  BY GroupShape
<1>2. iter \in 0..MaxIterations /\ n \in Nat /\ selected \in Node /\ NextStage(selected) \in 0..NumStages
  BY StageRange, SizeAssumption DEF TypeInv, TypeOK, LoopOK, LeafSelected, Node, Expand, Expandable, NextStage
<1>3. parent' \in [Node -> Node] /\ stage' \in [Node -> 0..NumStages] /\ born' \in [Node -> 0..MaxIterations]
  BY <1>2 DEF Expand, TypeInv, TypeOK, TreeOK
<1>4. phase' \in [Node -> Phases]
  BY DEF Expand, TypeInv, TypeOK, TreeOK, WeightPhase, Phases
<1>5. \A x \in 1..n' : result'[x] \in Outcomes
  <2> SUFFICES ASSUME NEW x \in 1..n' PROVE result'[x] \in Outcomes
    OBVIOUS
  <2>1. n' = n + Len(g)
    BY DEF Expand
  <2>2. n' \in Node
    BY StepLoopOK, ExpandIsStep DEF LoopOK
  <2>3. x \in Node
    <3>1. Capacity(MaxIterations) \in Nat
      BY SizeAssumption, CapacityFacts
    <3> QED
      BY <2>2, <3>1 DEF Node
  <2>4. result'[x] = IF x \in New THEN g[x - n] ELSE result[x]
    BY <2>3 DEF Expand
  <2>5. CASE x \in New
    <3>1. x - n \in 1..Len(g)
      BY <1>1, <1>2, <2>5
    <3> QED
      BY <1>1, <2>4, <2>5, <3>1
  <2>6. CASE x \notin New
    <3>1. x \in 1..n
      BY <1>1, <1>2, <2>1, <2>6
    <3> QED
      BY <2>4, <2>6, <3>1 DEF TypeInv, TypeOK, TreeOK
  <2> QED
    BY <2>5, <2>6
<1>6. visits' \in [Node -> Nat]
  <2>1. visits' = [x \in Node |-> IF x \in New THEN Unit
                                 ELSE visits[x] + PathVisits(x) + LineageVisits(x)]
    BY DEF Expand
  <2>2. ASSUME NEW x \in Node PROVE visits[x] + PathVisits(x) + LineageVisits(x) \in Nat
    <3>1. visits[x] \in Nat
      BY DEF TypeInv, TypeOK, TreeOK
    <3>2. PathVisits(x) \in Nat /\ LineageVisits(x) \in Nat
      BY Gains
    <3> QED
      BY <3>1, <3>2
  <2> QED
    BY <2>1, <2>2, RewardAssumption
<1>7. value' \in [Node -> Nat]
  <2>1. \A x \in Node : value'[x] = IF x \in New THEN g[x - n].reward * Scale * Unit
                                    ELSE value[x] + ValueGain(x, mean)
    BY DEF Expand
  <2>2. ASSUME NEW x \in Node, x \in New PROVE value'[x] \in Nat
    <3>1. x - n \in 1..Len(g)
      BY <1>1, <1>2, <2>2
    <3>2. g[x - n].reward \in Nat
      BY <1>1, <3>1, OutcomeAssumption, RewardAssumption
    <3>3. g[x - n].reward * Scale \in Nat
      BY <3>2, RewardAssumption, ProductInNat
    <3> QED
      BY <2>1, <2>2, <3>3, RewardAssumption, ProductInNat
  <2>3. ASSUME NEW x \in Node, x \notin New PROVE value'[x] \in Nat
    <3>1. mean \in Nat
      BY <1>1, RewardAssumption, ProductInNat
    <3>2. PathVisits(x) + LineageVisits(x) \in Nat
      BY Gains
    <3>3. ValueGain(x, mean) \in Nat
      BY <3>1, <3>2, ProductInNat DEF ValueGain
    <3>4. value[x] \in Nat
      BY DEF TypeInv, TypeOK, TreeOK
    <3> QED
      BY <2>1, <2>3, <3>3, <3>4
  <2>4. value' = [x \in Node |-> value'[x]]
    BY DEF Expand
  <2> QED
    BY <2>2, <2>3, <2>4
<1> QED
  BY <1>3, <1>4, <1>5, <1>6, <1>7 DEF TreeOK

\* So does every other step, which leaves the tree alone.
LEMMA StepTreeOK == TypeInv /\ [Next]_vars => TreeOK'
<1> SUFFICES ASSUME TypeInv, [Next]_vars PROVE TreeOK'
  OBVIOUS
<1>1. CASE UNCHANGED tree
  BY <1>1 DEF TypeInv, TypeOK, TreeOK, tree
<1> QED
  BY <1>1, OnlyExpandChangesTree, ExpandTreeOK

\* Appending keeps the type of a sequence.
LEMMA AppendTyped ==
  ASSUME NEW S, NEW s \in Seq(S), NEW e \in S
  PROVE  Append(s, e) \in Seq(S)
  OBVIOUS

\* Nodes are never removed.
LEMMA NodesStay ==
  ASSUME TypeInv, [Next]_vars
  PROVE  n \in Nat /\ n' \in Nat /\ n <= n' /\ 1..n \subseteq 1..n'
<1>1. n \in Nat
  BY CapacityFacts, SizeAssumption DEF TypeInv, TypeOK, LoopOK, Node
<1>2. CASE UNCHANGED tree
  BY <1>1, <1>2 DEF tree
<1>3. CASE \E g \in Groups : Expand(g)
  <2>1. PICK g \in Groups : Expand(g)
    BY <1>3
  <2>2. n' = n + Len(g) /\ Len(g) \in 1..K
    BY <2>1, GroupShape DEF Expand
  <2> QED
    BY <1>1, <2>2
<1> QED
  BY <1>2, <1>3, OnlyExpandChangesTree

\* A node of a later stage is not the root.
LEMMA NotRoot ==
  ASSUME TypeInv, pc = "gate"
  PROVE  selected \in 1..n
<1>1. stage[selected] + 1 = NumStages /\ stage[0] = 0
  BY DEF TypeInv, LeafSelected, EntersCode, NextStage, Root
<1>2. selected # 0
  BY <1>1, SizeAssumption
<1>3. selected \in 0..n /\ n \in Nat
  BY CapacityFacts, SizeAssumption DEF TypeInv, TypeOK, LoopOK, Created, Node
<1> QED
  BY <1>2, <1>3

\* The gate, the suppression and the selection history keep their types.
LEMMA StepGateOK == TypeInv /\ [Next]_vars => GateOK'
<1> SUFFICES ASSUME TypeInv, [Next]_vars PROVE GateOK'
  OBVIOUS
<1> USE DEF GateOK
<1>0. GateOK /\ 1..n \subseteq 1..n'
  BY NodesStay DEF TypeInv, TypeOK
<1>1. ASSUME NEW x \in Node, SelectLeaf(x) PROVE GateOK'
  <2>1. n' = n /\ attempts' = attempts /\ scored' = scored /\ deferred' = deferred
    BY <1>1 DEF SelectLeaf, tree
  <2>2. force3' \in BOOLEAN
    BY <1>0, <1>1 DEF SelectLeaf, EntersCode
  <2>3. suppress' = None \/ suppress' = suppress
    BY <1>1 DEF SelectLeaf, SuppressionLeft
  <2>4. history' \in Seq([group : Node \X (0..NumStages), node : Node])
    <3>1. parent[x] \in Node /\ stage[x] \in 0..NumStages
      BY DEF TypeInv, TypeOK, TreeOK
    <3> DEFINE S == [group : Node \X (0..NumStages), node : Node]
               e == [group |-> <<parent[x], stage[x]>>, node |-> x]
    <3>2. e \in S
      BY <3>1
    <3>3. history' = history \/ history' = Append(history, e)
      BY <1>1 DEF SelectLeaf
    <3>4. history \in Seq(S)
      BY <1>0 DEF GateOK
    <3>5. history' \in Seq(S)
      <4> HIDE DEF S, e, GateOK
      <4> QED
        BY <3>2, <3>3, <3>4, AppendTyped
    <3> QED
      BY <3>5
  <2> QED
    BY <1>0, <2>1, <2>2, <2>3, <2>4
<1>2. ASSUME DeferCodeEntry PROVE GateOK'
  <2>1. /\ n' = n /\ history' = history /\ force3' = force3 /\ scored' = scored
        /\ attempts' = attempts + 1
        /\ deferred' = [iter |-> iter, node |-> selected]
        /\ suppress' = [target |-> iter + 1, nodes |-> SameClusterNodes(selected)]
    BY <1>2 DEF DeferCodeEntry, tree
  <2>2. iter \in 0..MaxIterations /\ iter + 1 \in 0..MaxIterations
    BY <1>2, SizeAssumption DEF DeferCodeEntry, TypeInv, TypeOK, LoopOK
  <2>3. selected \in 1..n
    BY <1>2, NotRoot DEF DeferCodeEntry
  <2>4. SameClusterNodes(selected) \in SUBSET (1..n)
    BY <2>3 DEF SameClusterNodes
  <2> QED
    BY <1>0, <2>1, <2>2, <2>3, <2>4
<1>3. ASSUME AdmitCodeEntry PROVE GateOK'
  BY <1>0, <1>3 DEF AdmitCodeEntry, tree
<1>4. ASSUME NEW g \in Groups, Expand(g) PROVE GateOK'
  <2>1. /\ UNCHANGED <<history, attempts, force3, deferred, suppress>>
        /\ scored' = scored + 1
    BY <1>4 DEF Expand, gate
  <2> QED
    BY <1>0, <2>1
<1>5. CASE UNCHANGED <<tree, history, gate, force3, scored>>
  BY <1>0, <1>5 DEF tree, gate
<1> QED
  BY <1>1, <1>2, <1>3, <1>4, <1>5 DEF Next, Step, Terminated, vars, NoExpandableLeaf,
     IterationsExhausted, EmptyGroup, ChooseCandidate, RepairCode, RepairYieldsNothing,
     StopAtCode, FallBackToSearch, StopOnConsensus, StopOnReward, ContinueSearch

\* Every record is that of a node or one of the repair flow's.
LEMMA RecordsTyped ==
  ASSUME TypeInv, NEW i \in Int, NEW r \in RecordsOf(i)
  PROVE  r.node \in Node /\ r.iter = i
<1>1. Capacity(MaxIterations) \in Nat
  BY CapacityFacts, SizeAssumption
<1>2. 1..n \subseteq Node /\ 0 \in Node
  BY <1>1 DEF TypeInv, TypeOK, LoopOK, Node
<1> QED
  BY <1>2 DEF RecordsOf, Root

\* Consensus returns one of the records of the last three iterations that has
\* an objective, in scale, of an effective execution.
LEMMA ConsensusRecordEligible ==
  ASSUME NEW r \in ConsensusRecord
  PROVE  RecentTopsAligned /\ r \in EligibleRecords
<1>1. PICK C \in MajorityClusters(EligibleRecords) : r \in Best(Latest(C))
  BY DEF ConsensusRecord
<1>2. r \in C
  BY <1>1 DEF Best, Latest
<1>3. C \subseteq EligibleRecords
  BY <1>1 DEF MajorityClusters, Cluster
<1> QED
  BY <1>2, <1>3 DEF ConsensusRecord

\* The CODE terminal flow and the stop keep their types.
LEMMA StepFlowOK == TypeInv /\ [Next]_vars => FlowOK'
<1> SUFFICES ASSUME TypeInv, [Next]_vars PROVE FlowOK'
  OBVIOUS
<1> USE SizeAssumption
<1>0. /\ FlowOK /\ pc \in {"select", "gate", "rollout", "terminal", "checks", "done"}
      /\ iter \in 0..MaxIterations /\ selected \in Node /\ Root \in Node
  <2>1. Capacity(MaxIterations) \in Nat
    BY CapacityFacts
  <2> QED
    BY <2>1 DEF TypeInv, TypeOK, LoopOK, Created, Node, Root
<1>1. ASSUME NEW x \in Node, ChooseCandidate(x) PROVE FlowOK'
  <2>1. x \in 1..n
    BY <1>1 DEF ChooseCandidate, IsBestNode, GroupNodes
  <2>2. [node |-> x, out |-> result[x], rounds |-> 0, phase |-> phase[x]] \in Candidate
    BY <2>1 DEF TypeInv, TypeOK, TreeOK, Candidate
  <2> QED
    BY <1>0, <1>1, <2>2 DEF FlowOK, ChooseCandidate
<1>2. ASSUME NEW o \in Outcomes, RepairCode(o) PROVE FlowOK'
  <2>1. cand \in Candidate /\ cand.rounds < CodeRepair
    BY <1>0, <1>2 DEF FlowOK, RepairCode, Repairing
  <2>2. cand' \in Candidate
    BY <1>0, <1>2, <2>1 DEF RepairCode, RoundsAfterRepair, Candidate, WeightPhase, Phases
  <2> QED
    BY <1>0, <1>2, <2>2 DEF FlowOK, RepairCode
<1>3. ASSUME RepairYieldsNothing PROVE FlowOK'
  <2>1. cand \in Candidate /\ cand.rounds < CodeRepair
    BY <1>0, <1>3 DEF FlowOK, RepairYieldsNothing, Repairing
  <2>2. cand' \in Candidate
    BY <1>3, <2>1 DEF RepairYieldsNothing, RoundsAfterRepair, Candidate
  <2> QED
    BY <1>0, <1>3, <2>2 DEF FlowOK, RepairYieldsNothing
<1>4. ASSUME RepairOver, RecordCandidate
      PROVE  /\ cand \in Candidate
             /\ repaired' \subseteq [iter : 0..MaxIterations, parent : Node,
                                    out : Outcomes, phase : Phases]
  <2>1. cand \in Candidate
    BY <1>0, <1>4 DEF FlowOK, RepairOver, Repairing
  <2>2. [iter |-> iter, parent |-> selected, out |-> cand.out, phase |-> cand.phase]
          \in [iter : 0..MaxIterations, parent : Node, out : Outcomes, phase : Phases]
    BY <1>0, <2>1 DEF Candidate
  <2> QED
    BY <1>0, <1>4, <2>1, <2>2 DEF FlowOK, RecordCandidate
<1>5. ASSUME NEW reason \in StopReasons, NEW x \in Node, NEW from \in 0..MaxIterations,
             Stop(reason, x, from)
      PROVE  stop' \in StopInfo
  BY <1>0, <1>5 DEF Stop, StopInfo
<1>6. ASSUME StopAtCode PROVE FlowOK'
  <2>1. cand \in Candidate /\ repaired' \subseteq [iter : 0..MaxIterations, parent : Node,
                                                  out : Outcomes, phase : Phases]
    BY <1>4, <1>6 DEF StopAtCode
  <2>2. cand.node \in Node
    BY <2>1 DEF Candidate
  <2>3. stop' \in StopInfo
    BY <1>0, <1>5, <1>6, <2>2 DEF StopAtCode, StopReasons
  <2> QED
    BY <1>6, <2>1, <2>3 DEF FlowOK, StopAtCode
<1>7. ASSUME FallBackToSearch PROVE FlowOK'
  BY <1>4, <1>7 DEF FlowOK, FallBackToSearch, NextIteration
<1>8. ASSUME NoExpandableLeaf \/ IterationsExhausted PROVE FlowOK'
  <2>1. stop' \in StopInfo
    BY <1>0, <1>5, <1>8 DEF NoExpandableLeaf, IterationsExhausted, StopReasons
  <2> QED
    BY <1>0, <1>8, <2>1 DEF FlowOK, NoExpandableLeaf, IterationsExhausted
<1>9. ASSUME StopOnConsensus PROVE FlowOK'
  <2>1. PICK r \in ConsensusRecord : Stop("recent_obj_consensus", r.node, r.iter)
    BY <1>9 DEF StopOnConsensus
  <2>2. PICK i \in (iter - 2)..iter : r \in RecordsOf(i)
    BY ConsensusRecordEligible DEF EligibleRecords, WithObj
  <2>3. iter >= 2
    BY ConsensusRecordEligible DEF RecentTopsAligned
  <2>4. r.node \in Node /\ r.iter = i
    BY <1>0, <2>2, RecordsTyped
  <2>5. r.iter \in 0..MaxIterations
    BY <1>0, <2>2, <2>3, <2>4
  <2>6. stop' \in StopInfo
    BY <1>5, <2>1, <2>4, <2>5 DEF StopReasons
  <2> QED
    BY <1>0, <1>9, <2>6 DEF FlowOK, StopOnConsensus
<1>10. ASSUME NEW x \in Node, StopOnReward(x) PROVE FlowOK'
  <2>1. stop' \in StopInfo
    BY <1>0, <1>5, <1>10 DEF StopOnReward, StopReasons
  <2> QED
    BY <1>0, <1>10, <2>1 DEF FlowOK, StopOnReward
<1>11. ASSUME UNCHANGED <<cand, repaired, stop>>, pc' = "done" => pc = "done"
       PROVE  FlowOK'
  BY <1>0, <1>11 DEF FlowOK
<1>12. ASSUME \/ \E x \in Node : SelectLeaf(x)
              \/ DeferCodeEntry \/ AdmitCodeEntry \/ EmptyGroup
              \/ \E g \in Groups : Expand(g)
              \/ ContinueSearch \/ Terminated \/ UNCHANGED vars
       PROVE  UNCHANGED <<cand, repaired, stop>> /\ (pc' = "done" => pc = "done")
  BY <1>12 DEF SelectLeaf, DeferCodeEntry, AdmitCodeEntry, EmptyGroup, Expand,
     ContinueSearch, Terminated, vars, NextIteration
<1> QED
  BY <1>1, <1>2, <1>3, <1>6, <1>7, <1>8, <1>9, <1>10, <1>11, <1>12 DEF Next, Step

\* What an iteration expands is a childless node.
LEMMA StepLeafSelected == TypeInv /\ [Next]_vars => LeafSelected'
<1> SUFFICES ASSUME TypeInv, [Next]_vars PROVE LeafSelected'
  OBVIOUS
<1>1. ASSUME UNCHANGED tree PROVE stage'[Root] = 0 /\ \A x : Expandable(x)' <=> Expandable(x)
  BY <1>1 DEF TypeInv, LeafSelected, tree, Expandable, Children
<1>2. ASSUME NEW x \in Node, SelectLeaf(x) PROVE LeafSelected'
  BY <1>1, <1>2 DEF SelectLeaf, LeafSelected, EntersCode, NextStage, tree, Expandable, Children, TypeInv
<1>3. ASSUME AdmitCodeEntry PROVE LeafSelected'
  BY <1>3 DEF AdmitCodeEntry, LeafSelected, tree, Expandable, Children, TypeInv
<1>4. ASSUME NEW g \in Groups, Expand(g) PROVE LeafSelected'
  <2>1. pc' \notin {"gate", "rollout"}
    BY <1>4 DEF Expand
  <2>2. stage'[Root] = stage[Root]
    <3>1. Root \in Node /\ Root \notin (n + 1)..(n + Len(g))
      <4>1. n \in Nat /\ Len(g) \in Nat
        BY NodesStay, GroupShape, SizeAssumption
      <4>2. Capacity(MaxIterations) \in Nat
        BY CapacityFacts, SizeAssumption
      <4> QED
        BY <4>1, <4>2 DEF Node, Root
    <3> QED
      BY <1>4, <3>1 DEF Expand
  <2> QED
    BY <2>1, <2>2 DEF TypeInv, LeafSelected
<1>5. ASSUME UNCHANGED tree, pc' \notin {"gate", "rollout"} PROVE LeafSelected'
  BY <1>5 DEF TypeInv, LeafSelected, tree
<1>6. ASSUME UNCHANGED vars PROVE LeafSelected'
  BY <1>6 DEF TypeInv, LeafSelected, vars, tree, Expandable, Children, EntersCode, NextStage
<1>7. ASSUME Step, ~(\E x \in Node : SelectLeaf(x)), ~AdmitCodeEntry, ~(\E g \in Groups : Expand(g))
      PROVE  LeafSelected'
  <2>1. UNCHANGED tree
    BY <1>7, OnlyExpandChangesTree DEF Next
  <2>2. pc' \notin {"gate", "rollout"}
    BY <1>7 DEF Step, NoExpandableLeaf, IterationsExhausted, DeferCodeEntry, EmptyGroup,
       ChooseCandidate, RepairCode, RepairYieldsNothing, Repairing, StopAtCode,
       FallBackToSearch, StopOnConsensus, StopOnReward, ContinueSearch, NextIteration, Stop
  <2> QED
    BY <1>5, <2>1, <2>2
<1> QED
  BY <1>2, <1>3, <1>4, <1>6, <1>7 DEF Next, Terminated

\* Every step keeps the type invariant.
LEMMA StepTypeInv == TypeInv /\ [Next]_vars => TypeInv'
  BY StepLoopOK, StepTreeOK, StepGateOK, StepFlowOK, StepLeafSelected DEF TypeInv, TypeOK

\* The search keeps its types, and no iteration creates more nodes than the
\* rollouts it may make.
THEOREM TypeCorrect == Spec => []TypeOK
<1>1. Init => TypeInv
  BY InitTypeInv
<1>2. TypeInv /\ [Next]_vars => TypeInv'
  BY StepTypeInv
<1>3. TypeInv => TypeOK
  BY DEF TypeInv
<1> QED
  BY <1>1, <1>2, <1>3, PTL DEF Spec
-----------------------------------------------------------------------------
(* Each leaf is expanded once.                                             *)

\* A new group hangs below a node that had no children.
LEMMA ExpandKeepsExpandedOnce ==
  ASSUME TypeInv, ExpandedOnce, NEW g \in Groups, Expand(g)
  PROVE  ExpandedOnce'
<1> DEFINE New == (n + 1)..(n + Len(g))
<1>1. /\ Len(g) \in 1..K /\ n \in Nat /\ n' = n + Len(g) /\ K \in Nat
      /\ 1..n' \subseteq Node
  <2>1. Len(g) \in 1..K /\ n' = n + Len(g) /\ K \in Nat
    BY GroupShape, SizeAssumption DEF Expand
  <2>2. n \in Nat /\ n' \in Node /\ Capacity(MaxIterations) \in Nat
    BY NodesStay, ExpandIsStep, StepLoopOK, CapacityFacts, SizeAssumption DEF LoopOK
  <2> QED
    BY <2>1, <2>2 DEF Node
<1>2. \A x \in 1..n' : /\ parent'[x] = IF x \in New THEN selected ELSE parent[x]
                       /\ born'[x] = IF x \in New THEN iter ELSE born[x]
  BY <1>1 DEF Expand
<1>3. \A y \in 1..n : parent[y] # selected
  BY DEF Expand, TypeInv, LeafSelected, Expandable, Children
<1>4. \A x \in 1..n' : x \notin New => x \in 1..n
  BY <1>1
<1>5. ASSUME NEW x \in 1..n', NEW y \in 1..n', parent'[x] = parent'[y]
      PROVE  born'[x] = born'[y] /\ x - y < K
  <2>1. CASE x \in New /\ y \in New
    BY <1>1, <1>2, <2>1
  <2>2. CASE x \notin New /\ y \notin New
    BY <1>2, <1>4, <1>5, <2>2 DEF ExpandedOnce
  <2>3. CASE x \in New /\ y \notin New
    BY <1>2, <1>3, <1>4, <1>5, <2>3
  <2>4. CASE x \notin New /\ y \in New
    BY <1>2, <1>3, <1>4, <1>5, <2>4
  <2> QED
    BY <2>1, <2>2, <2>3, <2>4
<1> QED
  BY <1>5 DEF ExpandedOnce

\* A node's children all come from one rollout group of one iteration.
THEOREM LeavesExpandedOnce == Spec => []ExpandedOnce
<1>1. Init => TypeInv /\ ExpandedOnce
  BY InitTypeInv DEF Init, ExpandedOnce
<1>2. TypeInv /\ ExpandedOnce /\ [Next]_vars => (TypeInv /\ ExpandedOnce)'
  <2> SUFFICES ASSUME TypeInv, ExpandedOnce, [Next]_vars PROVE ExpandedOnce'
    BY StepTypeInv
  <2>1. CASE UNCHANGED tree
    BY <2>1 DEF tree, ExpandedOnce
  <2> QED
    BY <2>1, OnlyExpandChangesTree, ExpandKeepsExpandedOnce
<1> QED
  BY <1>1, <1>2, PTL DEF Spec
-----------------------------------------------------------------------------
(* q values.                                                               *)

\* A bound on a value and on what is added to it bounds the sum.
LEMMA DistributeBound ==
  ASSUME NEW m \in Nat, NEW v \in Nat, NEW w \in Nat, NEW a \in Nat, NEW d \in Nat,
         a <= m * v, d <= m * w
  PROVE  a + d <= m * (v + w)
  OBVIOUS

\* Cluster updates move value and visits in proportion, so no q value leaves
\* the range of the rewards.
LEMMA ExpandKeepsQBounded ==
  ASSUME TypeInv, QBounded, NEW g \in Groups, Expand(g)
  PROVE  QBounded'
<1> DEFINE New == (n + 1)..(n + Len(g))
           mean == GroupMean([i \in 1..Len(g) |-> g[i].reward])
           top == MaxReward * Scale
<1>1. /\ Len(g) \in 1..K /\ g \in [1..Len(g) -> Outcomes] /\ mean \in 0..top
      /\ top \in Nat /\ mean \in Nat /\ mean <= top
      /\ n \in Nat /\ n' = n + Len(g) /\ 0..n' \subseteq Node
  <2>1. Len(g) \in 1..K /\ g \in [1..Len(g) -> Outcomes] /\ mean \in 0..top /\ n' = n + Len(g)
    BY GroupShape DEF Expand
  <2>2. top \in Nat
    BY RewardAssumption, ProductInNat
  <2>3. n \in Nat /\ n' \in Node /\ Capacity(MaxIterations) \in Nat
    BY NodesStay, ExpandIsStep, StepLoopOK, CapacityFacts, SizeAssumption DEF LoopOK
  <2>4. 0..n' \subseteq Node
    BY <2>3 DEF Node
  <2> HIDE DEF mean, top
  <2> QED
    BY <2>1, <2>2, <2>3, <2>4
<1>2. ASSUME NEW x \in 0..n' PROVE value'[x] >= 0 /\ value'[x] <= top * visits'[x]
  <2>1. /\ x \in Node
        /\ value'[x] = IF x \in New THEN g[x - n].reward * Scale * Unit
                                     ELSE value[x] + ValueGain(x, mean)
        /\ visits'[x] = IF x \in New THEN Unit
                        ELSE visits[x] + PathVisits(x) + LineageVisits(x)
    BY <1>1 DEF Expand
  <2>2. CASE x \in New
    <3>1. x - n \in 1..Len(g)
      BY <1>1, <2>2
    <3>2. g[x - n].reward \in Nat /\ g[x - n].reward <= MaxReward
      BY <1>1, <3>1, OutcomeAssumption, RewardAssumption
    <3>3. g[x - n].reward * Scale \in Nat /\ g[x - n].reward * Scale <= top
      BY <3>2, RewardAssumption, ProductInNat, ProductMonotone
    <3>4. g[x - n].reward * Scale * Unit \in Nat /\ g[x - n].reward * Scale * Unit <= top * Unit
      <4> DEFINE a == g[x - n].reward * Scale
      <4>1. a \in Nat /\ a <= top /\ Unit \in Nat /\ top \in Nat
        BY <1>1, <3>3, RewardAssumption
      <4>2. a * Unit \in Nat /\ a * Unit <= top * Unit
        <5> HIDE DEF a, top
        <5> QED
          BY <4>1, ProductInNat, ProductMonotone
      <4> QED
        BY <4>2
    <3> QED
      BY <2>1, <2>2, <3>4
  <2>3. CASE x \notin New
    <3> DEFINE w == PathVisits(x) + LineageVisits(x)
    <3>1. /\ x \in Created /\ value[x] \in Nat /\ visits[x] \in Nat
          /\ value[x] <= top * visits[x]
      <4>1. x \in Created
        BY <1>1, <2>3 DEF Created
      <4> QED
        BY <2>1, <4>1 DEF QBounded, TypeInv, TypeOK, TreeOK
    <3>2. PathVisits(x) \in Nat /\ LineageVisits(x) \in Nat /\ w \in Nat
      BY <2>1, Gains
    <3>3. ValueGain(x, mean) = mean * w
      BY DEF ValueGain
    <3>4. visits[x] + PathVisits(x) + LineageVisits(x) = visits[x] + w
      BY <3>1, <3>2
    <3>5. mean * w \in Nat /\ mean * w <= top * w
      <4> HIDE DEF mean, top, w
      <4> QED
        BY <1>1, <3>2, ProductInNat, ProductMonotone
    <3>6. value[x] + mean * w <= top * (visits[x] + w)
      <4> HIDE DEF mean, top, w
      <4> QED
        BY <1>1, <3>1, <3>2, <3>5, DistributeBound
    <3>7. value[x] + mean * w >= 0
      BY <3>1, <3>5
    <3> QED
      BY <2>1, <2>3, <3>3, <3>4, <3>6, <3>7
  <2> QED
    BY <2>2, <2>3
<1> QED
  BY <1>2 DEF QBounded, Created

\* Every q value lies between 0 and the largest reward (QBounded), so that the
\* suppression weights of selection only ever lower a score.
THEOREM QValuesBounded == Spec => []QBounded
<1>1. Init => TypeInv /\ QBounded
  <2> SUFFICES ASSUME Init PROVE QBounded
    BY InitTypeInv
  <2>1. MaxReward * Scale \in Nat
    BY RewardAssumption, ProductInNat
  <2>2. \A x \in Node : value[x] = 0 /\ visits[x] = 0
    BY DEF Init
  <2>3. Created \subseteq Node
    BY CapacityFacts, SizeAssumption DEF Init, Created, Node
  <2> QED
    BY <2>1, <2>2, <2>3 DEF QBounded
<1>2. TypeInv /\ QBounded /\ [Next]_vars => (TypeInv /\ QBounded)'
  <2> SUFFICES ASSUME TypeInv, QBounded, [Next]_vars PROVE QBounded'
    BY StepTypeInv
  <2>1. CASE UNCHANGED tree
    BY <2>1 DEF tree, QBounded, Created
  <2> QED
    BY <2>1, OnlyExpandChangesTree, ExpandKeepsQBounded
<1> QED
  BY <1>1, <1>2, PTL DEF Spec
-----------------------------------------------------------------------------
(* The CODE-entry gate.                                                    *)

\* What the gate has done when its variables have these values.
AttemptInv ==
  /\ attempts >= 1 => deferred # None
  /\ deferred # None => deferred.iter < iter /\ force3
  /\ pc = "rollout" /\ EntersCode(selected) => force3 /\ (SecondAttempt => attempts >= 2)
  /\ pc = "gate" => force3
  /\ \A x \in 1..n : born[x] <= iter

GateInv == /\ AttemptInv /\ CodeAfterDeferral /\ OneShotSuppression
           /\ LateWeightsAfterCodeAttempt

\* The steps that the gate does not care about.
GateIdle ==
  /\ UNCHANGED <<tree, gate, force3>>
  /\ \/ UNCHANGED <<pc, iter, selected>>
     \/ pc' = "done" /\ iter' = iter /\ pc # "done"
     \/ pc \in {"rollout", "terminal", "checks"} /\ pc' = "select" /\ iter' = iter + 1

\* Every step is one of those that concern the gate, or leaves it alone.
LEMMA GateCases ==
  ASSUME [Next]_vars
  PROVE  \/ \E x \in Node : SelectLeaf(x)
         \/ DeferCodeEntry
         \/ AdmitCodeEntry
         \/ \E g \in Groups : Expand(g)
         \/ GateIdle
<1>1. CASE UNCHANGED vars \/ Terminated
  BY <1>1 DEF Terminated, vars, GateIdle, gate, tree
<1>2. ASSUME NoExpandableLeaf \/ IterationsExhausted \/ StopOnConsensus \/ \E x \in Node : StopOnReward(x)
      PROVE  GateIdle
  BY <1>2 DEF NoExpandableLeaf, IterationsExhausted, StopOnConsensus, StopOnReward, Stop, GateIdle, gate
<1>3. ASSUME \/ \E x \in Node : ChooseCandidate(x)
             \/ \E o \in Outcomes : RepairCode(o)
             \/ RepairYieldsNothing
      PROVE  GateIdle
  BY <1>3 DEF ChooseCandidate, RepairCode, RepairYieldsNothing, GateIdle, gate
<1>4. ASSUME StopAtCode PROVE GateIdle
  BY <1>4 DEF StopAtCode, Stop, RepairOver, Repairing, GateIdle, gate
<1>5. ASSUME EmptyGroup \/ FallBackToSearch \/ ContinueSearch PROVE GateIdle
  BY <1>5 DEF EmptyGroup, FallBackToSearch, ContinueSearch, NextIteration, RepairOver,
     Repairing, GateIdle, gate
<1> QED
  BY <1>1, <1>2, <1>3, <1>4, <1>5 DEF Next, Step

\* Types of the variables the gate reads.
LEMMA GateTypes ==
  ASSUME TypeInv
  PROVE  /\ iter \in 0..MaxIterations /\ MaxIterations \in Nat /\ n \in Nat /\ attempts \in Nat
         /\ deferred # None => deferred \in [iter : 0..MaxIterations, node : 1..n]
         /\ suppress # None => suppress \in [target : 0..MaxIterations, nodes : SUBSET (1..n)]
         /\ \A x \in 1..n : x \in Node /\ born[x] \in 0..MaxIterations /\ stage[x] \in 0..NumStages
<1>1. /\ iter \in 0..MaxIterations /\ MaxIterations \in Nat /\ n \in Nat /\ attempts \in Nat
      /\ deferred # None => deferred \in [iter : 0..MaxIterations, node : 1..n]
      /\ suppress # None => suppress \in [target : 0..MaxIterations, nodes : SUBSET (1..n)]
  BY CapacityFacts, SizeAssumption DEF TypeInv, TypeOK, LoopOK, GateOK, Node
<1>2. 1..n \subseteq Node
  BY <1>1, CapacityFacts, SizeAssumption DEF TypeInv, TypeOK, LoopOK, Node
<1> QED
  BY <1>1, <1>2 DEF TypeInv, TypeOK, TreeOK

\* Leaving the gate alone keeps what is known of it, iteration by iteration.
LEMMA GateIdleKeepsInv ==
  ASSUME TypeInv, GateInv, GateIdle PROVE GateInv'
<1> USE GateTypes DEF GateInv, tree, gate
<1>1. iter' \in Int /\ iter <= iter'
  BY DEF GateIdle
<1>2. AttemptInv'
  <2>1. \A x \in 1..n' : born'[x] <= iter'
    BY <1>1 DEF GateIdle, AttemptInv
  <2>2. pc' \in {"rollout", "gate"} => UNCHANGED <<pc, iter, selected>>
    BY DEF GateIdle
  <2> QED
    BY <1>1, <2>1, <2>2 DEF GateIdle, AttemptInv, EntersCode, NextStage
<1>3. CodeAfterDeferral'
  BY DEF GateIdle, CodeAfterDeferral
<1>4. OneShotSuppression'
  BY DEF GateIdle, OneShotSuppression
<1>5. LateWeightsAfterCodeAttempt'
  BY DEF GateIdle, LateWeightsAfterCodeAttempt
<1> QED
  BY <1>2, <1>3, <1>4, <1>5

\* Selection uses up the suppression of its iteration.
LEMMA SelectLeafKeepsGateInv ==
  ASSUME TypeInv, GateInv, NEW x \in Node, SelectLeaf(x) PROVE GateInv'
<1> USE GateTypes DEF GateInv, tree
<1>1. /\ pc = "select" /\ iter' = iter /\ UNCHANGED tree /\ attempts' = attempts /\ deferred' = deferred
      /\ selected' = x /\ force3' = (force3 \/ EntersCode(x))
      /\ pc' = IF EntersCode(x) /\ SecondAttempt THEN "gate" ELSE "rollout"
      /\ suppress' = SuppressionLeft
  BY DEF SelectLeaf
<1>2. AttemptInv'
  BY <1>1 DEF AttemptInv, EntersCode, NextStage
<1>3. CodeAfterDeferral'
  BY <1>1 DEF CodeAfterDeferral
<1>4. OneShotSuppression'
  BY <1>1 DEF OneShotSuppression, SuppressionLeft
<1>5. LateWeightsAfterCodeAttempt'
  BY <1>1 DEF LateWeightsAfterCodeAttempt
<1> QED
  BY <1>2, <1>3, <1>4, <1>5

\* A deferral is the first attempt and suppresses the next selection.
LEMMA DeferKeepsGateInv ==
  ASSUME TypeInv, GateInv, DeferCodeEntry PROVE GateInv'
<1> USE GateTypes DEF GateInv, tree
<1>1. /\ pc = "gate" /\ pc' = "select" /\ iter' = iter + 1 /\ UNCHANGED tree
      /\ attempts' = attempts + 1 /\ force3' = force3 /\ ~(attempts + 1 >= 2)
      /\ deferred' = [iter |-> iter, node |-> selected]
      /\ suppress' = [target |-> iter + 1, nodes |-> SameClusterNodes(selected)]
  BY DEF DeferCodeEntry, NextIteration, EnoughAttempts
<1>2. deferred' # None /\ deferred'.iter = iter /\ deferred'.node = selected
  <2>1. selected \in Int
    BY <1>1, NotRoot
  <2> QED
    BY <1>1, <2>1, NoneAssumption
<1>3. AttemptInv'
  BY <1>1, <1>2 DEF AttemptInv
<1>4. CodeAfterDeferral'
  BY <1>1, <1>2 DEF AttemptInv, CodeAfterDeferral
<1>5. OneShotSuppression'
  BY <1>1, <1>2 DEF OneShotSuppression, SameClusterNodes
<1>6. LateWeightsAfterCodeAttempt'
  BY <1>1, <1>2 DEF AttemptInv, LateWeightsAfterCodeAttempt
<1> QED
  BY <1>3, <1>4, <1>5, <1>6

\* An admission is a later attempt than the deferral.
LEMMA AdmitKeepsGateInv ==
  ASSUME TypeInv, GateInv, AdmitCodeEntry PROVE GateInv'
<1> USE GateTypes DEF GateInv, tree
<1>1. /\ pc = "gate" /\ pc' = "rollout" /\ attempts' = attempts + 1 /\ attempts + 1 >= 2
      /\ UNCHANGED <<iter, tree, selected, deferred, suppress, force3>>
  BY DEF AdmitCodeEntry, EnoughAttempts
<1>2. AttemptInv'
  BY <1>1 DEF AttemptInv, EntersCode, NextStage
<1>3. CodeAfterDeferral' /\ OneShotSuppression' /\ LateWeightsAfterCodeAttempt'
  BY <1>1 DEF CodeAfterDeferral, OneShotSuppression, LateWeightsAfterCodeAttempt
<1> QED
  BY <1>2, <1>3

\* New CODE nodes are born after the deferral.
LEMMA ExpandKeepsGateInv ==
  ASSUME TypeInv, GateInv, NEW g \in Groups, Expand(g) PROVE GateInv'
<1> DEFINE New == (n + 1)..(n + Len(g))
<1> USE GateTypes DEF GateInv
<1>1. /\ pc = "rollout" /\ pc' \in {"terminal", "checks"}
      /\ UNCHANGED <<iter, selected, attempts, deferred, suppress, force3>>
  BY DEF Expand, gate
<1>2. \A x \in 1..n' :
        /\ x \notin New => x \in 1..n
        /\ born'[x] = IF x \in New THEN iter ELSE born[x]
        /\ stage'[x] = IF x \in New THEN NextStage(selected) ELSE stage[x]
        /\ phase'[x] = IF x \in New THEN WeightPhase(iter + 1, force3) ELSE phase[x]
  <2>1. Len(g) \in Nat /\ n' = n + Len(g) /\ 1..n' \subseteq Node
    <3>1. n' \in Node /\ Capacity(MaxIterations) \in Nat
      BY ExpandIsStep, StepLoopOK, CapacityFacts, SizeAssumption DEF LoopOK
    <3> QED
      BY <3>1, GroupShape, SizeAssumption DEF Node, Expand
  <2> QED
    BY <2>1 DEF Expand
<1>3. AttemptInv'
  BY <1>1, <1>2 DEF AttemptInv
<1>4. CodeAfterDeferral'
  <2>1. EntersCode(selected) /\ SecondAttempt =>
          attempts >= 2 /\ deferred # None /\ deferred.iter < iter
    BY <1>1 DEF AttemptInv
  <2> QED
    BY <1>1, <1>2, <2>1 DEF CodeAfterDeferral, EntersCode
<1>5. OneShotSuppression'
  BY <1>1 DEF OneShotSuppression
<1>6. LateWeightsAfterCodeAttempt'
  <2>1. deferred # None \/ EntersCode(selected) => force3
    BY <1>1 DEF AttemptInv
  <2>2. force3 => WeightPhase(iter + 1, force3) = "late"
    BY DEF WeightPhase
  <2> QED
    BY <1>1, <1>2, <2>1, <2>2 DEF LateWeightsAfterCodeAttempt, EntersCode
<1> QED
  BY <1>3, <1>4, <1>5, <1>6

\* The gate facts are inductive together.
LEMMA GateInvariant == Spec => [](TypeInv /\ GateInv)
<1>1. Init => TypeInv /\ GateInv
  BY InitTypeInv, SizeAssumption DEF Init, GateInv, AttemptInv, CodeAfterDeferral,
     OneShotSuppression, LateWeightsAfterCodeAttempt
<1>2. TypeInv /\ GateInv /\ [Next]_vars => (TypeInv /\ GateInv)'
  BY StepTypeInv, GateCases, SelectLeafKeepsGateInv, DeferKeepsGateInv, AdmitKeepsGateInv,
     ExpandKeepsGateInv, GateIdleKeepsInv
<1> QED
  BY <1>1, <1>2, PTL DEF Spec

\* No CODE node without an earlier deferral, when the gate asks for one.
THEOREM CodeOnlyAfterDeferral == Spec => []CodeAfterDeferral
<1>1. TypeInv /\ GateInv => CodeAfterDeferral
  BY DEF GateInv
<1> QED
  BY <1>1, GateInvariant, PTL

\* The suppression lives for one selection.
THEOREM SuppressionIsOneShot == Spec => []OneShotSuppression
<1>1. TypeInv /\ GateInv => OneShotSuppression
  BY DEF GateInv
<1> QED
  BY <1>1, GateInvariant, PTL

\* From the first attempt to enter CODE on, the groups of the search are scored
\* with the late-phase weights.
THEOREM LateWeights == Spec => []LateWeightsAfterCodeAttempt
<1>1. TypeInv /\ GateInv => LateWeightsAfterCodeAttempt
  BY DEF GateInv
<1> QED
  BY <1>1, GateInvariant, PTL

\* What the count of groups rests on: a deferral was an attempt.
CountInv == GateCostsOneIteration /\ (deferred # None => attempts >= 1)

\* The steps that neither finish an iteration nor add a group.
CountIdle ==
  /\ Finished' = Finished /\ UNCHANGED <<n, scored, deferred>>
  /\ attempts' \in {attempts, attempts + 1}

\* Every step adds a group, defers, loses a whole group to the filter, or leaves
\* the count alone.
LEMMA CountCases ==
  ASSUME TypeInv, [Next]_vars
  PROVE  (\E g \in Groups : Expand(g)) \/ DeferCodeEntry \/ EmptyGroup \/ CountIdle
<1> USE DEF Finished, NoGroupInLast, CountIdle
<1>1. CASE UNCHANGED vars \/ Terminated
  BY <1>1 DEF Terminated, vars, gate, tree
<1>2. ASSUME (\E x \in Node : SelectLeaf(x)) \/ AdmitCodeEntry PROVE CountIdle
  BY <1>2 DEF SelectLeaf, AdmitCodeEntry, tree
<1>3. ASSUME NoExpandableLeaf \/ IterationsExhausted PROVE CountIdle
  BY <1>3 DEF NoExpandableLeaf, IterationsExhausted, Stop, tree, gate
<1>4. ASSUME StopOnConsensus \/ StopAtCode \/ \E x \in Node : StopOnReward(x) PROVE CountIdle
  BY <1>4 DEF StopOnConsensus, StopOnReward, StopAtCode, RepairOver, Repairing, Stop, tree, gate
<1>5. ASSUME \/ \E x \in Node : ChooseCandidate(x)
             \/ \E o \in Outcomes : RepairCode(o)
             \/ RepairYieldsNothing
      PROVE  CountIdle
  BY <1>5 DEF ChooseCandidate, RepairCode, RepairYieldsNothing, tree, gate
<1>6. ASSUME FallBackToSearch \/ ContinueSearch PROVE CountIdle
  BY <1>6 DEF FallBackToSearch, ContinueSearch, NextIteration, RepairOver, Repairing, tree, gate
<1> QED
  BY <1>1, <1>2, <1>3, <1>4, <1>5, <1>6 DEF Next, Step

\* A step keeps the count.
LEMMA StepCountInv == TypeInv /\ GateInv /\ CountInv /\ [Next]_vars => CountInv'
<1> SUFFICES ASSUME TypeInv, GateInv, CountInv, [Next]_vars PROVE CountInv'
  OBVIOUS
<1> DEFINE c == Finished - Deferrals
<1>1. /\ iter \in Nat /\ n \in Nat /\ attempts \in Nat /\ scored \in Nat
      /\ deferred # None => deferred.iter \in Nat /\ deferred.iter < iter
  BY GateTypes DEF TypeInv, TypeOK, GateOK, GateInv, AttemptInv
<1>2. Finished \in Nat /\ c \in Nat /\ c + 1 \in Nat
  BY <1>1 DEF Finished, Deferrals
<1>3. Capacity(c) \in Nat /\ Capacity(c + 1) = Capacity(c) + K /\ K \in Nat
  BY <1>2, CapacityFacts, SizeAssumption
<1>4. /\ n <= Capacity(c) /\ (deferred # None => attempts >= 1)
      /\ ~FilterRollout => n = Capacity(c) /\ scored = c
  BY DEF CountInv, GateCostsOneIteration
<1>5. ASSUME NEW g \in Groups, Expand(g) PROVE CountInv'
  <2>1. /\ n' = n + Len(g) /\ scored' = scored + 1 /\ UNCHANGED <<deferred, attempts>>
        /\ pc = "rollout" /\ pc' \in {"terminal", "checks"} /\ iter' = iter
    BY <1>5 DEF Expand, gate
  <2>2. (Finished - Deferrals)' = c + 1
    BY <1>1, <2>1 DEF Finished, Deferrals
  <2>3. Len(g) \in Nat /\ Len(g) <= K /\ (~FilterRollout => Len(g) = K)
    <3>1. PICK k \in KeptSizes : g \in [1..k -> KeptOutcomes]
      BY DEF Groups
    <3>2. k \in 1..K /\ (~FilterRollout => k = K)
      BY <1>3, SizeAssumption DEF KeptSizes, Dropped
    <3> QED BY <3>1, <3>2
  <2> HIDE DEF c
  <2>4. /\ n' <= Capacity(c + 1)
        /\ ~FilterRollout => n' = Capacity(c + 1) /\ scored' = c + 1
    BY <1>1, <1>2, <1>3, <1>4, <2>1, <2>3
  <2> QED BY <1>4, <2>1, <2>2, <2>4 DEF CountInv, GateCostsOneIteration, Capacity
<1>6. CASE DeferCodeEntry
  <2>1. /\ pc = "gate" /\ pc' = "select" /\ iter' = iter + 1 /\ ~(attempts + 1 >= 2)
        /\ attempts' = attempts + 1 /\ deferred' = [iter |-> iter, node |-> selected]
        /\ UNCHANGED <<n, scored>>
    BY <1>6 DEF DeferCodeEntry, NextIteration, EnoughAttempts, tree
  <2>2. deferred = None
    BY <1>1, <1>4, <2>1
  <2>3. (Finished - Deferrals)' = c \/ deferred' = None
    BY <1>1, <2>1, <2>2 DEF Finished, Deferrals
  <2>4. deferred' # None
    <3>1. selected \in Int
      BY <2>1, NotRoot
    <3> QED BY <1>1, <2>1, <3>1, NoneAssumption
  <2> QED BY <1>1, <1>4, <2>1, <2>3, <2>4 DEF CountInv, GateCostsOneIteration, Capacity
<1>7. CASE EmptyGroup
  <2>1. /\ pc = "rollout" /\ pc' = "select" /\ iter' = iter + 1 /\ FilterRollout
        /\ UNCHANGED <<n, scored, deferred, attempts>>
    BY <1>7 DEF EmptyGroup, NextIteration, Dropped, tree, gate
  <2>2. (Finished - Deferrals)' = c + 1
    BY <1>1, <2>1 DEF Finished, Deferrals
  <2> HIDE DEF c
  <2>3. n' <= Capacity(c + 1)
    BY <1>1, <1>2, <1>3, <1>4, <2>1
  <2> QED BY <1>4, <2>1, <2>2, <2>3 DEF CountInv, GateCostsOneIteration, Capacity
<1>8. CASE CountIdle
  <2>1. (Finished - Deferrals)' = c
    BY <1>8 DEF CountIdle, Deferrals
  <2> QED BY <1>1, <1>4, <1>8, <2>1 DEF CountInv, GateCostsOneIteration, CountIdle, Capacity
<1> QED BY <1>5, <1>6, <1>7, <1>8, CountCases

\* The gate costs a search one iteration at most, however many nodes are deferred
\* or filtered in between: all others add and score a group, with the filter off a
\* whole one (search(), _code_entry_gate and the calculator's count of groups).
THEOREM OneIterationForTheGate == Spec => []GateCostsOneIteration
<1>1. Init => CountInv
  BY CapacityFacts DEF Init, CountInv, GateCostsOneIteration, Finished, Deferrals
<1>2. CountInv => GateCostsOneIteration
  BY DEF CountInv
<1> QED BY <1>1, <1>2, GateInvariant, StepCountInv, PTL DEF Spec

-----------------------------------------------------------------------------
(* Least counterexamples, and the paths they prove things about.           *)
\* A non-empty set of naturals has a least element: the form in which these
\* proofs use induction, over the node numbers.
LEMMA LeastElement ==
  ASSUME NEW T \in SUBSET Nat, T # {}
  PROVE  \E x \in T : \A y \in T : x <= y
<1>1. PICK x \in T : \A y \in T : <<y, x>> \notin OpToRel(<, Nat)
  BY WFMin, NatLessThanWellFounded
<1>2. ASSUME NEW y \in T PROVE x <= y
  <2>1. ~(y < x)
    BY <1>1 DEF OpToRel
  <2> QED BY <2>1
<1> QED BY <1>2

\* up maps each node to the nodes from it to the root, along the parents p:
\* the function Path defines for the parents of the tree, taken as an operator of
\* the parents so that two trees can be compared.
IsPath(up, p) == up = [y \in Node |-> IF y = Root THEN {Root} ELSE {y} \cup up[p[y]]]

\* ... and the one such function.
Ancestors(p) == CHOOSE up : IsPath(up, p)

\* Path, which _iter_leaves and _backpropagate climb, as the ancestors of a node.
LEMMA PathIsAncestors == \A x : Path(x) = Ancestors(parent)[x]
  BY DEF Path, Ancestors, IsPath

\* The same after a step.
LEMMA PathIsAncestorsP == \A x : Path(x)' = Ancestors(parent')[x]
  BY DEF Path, Ancestors, IsPath

\* A node is created after its parent: node numbers fall on the way to the root.
Descends(p) == p \in [Node -> Node] /\ \A x \in Node \ {Root} : p[x] < x

\* Nodes are natural numbers, the root is one of them.
LEMMA NodesAreNaturals == Node \subseteq Nat /\ Root \in Node
<1>1. Capacity(MaxIterations) \in Nat
  BY CapacityFacts, SizeAssumption
<1> QED BY <1>1 DEF Node, Root

\* For parents that descend, the recursive definition of Path does define a
\* function: a node's path is the least set that holds it and its own parents.
LEMMA PathExists ==
  ASSUME NEW p, Descends(p)
  PROVE  IsPath(Ancestors(p), p)
<1> DEFINE Closed(C) == \A u \in C : u # Root => p[u] \in C
           up == [y \in Node |-> {z \in Node : \A C \in SUBSET Node : y \in C /\ Closed(C) => z \in C}]
<1>1. up[Root] = {Root}
  <2>1. Closed({Root})
    OBVIOUS
  <2>2. {Root} \in SUBSET Node
    BY NodesAreNaturals
  <2> QED BY <2>1, <2>2
<1>2. ASSUME NEW y \in Node, y # Root PROVE up[y] = {y} \cup up[p[y]]
  <2>1. p[y] \in Node
    BY <1>2 DEF Descends
  <2>2. ASSUME NEW C \in SUBSET Node, y \in C, Closed(C) PROVE p[y] \in C
    BY <1>2, <2>2
  <2>3. {y} \cup up[p[y]] \subseteq up[y]
    BY <2>1, <2>2
  <2>4. {y} \cup up[p[y]] \in SUBSET Node
    BY <2>1
  <2>5. ASSUME NEW u \in {y} \cup up[p[y]], u # Root PROVE p[u] \in {y} \cup up[p[y]]
    <3>1. CASE u = y
      BY <2>1, <3>1
    <3>2. CASE u \in up[p[y]]
      <4>1. u \in Node /\ p[u] \in Node
        BY <2>1, <3>2 DEF Descends
      <4>2. ASSUME NEW C \in SUBSET Node, p[y] \in C, Closed(C) PROVE p[u] \in C
        BY <2>1, <2>5, <3>2, <4>2
      <4> QED BY <2>1, <4>1, <4>2
    <3> QED BY <3>1, <3>2
  <2>6. Closed({y} \cup up[p[y]])
    BY <2>5
  <2>7. up[y] \subseteq {y} \cup up[p[y]]
    <3> HIDE DEF Closed
    <3> QED BY <2>4, <2>6
  <2> QED BY <2>3, <2>7
<1>3. up = [y \in Node |-> IF y = Root THEN {Root} ELSE {y} \cup up[p[y]]]
  <2> HIDE DEF up
  <2>1. up = [y \in Node |-> up[y]]
    BY DEF up
  <2> QED BY <1>1, <1>2, <2>1
<1>4. IsPath(up, p)
  BY <1>3 DEF IsPath
<1> QED BY <1>4 DEF Ancestors

\* What the definition says: the root's path is the root, any other node's is the
\* node and its parent's path.
LEMMA PathEquation ==
  ASSUME NEW p, Descends(p)
  PROVE  /\ Ancestors(p)[Root] = {Root}
         /\ \A y \in Node \ {Root} : p[y] \in Node /\ p[y] < y /\ Ancestors(p)[y] = {y} \cup Ancestors(p)[p[y]]
<1> DEFINE up == Ancestors(p)
<1>1. up = [y \in Node |-> IF y = Root THEN {Root} ELSE {y} \cup up[p[y]]]
  BY PathExists DEF IsPath
<1> HIDE DEF up
<1> QED BY <1>1, NodesAreNaturals DEF Descends, up

\* Induction along the parents: what holds of the root, and of a node when it
\* holds of its parent, holds of all nodes.
LEMMA AncestorInduction ==
  ASSUME NEW p, Descends(p), NEW G, Root \in G,
         \A z \in Node \ {Root} : p[z] \in G => z \in G
  PROVE  Node \subseteq G
<1> DEFINE Bad == Node \ G
<1> SUFFICES ASSUME Bad # {} PROVE FALSE
  OBVIOUS
<1>1. PICK z \in Bad : \A y \in Bad : z <= y
  BY LeastElement, NodesAreNaturals
<1>2. z \in Node \ {Root} /\ p[z] \in Node /\ p[z] < z
  BY <1>1, PathEquation
<1>3. z \in Nat /\ p[z] \in Nat
  BY <1>2, NodesAreNaturals
<1>4. ~(z <= p[z])
  BY <1>2, <1>3
<1>5. p[z] \in G
  BY <1>1, <1>2, <1>4
<1> QED BY <1>1, <1>2, <1>5

\* A path starts at its node, ends at the root and climbs.
LEMMA PathBasics ==
  ASSUME NEW p, Descends(p), NEW x \in Node
  PROVE  x \in Ancestors(p)[x] /\ Root \in Ancestors(p)[x] /\ Ancestors(p)[x] \subseteq Root..x
<1> DEFINE up == Ancestors(p)
           Good(z) == z \in up[z] /\ Root \in up[z] /\ up[z] \subseteq Root..z
           G == {z \in Node : Good(z)}
<1>0. /\ up[Root] = {Root}
      /\ \A y \in Node \ {Root} : p[y] \in Node /\ p[y] < y /\ up[y] = {y} \cup up[p[y]]
  BY PathEquation
<1>1. Root \in G
  BY <1>0, NodesAreNaturals DEF Root
<1>2. ASSUME NEW z \in Node \ {Root}, p[z] \in G PROVE z \in G
  <2>1. p[z] \in Node /\ p[z] < z /\ Good(p[z]) /\ up[z] = {z} \cup up[p[z]] /\ z \in Nat /\ p[z] \in Nat
    BY <1>0, <1>2, NodesAreNaturals
  <2>2. Root..p[z] \subseteq Root..z /\ z \in Root..z
    BY <2>1, NodesAreNaturals DEF Root
  <2>3. Good(z)
    <3> HIDE DEF up
    <3> QED BY <2>1, <2>2
  <2> QED BY <2>3
<1>3. Node \subseteq G
  <2> HIDE DEF G
  <2> QED BY <1>1, <1>2, AncestorInduction
<1> QED BY <1>3

\* An ancestor's ancestors are ancestors.
LEMMA PathTransitive ==
  ASSUME NEW p, Descends(p), NEW x \in Node, NEW y \in Ancestors(p)[x]
  PROVE  y \in Node /\ Ancestors(p)[y] \subseteq Ancestors(p)[x]
<1> DEFINE up == Ancestors(p)
           Good(z) == \A u \in up[z] : u \in Node /\ up[u] \subseteq up[z]
           G == {z \in Node : Good(z)}
<1>0. /\ up[Root] = {Root}
      /\ \A u \in Node \ {Root} : p[u] \in Node /\ p[u] < u /\ up[u] = {u} \cup up[p[u]]
  BY PathEquation
<1>1. Root \in G
  BY <1>0, NodesAreNaturals
<1>2. ASSUME NEW z \in Node \ {Root}, p[z] \in G PROVE z \in G
  <2>1. Good(p[z]) /\ up[z] = {z} \cup up[p[z]]
    BY <1>0, <1>2
  <2>3. Good(z)
    <3> HIDE DEF up
    <3> QED BY <2>1
  <2> QED BY <2>3
<1>3. Node \subseteq G
  <2> HIDE DEF G
  <2> QED BY <1>1, <1>2, AncestorInduction
<1> QED BY <1>3

\* The parent of an ancestor is an ancestor.
LEMMA PathParent ==
  ASSUME NEW p, Descends(p), NEW x \in Node, NEW y \in Ancestors(p)[x], y # Root
  PROVE  p[y] \in Ancestors(p)[x]
<1>1. y \in Node /\ Ancestors(p)[y] \subseteq Ancestors(p)[x]
  BY PathTransitive
<1>2. p[y] \in Node /\ Ancestors(p)[y] = {y} \cup Ancestors(p)[p[y]]
  BY <1>1, PathEquation
<1>3. p[y] \in Ancestors(p)[p[y]]
  BY <1>2, PathBasics
<1> QED BY <1>1, <1>2, <1>3

\* A path does not branch: no two siblings are both on it. This is why the walk
\* of _propagate_cluster_lineage_from_selected never credits a node of the path.
LEMMA PathChain ==
  ASSUME NEW p, Descends(p), NEW x \in Node, NEW c \in Ancestors(p)[x], NEW d \in Ancestors(p)[x],
         c # Root, d # Root, p[c] = p[d]
  PROVE  c = d
<1> DEFINE up == Ancestors(p)
           Good(z) == \A u, v \in up[z] : u # Root /\ v # Root /\ p[u] = p[v] => u = v
           G == {z \in Node : Good(z)}
<1>0. /\ up[Root] = {Root}
      /\ \A u \in Node \ {Root} : p[u] \in Node /\ p[u] < u /\ up[u] = {u} \cup up[p[u]]
  BY PathEquation
<1>1. Root \in G
  BY <1>0, NodesAreNaturals
<1>2. ASSUME NEW z \in Node \ {Root}, p[z] \in G PROVE z \in G
  <2>1. p[z] \in Node /\ p[z] < z /\ Good(p[z]) /\ up[z] = {z} \cup up[p[z]]
    BY <1>0, <1>2
  <2>2. ASSUME NEW v \in up[p[z]], v # Root PROVE p[v] # p[z]
    <3>1. v \in Node /\ v \in Root..p[z]
      BY <2>1, PathTransitive, PathBasics
    <3>2. p[v] \in Node /\ p[v] < v
      BY <1>0, <2>2, <3>1
    <3>3. p[v] \in Nat /\ v \in Nat /\ p[z] \in Nat
      BY <2>1, <3>1, <3>2, NodesAreNaturals
    <3>4. v <= p[z]
      BY <3>1, <3>3 DEF Root
    <3> QED BY <3>2, <3>3, <3>4
  <2>3. Good(z)
    <3> HIDE DEF up
    <3> QED BY <2>1, <2>2
  <2> QED BY <2>3
<1>3. Node \subseteq G
  <2> HIDE DEF G
  <2> QED BY <1>1, <1>2, AncestorInduction
<1> QED BY <1>3

\* Parents that agree on the first m nodes give them the same paths.
LEMMA PathsKept ==
  ASSUME NEW p, Descends(p), NEW q, Descends(q), NEW m \in Node,
         \A x \in 0..m : p[x] = q[x], NEW x \in 0..m
  PROVE  Ancestors(q)[x] = Ancestors(p)[x]
<1> DEFINE up == Ancestors(p)
           uq == Ancestors(q)
           G == {z \in Node : z <= m => uq[z] = up[z]}
<1>0. /\ up[Root] = {Root} /\ uq[Root] = {Root}
      /\ \A u \in Node \ {Root} : /\ p[u] \in Node /\ p[u] < u /\ up[u] = {u} \cup up[p[u]]
                                 /\ q[u] \in Node /\ q[u] < u /\ uq[u] = {u} \cup uq[q[u]]
  BY PathEquation
<1>1. Root \in G
  BY <1>0, NodesAreNaturals
<1>2. ASSUME NEW z \in Node \ {Root}, p[z] \in G PROVE z \in G
  <2> SUFFICES ASSUME z <= m PROVE uq[z] = up[z]
    OBVIOUS
  <2>1. z \in Nat /\ m \in Nat /\ p[z] \in Nat /\ p[z] < z
    BY <1>0, NodesAreNaturals
  <2>2. q[z] = p[z] /\ p[z] <= m
    BY <2>1
  <2>3. uq[p[z]] = up[p[z]]
    BY <1>2, <2>2
  <2>4. uq[z] = {z} \cup uq[q[z]] /\ up[z] = {z} \cup up[p[z]]
    BY <1>0
  <2> HIDE DEF up, uq
  <2> QED BY <2>2, <2>3, <2>4
<1>3. Node \subseteq G
  <2> HIDE DEF G
  <2> QED BY <1>1, <1>2, AncestorInduction
<1>4. x \in Node /\ x <= m
  BY CapacityFacts, SizeAssumption DEF Node
<1> QED BY <1>3, <1>4

-----------------------------------------------------------------------------
(* Paths lead downwards, and the search ends for want of a leaf only when
   there is none. *)
\* A search that has returned does not change any more.
LEMMA DoneIsFinal == pc = "done" /\ [Next]_vars => UNCHANGED vars
  BY DEF Next, Step, Terminated, SelectLeaf, NoExpandableLeaf, IterationsExhausted, DeferCodeEntry,
     AdmitCodeEntry, EmptyGroup, Expand, ChooseCandidate, RepairCode, RepairYieldsNothing,
     StopAtCode, FallBackToSearch, StopOnConsensus, StopOnReward, ContinueSearch, RepairOver, Repairing

\* The invariant of the tree's shape: nodes are created below nodes that exist.
Descent == TypeInv /\ Descends(parent)

\* Every step keeps it: the nodes of a group hang below the selected leaf.
LEMMA StepDescent == Descent /\ [Next]_vars => Descends(parent')
<1> SUFFICES ASSUME Descent, [Next]_vars PROVE Descends(parent')
  OBVIOUS
<1>1. parent' \in [Node -> Node]
  BY StepTypeInv DEF Descent, TypeInv, TypeOK, TreeOK
<1>2. CASE UNCHANGED tree
  BY <1>2 DEF Descent, Descends, tree
<1>3. ASSUME NEW g \in Groups, Expand(g), NEW x \in Node \ {Root} PROVE parent'[x] < x
  <2>1. /\ parent'[x] = IF x \in (n + 1)..(n + Len(g)) THEN selected ELSE parent[x]
        /\ selected \in 0..n /\ n \in Nat /\ Len(g) \in Nat /\ x \in Nat
    BY <1>3, GroupShape, SizeAssumption, CapacityFacts, NodesAreNaturals
       DEF Expand, Descent, TypeInv, TypeOK, LoopOK, Created, Node
  <2>2. parent[x] < x
    BY DEF Descent, Descends
  <2> QED BY <2>1, <2>2
<1> QED BY <1>1, <1>2, <1>3, OnlyExpandChangesTree DEF Descends

\* Hence it always holds.
LEMMA DescentInvariant == Spec => []Descent
<1>1. Init => Descent
  BY InitTypeInv, NodesAreNaturals DEF Init, Descent, Descends, Root, TypeInv, TypeOK, TreeOK
<1>2. Descent /\ [Next]_vars => Descent'
  BY StepTypeInv, StepDescent DEF Descent, Descends
<1> QED BY <1>1, <1>2, PTL DEF Spec

\* The nodes created so far are among those the constants provide for.
LEMMA CreatedAreNodes == ASSUME TypeInv PROVE n \in Nat /\ Created \subseteq Node /\ 1..n \subseteq Created
<1>1. n \in Node /\ Capacity(MaxIterations) \in Nat
  BY CapacityFacts, SizeAssumption DEF TypeInv, TypeOK, LoopOK
<1> QED BY <1>1 DEF Created, Node

\* The anchored descent never ends a search early: _select_leaf_puct starts at the
\* anchor only while a leaf is left below it, so when it finds none there is none
\* in the whole tree, and every childless node is a CODE node.
THEOREM ExhaustedOnlyWhenNoLeafIsLeft == Spec => []NoLeafMeansExhausted
<1>1. Init => NoLeafMeansExhausted
  BY DEF Init, NoLeafMeansExhausted, StoppedOn
<1>2. Descent /\ NoLeafMeansExhausted /\ [Next]_vars => NoLeafMeansExhausted'
  <2> SUFFICES ASSUME Descent, NoLeafMeansExhausted, [Next]_vars, StoppedOn("no_expandable_leaf")'
               PROVE  \A x \in Created' : Children(x)' = {} => stage'[x] = NumStages
    BY DEF NoLeafMeansExhausted
  <2>1. CASE UNCHANGED vars
    BY <2>1 DEF vars, tree, NoLeafMeansExhausted, StoppedOn, Created, Children
  <2>2. CASE NoExpandableLeaf
    <3>1. UNCHANGED <<n, parent, stage>>
      BY <2>2 DEF NoExpandableLeaf, tree
    <3>2. ~SubtreeHasExpandableLeaf(Root)
      BY <2>2 DEF NoExpandableLeaf, SelectionRoot
    <3>3. ASSUME NEW x \in Created, Children(x) = {} PROVE stage[x] = NumStages
      <4>1. x \in Subtree(Root)
        BY CreatedAreNodes, PathIsAncestors, PathBasics DEF Subtree, Descent
      <4>2. ~(stage[x] < NumStages)
        BY <3>2, <3>3, <4>1 DEF SubtreeHasExpandableLeaf, Expandable
      <4>3. stage[x] \in 0..NumStages /\ NumStages \in Nat
        BY CreatedAreNodes, StageRange, SizeAssumption DEF Descent
      <4> QED BY <4>2, <4>3
    <3> QED BY <3>1, <3>3 DEF Created, Children
  <2>3. CASE Step /\ ~NoExpandableLeaf
    <3>1. \/ \E x \in Node : SelectLeaf(x)
          \/ DeferCodeEntry \/ AdmitCodeEntry \/ EmptyGroup \/ FallBackToSearch \/ ContinueSearch
          \/ \E g \in Groups : Expand(g)
          => pc' # "done"
      BY DEF SelectLeaf, DeferCodeEntry, AdmitCodeEntry, EmptyGroup, FallBackToSearch,
         ContinueSearch, Expand, NextIteration
    <3>2. \/ \E x \in Node : ChooseCandidate(x)
          \/ \E o \in Outcomes : RepairCode(o)
          \/ RepairYieldsNothing
          => pc' # "done"
      BY DEF ChooseCandidate, RepairCode, RepairYieldsNothing, Repairing
    <3>3. IterationsExhausted \/ StopAtCode \/ StopOnConsensus \/ (\E x \in Node : StopOnReward(x))
          => stop'.reason # "no_expandable_leaf"
      BY DEF IterationsExhausted, StopAtCode, StopOnConsensus, StopOnReward, Stop
    <3> QED BY <2>3, <3>1, <3>2, <3>3 DEF Step, StoppedOn
  <2> QED BY <2>1, <2>2, <2>3 DEF Next, Terminated
<1> QED BY <1>1, <1>2, DescentInvariant, PTL DEF Spec

-----------------------------------------------------------------------------
(* Which iteration a node, a repair and a candidate belong to.             *)
\* A node belongs to this iteration or an earlier one; the CODE terminal flow
\* runs over a group of CODE nodes, the early-stop checks over another stage's.
GroupInv ==
  /\ \A x \in 1..n : born[x] <= iter
  /\ pc \in {"select", "gate", "rollout"} => \A x \in 1..n : born[x] < iter
  /\ pc = "terminal" => \A x \in 1..n : born[x] = iter => stage[x] = NumStages
  /\ pc = "checks" => \A x \in 1..n : born[x] = iter => stage[x] # NumStages

\* The terminal flow appends at most one record an iteration, as the last thing it
\* does there.
RepairInv ==
  /\ \A r \in repaired : r.iter < iter \/ (r.iter = iter /\ pc = "done")
  /\ \A r, q \in repaired : r.iter = q.iter => r = q

\* The terminal flow's candidate is the best node of this iteration's group, or a
\* repaired program, and there is none outside the flow.
CandInv ==
  /\ pc \notin {"terminal", "done"} => cand = None
  /\ pc = "terminal" /\ cand # None /\ cand.node # Root =>
       IsBestNode(cand.node, GroupNodes) /\ cand.out = result[cand.node]

\* The three together: who produced what, and when.
OutcomeInv == GroupInv /\ RepairInv /\ CandInv

\* What a group does to the nodes, their stages, iterations and results.
LEMMA ExpandNodes ==
  ASSUME TypeInv, NEW g \in Groups, Expand(g)
  PROVE  /\ n \in Nat /\ Len(g) \in 1..K /\ n' = n + Len(g)
         /\ \A x \in 1..n' :
              /\ x \in Node
              /\ x \notin (n + 1)..(n + Len(g)) => x \in 1..n
              /\ parent'[x] = IF x \in (n + 1)..(n + Len(g)) THEN selected ELSE parent[x]
              /\ born'[x] = IF x \in (n + 1)..(n + Len(g)) THEN iter ELSE born[x]
              /\ stage'[x] = IF x \in (n + 1)..(n + Len(g)) THEN NextStage(selected) ELSE stage[x]
              /\ result'[x] = IF x \in (n + 1)..(n + Len(g)) THEN g[x - n] ELSE result[x]
<1>1. n \in Nat /\ Len(g) \in 1..K /\ n' = n + Len(g)
  BY CreatedAreNodes, GroupShape DEF Expand
<1>2. 1..n' \subseteq Node
  <2>1. n' \in Node /\ Capacity(MaxIterations) \in Nat
    BY ExpandIsStep, StepLoopOK, CapacityFacts, SizeAssumption DEF LoopOK
  <2> QED BY <2>1 DEF Node
<1>3. \A x \in 1..n' : x \notin (n + 1)..(n + Len(g)) => x \in 1..n
  BY <1>1, SizeAssumption
<1> QED BY <1>1, <1>2, <1>3 DEF Expand

\* Iterations are counted upwards.
LEMMA IterIsNat == TypeInv => iter \in Nat /\ iter + 1 > iter
  BY SizeAssumption DEF TypeInv, TypeOK, LoopOK

\* Every step keeps the iterations of the nodes in order.
LEMMA StepGroupInv == TypeInv /\ GroupInv /\ [Next]_vars => GroupInv'
<1> SUFFICES ASSUME TypeInv, GroupInv, [Next]_vars PROVE GroupInv'
  OBVIOUS
<1>0. iter \in Nat /\ \A x \in 1..n : born[x] \in Int
  BY CreatedAreNodes, GateTypes
<1>1. CASE UNCHANGED tree /\ iter' = iter /\ (pc' = pc \/ pc' = "done" \/ (pc \in {"select", "gate"} /\ pc' \in {"gate", "rollout"}))
  BY <1>1 DEF GroupInv, tree
<1>2. CASE UNCHANGED tree /\ iter' = iter + 1 /\ pc' = "select"
  BY <1>0, <1>2 DEF GroupInv, tree
<1>3. ASSUME NEW g \in Groups, Expand(g) PROVE GroupInv'
  <2>1. /\ pc = "rollout" /\ iter' = iter
        /\ pc' = IF EntersCode(selected) THEN "terminal" ELSE "checks"
    BY <1>3 DEF Expand
  <2>2. \A x \in 1..n : born[x] < iter
    BY <2>1 DEF GroupInv
  <2>3. \A x \in 1..n' : /\ x \notin (n + 1)..(n + Len(g)) => born'[x] < iter
                         /\ x \in (n + 1)..(n + Len(g)) => born'[x] = iter /\ stage'[x] = NextStage(selected)
    BY <1>3, <2>2, ExpandNodes
  <2>4. EntersCode(selected) <=> NextStage(selected) = NumStages
    BY DEF EntersCode
  <2>5. \A x \in 1..n' : born'[x] <= iter'
    <3>1. \A x \in 1..n' : born'[x] \in Int
      BY <1>0, <1>3, ExpandNodes
    <3> QED BY <1>0, <2>1, <2>3, <3>1
  <2>6. \A x \in 1..n' : born'[x] = iter' => stage'[x] = NextStage(selected)
    BY <1>0, <2>1, <2>3
  <2>7. /\ pc' \notin {"select", "gate", "rollout"}
        /\ pc' = "terminal" => NextStage(selected) = NumStages
        /\ pc' = "checks" => NextStage(selected) # NumStages
    BY <2>1, <2>4
  <2> QED BY <2>5, <2>6, <2>7 DEF GroupInv
<1>4. CASE UNCHANGED vars
  BY <1>1, <1>4 DEF vars
<1>5. ASSUME NEW x \in Node, SelectLeaf(x) PROVE GroupInv'
  BY <1>1, <1>5 DEF SelectLeaf
<1>6. CASE NoExpandableLeaf \/ IterationsExhausted \/ StopOnConsensus \/ StopAtCode
  BY <1>1, <1>6 DEF NoExpandableLeaf, IterationsExhausted, StopOnConsensus, StopAtCode, Stop
<1>7. CASE DeferCodeEntry \/ EmptyGroup \/ FallBackToSearch \/ ContinueSearch
  BY <1>2, <1>7 DEF DeferCodeEntry, EmptyGroup, FallBackToSearch, ContinueSearch, NextIteration
<1>8. CASE AdmitCodeEntry
  BY <1>1, <1>8 DEF AdmitCodeEntry
<1>9. ASSUME NEW x \in Node, ChooseCandidate(x) \/ StopOnReward(x) PROVE GroupInv'
  BY <1>1, <1>9 DEF ChooseCandidate, StopOnReward, Stop
<1>10. ASSUME NEW o \in Outcomes, RepairCode(o) PROVE GroupInv'
  BY <1>1, <1>10 DEF RepairCode
<1>11. CASE RepairYieldsNothing
  BY <1>1, <1>11 DEF RepairYieldsNothing
<1> QED BY <1>3, <1>4, <1>5, <1>6, <1>7, <1>8, <1>9, <1>10, <1>11 DEF Next, Step, Terminated

\* Every step keeps the repair records one an iteration.
LEMMA StepRepairInv == TypeInv /\ RepairInv /\ [Next]_vars => RepairInv'
<1> SUFFICES ASSUME TypeInv, RepairInv, [Next]_vars PROVE RepairInv'
  OBVIOUS
<1>0. iter \in Nat /\ \A r \in repaired : r.iter \in Int
  BY SizeAssumption DEF TypeInv, TypeOK, LoopOK, FlowOK
<1>1. CASE /\ repaired' = repaired /\ pc # "done"
           /\ iter' \in {iter, iter + 1}
  BY <1>0, <1>1 DEF RepairInv
<1>2. CASE UNCHANGED vars
  BY <1>2 DEF vars, RepairInv
<1>3. ASSUME pc = "terminal", RecordCandidate,
             (pc' = "done" /\ iter' = iter) \/ iter' = iter + 1
      PROVE  RepairInv'
  <2> DEFINE new == [iter |-> iter, parent |-> selected, out |-> cand.out, phase |-> cand.phase]
  <2>1. repaired' \subseteq repaired \cup {new}
    BY <1>3 DEF RecordCandidate
  <2>2. \A r \in repaired : r.iter < iter
    BY <1>3 DEF RepairInv
  <2>3. new.iter = iter
    OBVIOUS
  <2> HIDE DEF new
  <2> QED BY <1>0, <1>3, <2>1, <2>2, <2>3 DEF RepairInv
<1>4. CASE StopAtCode \/ FallBackToSearch
  BY <1>3, <1>4 DEF StopAtCode, FallBackToSearch, Stop, NextIteration, RepairOver, Repairing
<1>5. CASE Step /\ ~StopAtCode /\ ~FallBackToSearch
  <2>1. ASSUME NEW x \in Node, SelectLeaf(x) PROVE RepairInv'
    BY <1>1, <2>1 DEF SelectLeaf
  <2>2. CASE NoExpandableLeaf \/ IterationsExhausted \/ StopOnConsensus
    BY <1>1, <2>2 DEF NoExpandableLeaf, IterationsExhausted, StopOnConsensus
  <2>3. CASE DeferCodeEntry \/ EmptyGroup \/ ContinueSearch \/ AdmitCodeEntry
    BY <1>1, <2>3 DEF DeferCodeEntry, EmptyGroup, ContinueSearch, AdmitCodeEntry, NextIteration
  <2>4. ASSUME NEW x \in Node, ChooseCandidate(x) \/ StopOnReward(x) PROVE RepairInv'
    BY <1>1, <2>4 DEF ChooseCandidate, StopOnReward
  <2>5. ASSUME NEW o \in Outcomes, RepairCode(o) PROVE RepairInv'
    BY <1>1, <2>5 DEF RepairCode, Repairing
  <2>6. CASE RepairYieldsNothing
    BY <1>1, <2>6 DEF RepairYieldsNothing, Repairing
  <2>7. ASSUME NEW g \in Groups, Expand(g) PROVE RepairInv'
    BY <1>1, <2>7 DEF Expand
  <2> QED BY <1>5, <2>1, <2>2, <2>3, <2>4, <2>5, <2>6, <2>7 DEF Step
<1> QED BY <1>2, <1>4, <1>5 DEF Next, Terminated

\* Every step keeps the candidate what the flow takes it for.
LEMMA StepCandInv == TypeInv /\ CandInv /\ [Next]_vars => CandInv'
<1> SUFFICES ASSUME TypeInv, CandInv, [Next]_vars PROVE CandInv'
  OBVIOUS
<1>1. CASE pc' \in {"select", "gate", "rollout", "checks"} /\ pc \notin {"terminal", "done"} /\ cand' = cand
  BY <1>1 DEF CandInv
<1>2. CASE UNCHANGED vars
  BY <1>2 DEF vars, tree, CandInv, IsBestNode, GroupNodes
<1>3. CASE pc' = "done"
  BY <1>3 DEF CandInv
<1>4. ASSUME NEW x \in Node, SelectLeaf(x) PROVE CandInv'
  BY <1>1, <1>4 DEF SelectLeaf
<1>5. CASE NoExpandableLeaf \/ IterationsExhausted \/ StopOnConsensus \/ StopAtCode \/ \E x \in Node : StopOnReward(x)
  BY <1>3, <1>5 DEF NoExpandableLeaf, IterationsExhausted, StopOnConsensus, StopAtCode, StopOnReward, Stop
<1>6. CASE DeferCodeEntry \/ EmptyGroup \/ ContinueSearch
  BY <1>1, <1>6 DEF DeferCodeEntry, EmptyGroup, ContinueSearch, NextIteration
<1>7. CASE AdmitCodeEntry
  BY <1>1, <1>7 DEF AdmitCodeEntry
<1>8. CASE FallBackToSearch
  BY <1>8 DEF FallBackToSearch, NextIteration, CandInv
<1>9. ASSUME NEW x \in Node, ChooseCandidate(x) PROVE CandInv'
  <2>1. /\ IsBestNode(x, GroupNodes) /\ cand' = [node |-> x, out |-> result[x], rounds |-> 0, phase |-> phase[x]]
        /\ UNCHANGED <<pc, iter, n, born, result>> /\ pc = "terminal"
    BY <1>9 DEF ChooseCandidate, tree
  <2>2. cand'.node = x /\ cand'.out = result[x]
    BY <2>1
  <2>3. IsBestNode(x, GroupNodes)'
    BY <2>1 DEF IsBestNode, GroupNodes
  <2> QED BY <2>1, <2>2, <2>3 DEF CandInv
<1>10. ASSUME NEW o \in Outcomes, RepairCode(o) PROVE CandInv'
  BY <1>10 DEF RepairCode, Repairing, CandInv
<1>11. CASE RepairYieldsNothing
  <2>1. /\ UNCHANGED <<pc, iter, n, born, result>> /\ pc = "terminal" /\ cand # None
        /\ cand' = [cand EXCEPT !.rounds = RoundsAfterRepair]
    BY <1>11 DEF RepairYieldsNothing, Repairing, tree
  <2>2. cand'.node = cand.node /\ cand'.out = cand.out
    <3>1. cand \in Candidate
      BY <2>1 DEF TypeInv, TypeOK, FlowOK
    <3> QED BY <2>1, <3>1 DEF Candidate
  <2> QED BY <2>1, <2>2 DEF CandInv, IsBestNode, GroupNodes
<1>12. ASSUME NEW g \in Groups, Expand(g) PROVE CandInv'
  BY <1>12 DEF Expand, CandInv
<1> QED BY <1>2, <1>4, <1>5, <1>6, <1>7, <1>8, <1>9, <1>10, <1>11, <1>12 DEF Next, Step, Terminated

\* Hence the three always hold.
LEMMA OutcomeInvariant == Spec => [](TypeInv /\ OutcomeInv)
<1>1. Init => TypeInv /\ OutcomeInv
  BY InitTypeInv DEF Init, OutcomeInv, GroupInv, RepairInv, CandInv
<1>2. TypeInv /\ OutcomeInv /\ [Next]_vars => (TypeInv /\ OutcomeInv)'
  BY StepTypeInv, StepGroupInv, StepRepairInv, StepCandInv DEF OutcomeInv
<1> QED BY <1>1, <1>2, PTL DEF Spec

-----------------------------------------------------------------------------
(* What a stop reason claims.                                              *)
\* A step that only ends the search leaves the records alone.
LEMMA RecordsKept ==
  ASSUME UNCHANGED <<n, born, stage, result, repaired>>, NEW i
  PROVE  RecordsOf(i)' = RecordsOf(i)
  BY DEF RecordsOf

\* Which steps end the search, and how.
LEMMA StopCases ==
  ASSUME [Next]_vars, pc' = "done"
  PROVE  \/ UNCHANGED vars
         \/ NoExpandableLeaf \/ IterationsExhausted \/ StopAtCode \/ StopOnConsensus
         \/ \E x \in Node : StopOnReward(x)
<1>1. ASSUME \/ \E x \in Node : SelectLeaf(x)
             \/ DeferCodeEntry \/ AdmitCodeEntry \/ EmptyGroup \/ FallBackToSearch \/ ContinueSearch
             \/ \E g \in Groups : Expand(g)
      PROVE  FALSE
  BY <1>1 DEF SelectLeaf, DeferCodeEntry, AdmitCodeEntry, EmptyGroup, FallBackToSearch,
     ContinueSearch, Expand, NextIteration
<1>2. ASSUME \/ \E x \in Node : ChooseCandidate(x)
             \/ \E o \in Outcomes : RepairCode(o)
             \/ RepairYieldsNothing
      PROVE  FALSE
  BY <1>2 DEF ChooseCandidate, RepairCode, RepairYieldsNothing, Repairing
<1> QED BY <1>1, <1>2 DEF Next, Step, Terminated

\* What _check_recent_obj_consensus returns is a record with an objective in scale.
LEMMA ConsensusRecordFacts ==
  ASSUME NEW r \in ConsensusRecord, iter \in Nat
  PROVE  /\ r \in RecordsOf(r.iter) /\ r.out.obj # NoObj /\ r.out.inScale
         /\ RecentTopsAligned
<1>1. RecentTopsAligned
  BY DEF ConsensusRecord
<1>2. PICK C \in MajorityClusters(EligibleRecords) : r \in Best(Latest(C))
  BY <1>1 DEF ConsensusRecord
<1>3. r \in C
  BY <1>2 DEF Best, Latest
<1>4. r \in EligibleRecords
  BY <1>2, <1>3 DEF MajorityClusters, Cluster
<1>5. PICK i \in (iter - 2)..iter : r \in WithObj(i)
  BY <1>4 DEF EligibleRecords
<1>6. r.iter = i
  BY <1>5 DEF WithObj, RecordsOf
<1> QED BY <1>1, <1>4, <1>5, <1>6 DEF EligibleRecords, WithObj

\* The record an expanded_to_code stop names is there, repaired or not.
LEMMA StopNamesRecord ==
  ASSUME TypeInv, OutcomeInv, StopAtCode
  PROVE  \E r \in StopRecords' : /\ r.stage = NumStages /\ r.out.obj # NoObj
                                /\ ~r.out.marker /\ ~r.out.err
<1>1. /\ pc = "terminal" /\ cand # None /\ ~Blocked(cand.out) /\ RecordCandidate
      /\ UNCHANGED <<iter, n, born, stage, result>>
      /\ stop' = [reason |-> "expanded_to_code", iter |-> iter, node |-> cand.node, from |-> iter]
  BY DEF StopAtCode, RepairOver, Repairing, Stop, tree
<1>2. stop'.node = cand.node /\ stop'.from = iter
  BY <1>1
<1>3. cand.out.obj # NoObj /\ ~cand.out.marker /\ ~cand.out.err
  BY <1>1 DEF Blocked, TerminalIssue
<1>4. CASE cand.node = Root
  <2> DEFINE new == [iter |-> iter, parent |-> selected, out |-> cand.out, phase |-> cand.phase]
             r == [iter |-> iter, stage |-> NumStages, node |-> Root, out |-> new.out]
  <2>1. new \in repaired' /\ new.iter = iter
    BY <1>1, <1>4 DEF RecordCandidate
  <2>2. r \in RecordsOf(stop.from)'
    <3> HIDE DEF new
    <3> QED BY <1>2, <2>1 DEF RecordsOf
  <2>3. r \in StopRecords'
    BY <1>2, <1>4, <2>2 DEF StopRecords
  <2> QED BY <1>3, <2>3
<1>5. CASE cand.node # Root
  <2>1. cand.node \in 1..n /\ born[cand.node] = iter /\ cand.out = result[cand.node] /\ stage[cand.node] = NumStages
    BY <1>1, <1>5 DEF OutcomeInv, CandInv, GroupInv, IsBestNode, GroupNodes
  <2> DEFINE r == [iter |-> iter, stage |-> stage[cand.node], node |-> cand.node, out |-> result[cand.node]]
  <2>2. r \in RecordsOf(stop.from)'
    BY <1>1, <1>2, <2>1 DEF RecordsOf
  <2>3. r \in StopRecords'
    BY <1>2, <2>2 DEF StopRecords
  <2> QED BY <1>3, <2>1, <2>3
<1> QED BY <1>4, <1>5

\* A stop that names a trajectory names a recorded one that has what the reason
\* claims: CODE that runs and has an objective, a reward of at least RewardOne, or
\* an objective on the reference scale (search(), _run_code_terminal_refine and
\* _check_recent_obj_consensus).
THEOREM StopsAreJustified == Spec => []StopJustified
<1>1. Init => StopJustified
  BY DEF Init, StopJustified, StoppedOn
<1>2. TypeInv /\ OutcomeInv /\ StopJustified /\ [Next]_vars => StopJustified'
  <2> SUFFICES ASSUME TypeInv, OutcomeInv, StopJustified, [Next]_vars, pc' = "done"
               PROVE  StopJustified'
    BY DEF StopJustified, StoppedOn
  <2>1. CASE UNCHANGED vars
    BY <2>1 DEF vars, tree, StopJustified, StoppedOn, StopRecords, RecordsOf
  <2>2. CASE NoExpandableLeaf \/ IterationsExhausted
    <3>1. stop'.reason \in {"no_expandable_leaf", "max_iterations"}
      BY <2>2 DEF NoExpandableLeaf, IterationsExhausted, Stop
    <3> QED BY <3>1 DEF StopJustified, StoppedOn
  <2>3. CASE StopAtCode
    <3>1. stop'.reason = "expanded_to_code"
      BY <2>3 DEF StopAtCode, Stop
    <3> QED BY <2>3, <3>1, StopNamesRecord DEF StopJustified, StoppedOn
  <2>4. CASE StopOnConsensus
    <3>1. PICK r \in ConsensusRecord : Stop("recent_obj_consensus", r.node, r.iter)
      BY <2>4 DEF StopOnConsensus
    <3>2. stop'.reason = "recent_obj_consensus" /\ stop'.node = r.node /\ stop'.from = r.iter
      BY <3>1 DEF Stop
    <3>3. r \in RecordsOf(r.iter) /\ r.out.obj # NoObj /\ r.out.inScale
      BY ConsensusRecordFacts, IterIsNat
    <3>4. r \in StopRecords'
      BY <2>4, <3>2, <3>3, RecordsKept DEF StopRecords, StopOnConsensus, tree
    <3> QED BY <3>2, <3>3, <3>4 DEF StopJustified, StoppedOn
  <2>5. ASSUME NEW x \in Node, StopOnReward(x) PROVE StopJustified'
    <3>1. /\ pc = "checks" /\ x \in HitRewardOne /\ UNCHANGED <<n, born, stage, result, repaired>>
          /\ stop' = [reason |-> "reward_one", iter |-> iter, node |-> x, from |-> iter]
      BY <2>5 DEF StopOnReward, IsBestNode, Stop, tree
    <3>2. x \in 1..n /\ born[x] = iter /\ result[x].reward >= RewardOne
      BY <3>1 DEF HitRewardOne, GroupNodes
    <3>3. stage[x] # NumStages
      BY <3>1, <3>2 DEF OutcomeInv, GroupInv
    <3> DEFINE r == [iter |-> iter, stage |-> stage[x], node |-> x, out |-> result[x]]
    <3>4. r \in RecordsOf(iter)
      BY <3>2 DEF RecordsOf
    <3>5. stop'.node = x /\ stop'.from = iter /\ stop'.reason = "reward_one"
      BY <3>1
    <3>6. r \in StopRecords'
      BY <3>1, <3>4, <3>5, RecordsKept DEF StopRecords
    <3> QED BY <3>2, <3>3, <3>5, <3>6 DEF StopJustified, StoppedOn
  <2> QED BY <2>1, <2>2, <2>3, <2>4, <2>5, StopCases
<1> QED BY <1>1, <1>2, OutcomeInvariant, PTL DEF Spec

\* No two nodes of a group are both the first best one.
LEMMA BestNodeUnique ==
  ASSUME NEW S \in SUBSET Int, NEW x, NEW y, IsBestNode(x, S), IsBestNode(y, S)
  PROVE  x = y
<1>1. x \in Int /\ y \in Int
  BY DEF IsBestNode
<1>2. CASE x < y
  BY <1>2 DEF IsBestNode
<1>3. CASE y < x
  BY <1>3 DEF IsBestNode
<1> QED BY <1>1, <1>2, <1>3

-----------------------------------------------------------------------------
(* A CODE group is left behind only with nothing to show for it.           *)
\* An outcome the CODE terminal flow does not stop on.
Unusable(o) == o.obj = NoObj \/ o.err \/ o.marker

\* The nodes of iteration i.
BornIn(i) == {y \in 1..n : born[y] = i}

\* Why the search went on after the CODE group of iteration i.
Abandoned(i) ==
  \/ \E r \in repaired : r.iter = i /\ Unusable(r.out)
  \/ /\ \A r \in repaired : r.iter # i
     /\ \E y \in BornIn(i) : IsBestNode(y, BornIn(i)) /\ Unusable(result[y])

\* Every iteration before this one that reached CODE was given up for that reason.
AbandonInv == \A x \in 1..n : stage[x] = NumStages /\ born[x] < iter => Abandoned(born[x])

\* Then the candidate such an iteration ended with is no good: it is the record the
\* repair flow left, or else the best node of the group.
LEMMA AbandonMeansNoGood ==
  ASSUME OutcomeInv, AbandonInv, TypeInv
  PROVE  NoGoodCodeAbandoned
<1> SUFFICES ASSUME NEW i, Abandoned(i) PROVE Unusable(FinalCandidate(i))
  BY DEF AbandonInv, NoGoodCodeAbandoned, Unusable
<1>1. CASE \E r \in repaired : r.iter = i
  <2>1. PICK r \in repaired : r.iter = i /\ Unusable(r.out)
    BY <1>1 DEF Abandoned
  <2>2. \A q \in repaired : q.iter = i => q = r
    BY <2>1 DEF OutcomeInv, RepairInv
  <2>3. (CHOOSE q \in repaired : q.iter = i) = r
    BY <2>1, <2>2
  <2> QED BY <1>1, <2>1, <2>3 DEF FinalCandidate
<1>2. CASE ~\E r \in repaired : r.iter = i
  <2>1. PICK y \in BornIn(i) : IsBestNode(y, BornIn(i)) /\ Unusable(result[y])
    BY <1>2 DEF Abandoned
  <2>2. \A z \in 1..n : IsBestNode(z, BornIn(i)) => z = y
    <3>1. BornIn(i) \in SUBSET Int
      BY DEF BornIn
    <3> QED BY <2>1, <3>1, BestNodeUnique
  <2>3. y \in 1..n
    BY DEF BornIn
  <2>4. (CHOOSE x \in 1..n : IsBestNode(x, BornIn(i))) = y
    BY <2>1, <2>2, <2>3
  <2>5. FinalCandidate(i) = result[CHOOSE x \in 1..n : IsBestNode(x, BornIn(i))]
    BY <1>2 DEF FinalCandidate, BornIn
  <2> QED BY <2>1, <2>4, <2>5
<1> QED BY <1>1, <1>2

\* An earlier iteration is over: nothing of it changes any more.
LEMMA AbandonedForGood ==
  ASSUME NEW i \in Int, Abandoned(i),
         BornIn(i)' = BornIn(i), \A y \in BornIn(i) : result'[y] = result[y],
         repaired \subseteq repaired', \A r \in repaired' \ repaired : r.iter # i
  PROVE  Abandoned(i)'
<1>1. CASE \E r \in repaired : r.iter = i /\ Unusable(r.out)
  BY <1>1 DEF Abandoned, Unusable
<1>2. CASE /\ \A r \in repaired : r.iter # i
           /\ \E y \in BornIn(i) : IsBestNode(y, BornIn(i)) /\ Unusable(result[y])
  <2>1. PICK y \in BornIn(i) : IsBestNode(y, BornIn(i)) /\ Unusable(result[y])
    BY <1>2
  <2>2. \A r \in repaired' : r.iter # i
    BY <1>2
  <2>3. IsBestNode(y, BornIn(i))'
    BY <2>1 DEF IsBestNode
  <2>4. Unusable(result[y])'
    BY <2>1 DEF Unusable
  <2>5. y \in BornIn(i)'
    BY <2>1
  <2> QED BY <2>2, <2>3, <2>4, <2>5 DEF Abandoned
<1> QED BY <1>1, <1>2 DEF Abandoned

\* Falling back to the search happens on such a candidate only.
LEMMA FallBackAbandons ==
  ASSUME TypeInv, OutcomeInv, FallBackToSearch, NEW x \in 1..n, NEW i \in Int, born[x] = i, i = iter
  PROVE  Abandoned(i)'
<1>1. /\ pc = "terminal" /\ cand # None /\ Blocked(cand.out) /\ RecordCandidate
      /\ UNCHANGED <<n, born, result>>
  BY DEF FallBackToSearch, RepairOver, Repairing, tree
<1>2. cand \in Candidate /\ cand.out \in Outcomes
  BY <1>1 DEF TypeInv, TypeOK, FlowOK, Candidate
<1>3. Unusable(cand.out)
  BY <1>1, <1>2, OutcomeAssumption DEF Blocked, TerminalIssue, Unusable
<1>4. CASE cand.node = Root
  <2> DEFINE new == [iter |-> iter, parent |-> selected, out |-> cand.out, phase |-> cand.phase]
  <2>1. new \in repaired' /\ new.iter = i /\ new.out = cand.out
    BY <1>1, <1>4 DEF RecordCandidate
  <2> HIDE DEF new
  <2> QED BY <1>3, <2>1 DEF Abandoned, Unusable
<1>5. CASE cand.node # Root
  <2>1. IsBestNode(cand.node, BornIn(i)) /\ cand.out = result[cand.node]
    BY <1>1, <1>5 DEF OutcomeInv, CandInv, GroupNodes, BornIn
  <2>2. \A r \in repaired' : r.iter # i
    <3>1. repaired' = repaired /\ iter \in Nat
      BY <1>1, <1>5, IterIsNat DEF RecordCandidate
    <3> QED BY <1>1, <3>1 DEF OutcomeInv, RepairInv
  <2>3. BornIn(i)' = BornIn(i)
    BY <1>1 DEF BornIn
  <2>4. PICK y \in BornIn(i) : y = cand.node
    BY <2>1 DEF IsBestNode
  <2>5. Unusable(result[y]) /\ IsBestNode(y, BornIn(i))
    BY <1>3, <2>1, <2>4
  <2>6. IsBestNode(y, BornIn(i))'
    BY <1>1, <2>3, <2>5 DEF IsBestNode
  <2>7. Unusable(result[y])'
    BY <1>1, <2>5 DEF Unusable
  <2>8. \E z \in BornIn(i)' : IsBestNode(z, BornIn(i))' /\ Unusable(result[z])'
    BY <2>3, <2>4, <2>6, <2>7
  <2> QED BY <2>2, <2>8 DEF Abandoned
<1> QED BY <1>4, <1>5

\* Only the end of the terminal flow appends a repair record.
LEMMA RecordingSteps == [Next]_vars => repaired' = repaired \/ RecordCandidate
<1>1. Step => repaired' = repaired \/ RecordCandidate
  BY DEF Step, SelectLeaf, NoExpandableLeaf, IterationsExhausted, DeferCodeEntry,
     AdmitCodeEntry, EmptyGroup, Expand, ChooseCandidate, RepairCode, RepairYieldsNothing,
     StopAtCode, FallBackToSearch, StopOnConsensus, StopOnReward, ContinueSearch
<1> QED BY <1>1 DEF Next, Terminated, vars

\* Steps to the next iteration leave the tree alone.
LEMMA IterationsAdvance ==
  [Next]_vars => iter' = iter \/ (iter' = iter + 1 /\ UNCHANGED tree)
<1>1. Step => iter' = iter \/ (iter' = iter + 1 /\ UNCHANGED tree)
  BY DEF Step, SelectLeaf, NoExpandableLeaf, IterationsExhausted, DeferCodeEntry,
     AdmitCodeEntry, EmptyGroup, Expand, ChooseCandidate, RepairCode, RepairYieldsNothing,
     StopAtCode, FallBackToSearch, StopOnConsensus, StopOnReward, ContinueSearch, NextIteration, Stop
<1> QED BY <1>1 DEF Next, Terminated, vars

\* What made an earlier iteration give up stays on record.
LEMMA AbandonKept ==
  ASSUME TypeInv, OutcomeInv, AbandonInv, [Next]_vars, NEW x \in 1..n,
         stage[x] = NumStages, born[x] < iter, NEW i \in Int, i = born[x]
  PROVE  Abandoned(i)'
<1>0. iter \in Nat /\ i < iter /\ Abandoned(i)
  BY IterIsNat DEF AbandonInv
<1>1. BornIn(i)' = BornIn(i) /\ \A y \in BornIn(i) : result'[y] = result[y]
  <2>0. \A y \in BornIn(i) : y \in 1..n /\ y \in Node
    BY CreatedAreNodes DEF BornIn
  <2>1. CASE UNCHANGED tree
    BY <2>1 DEF tree, BornIn
  <2>2. ASSUME NEW g \in Groups, Expand(g) PROVE BornIn(i)' = BornIn(i) /\ \A y \in BornIn(i) : result'[y] = result[y]
    <3>1. /\ n \in Nat /\ Len(g) \in 1..K /\ n' = n + Len(g) /\ K \in Nat
          /\ \A y \in 1..n' :
               /\ y \notin (n + 1)..(n + Len(g)) => y \in 1..n /\ born'[y] = born[y] /\ result'[y] = result[y]
               /\ y \in (n + 1)..(n + Len(g)) => born'[y] = iter
      BY <2>2, ExpandNodes, SizeAssumption
    <3>2. \A y \in 1..n : y \in 1..n' /\ y \notin (n + 1)..(n + Len(g))
      BY <3>1
    <3>3. BornIn(i)' = BornIn(i)
      BY <1>0, <3>1, <3>2 DEF BornIn
    <3> QED BY <2>0, <3>1, <3>2, <3>3
  <2> QED BY <2>1, <2>2, OnlyExpandChangesTree
<1>2. repaired \subseteq repaired' /\ \A r \in repaired' \ repaired : r.iter # i
  <2>1. repaired' = repaired \/ RecordCandidate
    BY RecordingSteps
  <2> DEFINE new == [iter |-> iter, parent |-> selected, out |-> cand.out, phase |-> cand.phase]
  <2>2. repaired' = repaired \/ repaired' = repaired \cup {new}
    BY <2>1 DEF RecordCandidate
  <2>3. new.iter # i
    BY <1>0
  <2> HIDE DEF new
  <2> QED BY <2>2, <2>3
<1> QED BY <1>0, <1>1, <1>2, AbandonedForGood

\* Every step keeps the reason on record, and the step that ends a CODE iteration
\* puts it there.
LEMMA StepAbandonInv ==
  ASSUME TypeInv, OutcomeInv, AbandonInv, [Next]_vars
  PROVE  AbandonInv'
<1> SUFFICES ASSUME NEW x \in 1..n', stage'[x] = NumStages, born'[x] < iter'
             PROVE  Abandoned(born[x])'
  BY DEF AbandonInv
<1>0. iter \in Nat /\ \A y \in 1..n : born[y] \in Int /\ born[y] <= iter
  BY CreatedAreNodes, GateTypes, IterIsNat DEF OutcomeInv, GroupInv
<1>3. ASSUME NEW i \in Int, i = born'[x], Abandoned(i)' PROVE Abandoned(born[x])'
  BY <1>3 DEF Abandoned
<1>1. CASE UNCHANGED tree
  <2>1. x \in 1..n /\ stage'[x] = stage[x] /\ born'[x] = born[x]
    BY <1>1 DEF tree
  <2>0. PICK i \in Int : i = born[x]
    BY <1>0, <2>1
  <2> SUFFICES Abandoned(i)'
    BY <1>3, <2>0, <2>1
  <2>2. CASE born[x] < iter
    BY <2>1, <2>0, <2>2, AbandonKept
  <2>3. CASE born[x] = iter
    <3>1. iter' = iter + 1
      BY <1>0, <2>1, <2>3, IterationsAdvance
    <3>2. FallBackToSearch \/ ContinueSearch \/ DeferCodeEntry \/ EmptyGroup
      <4>1. Step => FallBackToSearch \/ ContinueSearch \/ DeferCodeEntry \/ EmptyGroup \/ iter' = iter
        BY DEF Step, SelectLeaf, NoExpandableLeaf, IterationsExhausted, AdmitCodeEntry, Expand,
           ChooseCandidate, RepairCode, RepairYieldsNothing, StopAtCode, StopOnConsensus, StopOnReward, Stop
      <4> QED BY <1>0, <3>1, <4>1 DEF Next, Terminated, vars
    <3>3. CASE FallBackToSearch
      BY <2>0, <2>1, <2>3, <3>3, FallBackAbandons
    <3>4. CASE ContinueSearch
      BY <2>1, <2>3, <3>4 DEF ContinueSearch, OutcomeInv, GroupInv
    <3>5. CASE DeferCodeEntry \/ EmptyGroup
      BY <1>0, <2>1, <2>3, <3>5 DEF DeferCodeEntry, EmptyGroup, OutcomeInv, GroupInv
    <3> QED BY <3>2, <3>3, <3>4, <3>5
  <2>4. born[x] <= iter /\ born[x] \in Int
    BY <1>0, <2>1
  <2> QED BY <1>0, <2>2, <2>3, <2>4
<1>2. ASSUME NEW g \in Groups, Expand(g) PROVE Abandoned(born[x])'
  <2>1. iter' = iter
    BY <1>2 DEF Expand
  <2>2. x \in 1..n /\ stage'[x] = stage[x] /\ born'[x] = born[x]
    <3>1. born'[x] # iter
      BY <1>0, <2>1
    <3> QED BY <1>2, <3>1, ExpandNodes
  <2>3. PICK i \in Int : i = born[x]
    BY <1>0, <2>2
  <2> QED BY <1>3, <2>1, <2>2, <2>3, AbandonKept
<1> QED BY <1>1, <1>2, OnlyExpandChangesTree

\* The search never goes on past a CODE group whose final candidate has an
\* objective and no blocking issue (fallback_to_original in
\* _run_code_terminal_refine).
THEOREM GoodCodeEndsTheSearch == Spec => []NoGoodCodeAbandoned
<1>1. Init => AbandonInv
  BY DEF Init, AbandonInv
<1>2. (TypeInv /\ OutcomeInv) /\ AbandonInv /\ [Next]_vars => AbandonInv'
  BY StepAbandonInv
<1>3. (TypeInv /\ OutcomeInv) /\ AbandonInv => NoGoodCodeAbandoned
  BY AbandonMeansNoGood
<1> QED BY <1>1, <1>2, <1>3, OutcomeInvariant, PTL DEF Spec

-----------------------------------------------------------------------------
(* What one group adds to the tree, and to the visit counts.               *)
\* A node's own reward counts as one visit, the root has none.
Own(x) == IF x = Root THEN 0 ELSE 1

\* The expansions whose means reach x along its path.
Below(x) == Expansions(Subtree(x))

\* The expansions below x's parent: those the cluster update may pass on to x.
Beside(x) == Expansions(Subtree(parent[x]) \ {parent[x]})

\* VisitAccounting with its parts named.
LEMMA VisitBounds ==
  VisitAccounting <=>
    \A x \in Created :
      IF x = Root \/ ~ClusterUpdate
        THEN visits[x] = Unit * (Own(x) + Cardinality(Below(x)))
        ELSE /\ Unit * (Own(x) + Cardinality(Below(x))) <= visits[x]
             /\ visits[x] <= Unit * (Own(x) + Cardinality(Beside(x)))
  BY DEF VisitAccounting, Own, Below, Beside

\* The same after a step.
LEMMA VisitBoundsP ==
  VisitAccounting' <=>
    \A x \in Created' :
      IF x = Root \/ ~ClusterUpdate
        THEN visits'[x] = Unit * (Own(x) + Cardinality(Below(x)'))
        ELSE /\ Unit * (Own(x) + Cardinality(Below(x)')) <= visits'[x]
             /\ visits'[x] <= Unit * (Own(x) + Cardinality(Beside(x)'))
  BY DEF VisitAccounting, Own, Below, Beside

\* Subtrees in terms of ancestors.
LEMMA SubtreeByAncestors == \A r : Subtree(r) = {x \in Created : r \in Ancestors(parent)[x]}
  BY PathIsAncestors DEF Subtree

\* The same after a step.
LEMMA SubtreeByAncestorsP == \A r : Subtree(r)' = {x \in Created' : r \in Ancestors(parent')[x]}
  BY PathIsAncestorsP DEF Subtree

\* Sets of nodes are finite.
LEMMA FiniteParts ==
  ASSUME NEW m \in Nat, NEW S \in SUBSET (0..m)
  PROVE  IsFiniteSet(S) /\ Cardinality(S) \in Nat
<1>1. IsFiniteSet(0..m)
  BY FS_Interval
<1> QED BY <1>1, FS_Subset, FS_CardinalityType

\* One more node makes one more.
LEMMA GrowByOne ==
  ASSUME NEW m \in Nat, NEW S \in SUBSET (0..m), NEW s \in 0..m, s \notin S
  PROVE  Cardinality(S) \in Nat /\ Cardinality(S \cup {s}) = Cardinality(S) + 1
  BY FiniteParts, FS_AddElement

\* What a group does to the shape of the tree: the selected leaf gets children,
\* the new nodes have none, all else stays.
LEMMA ExpandShape ==
  ASSUME Descent, NEW g \in Groups, Expand(g)
  PROVE  /\ n \in Nat /\ n' \in Nat /\ n < n' /\ Created' \subseteq Node
         /\ selected \in Created /\ Children(selected) = {}
         /\ \A x \in Created : x \in Node /\ x \in Created' /\ Ancestors(parent')[x] = Ancestors(parent)[x]
         /\ \A x \in Created \ {selected} : Children(x)' = Children(x)
         /\ selected' = selected /\ \E y \in 1..n' : parent'[y] = selected
         /\ \A x \in Created' \ Created : Children(x)' = {}
         /\ \A x \in Created : parent'[x] = parent[x]
<1>1. /\ n \in Nat /\ Created \subseteq Node /\ 1..n \subseteq Created
      /\ Len(g) \in 1..K /\ n' = n + Len(g) /\ K \in Nat
      /\ \A x \in 1..n' :
           /\ x \in Node
           /\ parent'[x] = IF x \in (n + 1)..(n + Len(g)) THEN selected ELSE parent[x]
  BY CreatedAreNodes, ExpandNodes, SizeAssumption DEF Descent
<1>2. selected \in Created /\ Children(selected) = {} /\ Descends(parent) /\ parent \in [Node -> Node]
  BY DEF Descent, TypeInv, TypeOK, LoopOK, LeafSelected, Expandable, Expand, Descends
<1>3. Descends(parent')
  BY StepDescent, ExpandIsStep
<1>4. n' \in Nat /\ n < n' /\ Created' = 0..n' /\ Created = 0..n
  BY <1>1 DEF Created
<1>5. \A x \in 0..n : parent'[x] = parent[x]
  <2>1. \A x \in 0..n : x \in Node /\ x \notin (n + 1)..(n + Len(g))
    BY <1>1, <1>4
  <2> QED BY <2>1 DEF Expand
<1>6. n \in Node
  BY <1>1, <1>4
<1>7. \A x \in Created : Ancestors(parent')[x] = Ancestors(parent)[x]
  BY <1>2, <1>3, <1>4, <1>5, <1>6, PathsKept
<1>8. Created' \subseteq Node
  <2>1. 0..n' = {0} \cup 1..n'
    BY <1>4
  <2> QED BY <1>1, <1>4, <2>1, NodesAreNaturals DEF Root
<1>9. \A y \in 1..n' : y \notin 1..n => parent'[y] = selected
  <2>1. \A y \in 1..n' : y \notin 1..n => y \in (n + 1)..(n + Len(g))
    BY <1>1
  <2> QED BY <1>1, <2>1
<1>10. 1..n \subseteq 1..n' /\ 1..n \subseteq 0..n
  BY <1>1, <1>4
<1>11. \A x \in Created \ {selected} : Children(x)' = Children(x)
  BY <1>5, <1>9, <1>10 DEF Children
<1>12. selected' = selected /\ \E y \in 1..n' : parent'[y] = selected
  <2>1. n + 1 \in 1..n' /\ n + 1 \notin 1..n
    BY <1>1
  <2>2. parent'[n + 1] = selected /\ selected' = selected
    BY <1>9, <2>1 DEF Expand
  <2> QED BY <2>1, <2>2
<1>13. ASSUME NEW x \in Created' \ Created, NEW y \in 1..n', parent'[y] = x PROVE FALSE
  <2>1. CASE y \in 1..n
    <3>1. y \in Node \ {Root} /\ parent[y] = x
      BY <1>1, <1>5, <1>10, <1>13, <2>1 DEF Root
    <3>2. parent[y] < y /\ parent[y] \in Nat
      BY <1>2, <3>1, NodesAreNaturals DEF Descends
    <3> QED BY <1>1, <1>4, <1>13, <2>1, <3>1, <3>2
  <2>2. CASE y \notin 1..n
    BY <1>2, <1>9, <1>13, <2>2
  <2> QED BY <2>1, <2>2
<1>14. \A x \in Created' \ Created : Children(x)' = {}
  BY <1>13 DEF Children
<1>15. Created \subseteq Created'
  BY <1>1, <1>4
<1> QED BY <1>1, <1>2, <1>4, <1>5, <1>7, <1>8, <1>11, <1>12, <1>14, <1>15

\* The expansions at or below a node, and those below its parent, grow by the
\* leaf just expanded if that lies there.
LEMMA ExpansionsGrow ==
  ASSUME Descent, NEW g \in Groups, Expand(g), NEW x \in Created
  PROVE  /\ Below(x) \in SUBSET (0..n) /\ selected \notin Below(x)
         /\ Below(x)' = Below(x) \cup (IF x \in Path(selected) THEN {selected} ELSE {})
         /\ Beside(x) \in SUBSET (0..n) /\ selected \notin Beside(x)
         /\ Beside(x)' = Beside(x) \cup (IF parent[x] \in Path(selected) /\ parent[x] # selected
                                         THEN {selected} ELSE {})
<1> DEFINE A == Ancestors(parent)
           Inner == {y \in Created : Children(y) # {}}
<1>1. /\ n \in Nat /\ selected \in Created /\ Children(selected) = {}
      /\ Created \subseteq Created' /\ parent'[x] = parent[x]
      /\ \A y \in Created : Ancestors(parent')[y] = A[y]
  BY ExpandShape
<1>2. {y \in Created' : Children(y)' # {}} = Inner \cup {selected}
  <2>1. ASSUME NEW y \in Created' PROVE Children(y)' # {} <=> y \in Inner \cup {selected}
    <3>1. CASE y = selected
      BY <3>1, ExpandShape DEF Children
    <3>2. CASE y \in Created /\ y # selected
      BY <3>2, ExpandShape
    <3>3. CASE y \notin Created
      BY <2>1, <3>3, <1>1, ExpandShape
    <3> QED BY <3>1, <3>2, <3>3
  <2>2. Inner \cup {selected} \subseteq Created'
    BY <1>1
  <2> HIDE DEF Inner
  <2> QED BY <2>1, <2>2
<1>3. Path(selected) = A[selected]
  BY PathIsAncestors
<1>4. ASSUME NEW r PROVE /\ Expansions(Subtree(r)) = {y \in Inner : r \in A[y]}
                         /\ Expansions(Subtree(r) \ {r}) = {y \in Inner : r \in A[y] /\ y # r}
  BY SubtreeByAncestors DEF Expansions
<1>5. ASSUME NEW r PROVE Subtree(r)' = {y \in Created' : r \in Ancestors(parent')[y]}
  BY SubtreeByAncestorsP
<1> DEFINE Up == Ancestors(parent')
           Inner2 == {y \in Created' : Children(y)' # {}}
<1>6. Below(x)' = {y \in Inner2 : x \in Up[y]}
  BY SubtreeByAncestorsP DEF Expansions, Below
<1>7. Beside(x)' = {y \in Inner2 : parent'[x] \in Up[y] /\ y # parent'[x]}
  BY SubtreeByAncestorsP DEF Expansions, Beside
<1>8. Below(x) = {y \in Inner : x \in A[y]} /\ Beside(x) = {y \in Inner : parent[x] \in A[y] /\ y # parent[x]}
  BY <1>4 DEF Below, Beside
<1>9. Inner2 = Inner \cup {selected} /\ \A y \in Inner2 : Up[y] = A[y]
  BY <1>1, <1>2
<1>10. Inner \subseteq 0..n /\ selected \notin Inner
  BY <1>1 DEF Created
<1> HIDE DEF A, Inner, Up, Inner2
<1>11. Below(x)' = Below(x) \cup (IF x \in Path(selected) THEN {selected} ELSE {})
  BY <1>3, <1>6, <1>8, <1>9
<1>12. Beside(x)' = Beside(x) \cup (IF parent[x] \in Path(selected) /\ parent[x] # selected
                                         THEN {selected} ELSE {})
  BY <1>1, <1>3, <1>7, <1>8, <1>9
<1> QED BY <1>8, <1>10, <1>11, <1>12

\* Multiples of Unit.
LEMMA UnitSteps ==
  ASSUME NEW a \in Nat, NEW b \in Nat
  PROVE  /\ Unit * a \in Nat /\ Unit * (a + 1) = Unit * a + Unit
         /\ a <= b => Unit * a <= Unit * b
<1> SUFFICES ASSUME NEW u \in Nat PROVE u * a \in Nat /\ u * (a + 1) = u * a + u /\ (a <= b => u * a <= u * b)
  BY RewardAssumption
<1> QED OBVIOUS

\* The cluster update (_propagate_cluster_lineage_from_selected) gives nothing to
\* the selected path, at most one visit to a sibling of it, and then the leaf just
\* expanded lies below that sibling's parent.
LEMMA PathHasNoLineage ==
  ASSUME Descent, NEW x \in Created
  PROVE  /\ x = Root \/ ~ClusterUpdate \/ x \in Path(selected) => LineageVisits(x) = 0
         /\ LineageVisits(x) # 0 => parent[x] \in Path(selected) /\ parent[x] # selected
         /\ x # Root /\ x \in Path(selected) => parent[x] \in Path(selected) /\ parent[x] # selected
         /\ LineageVisits(x) \in 0..Unit
<1> DEFINE A == Ancestors(parent)
<1>1. selected \in Node /\ x \in Node /\ Descends(parent) /\ Path(selected) = A[selected] /\ TypeInv
  BY CreatedAreNodes, StageRange, PathIsAncestors DEF Descent
<1> HIDE DEF A
<1>2. ASSUME NEW c \in A[selected], c # Root PROVE parent[c] \in A[selected] /\ parent[c] # selected
  <2>1. parent[c] \in A[selected] /\ c \in Node /\ c \in Root..selected
    BY <1>1, <1>2, PathParent, PathTransitive, PathBasics DEF A
  <2>2. parent[c] < c /\ parent[c] \in Nat /\ c \in Nat /\ selected \in Nat
    <3>1. c \in Node \ {Root} /\ parent[c] \in Node /\ \A y \in Node \ {Root} : parent[y] < y
      BY <1>1, <1>2, <2>1 DEF Descends
    <3>2. parent[c] < c
      BY <3>1
    <3>3. parent[c] \in Nat /\ c \in Nat /\ selected \in Nat
      BY <1>1, <3>1, NodesAreNaturals
    <3> QED BY <3>2, <3>3
  <2>3. c <= selected
    BY <2>1, <2>2 DEF Root
  <2> QED BY <2>1, <2>2, <2>3
<1>3. ASSUME NEW c \in A[selected], Peer(c, x), x \in A[selected] PROVE FALSE
  <2>1. c # Root /\ x # Root /\ x # c /\ parent[x] = parent[c]
    BY <1>3 DEF Peer
  <2> QED BY <1>1, <1>3, <2>1, PathChain DEF A
<1>4. x = Root \/ ~ClusterUpdate \/ x \in Path(selected) => LineageVisits(x) = 0
  BY <1>1, <1>3 DEF LineageVisits, Peer
<1>5. LineageVisits(x) # 0 => parent[x] \in Path(selected) /\ parent[x] # selected
  BY <1>1, <1>2 DEF LineageVisits, Peer
<1>6. LineageVisits(x) \in 0..Unit
  <2>1. Larger(0, stage[selected] - stage[x]) \in 0..NumStages
    BY <1>1, StageRange, SizeAssumption DEF Larger
  <2>2. LevelWeight[Larger(0, stage[selected] - stage[x])] \in 0..Unit /\ 0 \in 0..Unit
    BY <2>1, RewardAssumption
  <2> QED BY <2>2 DEF LineageVisits
<1> QED BY <1>1, <1>2, <1>4, <1>5, <1>6

\* A node that was there gains what the accounting allows.
LEMMA OldNodeVisits ==
  ASSUME Descent, VisitAccounting, NEW g \in Groups, Expand(g), NEW x \in Created
  PROVE  IF x = Root \/ ~ClusterUpdate
        THEN visits'[x] = Unit * (Own(x) + Cardinality(Below(x)'))
        ELSE /\ Unit * (Own(x) + Cardinality(Below(x)')) <= visits'[x]
             /\ visits'[x] <= Unit * (Own(x) + Cardinality(Beside(x)'))
<1> DEFINE up == x \in Path(selected)
           near == parent[x] \in Path(selected) /\ parent[x] # selected
           b == Cardinality(Below(x))
           c == Cardinality(Beside(x))
<1>1. n \in Nat /\ selected \in 0..n /\ x \in Node /\ x \in 0..n
  BY ExpandShape DEF Created
<1>2. b \in Nat /\ Cardinality(Below(x)') = b + (IF up THEN 1 ELSE 0)
  <2>1. Below(x) \in SUBSET (0..n) /\ selected \notin Below(x)
    BY ExpansionsGrow
  <2>2. b \in Nat /\ Cardinality(Below(x) \cup {selected}) = b + 1
    BY <1>1, <2>1, GrowByOne
  <2>3. CASE up
    BY <2>2, <2>3, ExpansionsGrow
  <2>4. CASE ~up
    <3>1. Below(x)' = Below(x)
      BY <2>4, ExpansionsGrow
    <3> QED BY <2>2, <2>4, <3>1
  <2> QED BY <2>3, <2>4
<1>3. c \in Nat /\ Cardinality(Beside(x)') = c + (IF near THEN 1 ELSE 0)
  <2>1. Beside(x) \in SUBSET (0..n) /\ selected \notin Beside(x)
    BY ExpansionsGrow
  <2>2. c \in Nat /\ Cardinality(Beside(x) \cup {selected}) = c + 1
    BY <1>1, <2>1, GrowByOne
  <2>3. CASE near
    BY <2>2, <2>3, ExpansionsGrow
  <2>4. CASE ~near
    <3>1. Beside(x)' = Beside(x)
      BY <2>4, ExpansionsGrow
    <3> QED BY <2>2, <2>4, <3>1
  <2> QED BY <2>3, <2>4
<1>4. visits'[x] = visits[x] + (IF up THEN Unit ELSE 0) + LineageVisits(x)
  <2>1. visits'[x] = IF x \in (n + 1)..(n + Len(g)) THEN Unit ELSE visits[x] + PathVisits(x) + LineageVisits(x)
    BY <1>1 DEF Expand
  <2>2. x \notin (n + 1)..(n + Len(g))
    BY <1>1, GroupShape, SizeAssumption
  <2> QED BY <2>1, <2>2 DEF PathVisits
<1>5. /\ x = Root \/ ~ClusterUpdate \/ up => LineageVisits(x) = 0
      /\ LineageVisits(x) # 0 => near
      /\ x # Root /\ up => near
      /\ LineageVisits(x) \in Nat /\ LineageVisits(x) <= Unit
  BY PathHasNoLineage, RewardAssumption
<1>6. visits[x] \in Nat /\ Unit \in Nat /\ Own(x) \in Nat
  BY <1>1, RewardAssumption DEF Descent, TypeInv, TypeOK, TreeOK, Own
<1>7. IF x = Root \/ ~ClusterUpdate
        THEN visits[x] = Unit * (Own(x) + b)
        ELSE Unit * (Own(x) + b) <= visits[x] /\ visits[x] <= Unit * (Own(x) + c)
  BY VisitBounds
<1> DEFINE b2 == Cardinality(Below(x)')
           c2 == Cardinality(Beside(x)')
<1>8. /\ Unit * (Own(x) + b2) = Unit * (Own(x) + b) + (IF up THEN Unit ELSE 0)
      /\ Unit * (Own(x) + c2) = Unit * (Own(x) + c) + (IF near THEN Unit ELSE 0)
      /\ Unit * (Own(x) + b) \in Nat /\ Unit * (Own(x) + c) \in Nat
  <2>1. Own(x) + b \in Nat /\ Own(x) + c \in Nat
    BY <1>2, <1>3, <1>6
  <2>2. /\ Unit * (Own(x) + b + 1) = Unit * (Own(x) + b) + Unit
        /\ Unit * (Own(x) + c + 1) = Unit * (Own(x) + c) + Unit
        /\ Unit * (Own(x) + b) \in Nat /\ Unit * (Own(x) + c) \in Nat
    BY <2>1, UnitSteps
  <2>3. /\ Own(x) + b2 = Own(x) + b + (IF up THEN 1 ELSE 0)
        /\ Own(x) + c2 = Own(x) + c + (IF near THEN 1 ELSE 0)
    BY <1>2, <1>3, <1>6
  <2> HIDE DEF b, c, b2, c2, up, near
  <2>4. /\ Unit * (Own(x) + b2) = Unit * (Own(x) + b) + (IF up THEN Unit ELSE 0)
    BY <1>6, <2>1, <2>2, <2>3
  <2>5. Unit * (Own(x) + c2) = Unit * (Own(x) + c) + (IF near THEN Unit ELSE 0)
    BY <1>6, <2>1, <2>2, <2>3
  <2> QED BY <2>2, <2>4, <2>5
<1> HIDE DEF b, c, up, near
<1> DEFINE lowest == Unit * (Own(x) + b)
           highest == Unit * (Own(x) + c)
           lowest2 == Unit * (Own(x) + b2)
           highest2 == Unit * (Own(x) + c2)
<1>9. IF x = Root \/ ~ClusterUpdate
        THEN visits'[x] = lowest2
        ELSE lowest2 <= visits'[x] /\ visits'[x] <= highest2
  <2>1. /\ lowest2 = lowest + (IF up THEN Unit ELSE 0)
        /\ highest2 = highest + (IF near THEN Unit ELSE 0)
        /\ lowest \in Nat /\ highest \in Nat
    BY <1>8
  <2>2. IF x = Root \/ ~ClusterUpdate THEN visits[x] = lowest ELSE lowest <= visits[x] /\ visits[x] <= highest
    BY <1>7
  <2> HIDE DEF lowest, highest, lowest2, highest2
  <2> QED BY <1>4, <1>5, <1>6, <2>1, <2>2
<1> QED BY <1>9

\* A new node starts with the visit of its own reward.
LEMMA NewNodeVisits ==
  ASSUME Descent, NEW g \in Groups, Expand(g), NEW x \in Created' \ Created
  PROVE  /\ visits'[x] = Unit /\ x # Root
         /\ Below(x)' = {} /\ IsFiniteSet(Beside(x)')
<1>1. n \in Nat /\ n' \in Nat /\ Created' = 0..n' /\ x \in Node /\ x > n /\ x \in 1..n' /\ x \in Nat
  BY ExpandShape DEF Created
<1>2. x \in (n + 1)..(n + Len(g)) /\ x # Root
  BY <1>1, ExpandNodes DEF Descent, Root
<1>3. visits'[x] = Unit
  BY <1>1, <1>2 DEF Expand
<1>4. ASSUME NEW y \in Created, x \in Ancestors(parent')[y] PROVE FALSE
  <2>1. y \in Node /\ y <= n /\ y \in Nat /\ Ancestors(parent')[y] = Ancestors(parent)[y]
    BY <1>1, ExpandShape DEF Created
  <2>2. Ancestors(parent)[y] \subseteq Root..y
    BY <2>1, PathBasics DEF Descent
  <2>3. x \in 0..y
    BY <1>4, <2>1, <2>2 DEF Root
  <2> QED BY <1>1, <2>1, <2>3
<1>5. Below(x)' = {y \in Created' : x \in Ancestors(parent')[y] /\ Children(y)' # {}}
  BY SubtreeByAncestorsP DEF Below, Expansions
<1>6. Below(x)' = {}
  <2>1. \A y \in Created' \ Created : Children(y)' = {}
    BY ExpandShape
  <2> QED BY <1>4, <1>5, <2>1
<1>7. Beside(x)' \in SUBSET (0..n')
  BY <1>1 DEF Beside, Expansions, Subtree
<1> QED BY <1>1, <1>2, <1>3, <1>6, <1>7, FiniteParts

\* Every step keeps the account: only a group changes it.
LEMMA StepVisitAccounting == Descent /\ VisitAccounting /\ [Next]_vars => VisitAccounting'
<1> SUFFICES ASSUME Descent, VisitAccounting, [Next]_vars PROVE VisitAccounting'
  OBVIOUS
<1>1. CASE UNCHANGED tree
  <2>1. UNCHANGED <<n, parent, visits>> /\ Created' = Created
    BY <1>1 DEF tree, Created
  <2>2. \A r : Subtree(r)' = Subtree(r) /\ \A y : Children(y)' = Children(y)
    BY <2>1, SubtreeByAncestors, SubtreeByAncestorsP DEF Children
  <2>3. ASSUME NEW x PROVE Below(x)' = Below(x) /\ Beside(x)' = Beside(x)
    BY <2>1, <2>2 DEF Below, Beside, Expansions
  <2> QED BY <2>1, <2>3, VisitBounds, VisitBoundsP
<1>2. ASSUME NEW g \in Groups, Expand(g) PROVE VisitAccounting'
  <2>1. ASSUME NEW x \in Created'
        PROVE  IF x = Root \/ ~ClusterUpdate
               THEN visits'[x] = Unit * (Own(x) + Cardinality(Below(x)'))
               ELSE /\ Unit * (Own(x) + Cardinality(Below(x)')) <= visits'[x]
                    /\ visits'[x] <= Unit * (Own(x) + Cardinality(Beside(x)'))
    <3>1. CASE x \in Created
      BY <1>2, <3>1, OldNodeVisits
    <3>2. CASE x \notin Created
      <4>1. visits'[x] = Unit /\ x # Root /\ Below(x)' = {} /\ IsFiniteSet(Beside(x)')
        BY <1>2, <2>1, <3>2, NewNodeVisits
      <4>2. Cardinality(Below(x)') = 0 /\ Cardinality(Beside(x)') \in Nat /\ Own(x) = 1
        BY <4>1, FS_EmptySet, FS_CardinalityType DEF Own
      <4> DEFINE c == Cardinality(Beside(x)')
      <4>3. Unit * (1 + 0) = Unit /\ Unit * 1 <= Unit * (1 + c)
        <5>1. 1 <= 1 + c /\ 1 + c \in Nat
          BY <4>2
        <5> HIDE DEF c
        <5> QED BY <5>1, UnitSteps, RewardAssumption
      <4>4. Unit * 1 = Unit
        BY RewardAssumption
      <4>5. Unit * (Own(x) + Cardinality(Below(x)')) = Unit
        BY <4>2, <4>4
      <4>6. Unit <= Unit * (Own(x) + Cardinality(Beside(x)')) /\ Unit <= Unit
        BY <4>2, <4>3, <4>4, RewardAssumption
      <4> HIDE DEF c
      <4> QED BY <4>1, <4>5, <4>6
    <3> QED BY <3>1, <3>2
  <2>2. \A x : Own(x)' = Own(x)
    BY DEF Own
  <2> QED BY <2>1, VisitBoundsP
<1> QED BY <1>1, <1>2, OnlyExpandChangesTree

\* It is balanced at the start.
LEMMA InitVisitAccounting == Init => VisitAccounting
<1> SUFFICES ASSUME Init PROVE VisitAccounting
  OBVIOUS
<1>1. n = 0 /\ Created = {Root} /\ visits[Root] = 0
  BY NodesAreNaturals DEF Init, Created, Root
<1>2. Children(Root) = {}
  BY <1>1 DEF Children
<1>3. Below(Root) = {}
  BY <1>1, <1>2 DEF Below, Expansions, Subtree
<1>4. Cardinality(Below(Root)) = 0
  BY <1>3, FS_EmptySet
<1> QED BY <1>1, <1>4, VisitBounds, RewardAssumption DEF Own

\* Visits count groups: each node has one visit for its own reward and one for
\* every expansion at or below it, and the fractional visits of the cluster update
\* never exceed the expansions below the node's siblings (_backpropagate,
\* child.update and _propagate_cluster_lineage_from_selected).
THEOREM VisitsCountGroups == Spec => []VisitAccounting
<1>1. Descent /\ VisitAccounting /\ [Next]_vars => VisitAccounting'
  BY StepVisitAccounting
<1> QED BY <1>1, InitVisitAccounting, DescentInvariant, PTL DEF Spec
-----------------------------------------------------------------------------
(* Greatest elements.                                                      *)

\* A non-empty set of naturals with a bound has a greatest element.
LEMMA GreatestElement ==
  ASSUME NEW B \in Nat, NEW T \in SUBSET (0..B), T # {}
  PROVE  \E x \in T : \A y \in T : y <= x
<1> DEFINE D == {B - x : x \in T}
<1>1. D \in SUBSET Nat /\ D # {}
  <2>1. ASSUME NEW x \in T PROVE B - x \in Nat
    OBVIOUS
  <2> QED BY <2>1
<1>2. PICK d \in D : \A e \in D : d <= e
  <2> HIDE DEF D
  <2> QED BY <1>1, LeastElement
<1>3. PICK x \in T : d = B - x
  BY <1>2
<1>4. ASSUME NEW y \in T PROVE y <= x
  <2>1. B - y \in D
    OBVIOUS
  <2>2. B - x <= B - y
    BY <1>2, <1>3, <2>1
  <2> QED BY <2>2
<1> QED BY <1>3, <1>4

\* A finite set is not empty exactly if it has something in it, and a subset with
\* as many elements is all of it: a strict subset has fewer.
LEMMA FewerElements ==
  ASSUME NEW S, NEW T, IsFiniteSet(S), T \subseteq S, NEW x \in S, x \notin T
  PROVE  /\ Cardinality(S) \in Nat /\ Cardinality(T) \in Nat
         /\ Cardinality(T) < Cardinality(S)
<1>1. /\ IsFiniteSet(T) /\ Cardinality(T) <= Cardinality(S)
      /\ Cardinality(S) = Cardinality(T) => S = T
  BY FS_Subset
<1>2. Cardinality(S) \in Nat /\ Cardinality(T) \in Nat
  BY <1>1, FS_CardinalityType
<1> QED BY <1>1, <1>2

\* A finite set that is ordered strictly and totally by the pairs of R, the
\* greater first, has a greatest element: one with the most elements below it.
LEMMA FiniteMaximum ==
  ASSUME NEW D, NEW R, IsFiniteSet(D), D # {},
         \A x \in D : <<x, x>> \notin R,
         \A x, y \in D : x # y => <<x, y>> \in R \/ <<y, x>> \in R,
         \A x, y, z \in D : <<x, y>> \in R /\ <<y, z>> \in R => <<x, z>> \in R
  PROVE  \E x \in D : \A y \in D \ {x} : <<x, y>> \in R
<1> DEFINE Worse(x) == {y \in D : <<x, y>> \in R}
           Ranks == {Cardinality(Worse(x)) : x \in D}
<1>1. Cardinality(D) \in Nat
  BY FS_CardinalityType
<1>2. ASSUME NEW x \in D PROVE Cardinality(Worse(x)) \in 0..Cardinality(D)
  <2>1. Worse(x) \subseteq D /\ x \notin Worse(x)
    OBVIOUS
  <2> HIDE DEF Worse
  <2>2. Cardinality(Worse(x)) \in Nat /\ Cardinality(Worse(x)) < Cardinality(D)
    BY <2>1, FewerElements
  <2> QED BY <1>1, <2>2
<1>3. PICK k \in Ranks : \A l \in Ranks : l <= k
  <2>1. Ranks \in SUBSET (0..Cardinality(D)) /\ Ranks # {}
    <3> HIDE DEF Worse
    <3> QED BY <1>2
  <2> HIDE DEF Ranks
  <2> QED BY <1>1, <2>1, GreatestElement
<1>4. PICK x \in D : k = Cardinality(Worse(x))
  BY <1>3
<1>5. ASSUME NEW y \in D \ {x}, <<x, y>> \notin R PROVE FALSE
  <2>1. <<y, x>> \in R
    BY <1>5
  <2>2. Worse(x) \subseteq Worse(y) /\ x \in Worse(y) /\ x \notin Worse(x)
    BY <2>1
  <2>3. Worse(y) \subseteq D
    OBVIOUS
  <2>4. IsFiniteSet(Worse(y))
    <3> HIDE DEF Worse
    <3> QED BY <2>3, FS_Subset
  <2>5. Cardinality(Worse(x)) \in Nat /\ Cardinality(Worse(y)) \in Nat
        /\ Cardinality(Worse(x)) < Cardinality(Worse(y))
    <3> HIDE DEF Worse
    <3> QED BY <2>2, <2>4, FewerElements
  <2>6. Cardinality(Worse(y)) \in Ranks
    OBVIOUS
  <2>7. Cardinality(Worse(y)) <= Cardinality(Worse(x))
    BY <1>3, <1>4, <2>6
  <2> QED BY <2>5, <2>7
<1> QED BY <1>5

-----------------------------------------------------------------------------
(* The order of the records.                                               *)

\* Records of a search: what their fields hold, and that iteration and node tell
\* them apart.
Orderly(S) ==
  /\ \A r \in S : r.iter \in 0..MaxIterations /\ r.node \in Node /\ r.out \in Outcomes
  /\ \A r, s \in S : r.iter = s.iter /\ r.node = s.node => r = s

\* Where a record stands among those of its iteration, the one of the repair flow
\* last, and among all of them.
Places == Capacity(MaxIterations) + 2
Place(r) == IF r.node = Root THEN Capacity(MaxIterations) + 1 ELSE r.node
Rank(r) == r.iter * Places + Place(r)

\* Blocks of equal length keep their order: division by the length tells them apart.
LEMMA BlocksOrdered ==
  ASSUME NEW W \in Nat, NEW i \in Nat, NEW j \in Nat, NEW a \in 0..(W - 1), NEW b \in 0..(W - 1)
  PROVE  /\ i * W + a \in Nat /\ j * W + b \in Nat
         /\ i < j => i * W + a < j * W + b
<1>1. i * W \in Nat /\ j * W \in Nat
  BY ProductInNat
<1>2. ASSUME i < j PROVE i * W + W <= j * W
  <2>1. (i + 1) * W <= j * W
    BY <1>2, ProductMonotone
  <2>2. (i + 1) * W = i * W + W
    OBVIOUS
  <2> QED BY <2>1, <2>2
<1> QED BY <1>1, <1>2

\* Before is the order of ranks, and no two records have the same.
LEMMA RankOrders ==
  ASSUME NEW S, Orderly(S), NEW r \in S, NEW s \in S
  PROVE  /\ Rank(r) \in Nat /\ Rank(s) \in Nat
         /\ Before(r, s) <=> Rank(r) < Rank(s)
         /\ Rank(r) = Rank(s) => r = s
<1> DEFINE W == Places
<1>0. Capacity(MaxIterations) \in Nat
  BY CapacityFacts, SizeAssumption
<1>1. /\ Capacity(MaxIterations) \in Nat /\ Node = 0..Capacity(MaxIterations) /\ Root = 0
      /\ W \in Nat /\ W = Capacity(MaxIterations) + 2
  BY <1>0 DEF Places, Node, Root
<1>2. /\ r.iter \in Nat /\ s.iter \in Nat /\ r.node \in Node /\ s.node \in Node
      /\ r.iter = s.iter /\ r.node = s.node => r = s
  BY SizeAssumption DEF Orderly
<1>3. /\ Place(r) \in 0..(W - 1) /\ Place(s) \in 0..(W - 1)
      /\ Place(r) = Place(s) => r.node = s.node
      /\ Place(r) < Place(s) <=> (s.node = Root \/ r.node < s.node) /\ r.node # Root
  <2> HIDE DEF W
  <2> QED BY <1>1, <1>2 DEF Place
<1>4. /\ r.iter * W + Place(r) \in Nat /\ s.iter * W + Place(s) \in Nat
      /\ r.iter < s.iter => r.iter * W + Place(r) < s.iter * W + Place(s)
      /\ s.iter < r.iter => s.iter * W + Place(s) < r.iter * W + Place(r)
  <2> HIDE DEF W
  <2> QED BY <1>1, <1>2, <1>3, BlocksOrdered
<1>5. CASE r.iter = s.iter
  <2>1. Rank(r) < Rank(s) <=> Place(r) < Place(s)
    <3>1. r.iter * W \in Nat
      <4> HIDE DEF W
      <4> QED BY <1>1, <1>2, ProductInNat
    <3> DEFINE b == r.iter * W
    <3>2. Rank(r) = b + Place(r) /\ Rank(s) = b + Place(s)
      BY <1>5 DEF Rank
    <3> HIDE DEF b, W
    <3> QED BY <1>1, <1>3, <3>1, <3>2 DEF b
  <2>2. Rank(r) = Rank(s) => Place(r) = Place(s)
    <3>1. r.iter * W \in Nat
      <4> HIDE DEF W
      <4> QED BY <1>1, <1>2, ProductInNat
    <3> DEFINE b == r.iter * W
    <3>2. Rank(r) = b + Place(r) /\ Rank(s) = b + Place(s)
      BY <1>5 DEF Rank
    <3> HIDE DEF b, W
    <3> QED BY <1>1, <1>3, <3>1, <3>2 DEF b
  <2>3. ~(r.iter < s.iter)
    BY <1>2, <1>5
  <2> QED BY <1>2, <1>3, <1>4, <1>5, <2>1, <2>2, <2>3 DEF Before, Rank
<1>6. CASE r.iter # s.iter
  <2>1. r.iter < s.iter \/ s.iter < r.iter
    BY <1>2, <1>6
  <2>2. /\ Rank(r) \in Nat /\ Rank(s) \in Nat
        /\ r.iter < s.iter => Rank(r) < Rank(s)
        /\ s.iter < r.iter => Rank(s) < Rank(r)
    BY <1>4 DEF Rank
  <2>3. Before(r, s) <=> r.iter < s.iter
    BY <1>6 DEF Before
  <2>4. r.iter < s.iter => ~(s.iter < r.iter)
    BY <1>2
  <2> QED BY <2>1, <2>2, <2>3, <2>4
<1> QED BY <1>5, <1>6

\* ... and all ranks are within a bound.
LastRank == MaxIterations * Places + Capacity(MaxIterations) + 1
LEMMA RankBounded ==
  ASSUME NEW S, Orderly(S)
  PROVE  LastRank \in Nat /\ \A r \in S : Rank(r) \in 0..LastRank
<1>0. Capacity(MaxIterations) \in Nat /\ MaxIterations \in Nat
  BY CapacityFacts, SizeAssumption
<1>1. /\ Capacity(MaxIterations) \in Nat /\ Places \in Nat /\ MaxIterations \in Nat
      /\ Node = 0..Capacity(MaxIterations)
  BY <1>0 DEF Places, Node
<1>2. LastRank \in Nat
  <2>1. MaxIterations * Places \in Nat
    BY <1>1, ProductInNat
  <2> QED BY <1>1, <2>1 DEF LastRank
<1>3. ASSUME NEW r \in S PROVE Rank(r) \in 0..LastRank
  <2>1. r.iter \in Nat /\ r.iter <= MaxIterations /\ r.node \in Node
    BY <1>1 DEF Orderly
  <2>2. r.iter * Places <= MaxIterations * Places /\ r.iter * Places \in Nat /\ MaxIterations * Places \in Nat
    BY <1>1, <2>1, ProductMonotone, ProductInNat
  <2>3. Place(r) \in 0..(Capacity(MaxIterations) + 1)
    BY <1>1, <2>1 DEF Place
  <2> DEFINE p == r.iter * Places
             q == MaxIterations * Places
  <2>4. Rank(r) = p + Place(r) /\ LastRank = q + Capacity(MaxIterations) + 1
    BY DEF Rank, LastRank
  <2> HIDE DEF p, q
  <2> QED BY <1>1, <2>2, <2>3, <2>4 DEF p, q
<1> QED BY <1>2, <1>3

\* Hence a set of records is finite.
LEMMA OrderlyFinite ==
  ASSUME NEW S, Orderly(S)
  PROVE  IsFiniteSet(S)
<1> DEFINE f == [r \in S |-> Rank(r)]
<1>1. f \in Injection(S, 0..LastRank)
  <2>1. f \in [S -> 0..LastRank]
    BY RankBounded
  <2>2. \A r, s \in DOMAIN f : f[r] = f[s] => r = s
    BY RankOrders
  <2> QED BY <2>1, <2>2 DEF Injection, IsInjective
<1>2. IsFiniteSet(0..LastRank)
  BY RankBounded, FS_Interval
<1> HIDE DEF f
<1> QED BY <1>1, <1>2, FS_Injection

\* What holds of a set of records holds of its subsets.
LEMMA OrderlySubset ==
  ASSUME NEW S, Orderly(S), NEW T, T \subseteq S
  PROVE  Orderly(T)
  BY DEF Orderly

-----------------------------------------------------------------------------
(* Greedy clusters.                                                        *)

\* Two records of one objective.
Match(r, s) == SameObj(r.out, s.out)

\* The recursive function of Leaders, as an operator of the records.
IsLeading(f, S) == f = [r \in S |-> \A q \in S : Before(q, r) /\ SameObj(r.out, q.out) => ~f[q]]
Leading(S) == CHOOSE f : IsLeading(f, S)

\* The leaders as _cluster_records_by_obj finds them.
LEMMA LeadersAreLeading == \A S : Leaders(S) = {r \in S : Leading(S)[r]}
  BY DEF Leaders, Leading, IsLeading

\* The records of L with a rank below k are those that match none of L before them.
LeadBelow(L, S, k) ==
  \A r \in S : Rank(r) < k => (r \in L <=> \A q \in L : Before(q, r) => ~Match(r, q))

\* One rank more: the record of that rank leads, or it does not.
LEMMA LeadOneMore ==
  ASSUME NEW S, Orderly(S), NEW k \in Nat, NEW L \in SUBSET S, LeadBelow(L, S, k)
  PROVE  \E M \in SUBSET S : LeadBelow(M, S, k + 1)
<1> DEFINE Free(r) == \A q \in L : Before(q, r) => ~Match(r, q)
           M == {r \in S : IF Rank(r) = k THEN Free(r) ELSE r \in L}
<1>1. ASSUME NEW r \in S, Rank(r) < k + 1 PROVE r \in M <=> \A q \in M : Before(q, r) => ~Match(r, q)
  <2>1. \A q \in S : Before(q, r) => (q \in M <=> q \in L)
    <3> SUFFICES ASSUME NEW q \in S, Before(q, r) PROVE q \in M <=> q \in L
      OBVIOUS
    <3>1. Rank(q) # k
      BY <1>1, RankOrders
    <3> QED BY <3>1
  <2>2. (\A q \in M : Before(q, r) => ~Match(r, q)) <=> Free(r)
    BY <2>1
  <2>3. Rank(r) # k => Rank(r) < k
    BY <1>1, RankOrders
  <2>4. Rank(r) < k => (r \in L <=> Free(r))
    BY DEF LeadBelow
  <2>5. r \in M <=> IF Rank(r) = k THEN Free(r) ELSE r \in L
    OBVIOUS
  <2> HIDE DEF M, Free
  <2> QED BY <2>2, <2>3, <2>4, <2>5
<1>2. M \in SUBSET S
  OBVIOUS
<1> HIDE DEF M
<1> QED BY <1>1, <1>2 DEF LeadBelow

\* Up to any rank, hence to the last, there are such records.
LEMMA LeadersExist ==
  ASSUME NEW S, Orderly(S), NEW k \in Nat
  PROVE  \E L \in SUBSET S : LeadBelow(L, S, k)
<1> DEFINE Bad == {i \in Nat : ~\E L \in SUBSET S : LeadBelow(L, S, i)}
<1>1. SUFFICES ASSUME Bad # {} PROVE FALSE
  OBVIOUS
<1>2. PICK i \in Bad : \A j \in Bad : i <= j
  <2>1. Bad \in SUBSET Nat
    OBVIOUS
  <2> HIDE DEF Bad
  <2> QED BY <1>1, <2>1, LeastElement
<1>3. i # 0
  <2>1. \A r \in S : ~(Rank(r) < 0)
    BY RankOrders
  <2>2. LeadBelow({}, S, 0)
    BY <2>1 DEF LeadBelow
  <2> QED BY <2>2
<1>4. i - 1 \in Nat /\ i - 1 \notin Bad /\ (i - 1) + 1 = i
  <2>1. i \in Nat
    OBVIOUS
  <2> HIDE DEF Bad
  <2> QED BY <1>2, <1>3, <2>1
<1>5. PICK L \in SUBSET S : LeadBelow(L, S, i - 1)
  BY <1>4
<1>6. \E M \in SUBSET S : LeadBelow(M, S, (i - 1) + 1)
  <2> HIDE DEF Bad
  <2> QED BY <1>4, <1>5, LeadOneMore
<1> QED BY <1>4, <1>6

\* A record leads exactly if it matches no leader before it.
LEMMA LeaderFacts ==
  ASSUME NEW S, Orderly(S)
  PROVE  /\ Leaders(S) \subseteq S
         /\ \A r \in S : r \in Leaders(S) <=> \A q \in Leaders(S) : Before(q, r) => ~SameObj(r.out, q.out)
<1>1. PICK L \in SUBSET S : LeadBelow(L, S, LastRank + 1)
  BY RankBounded, LeadersExist
<1>2. \A r \in S : r \in L <=> \A q \in L : Before(q, r) => ~Match(r, q)
  <2>1. \A r \in S : Rank(r) < LastRank + 1
    BY RankBounded
  <2> QED BY <1>1, <2>1 DEF LeadBelow
<1> DEFINE f == [r \in S |-> r \in L]
<1>3. f = [r \in S |-> \A q \in S : Before(q, r) /\ SameObj(r.out, q.out) => ~f[q]]
  <2> DEFINE Free(r) == \A q \in S : Before(q, r) /\ SameObj(r.out, q.out) => ~f[q]
  <2>1. ASSUME NEW r \in S PROVE (r \in L) = Free(r)
    <3>1. \A q \in S : f[q] <=> q \in L
      OBVIOUS
    <3>2. r \in L <=> \A q \in L : Before(q, r) => ~SameObj(r.out, q.out)
      BY <1>2 DEF Match
    <3>3. (r \in L) <=> Free(r)
      <4> HIDE DEF f
      <4> QED BY <3>1, <3>2
    <3>4. Free(r) \in BOOLEAN
      OBVIOUS
    <3> HIDE DEF Free
    <3> QED BY <3>3, <3>4
  <2>2. f = [r \in S |-> Free(r)]
    <3> HIDE DEF Free
    <3> QED BY <2>1
  <2> QED BY <2>2
<1>4. IsLeading(Leading(S), S)
  <2> HIDE DEF f
  <2> QED BY <1>3 DEF IsLeading, Leading
<1> DEFINE g == Leading(S)
<1>5. \A r \in S : g[r] <=> \A q \in S : Before(q, r) /\ SameObj(r.out, q.out) => ~g[q]
  <2> SUFFICES ASSUME NEW r \in S
               PROVE  g[r] <=> \A q \in S : Before(q, r) /\ SameObj(r.out, q.out) => ~g[q]
    OBVIOUS
  <2> DEFINE Free(s) == \A q \in S : Before(q, s) /\ SameObj(s.out, q.out) => ~g[q]
  <2>1. g = [s \in S |-> Free(s)]
    BY <1>4 DEF IsLeading
  <2> HIDE DEF g, Free
  <2>2. g[r] = Free(r)
    BY <2>1
  <2>3. g[r] <=> Free(r)
    BY <2>2
  <2> QED BY <2>3 DEF Free
<1>6. Leaders(S) = {r \in S : g[r]}
  BY LeadersAreLeading
<1> HIDE DEF g
<1> QED BY <1>5, <1>6

\* Records with an objective, as all that are clustered have.
Valued(S) == Orderly(S) /\ S = HasObj(S)

\* Matching compares objectives, within the tolerance.
LEMMA MatchFacts ==
  ASSUME NEW S, Valued(S)
  PROVE  /\ \A r \in S : r.out.obj \in Int /\ r.out.obj # NoObj /\ r.out.effective
         /\ \A r, s \in S : SameObj(r.out, s.out) <=>
              r.out.obj - s.out.obj <= Tol /\ s.out.obj - r.out.obj <= Tol
         /\ \A r, s \in S : SameObj(r.out, s.out) <=> SameObj(s.out, r.out)
         /\ \A r \in S : SameObj(r.out, r.out)
<1>1. \A r \in S : r.out.obj \in Int /\ r.out.obj # NoObj /\ r.out.effective
  BY OutcomeAssumption DEF Valued, Orderly, HasObj
<1>2. Tol \in Nat
  BY RewardAssumption
<1>3. \A r, s \in S : SameObj(r.out, s.out) <=>
              r.out.obj - s.out.obj <= Tol /\ s.out.obj - r.out.obj <= Tol
  BY <1>1 DEF SameObj, Close
<1>4. \A r \in S : r.out.obj - r.out.obj <= Tol
  BY <1>1, <1>2
<1> QED BY <1>1, <1>3, <1>4

\* The clusters divide the records: each joins one, with its leader, and records of equal
\* objectives join the same.
LEMMA ClusterFacts ==
  ASSUME NEW S, Valued(S)
  PROVE  /\ \A l \in Leaders(S) : l \in Cluster(S, l) /\ Cluster(S, l) \subseteq S
         /\ \A r \in S : \E l \in Leaders(S) : r \in Cluster(S, l)
         /\ \A l, m \in Leaders(S) : l # m => Cluster(S, l) \cap Cluster(S, m) = {}
         /\ \A l \in Leaders(S), r, s \in S :
              r.out.obj = s.out.obj /\ r \in Cluster(S, l) => s \in Cluster(S, l)
         /\ \A l, m \in Leaders(S) : l # m => ~SameObj(l.out, m.out)
<1>1. /\ Orderly(S) /\ Leaders(S) \subseteq S
      /\ \A r \in S : r \in Leaders(S) <=> \A q \in Leaders(S) : Before(q, r) => ~SameObj(r.out, q.out)
  BY LeaderFacts DEF Valued
<1>2. \A r, s \in S : r # s => Before(r, s) \/ Before(s, r)
  BY <1>1, RankOrders
<1>3. ASSUME NEW l \in Leaders(S) PROVE l \in Cluster(S, l) /\ Cluster(S, l) \subseteq S
  BY <1>1, MatchFacts DEF Cluster
<1>4. ASSUME NEW r \in S PROVE \E l \in Leaders(S) : r \in Cluster(S, l)
  <2>1. CASE r \in Leaders(S)
    BY <1>3, <2>1
  <2>2. CASE r \notin Leaders(S)
    <3> DEFINE T == {Rank(q) : q \in {p \in Leaders(S) : SameObj(r.out, p.out)}}
    <3>1. T \in SUBSET Nat /\ T # {}
      <4>1. \A q \in Leaders(S) : Rank(q) \in Nat
        BY <1>1, RankOrders
      <4> QED BY <1>1, <2>2, <4>1
    <3>2. PICK k \in T : \A j \in T : k <= j
      <4> HIDE DEF T
      <4> QED BY <3>1, LeastElement
    <3>3. PICK l \in Leaders(S) : SameObj(r.out, l.out) /\ k = Rank(l)
      BY <3>2
    <3>4. ASSUME NEW q \in Leaders(S), Before(q, l), SameObj(r.out, q.out) PROVE FALSE
      <4>1. Rank(q) \in T
        BY <3>4
      <4>2. Rank(q) < Rank(l) /\ Rank(q) \in Nat /\ Rank(l) \in Nat
        BY <1>1, <3>4, RankOrders
      <4>3. Rank(l) <= Rank(q)
        BY <3>2, <3>3, <4>1
      <4> QED BY <4>2, <4>3
    <3> QED BY <3>3, <3>4 DEF Cluster
  <2> QED BY <2>1, <2>2
<1>5. ASSUME NEW l \in Leaders(S), NEW m \in Leaders(S), l # m
      PROVE  Cluster(S, l) \cap Cluster(S, m) = {} /\ ~SameObj(l.out, m.out)
  <2>1. Before(l, m) \/ Before(m, l)
    BY <1>1, <1>2, <1>5
  <2>2. ~SameObj(l.out, m.out)
    BY <1>1, <2>1, MatchFacts
  <2> QED BY <2>1, <2>2 DEF Cluster
<1>6. ASSUME NEW l \in Leaders(S), NEW r \in S, NEW s \in S, r.out.obj = s.out.obj, r \in Cluster(S, l)
      PROVE  s \in Cluster(S, l)
  <2>1. \A q \in Leaders(S) : SameObj(r.out, q.out) <=> SameObj(s.out, q.out)
    BY <1>6 DEF SameObj
  <2> QED BY <1>6, <2>1 DEF Cluster
<1> QED BY <1>3, <1>4, <1>5, <1>6

-----------------------------------------------------------------------------
(* Keys and their greatest.                                                *)

\* The keys of m numbers, compared from the first on.
Keys(m) == [1..m -> Int]

\* Less orders them strictly and totally.
LEMMA LessOrders ==
  ASSUME NEW m \in Nat
  PROVE  /\ \A k \in Keys(m) : ~Less(k, k)
         /\ \A k, l \in Keys(m) : k # l => Less(k, l) \/ Less(l, k)
         /\ \A h, k, l \in Keys(m) : Less(h, k) /\ Less(k, l) => Less(h, l)
<1>1. ASSUME NEW k \in Keys(m) PROVE ~Less(k, k)
  BY DEF Less, Keys
<1>2. ASSUME NEW k \in Keys(m), NEW l \in Keys(m), k # l PROVE Less(k, l) \/ Less(l, k)
  <2> DEFINE T == {i \in 1..m : k[i] # l[i]}
  <2>1. T \in SUBSET Nat /\ T # {}
    BY <1>2 DEF Keys
  <2>2. PICK i \in T : \A j \in T : i <= j
    <3> HIDE DEF T
    <3> QED BY <2>1, LeastElement
  <2>3. i \in 1..m /\ k[i] # l[i] /\ k[i] \in Int /\ l[i] \in Int
    BY <2>2 DEF Keys
  <2>4. \A j \in 1..(i - 1) : k[j] = l[j] /\ l[j] = k[j]
    <3> SUFFICES ASSUME NEW j \in 1..(i - 1), k[j] # l[j] PROVE FALSE
      OBVIOUS
    <3>1. j \in 1..m /\ ~(i <= j)
      BY <2>3
    <3> QED BY <2>2, <3>1
  <2>5. k[i] < l[i] \/ l[i] < k[i]
    BY <2>3
  <2>6. DOMAIN k = 1..m /\ DOMAIN l = 1..m
    BY DEF Keys
  <2> HIDE DEF T
  <2> QED BY <2>3, <2>4, <2>5, <2>6 DEF Less
<1>3. ASSUME NEW h \in Keys(m), NEW k \in Keys(m), NEW l \in Keys(m), Less(h, k), Less(k, l)
      PROVE  Less(h, l)
  <2>0. DOMAIN h = 1..m /\ DOMAIN k = 1..m
    BY DEF Keys
  <2>1. PICK i \in 1..m : h[i] < k[i] /\ \A j \in 1..(i - 1) : h[j] = k[j]
    BY <1>3, <2>0 DEF Less
  <2>2. PICK e \in 1..m : k[e] < l[e] /\ \A j \in 1..(e - 1) : k[j] = l[j]
    BY <1>3, <2>0 DEF Less
  <2>3. /\ h[i] \in Int /\ k[i] \in Int /\ l[i] \in Int
        /\ h[e] \in Int /\ k[e] \in Int /\ l[e] \in Int
    BY DEF Keys
  <2>4. CASE i <= e
    <3>1. h[i] < l[i]
      BY <2>1, <2>2, <2>3, <2>4
    <3>2. \A j \in 1..(i - 1) : h[j] = l[j]
      BY <2>1, <2>2, <2>4
    <3> QED BY <2>0, <3>1, <3>2 DEF Less
  <2>5. CASE e < i
    <3>1. h[e] < l[e]
      BY <2>1, <2>2, <2>3, <2>5
    <3>2. \A j \in 1..(e - 1) : h[j] = l[j]
      BY <2>1, <2>2, <2>5
    <3> QED BY <2>0, <3>1, <3>2 DEF Less
  <2> QED BY <2>4, <2>5
<1> QED BY <1>1, <1>2, <1>3

\* Among candidates with keys there is a first best one.
LEMMA FirstBestIn ==
  ASSUME NEW D, Orderly(D), D # {}, NEW m \in Nat, NEW key \in [D -> Keys(m)]
  PROVE  FirstBest(key) \in D
<1> DEFINE Beats(x, y) == Less(key[y], key[x]) \/ (key[y] = key[x] /\ Before(x, y))
           R == {p \in D \X D : Beats(p[1], p[2])}
<1>1. \A x, y \in D : <<x, y>> \in R <=> Beats(x, y)
  OBVIOUS
<1>2. \A x \in D : key[x] \in Keys(m)
  OBVIOUS
<1>3. /\ \A x \in D : ~Before(x, x)
      /\ \A x, y \in D : x # y => Before(x, y) \/ Before(y, x)
      /\ \A x, y, z \in D : Before(x, y) /\ Before(y, z) => Before(x, z)
  <2>1. \A x, y \in D : /\ Rank(x) \in Nat /\ Rank(y) \in Nat
                        /\ Before(x, y) <=> Rank(x) < Rank(y)
                        /\ Rank(x) = Rank(y) => x = y
    BY RankOrders
  <2> QED BY <2>1
<1>4. \A x \in D : ~Beats(x, x)
  BY <1>2, <1>3, LessOrders
<1>5. \A x, y \in D : x # y => Beats(x, y) \/ Beats(y, x)
  BY <1>2, <1>3, LessOrders
<1>6. ASSUME NEW x \in D, NEW y \in D, NEW z \in D, Beats(x, y), Beats(y, z) PROVE Beats(x, z)
  BY <1>2, <1>3, <1>6, LessOrders
<1>7. \E x \in D : \A y \in D \ {x} : <<x, y>> \in R
  <2> HIDE DEF R, Beats
  <2> QED BY <1>1, <1>4, <1>5, <1>6, FiniteMaximum, OrderlyFinite
<1>8. PICK x \in D : \A y \in D \ {x} : Beats(x, y)
  <2> HIDE DEF R, Beats
  <2> QED BY <1>1, <1>7
<1>9. DOMAIN key = D
  OBVIOUS
<1> QED BY <1>8, <1>9 DEF FirstBest

\* Two and three numbers are keys.
LEMMA KeysOf ==
  /\ \A a, b \in Int : <<a, b>> \in Keys(2)
  /\ \A a, b, c \in Int : <<a, b, c>> \in Keys(3)
  BY DEF Keys

-----------------------------------------------------------------------------
(* What a cluster is compared by.                                          *)

\* The best reward of records is a number.
LEMMA TopRewardTyped ==
  ASSUME NEW C, Orderly(C), C # {}
  PROVE  TopReward(C) \in Int
<1> DEFINE T == {r.out.reward : r \in C}
<1>1. T \in SUBSET (0..MaxReward) /\ T # {}
  <2>1. \A r \in C : r.out.reward \in 0..MaxReward
    BY OutcomeAssumption DEF Orderly
  <2> QED BY <2>1
<1>2. \E x \in T : \A y \in T : y <= x
  <2> HIDE DEF T
  <2> QED BY <1>1, RewardAssumption, GreatestElement
<1>3. PICK x \in T : \A y \in T : x >= y
  <2>1. \A x \in T : x \in Int
    <3> HIDE DEF T
    <3> QED BY <1>1, RewardAssumption
  <2> HIDE DEF T
  <2> QED BY <1>2, <2>1
<1>4. Max(T) \in T
  <2> HIDE DEF T
  <2> QED BY <1>3 DEF Max
<1> QED BY <1>1, <1>4, RewardAssumption DEF TopReward


\* The recursive function behind the sum of the priors of a set.
Any(s) == CHOOSE x \in s : TRUE
OnePrior(f, s) == IF s = {} THEN 0 ELSE Any(s).out.prior + f[s \ {Any(s)}]
IsSumming(f, C) == f = [s \in SUBSET C |-> OnePrior(f, s)]
Summing(C) == CHOOSE f : IsSumming(f, C)
LEMMA PriorSumIsSumming == \A C : PriorSum(C) = Summing(C)[C]
  BY DEF PriorSum, MapThenSumSet, MapThenFoldSet, Summing, IsSumming, OnePrior, Any

\* f adds up the priors of all parts of C with fewer than k records.
SumsBelow(f, C, k) == \A s \in SUBSET C : Cardinality(s) < k => f[s] = OnePrior(f, s)

\* One prior added to a sum is a number.
LEMMA OnePriorTyped ==
  ASSUME NEW C, Orderly(C), NEW f \in [SUBSET C -> Int], NEW s \in SUBSET C
  PROVE  /\ OnePrior(f, s) \in Int
         /\ s # {} => /\ Any(s) \in s /\ s \ {Any(s)} \in SUBSET C
                      /\ Cardinality(s) \in Nat /\ Cardinality(s \ {Any(s)}) \in Nat
                      /\ Cardinality(s \ {Any(s)}) < Cardinality(s)
<1>1. CASE s = {}
  BY <1>1 DEF OnePrior
<1>2. CASE s # {}
  <2>1. Any(s) \in s
    BY <1>2 DEF Any
  <2>2. Any(s).out.prior \in Nat
    BY <2>1, OutcomeAssumption DEF Orderly
  <2>3. f[s \ {Any(s)}] \in Int
    OBVIOUS
  <2>4. IsFiniteSet(s)
    BY OrderlyFinite, FS_Subset
  <2>5. /\ Cardinality(s) \in Nat /\ Cardinality(s \ {Any(s)}) \in Nat
        /\ Cardinality(s \ {Any(s)}) < Cardinality(s)
    BY <2>1, <2>4, FewerElements
  <2> QED BY <1>2, <2>1, <2>2, <2>3, <2>5 DEF OnePrior
<1> QED BY <1>1, <1>2

\* One record more can be added up.
LEMMA SumOneMore ==
  ASSUME NEW C, Orderly(C), NEW k \in Nat, NEW f \in [SUBSET C -> Int], SumsBelow(f, C, k)
  PROVE  \E g \in [SUBSET C -> Int] : SumsBelow(g, C, k + 1)
<1> DEFINE g == [s \in SUBSET C |-> IF Cardinality(s) = k THEN OnePrior(f, s) ELSE f[s]]
<1>1. g \in [SUBSET C -> Int]
  BY OnePriorTyped
<1>2. ASSUME NEW s \in SUBSET C, Cardinality(s) < k + 1 PROVE g[s] = OnePrior(g, s)
  <2>1. OnePrior(g, s) = OnePrior(f, s)
    <3>1. CASE s = {}
      BY <3>1 DEF OnePrior
    <3>2. CASE s # {}
      <4>1. s \ {Any(s)} \in SUBSET C /\ Cardinality(s \ {Any(s)}) # k
        <5> HIDE DEF g
        <5>1. /\ s \ {Any(s)} \in SUBSET C
              /\ Cardinality(s) \in Nat /\ Cardinality(s \ {Any(s)}) \in Nat
              /\ Cardinality(s \ {Any(s)}) < Cardinality(s)
          BY <3>2, OnePriorTyped
        <5> QED BY <1>2, <5>1
      <4>2. g[s \ {Any(s)}] = f[s \ {Any(s)}]
        BY <4>1
      <4> HIDE DEF g
      <4> QED BY <4>2 DEF OnePrior
    <3> QED BY <3>1, <3>2
  <2>2. Cardinality(s) \in Nat
    BY OrderlyFinite, FS_Subset, FS_CardinalityType
  <2>3. g[s] = IF Cardinality(s) = k THEN OnePrior(f, s) ELSE f[s]
    OBVIOUS
  <2>4. Cardinality(s) # k => f[s] = OnePrior(f, s)
    BY <1>2, <2>2 DEF SumsBelow
  <2> HIDE DEF g
  <2> QED BY <2>1, <2>3, <2>4
<1> HIDE DEF g
<1> QED BY <1>1, <1>2 DEF SumsBelow

\* The sum of the priors of a set of records is a number.
LEMMA PriorSumTyped ==
  ASSUME NEW C, Orderly(C)
  PROVE  PriorSum(C) \in Int
<1> DEFINE Bad == {i \in Nat : ~\E f \in [SUBSET C -> Int] : SumsBelow(f, C, i)}
<1>1. /\ IsFiniteSet(C) /\ Cardinality(C) \in Nat
      /\ \A s \in SUBSET C : Cardinality(s) \in Nat /\ Cardinality(s) <= Cardinality(C)
  BY OrderlyFinite, FS_Subset, FS_CardinalityType
<1>2. Bad = {}
  <2> SUFFICES ASSUME Bad # {} PROVE FALSE
    OBVIOUS
  <2>1. PICK i \in Bad : \A j \in Bad : i <= j
    <3>1. Bad \in SUBSET Nat
      OBVIOUS
    <3> HIDE DEF Bad
    <3> QED BY <3>1, LeastElement
  <2>2. i # 0
    <3>1. [s \in SUBSET C |-> 0] \in [SUBSET C -> Int]
      OBVIOUS
    <3>2. SumsBelow([s \in SUBSET C |-> 0], C, 0)
      BY <1>1 DEF SumsBelow
    <3> QED BY <3>1, <3>2
  <2>3. i - 1 \in Nat /\ i - 1 \notin Bad /\ (i - 1) + 1 = i
    <3>1. i \in Nat
      OBVIOUS
    <3> HIDE DEF Bad
    <3> QED BY <2>1, <2>2, <3>1
  <2>4. PICK f \in [SUBSET C -> Int] : SumsBelow(f, C, i - 1)
    BY <2>3
  <2>5. \E g \in [SUBSET C -> Int] : SumsBelow(g, C, (i - 1) + 1)
    <3> HIDE DEF Bad
    <3> QED BY <2>3, <2>4, SumOneMore
  <2> QED BY <2>3, <2>5
<1>3. PICK f \in [SUBSET C -> Int] : SumsBelow(f, C, Cardinality(C) + 1)
  <2>1. Cardinality(C) + 1 \in Nat
    BY <1>1
  <2> QED BY <1>2, <2>1
<1>4. IsSumming(f, C)
  <2>1. \A s \in SUBSET C : f[s] = OnePrior(f, s)
    BY <1>1, <1>3 DEF SumsBelow
  <2> QED BY <1>3, <2>1 DEF IsSumming
<1>5. IsSumming(Summing(C), C)
  BY <1>4 DEF Summing
<1> DEFINE h == Summing(C)
<1>6. h = [s \in SUBSET C |-> OnePrior(h, s)]
  BY <1>5 DEF IsSumming
<1> HIDE DEF h
<1>7. \A s \in SUBSET C : h[s] = OnePrior(h, s)
  BY <1>6
\* h may be another function than f: it returns numbers as the least part of C
\* for which it does not would be a sum over a smaller part.
<1> DEFINE Odd == {Cardinality(s) : s \in {t \in SUBSET C : h[t] \notin Int}}
<1>8. Odd = {}
  <2> SUFFICES ASSUME Odd # {} PROVE FALSE
    OBVIOUS
  <2>1. PICK k \in Odd : \A j \in Odd : k <= j
    <3>1. Odd \in SUBSET Nat
      BY <1>1
    <3> HIDE DEF Odd
    <3> QED BY <3>1, LeastElement
  <2>2. PICK s \in SUBSET C : h[s] \notin Int /\ k = Cardinality(s)
    BY <2>1
  <2>3. s # {}
    <3>1. h[s] = OnePrior(h, s)
      BY <1>7
    <3>2. s = {} => OnePrior(h, s) = 0
      BY DEF OnePrior
    <3> QED BY <2>2, <3>1, <3>2
  <2>4. /\ Any(s) \in s /\ s \ {Any(s)} \in SUBSET C
        /\ Cardinality(s) \in Nat /\ Cardinality(s \ {Any(s)}) \in Nat
        /\ Cardinality(s \ {Any(s)}) < Cardinality(s)
    BY <1>3, <2>3, OnePriorTyped
  <2>5. h[s \ {Any(s)}] \in Int
    <3> SUFFICES ASSUME h[s \ {Any(s)}] \notin Int PROVE FALSE
      OBVIOUS
    <3>1. Cardinality(s \ {Any(s)}) \in Odd
      BY <2>4
    <3>2. k <= Cardinality(s \ {Any(s)})
      BY <2>1, <3>1
    <3> QED BY <2>2, <2>4, <3>2
  <2>6. Any(s).out.prior \in Nat
    BY <2>4, OutcomeAssumption DEF Orderly
  <2>7. h[s] = Any(s).out.prior + h[s \ {Any(s)}]
    BY <1>7, <2>3 DEF OnePrior
  <2> QED BY <2>2, <2>5, <2>6, <2>7
<1>9. h[C] \in Int
  BY <1>8
<1> QED BY <1>9, PriorSumIsSumming DEF h

-----------------------------------------------------------------------------
(* The choices of FinalSelection.                                          *)

\* Clusters of records with objectives, under their leaders.
LEMMA ClustersShape ==
  ASSUME NEW S, Valued(S)
  PROVE  /\ DOMAIN Clusters(S) = Leaders(S)
         /\ \A l \in Leaders(S) : Clusters(S)[l] = Cluster(S, l)
  BY DEF Clusters

\* They are finite, not empty, and no larger than the whole.
LEMMA ClusterSizes ==
  ASSUME NEW S, Valued(S), NEW l \in Leaders(S)
  PROVE  /\ Orderly(Cluster(S, l)) /\ Cluster(S, l) # {} /\ IsFiniteSet(Cluster(S, l))
         /\ Cardinality(Cluster(S, l)) \in Nat /\ Cardinality(S) \in Nat
         /\ Cardinality(Cluster(S, l)) <= Cardinality(S)
<1>1. Orderly(S) /\ IsFiniteSet(S) /\ l \in Cluster(S, l) /\ Cluster(S, l) \subseteq S
  BY ClusterFacts, OrderlyFinite DEF Valued
<1>2. IsFiniteSet(Cluster(S, l)) /\ Cardinality(Cluster(S, l)) <= Cardinality(S)
  BY <1>1, FS_Subset
<1>3. Cardinality(Cluster(S, l)) \in Nat /\ Cardinality(S) \in Nat
  BY <1>1, <1>2, FS_CardinalityType
<1> QED BY <1>1, <1>2, <1>3, OrderlySubset

\* Some cluster is the largest.
LEMMA LargestExists ==
  ASSUME NEW S, Valued(S), S # {}
  PROVE  LargestClusters(Clusters(S)) # {}
<1> DEFINE T == {Cardinality(Cluster(S, l)) : l \in Leaders(S)}
<1>1. Cardinality(S) \in Nat
  BY OrderlyFinite, FS_CardinalityType DEF Valued
<1>2. T \in SUBSET (0..Cardinality(S)) /\ T # {}
  <2>1. \A l \in Leaders(S) : Cardinality(Cluster(S, l)) \in 0..Cardinality(S)
    BY <1>1, ClusterSizes
  <2>2. Leaders(S) # {}
    BY ClusterFacts
  <2> QED BY <2>1, <2>2
<1>3. PICK k \in T : \A j \in T : j <= k
  <2> HIDE DEF T
  <2> QED BY <1>1, <1>2, GreatestElement
<1>4. PICK l \in Leaders(S) : k = Cardinality(Cluster(S, l))
  BY <1>3
<1>5. \A m \in Leaders(S) : Cardinality(Cluster(S, m)) <= Cardinality(Cluster(S, l))
  BY <1>3, <1>4
<1> QED BY <1>4, <1>5, ClustersShape DEF LargestClusters

\* The chosen cluster is one of the largest.
LEMMA ChosenIsLargest ==
  ASSUME NEW S, Valued(S), S # {}
  PROVE  \E l \in LargestClusters(Clusters(S)) : ChosenCluster(Clusters(S)) = Cluster(S, l)
<1> DEFINE cs == Clusters(S)
           top == LargestClusters(cs)
           byPrior == Cardinality(top) > 1 /\ \A l \in top : Cardinality(cs[l]) > 2
           key == [l \in top |-> IF byPrior THEN <<PriorSum(cs[l]), TopReward(cs[l])>>
                                            ELSE <<TopReward(cs[l]), PriorSum(cs[l])>>]
<1>1. top # {} /\ top \subseteq Leaders(S) /\ Leaders(S) \subseteq S
  BY LargestExists, ClustersShape, LeaderFacts DEF LargestClusters, Valued
<1>2. ASSUME NEW l \in top PROVE /\ <<PriorSum(cs[l]), TopReward(cs[l])>> \in Keys(2)
                                 /\ <<TopReward(cs[l]), PriorSum(cs[l])>> \in Keys(2)
  <2>1. l \in Leaders(S) /\ cs[l] = Cluster(S, l)
    BY <1>1, ClustersShape
  <2>2. PriorSum(cs[l]) \in Int /\ TopReward(cs[l]) \in Int
    BY <2>1, ClusterSizes, PriorSumTyped, TopRewardTyped
  <2> HIDE DEF cs, top
  <2> QED BY <2>2, KeysOf
<1>3. key \in [top -> Keys(2)]
  <2> HIDE DEF cs, top, byPrior
  <2> QED BY <1>2
<1>4. FirstBest(key) \in top
  <2>1. Orderly(top)
    BY <1>1, OrderlySubset DEF Valued
  <2> HIDE DEF key, top
  <2> QED BY <1>1, <1>3, <2>1, FirstBestIn
<1>5. ChosenCluster(cs) = cs[FirstBest(key)]
  BY DEF ChosenCluster
<1>6. cs[FirstBest(key)] = Cluster(S, FirstBest(key))
  <2> HIDE DEF key, top
  <2> QED BY <1>1, <1>4, ClustersShape
<1> HIDE DEF key
<1> QED BY <1>4, <1>5, <1>6

\* How often a record's node was visited is a number.
LEMMA NodeVisitsTyped ==
  ASSUME TypeInv, NEW S, Orderly(S), NEW r \in S
  PROVE  NodeVisits(r) \in Int
<1>1. visits \in [Node -> Nat] /\ r.node \in Node /\ Unit \in Nat /\ Unit > 0
  BY RewardAssumption DEF TypeInv, TypeOK, TreeOK, Orderly
<1> QED BY <1>1 DEF NodeVisits

\* A search that ends with records in scale answers with one of them: with any if no two
\* agree, else with one of the chosen cluster.
LEMMA ExhaustiveChoiceIn ==
  ASSUME TypeInv, NEW S, Valued(S), S # {}
  PROVE  /\ ExhaustiveChoice(S) \in S
         /\ (\E l \in Leaders(S) : Cardinality(Cluster(S, l)) # 1) =>
              ExhaustiveChoice(S) \in ChosenCluster(Clusters(S))
<1> DEFINE cs == Clusters(S)
           single == \A l \in DOMAIN cs : Cardinality(cs[l]) = 1
           all == [r \in S |-> <<r.out.prior, r.out.reward, NodeVisits(r)>>]
           chosen == [r \in ChosenCluster(cs) |-> <<NodeVisits(r), r.out.reward, r.out.prior>>]
<1>1. ASSUME NEW r \in S PROVE /\ <<r.out.prior, r.out.reward, NodeVisits(r)>> \in Keys(3)
                               /\ <<NodeVisits(r), r.out.reward, r.out.prior>> \in Keys(3)
  <2>1. r.out.prior \in Int /\ r.out.reward \in Int
    BY OutcomeAssumption, RewardAssumption DEF Valued, Orderly
  <2>2. NodeVisits(r) \in Int
    BY NodeVisitsTyped DEF Valued
  <2> QED BY <2>1, <2>2, KeysOf
<1>2. ExhaustiveChoice(S) = IF single THEN FirstBest(all) ELSE FirstBest(chosen)
  BY DEF ExhaustiveChoice
<1>3. FirstBest(all) \in S
  <2>1. all \in [S -> Keys(3)]
    BY <1>1
  <2> HIDE DEF all
  <2> QED BY <2>1, FirstBestIn DEF Valued
<1>4. /\ ChosenCluster(cs) # {} /\ ChosenCluster(cs) \subseteq S /\ Orderly(ChosenCluster(cs))
  <2>1. PICK l \in LargestClusters(cs) : ChosenCluster(cs) = Cluster(S, l)
    BY ChosenIsLargest
  <2>2. l \in Leaders(S)
    BY <2>1, ClustersShape DEF LargestClusters
  <2> QED BY <2>1, <2>2, ClusterSizes, ClusterFacts
<1>5. FirstBest(chosen) \in ChosenCluster(cs)
  <2>1. chosen \in [ChosenCluster(cs) -> Keys(3)]
    BY <1>1, <1>4
  <2> HIDE DEF chosen, cs
  <2> QED BY <1>4, <2>1, FirstBestIn
<1>6. single <=> \A l \in Leaders(S) : Cardinality(Cluster(S, l)) = 1
  BY ClustersShape
<1> HIDE DEF single, all, chosen
<1> QED BY <1>2, <1>3, <1>4, <1>5, <1>6

-----------------------------------------------------------------------------
(* The records of a search.                                                *)

\* Nodes and repairs of one iteration are told apart: nodes by their number, and the
\* repair flow appends one record only.
LEMMA RecordsOrderly ==
  ASSUME TypeInv, RepairInv
  PROVE  Orderly(AllRecords)
<1>1. /\ iter \in 0..MaxIterations /\ MaxIterations \in Nat /\ n \in Nat
      /\ 1..n \subseteq Node /\ Root \in Node /\ \A x \in 1..n : x # Root
  <2>1. n \in Nat /\ 1..n \subseteq Node /\ Root \in Node
    BY CreatedAreNodes, NodesAreNaturals DEF Created
  <2> QED BY <2>1, SizeAssumption DEF TypeInv, TypeOK, LoopOK, Root
<1>2. ASSUME NEW r \in AllRecords
      PROVE  /\ r.iter \in 0..MaxIterations /\ r.node \in Node /\ r.out \in Outcomes
             /\ \/ r.node \in 1..n /\ r = [iter |-> r.iter, stage |-> stage[r.node], node |-> r.node,
                                           out |-> result[r.node]]
                \/ /\ r.node = Root
                   /\ \E q \in repaired : q.iter = r.iter /\
                        r = [iter |-> r.iter, stage |-> NumStages, node |-> Root, out |-> q.out]
  <2>1. PICK i \in 0..iter : r \in RecordsOf(i)
    BY DEF AllRecords
  <2>2. i \in 0..MaxIterations
    BY <1>1
  <2>3. CASE \E x \in 1..n : r = [iter |-> i, stage |-> stage[x], node |-> x, out |-> result[x]]
    <3>1. PICK x \in 1..n : r = [iter |-> i, stage |-> stage[x], node |-> x, out |-> result[x]]
      BY <2>3
    <3>2. result[x] \in Outcomes
      BY DEF TypeInv, TypeOK, TreeOK
    <3> QED BY <1>1, <2>2, <3>1, <3>2
  <2>4. CASE \E q \in repaired : q.iter = i /\ r = [iter |-> i, stage |-> NumStages, node |-> Root, out |-> q.out]
    <3>1. PICK q \in repaired :
            q.iter = i /\ r = [iter |-> i, stage |-> NumStages, node |-> Root, out |-> q.out]
      BY <2>4
    <3>2. q.out \in Outcomes
      BY DEF TypeInv, TypeOK, FlowOK
    <3> QED BY <1>1, <2>2, <3>1, <3>2
  <2> QED BY <2>1, <2>3, <2>4 DEF RecordsOf
<1>3. ASSUME NEW r \in AllRecords, NEW s \in AllRecords, r.iter = s.iter, r.node = s.node PROVE r = s
  <2>1. CASE r.node = Root
    <3>1. PICK q \in repaired :
            q.iter = r.iter /\ r = [iter |-> r.iter, stage |-> NumStages, node |-> Root, out |-> q.out]
      BY <1>1, <1>2, <2>1
    <3>2. PICK p \in repaired :
            p.iter = s.iter /\ s = [iter |-> s.iter, stage |-> NumStages, node |-> Root, out |-> p.out]
      BY <1>1, <1>2, <1>3, <2>1
    <3>3. p = q
      BY <1>3, <3>1, <3>2 DEF RepairInv
    <3> QED BY <1>3, <3>1, <3>2, <3>3
  <2>2. CASE r.node # Root
    <3>1. r = [iter |-> r.iter, stage |-> stage[r.node], node |-> r.node, out |-> result[r.node]]
      BY <1>2, <2>2
    <3>2. s = [iter |-> s.iter, stage |-> stage[s.node], node |-> s.node, out |-> result[s.node]]
      BY <1>2, <1>3, <2>2
    <3>3. s = [iter |-> r.iter, stage |-> stage[r.node], node |-> r.node, out |-> result[r.node]]
      BY <1>3, <3>2
    <3> QED BY <3>1, <3>3
  <2> QED BY <2>1, <2>2
<1> QED BY <1>2, <1>3 DEF Orderly

\* So are those with an objective, and those on the reference scale.
LEMMA ChosenFromValued ==
  ASSUME TypeInv, RepairInv
  PROVE  /\ Valued(HasObj(AllRecords)) /\ Valued(InScale(AllRecords))
         /\ InScale(AllRecords) \subseteq HasObj(AllRecords)
<1>1. HasObj(AllRecords) \subseteq AllRecords /\ InScale(AllRecords) \subseteq HasObj(AllRecords)
  BY DEF HasObj, InScale
<1>2. /\ HasObj(HasObj(AllRecords)) = HasObj(AllRecords)
      /\ HasObj(InScale(AllRecords)) = InScale(AllRecords)
  BY DEF HasObj, InScale
<1>3. Orderly(HasObj(AllRecords)) /\ Orderly(InScale(AllRecords))
  BY <1>1, RecordsOrderly, OrderlySubset
<1> QED BY <1>1, <1>2, <1>3 DEF Valued

-----------------------------------------------------------------------------
(* A majority wins.                                                        *)

\* A cluster that holds more than half of the records is the one largest cluster.
LEMMA MajorityIsLargest ==
  ASSUME NEW S, Valued(S), NEW l \in Leaders(S), 2 * Cardinality(Cluster(S, l)) > Cardinality(S)
  PROVE  LargestClusters(Clusters(S)) = {l}
<1>1. IsFiniteSet(S) /\ Cardinality(S) \in Nat
  BY ClusterSizes, OrderlyFinite DEF Valued
<1>2. ASSUME NEW m \in Leaders(S), m # l PROVE Cardinality(Cluster(S, m)) < Cardinality(Cluster(S, l))
  <2>1. Cluster(S, l) \cap Cluster(S, m) = {} /\ Cluster(S, l) \subseteq S /\ Cluster(S, m) \subseteq S
    BY <1>2, ClusterFacts
  <2>2. ~(Cardinality(Cluster(S, l)) + Cardinality(Cluster(S, m)) > Cardinality(S))
    BY <1>1, <2>1, FS_MajoritiesIntersect
  <2>3. Cardinality(Cluster(S, l)) \in Nat /\ Cardinality(Cluster(S, m)) \in Nat
    BY ClusterSizes
  <2> QED BY <1>1, <2>2, <2>3
<1>3. Cardinality(Cluster(S, l)) \in Nat /\ \A m \in Leaders(S) : Cardinality(Cluster(S, m)) \in Nat
  BY ClusterSizes
<1>4. LargestClusters(Clusters(S)) =
        {k \in Leaders(S) : \A m \in Leaders(S) : Cardinality(Cluster(S, m)) <= Cardinality(Cluster(S, k))}
  BY ClustersShape DEF LargestClusters
<1>5. \A k \in Leaders(S) :
        (\A m \in Leaders(S) : Cardinality(Cluster(S, m)) <= Cardinality(Cluster(S, k))) <=> k = l
  BY <1>2, <1>3
<1> QED BY <1>4, <1>5

\* The answer has an objective that is at most two tolerances from that of more than half
\* of the records.
LEMMA MajorityAnswer ==
  ASSUME TypeInv, NEW S, Valued(S), NEW x \in S,
         2 * Cardinality({r \in S : r.out.obj = x.out.obj}) > Cardinality(S)
  PROVE  /\ ExhaustiveChoice(S).out.obj # NoObj
         /\ ExhaustiveChoice(S).out.obj - x.out.obj \in -(2 * Tol)..(2 * Tol)
<1> DEFINE V == {r \in S : r.out.obj = x.out.obj}
           a == ExhaustiveChoice(S)
<1>1. PICK l \in Leaders(S) : x \in Cluster(S, l)
  BY ClusterFacts
<1>2. V \subseteq Cluster(S, l)
  BY <1>1, ClusterFacts
<1>3. /\ IsFiniteSet(Cluster(S, l)) /\ Cardinality(Cluster(S, l)) \in Nat /\ Cardinality(S) \in Nat
      /\ Cardinality(Cluster(S, l)) <= Cardinality(S)
  BY ClusterSizes
<1>4. IsFiniteSet(V) /\ Cardinality(V) \in Nat /\ Cardinality(V) <= Cardinality(Cluster(S, l))
  <2> HIDE DEF V
  <2> QED BY <1>2, <1>3, FS_Subset, FS_CardinalityType
<1>5. 2 * Cardinality(Cluster(S, l)) > Cardinality(S)
  <2>1. 2 * Cardinality(V) > Cardinality(S)
    OBVIOUS
  <2> HIDE DEF V
  <2> QED BY <1>3, <1>4, <2>1
<1>6. a \in S
  BY ExhaustiveChoiceIn
<1>7. x.out.obj \in Int /\ a.out.obj \in Int /\ a.out.obj # NoObj /\ Tol \in Nat
  BY <1>6, MatchFacts, RewardAssumption
<1>8. a \in Cluster(S, l) \/ a = x
  <2>1. CASE Cardinality(Cluster(S, l)) = 1
    <3>1. Cardinality(S) = 1
      BY <1>3, <1>5, <2>1
    <3>2. \E y : S = {y}
      BY <3>1, OrderlyFinite, FS_Singleton DEF Valued
    <3> QED BY <1>6, <3>2
  <2>2. CASE Cardinality(Cluster(S, l)) # 1
    <3>1. a \in ChosenCluster(Clusters(S))
      BY <2>2, ExhaustiveChoiceIn
    <3>2. ChosenCluster(Clusters(S)) = Cluster(S, l)
      BY <1>5, ChosenIsLargest, MajorityIsLargest
    <3> QED BY <3>1, <3>2
  <2> QED BY <2>1, <2>2
<1>9. CASE a = x
  BY <1>7, <1>9
<1>10. CASE a \in Cluster(S, l)
  <2>1. SameObj(a.out, l.out) /\ SameObj(x.out, l.out) /\ l \in S
    BY <1>1, <1>10, ClusterFacts DEF Cluster
  <2>2. /\ a.out.obj - l.out.obj <= Tol /\ l.out.obj - a.out.obj <= Tol
        /\ x.out.obj - l.out.obj <= Tol /\ l.out.obj - x.out.obj <= Tol
        /\ l.out.obj \in Int
    BY <1>6, <2>1, MatchFacts
  <2>3. a.out.obj # NoObj /\ a.out.obj - x.out.obj \in -(2 * Tol)..(2 * Tol)
    <3> HIDE DEF a
    <3> QED BY <1>7, <2>2
  <2> QED BY <2>3
<1> QED BY <1>8, <1>9, <1>10

\* What is proved of a search holds with its log beside it.
LEMMA LoggedSearch == LoggedSpec => Spec
<1>1. LoggedInit => Init
  BY DEF LoggedInit
<1>2. [LoggedNext]_<<vars, logged>> => [Next]_vars
  BY DEF LoggedNext
<1> QED BY <1>1, <1>2, PTL DEF LoggedSpec, Spec

\* An objective that most of the records in scale report wins, whatever order the records
\* came in (_choose_for_exhaustive_stop, _cluster_records_by_obj).
THEOREM MajorityObjectiveWins == LoggedSpec => []MajorityWins
<1>1. TypeInv /\ OutcomeInv => MajorityWins
  <2> SUFFICES ASSUME TypeInv, RepairInv, Exhausted, NEW x \in InScale(AllRecords),
                      2 * Cardinality({r \in InScale(AllRecords) : r.out.obj = x.out.obj})
                        > Cardinality(InScale(AllRecords))
               PROVE  /\ Answer.out.obj # NoObj
                      /\ Answer.out.obj - x.out.obj \in -(2 * Tol)..(2 * Tol)
    BY DEF MajorityWins, OutcomeInv
  <2>1. Valued(InScale(AllRecords))
    BY ChosenFromValued
  <2>2. Answer = ExhaustiveChoice(InScale(AllRecords))
    BY DEF Answer, ScaleRecords
  <2> QED BY <2>1, <2>2, MajorityAnswer
<1> QED BY <1>1, LoggedSearch, OutcomeInvariant, PTL

-----------------------------------------------------------------------------
(* An answer without an objective.                                         *)

\* Of records among which no three contradict each other some cluster qualifies: there are two
\* clusters at most, and the larger holds half.
LEMMA SomeClusterQualifies ==
  ASSUME NEW S, Valued(S), S # {},
         ~\E q, r, s \in S : ~SameObj(q.out, r.out) /\ ~SameObj(r.out, s.out) /\ ~SameObj(q.out, s.out)
  PROVE  QualifiedLeaders(S) # {}
<1>1. PICK l \in LargestClusters(Clusters(S)) : TRUE
  BY LargestExists
<1>2. /\ l \in Leaders(S) /\ Leaders(S) \subseteq S
      /\ \A m \in Leaders(S) : Cardinality(Cluster(S, m)) <= Cardinality(Cluster(S, l))
  BY <1>1, ClustersShape, LeaderFacts DEF LargestClusters, Valued
<1>3. \E m \in Leaders(S) : Leaders(S) \subseteq {l, m}
  <2> SUFFICES ASSUME NEW m \in Leaders(S) \ {l}, NEW k \in Leaders(S) \ {l, m} PROVE FALSE
    BY <1>2
  <2>1. ~SameObj(l.out, m.out) /\ ~SameObj(m.out, k.out) /\ ~SameObj(l.out, k.out)
    BY <1>2, ClusterFacts
  <2> QED BY <1>2, <2>1
<1>4. PICK m \in Leaders(S) : Leaders(S) \subseteq {l, m}
  BY <1>3
<1>5. S = Cluster(S, l) \cup Cluster(S, m)
  BY <1>2, <1>4, ClusterFacts
<1>6. /\ IsFiniteSet(Cluster(S, l)) /\ IsFiniteSet(Cluster(S, m))
      /\ Cardinality(Cluster(S, l)) \in Nat /\ Cardinality(Cluster(S, m)) \in Nat /\ Cardinality(S) \in Nat
  BY <1>2, ClusterSizes
<1>7. Cardinality(S) <= Cardinality(Cluster(S, l)) + Cardinality(Cluster(S, m))
  <2> DEFINE C == Cluster(S, l)
             D == Cluster(S, m)
  <2>1. Cardinality(C \cup D) = Cardinality(C) + Cardinality(D) - Cardinality(C \cap D)
    <3> HIDE DEF C, D
    <3> QED BY <1>6, FS_Union DEF C, D
  <2>2. Cardinality(C \cap D) \in Nat
    <3> HIDE DEF C, D
    <3> QED BY <1>6, FS_Intersection, FS_CardinalityType DEF C, D
  <2>3. Cardinality(S) = Cardinality(C \cup D)
    BY <1>5
  <2> HIDE DEF C, D
  <2> QED BY <1>6, <2>1, <2>2, <2>3 DEF C, D
<1>8. 5 * Cardinality(Cluster(S, l)) >= 2 * Cardinality(S)
  BY <1>2, <1>6, <1>7
<1> QED BY <1>2, <1>8, ClustersShape DEF QualifiedLeaders, Qualified

\* The consensus among them is one of their clusters.
LEMMA ConsensusIsCluster ==
  ASSUME NEW S, Valued(S), QualifiedLeaders(S) # {}
  PROVE  \E l \in Leaders(S) : ConsensusCluster(S) = Cluster(S, l)
<1> DEFINE cs == Clusters(S)
           Q == QualifiedLeaders(S)
           key == [l \in Q |-> <<Cardinality(cs[l]), TopReward(cs[l])>>]
<1>1. Q \subseteq Leaders(S) /\ Leaders(S) \subseteq S
  BY ClustersShape, LeaderFacts DEF QualifiedLeaders, Valued
<1>2. ASSUME NEW l \in Q PROVE <<Cardinality(cs[l]), TopReward(cs[l])>> \in Keys(2)
  <2>1. l \in Leaders(S) /\ cs[l] = Cluster(S, l)
    BY <1>1, ClustersShape
  <2>2. Cardinality(cs[l]) \in Int /\ TopReward(cs[l]) \in Int
    BY <2>1, ClusterSizes, TopRewardTyped
  <2> HIDE DEF cs
  <2> QED BY <2>2, KeysOf
<1>3. FirstBest(key) \in Q
  <2>1. key \in [Q -> Keys(2)]
    <3> HIDE DEF cs, Q
    <3> QED BY <1>2
  <2>2. Orderly(Q)
    BY <1>1, OrderlySubset DEF Valued
  <2> HIDE DEF key
  <2> QED BY <2>1, <2>2, FirstBestIn
<1>4. ConsensusCluster(S) = cs[FirstBest(key)]
  BY DEF ConsensusCluster
<1> HIDE DEF key
<1> QED BY <1>1, <1>3, <1>4, ClustersShape

\* The best record of some is one of them.
LEMMA BestRecordIn ==
  ASSUME NEW S, Orderly(S), S # {}
  PROVE  BestRecord(S) \in S
<1> DEFINE T == IF ScalePreference /\ InScale(S) # {} THEN InScale(S) ELSE S
<1>1. T \subseteq S /\ T # {}
  BY DEF InScale, HasObj
<1>2. Orderly(T)
  <2> HIDE DEF T
  <2> QED BY <1>1, OrderlySubset
<1>3. RewardThenPrior(T) \in [T -> Keys(2)]
  <2>1. \A r \in T : r.out.reward \in Int /\ r.out.prior \in Int
    <3> HIDE DEF T
    <3> QED BY <1>2, OutcomeAssumption, RewardAssumption DEF Orderly
  <2> HIDE DEF T
  <2> QED BY <2>1, KeysOf DEF RewardThenPrior
<1>4. FirstBest(RewardThenPrior(T)) \in T
  <2> HIDE DEF T
  <2> QED BY <1>1, <1>2, <1>3, FirstBestIn
<1>5. BestRecord(S) = FirstBest(RewardThenPrior(T))
  BY DEF BestRecord
<1> QED BY <1>1, <1>4, <1>5

\* A search that found objectives answers without one only if three of them contradict each
\* other (_resolve_best_trajectory and its fallbacks).
THEOREM SilenceNeedsContradiction == LoggedSpec => []SilenceMeansContradiction
<1>1. TypeInv /\ OutcomeInv => SilenceMeansContradiction
  <2> DEFINE E == HasObj(AllRecords)
  <2> SUFFICES ASSUME TypeInv, RepairInv, Exhausted, E # {},
                      ~\E q, r, s \in E : /\ ~SameObj(q.out, r.out) /\ ~SameObj(r.out, s.out)
                                          /\ ~SameObj(q.out, s.out)
               PROVE  Answer.out.obj # NoObj
    BY DEF SilenceMeansContradiction, OutcomeInv
  <2>1. Valued(E) /\ Valued(InScale(AllRecords)) /\ InScale(AllRecords) \subseteq E
    BY ChosenFromValued
  <2>2. \A r \in E : r.out.obj # NoObj /\ r.out.effective
    <3> HIDE DEF E
    <3> QED BY <2>1, MatchFacts
  <2>3. CASE ScaleRecords # {}
    <3>1. Answer = ExhaustiveChoice(InScale(AllRecords))
      BY <2>3 DEF Answer, ScaleRecords
    <3>2. Answer \in E
      BY <2>1, <2>3, <3>1, ExhaustiveChoiceIn DEF ScaleRecords
    <3> QED BY <2>2, <3>2
  <2>4. CASE ScaleRecords = {}
    <3>1. QualifiedLeaders(E) # {}
      <4> HIDE DEF E
      <4> QED BY <2>1, SomeClusterQualifies
    <3>2. {r \in HasObj(AllRecords) : r.out.effective} = E
      BY <2>2
    <3>3. Answer = FallbackAnswer
      BY <2>4 DEF Answer
    <3>4. FallbackAnswer = BestRecord(ConsensusCluster(E))
      <4> HIDE DEF E
      <4> QED BY <3>1, <3>2 DEF FallbackAnswer
    <3>5. PICK l \in Leaders(E) : ConsensusCluster(E) = Cluster(E, l)
      <4> HIDE DEF E
      <4> QED BY <2>1, <3>1, ConsensusIsCluster
    <3>6. Orderly(Cluster(E, l)) /\ Cluster(E, l) # {} /\ Cluster(E, l) \subseteq E
      <4> HIDE DEF E
      <4> QED BY <2>1, ClusterSizes, ClusterFacts
    <3>7. Answer \in E
      BY <3>3, <3>4, <3>5, <3>6, BestRecordIn
    <3> QED BY <2>2, <3>7
  <2> QED BY <2>3, <2>4
<1> QED BY <1>1, LoggedSearch, OutcomeInvariant, PTL
=============================================================================
