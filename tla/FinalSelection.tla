--------------------------- MODULE FinalSelection ---------------------------
(***************************************************************************)
(* The answer of a search: FourStageMCTS._resolve_best_trajectory and what *)
(* it calls, applied to whatever tree and records the search ends with.    *)
(*                                                                         *)
(* A stop that names a trajectory returns it.  A search that merely ran    *)
(* out of iterations or leaves looks for agreement among its records:      *)
(* first among those whose objective is on the scale of the reference run, *)
(* then among all that have one, and in the end takes the best reward.     *)
(***************************************************************************)
EXTENDS FourStageMCTS, FiniteSetsExt

CONSTANT ScalePreference    \* final_select_obj_scale_preference

VARIABLE logged    \* the last iteration of iteration_logs, -1: there is none

\* What the search appends to iteration_logs: deferred CODE entries, groups
\* that were expanded, and CODE groups of which nothing was kept.
LogsIteration ==
  \/ pc = "gate" /\ ~EnoughAttempts
  \/ pc = "rollout" /\ (n' > n \/ EntersCode(selected))

LoggedInit == Init /\ logged = -1

LoggedNext == Next /\ logged' = IF LogsIteration THEN iter ELSE logged

LoggedSpec == LoggedInit /\ [][LoggedNext]_<<vars, logged>>
-----------------------------------------------------------------------------
(* Orders.                                                                 *)

Less(k, l) ==
  \E i \in DOMAIN k : k[i] < l[i] /\ \A j \in 1..(i - 1) : k[j] = l[j]

\* max, and the head of a list sorted downwards: the first of the greatest.
\* The keys are given as a function of the candidates.
FirstBest(key) ==
  CHOOSE r \in DOMAIN key : \A s \in DOMAIN key \ {r} :
    Less(key[s], key[r]) \/ (key[s] = key[r] /\ Before(r, s))

RewardThenPrior(S) == [r \in S |-> <<r.out.reward, r.out.prior>>]
-----------------------------------------------------------------------------
(* Records and their agreement.                                            *)

AllRecords == UNION {RecordsOf(i) : i \in 0..iter}

HasObj(S) == {r \in S : r.out.obj # NoObj}

\* _record_obj_in_expanded_scale
InScale(S) == {r \in HasObj(S) : r.out.inScale}

\* _node_visits_from_root truncates; a record of the repair flow has no node.
NodeVisits(r) == IF r.node = Root THEN 0 ELSE visits[r.node] \div Unit

\* The clusters of _cluster_records_by_obj, each under its leader.
Clusters(S) == [l \in Leaders(S) |-> Cluster(S, l)]

TopReward(C) == Max({r.out.reward : r \in C})
PriorSum(C) == MapThenSumSet(LAMBDA r : r.out.prior, C)
-----------------------------------------------------------------------------
(* The choices.                                                            *)

\* Mutation: the cluster with the best reward, whatever its size.
MutantLargestClusters(cs) == DOMAIN cs

LargestClusters(cs) ==
  {l \in DOMAIN cs : \A m \in DOMAIN cs : Cardinality(cs[m]) <= Cardinality(cs[l])}

\* Clusters of one size compare by their average prior as by its sum.
ChosenCluster(cs) ==
  LET top == LargestClusters(cs)
      byPrior == Cardinality(top) > 1 /\ \A l \in top : Cardinality(cs[l]) > 2
  IN  cs[FirstBest([l \in top |-> IF byPrior THEN <<PriorSum(cs[l]), TopReward(cs[l])>>
                                             ELSE <<TopReward(cs[l]), PriorSum(cs[l])>>])]

\* _choose_for_exhaustive_stop, of the records in scale
ExhaustiveChoice(S) ==
  LET cs == Clusters(S)
  IN  IF \A l \in DOMAIN cs : Cardinality(cs[l]) = 1
      THEN FirstBest([r \in S |-> <<r.out.prior, r.out.reward, NodeVisits(r)>>])
      ELSE FirstBest([r \in ChosenCluster(cs) |->
                        <<NodeVisits(r), r.out.reward, r.out.prior>>])

\* Mutation: agreement takes more than half of the records.
MutantQualified(C, S) == 2 * Cardinality(C) > Cardinality(S)

\* ratio >= 0.4
Qualified(C, S) == 5 * Cardinality(C) >= 2 * Cardinality(S)

QualifiedLeaders(S) ==
  LET cs == Clusters(S) IN {l \in DOMAIN cs : Qualified(cs[l], S)}

\* Of all records that ran to an effective end: the largest of those clusters.
ConsensusCluster(S) ==
  LET cs == Clusters(S)
  IN  cs[FirstBest([l \in QualifiedLeaders(S) |-> <<Cardinality(cs[l]), TopReward(cs[l])>>])]

\* _pick_with_obj_scale_preference, of records sorted by reward and prior
BestRecord(S) ==
  FirstBest(RewardThenPrior(IF ScalePreference /\ InScale(S) # {} THEN InScale(S) ELSE S))

\* The chain of fallbacks of a search that ends without naming a trajectory.
FallbackAnswer ==
  LET effective == {r \in HasObj(AllRecords) : r.out.effective}
      last == {r \in AllRecords : r.iter = logged}
  IN  IF QualifiedLeaders(effective) # {} THEN BestRecord(ConsensusCluster(effective))
      ELSE IF last # {} THEN BestRecord(last)
      ELSE IF AllRecords # {} THEN BestRecord(AllRecords)
      ELSE None

Exhausted == pc = "done" /\ stop.reason \in {"max_iterations", "no_expandable_leaf"}

ScaleRecords == InScale(AllRecords)

\* best_trajectory of a search that is done
Answer ==
  IF ~Exhausted THEN CHOOSE r \in StopRecords : TRUE
  ELSE IF ScaleRecords # {} THEN ExhaustiveChoice(ScaleRecords)
  ELSE FallbackAnswer
-----------------------------------------------------------------------------
(* Properties.                                                             *)

\* An objective that most of the records in scale report exactly wins: greedy
\* clusters split neighbours, never equal values, so the answer is at most the
\* width of two tolerances away, whatever order the records came in.
MajorityWins ==
  Exhausted =>
    LET S == InScale(AllRecords)
        answer == Answer.out.obj
    IN  \A v \in {r.out.obj : r \in S} :
          2 * Cardinality({r \in S : r.out.obj = v}) > Cardinality(S) =>
            answer # NoObj /\ answer - v \in -(2 * Tol)..(2 * Tol)

\* A search that found objectives answers without one only if at least three
\* of them contradict each other.
SilenceMeansContradiction ==
  LET E == HasObj(AllRecords)
  IN  Exhausted /\ E # {} /\ Answer.out.obj = NoObj =>
        \E q, r, s \in E : ~SameObj(q.out, r.out) /\ ~SameObj(r.out, s.out) /\ ~SameObj(q.out, s.out)
=============================================================================
