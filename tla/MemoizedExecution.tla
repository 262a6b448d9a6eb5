------------------------- MODULE MemoizedExecution -------------------------
(***************************************************************************)
(* What the execution cache of one task promises its scoring groups        *)
(* (src/verl/trainer/staror_runtime/reward/default_reward.py, _execute):   *)
(* a program is given one result, whichever run produced it, and every     *)
(* trajectory with that program is told this result, however many workers  *)
(* run it at the same time.                                                *)
(***************************************************************************)
CONSTANTS Programs, Groups, Results, None

VARIABLES
  jobs,     \* the programs of the trajectories being scored
  answer,   \* what each trajectory has been told, or None
  memo      \* the result a program was given, or None

Init ==
  /\ jobs = << >> /\ answer = << >>
  /\ memo = [p \in Programs |-> None]

\* A new group of trajectories asks, once the previous one is answered.
Ask(g) ==
  /\ \A i \in DOMAIN answer : answer[i] # None
  /\ jobs' = g
  /\ answer' = [i \in DOMAIN g |-> None]
  /\ UNCHANGED memo

\* A trajectory is told its program's result; the first one to be told fixes it.
Answer(i, r) ==
  /\ i \in DOMAIN jobs /\ answer[i] = None
  /\ memo[jobs[i]] \in {None, r}
  /\ memo' = [memo EXCEPT ![jobs[i]] = r]
  /\ answer' = [answer EXCEPT ![i] = r]
  /\ UNCHANGED jobs

Next ==
  \/ \E g \in Groups : Ask(g)
  \/ \E i \in DOMAIN jobs, r \in Results : Answer(i, r)

Spec == Init /\ [][Next]_<<jobs, answer, memo>>
=============================================================================
