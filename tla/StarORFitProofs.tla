-------------------------- MODULE StarORFitProofs --------------------------
(***************************************************************************)
(* Proofs about StarORFit, for any samples, settings, failures of resets   *)
(* and number of crashes.                                                  *)
(***************************************************************************)
EXTENDS StarORFit, FiniteSetTheorems, TLAPS

-----------------------------------------------------------------------------
(* The invariant.                                                          *)

InTask == {"search", "learn", "sync", "save", "result", "write", "end"}
Running == InTask \cup {"next", "done"}

\* What the task's steps may still cost: it has its groups left, and each
\* sample behind it a whole task.
StepsLeft ==
  BudgetFor(todo) + (IF pc \in {"search", "learn", "sync"} THEN MaxIterations - groups ELSE 0)

BudgetInv ==
  /\ pc \in InTask \cup {"next"} => steps + StepsLeft <= budget
  /\ pc = "done" => todo = {}

\* How far the files of the task are, and that nothing of a sample that still
\* has to run is there.
FilesInv ==
  /\ TraceBeforeResult
  /\ pc \in Running => \A s \in todo : result[s] = "absent"
  /\ pc \in InTask => task \notin todo
  /\ pc \in {"search", "learn", "sync", "save", "result"} => result[task] = "absent"
  /\ pc \in {"result", "write", "end"} => trace[task] = "whole"
  /\ pc = "write" => result[task] = "partial"

\* Where an adapter can have been trained.
AdapterInv ==
  /\ pc \in InTask /\ pc # "end" => \A s \in actor : s \notin todo
  /\ pc \in {"next", "done", "end"} => \A s \in actor : s \notin todo
  /\ pc \in InTask \cup {"next"} /\ config.resets /\ ~swallowed =>
       IF pc = "next" THEN actor = {} /\ rollout = {}
       ELSE actor \subseteq {task} /\ rollout \subseteq {task}
  /\ pc \in {"search", "learn"} /\ task \in actor => rollout = actor
  /\ LeakNeedsFailedReset
  /\ OnPolicyOnceLearned

FitInv == TypeOK /\ BudgetInv /\ FilesInv /\ AdapterInv
-----------------------------------------------------------------------------
(* Budgets.  Below, BudgetFor is used through these facts only.            *)

\* Products of naturals are naturals.
LEMMA ProductInNat == ASSUME NEW a \in Nat, NEW b \in Nat PROVE a * b \in Nat
  OBVIOUS

\* A sample more is worth a task's groups more.
LEMMA BudgetFacts ==
  /\ MaxIterations \in Nat /\ MaxIterations >= 1
  /\ \A S \in SUBSET Samples : BudgetFor(S) \in Nat
  /\ BudgetFor({}) = 0
  /\ \A S \in SUBSET Samples : \A s \in S :
       BudgetFor(S \ {s}) \in Nat /\ BudgetFor(S) = BudgetFor(S \ {s}) + MaxIterations
<1>1. MaxIterations \in Nat /\ MaxIterations >= 1
  BY ConfigAssumption
<1>2. ASSUME NEW S \in SUBSET Samples
      PROVE  IsFiniteSet(S) /\ Cardinality(S) \in Nat
  BY FS_Subset, FS_CardinalityType, SamplesAssumption
<1>3. \A S \in SUBSET Samples : BudgetFor(S) \in Nat
  BY <1>1, <1>2, ProductInNat DEF BudgetFor
<1>4. BudgetFor({}) = 0
  BY <1>1, FS_EmptySet DEF BudgetFor
<1>5. ASSUME NEW S \in SUBSET Samples, NEW s \in S
      PROVE  BudgetFor(S) = BudgetFor(S \ {s}) + MaxIterations
  <2>1. Cardinality(S \ {s}) = Cardinality(S) - 1
    BY <1>2, FS_RemoveElement
  <2>2. Cardinality(S) \in Nat /\ Cardinality(S \ {s}) \in Nat
    BY <1>2
  <2> QED
    BY <1>1, <2>1, <2>2 DEF BudgetFor
<1>6. \A S \in SUBSET Samples : \A s \in S : S \ {s} \in SUBSET Samples
  OBVIOUS
<1> QED
  BY <1>1, <1>3, <1>4, <1>5, <1>6
-----------------------------------------------------------------------------
(* Every step keeps the invariant.                                         *)

\* Before the first start nothing is there.
LEMMA InitFitInv == Init => FitInv
<1> SUFFICES ASSUME Init PROVE FitInv
  OBVIOUS
<1>1. TypeOK
  <2>1. trace \in [Samples -> File] /\ result \in [Samples -> File]
    BY DEF Init, File
  <2>2. steps \in 0..budget /\ groups \in 0..MaxIterations /\ crashes \in 0..MaxCrashes /\ budget \in Nat
    BY ConfigAssumption DEF Init
  <2> QED
    BY <2>1, <2>2 DEF Init, TypeOK
<1>2. BudgetInv /\ FilesInv /\ AdapterInv
  BY DEF Init, BudgetInv, FilesInv, AdapterInv, TraceBeforeResult, LeakNeedsFailedReset,
         OnPolicyOnceLearned, InTask, Running
<1> QED
  BY <1>1, <1>2 DEF FitInv

\* The types, and the step counter below the budget, which is what BudgetInv
\* is for.
LEMMA StepTypeOK == FitInv /\ [Next]_vars => TypeOK'
<1> SUFFICES ASSUME FitInv, [Next]_vars PROVE TypeOK'
  OBVIOUS
<1> USE BudgetFacts DEF FitInv, TypeOK, File
<1>1. CASE UNCHANGED vars \/ Terminated
  BY <1>1 DEF vars, Terminated, loop, adapters, disk
<1>2. CASE Start
  <2>1. todo' \in SUBSET Samples /\ budget' = BudgetFor(todo') /\ steps' = 0 /\ groups' = 0
        /\ UNCHANGED <<trace, result, crashes>>
    BY <1>2 DEF Start, disk
  <2>2. budget' \in Nat /\ steps' \in 0..budget' /\ groups' \in 0..MaxIterations
    BY <2>1
  <2>3. pc' \in {"next", "done"} /\ config' \in Configs /\ task' = None
        /\ actor' = {} /\ rollout' = {} /\ sampled' = {} /\ swallowed' = FALSE
    BY <1>2 DEF Start
  <2> QED
    BY <2>1, <2>2, <2>3
<1>3. ASSUME NEW s \in Samples, BeginTask(s) PROVE TypeOK'
  <2>1. trace' \in [Samples -> File] /\ UNCHANGED <<result, crashes>>
    BY <1>3 DEF BeginTask
  <2>2. s # None
    BY SamplesAssumption
  <2>3. todo' \subseteq Samples /\ groups' \in 0..MaxIterations
    BY <1>3 DEF BeginTask
  <2>4. pc' = "search" /\ task' = s /\ UNCHANGED <<config, budget, steps, actor, rollout, sampled, swallowed>>
    BY <1>3 DEF BeginTask, adapters
  <2> QED
    BY <2>1, <2>2, <2>3, <2>4
<1>4. CASE AllTasksRun \/ KeepPolicy \/ EndSearch
  BY <1>4 DEF AllTasksRun, KeepPolicy, EndSearch, loop, adapters, disk
<1>5. CASE SampleGroup
  <2>1. steps + (MaxIterations - groups) <= budget
    <3>1. pc = "search" /\ steps + (BudgetFor(todo) + (MaxIterations - groups)) <= budget
      BY <1>5 DEF SampleGroup, BudgetInv, StepsLeft, InTask
    <3> QED
      BY <3>1
  <2> QED
    BY <1>5, <2>1 DEF SampleGroup, MoreGroups, loop, disk
<1>6. CASE UpdateActor \/ UpdateWeights
  BY <1>6 DEF UpdateActor, UpdateWeights, Synced, loop, disk
<1>7. CASE SaveTrace \/ CreateResult \/ FillResult
  BY <1>7 DEF SaveTrace, CreateResult, FillResult, loop, adapters
<1>8. CASE ResetAdapter \/ ResetFails \/ ResetIsNotSynced \/ KeepAdapter
  BY <1>8 DEF ResetAdapter, ResetFails, ResetIsNotSynced, KeepAdapter, EndTask, AfterReset, disk
<1>9. CASE Crash
  BY <1>9, ConfigAssumption DEF Crash, loop, adapters, disk
<1> QED
  BY <1>1, <1>2, <1>3, <1>4, <1>5, <1>6, <1>7, <1>8, <1>9 DEF Next, Step

\* Steps are spent by groups only, and each was foreseen.
LEMMA StepBudgetInv == FitInv /\ TypeOK' /\ [Next]_vars => BudgetInv'
<1> SUFFICES ASSUME FitInv, TypeOK', [Next]_vars PROVE BudgetInv'
  OBVIOUS
<1> USE BudgetFacts DEF FitInv, BudgetInv, StepsLeft, InTask
<1>1. CASE UNCHANGED vars \/ Terminated
  BY <1>1 DEF vars, Terminated, loop
<1>2. CASE Start
  <2>1. budget' = BudgetFor(todo') /\ steps' = 0 /\ pc' \in {"next", "done"}
        /\ (pc' = "done" => todo' = {}) /\ budget' \in Nat
    BY <1>2 DEF Start, TypeOK
  <2> QED
    BY <2>1
<1>3. ASSUME NEW s \in Samples, BeginTask(s) PROVE BudgetInv'
  <2>1. BudgetFor(todo) = BudgetFor(todo \ {s}) + MaxIterations /\ BudgetFor(todo \ {s}) \in Nat
    BY <1>3 DEF BeginTask, TypeOK
  <2>2. steps + BudgetFor(todo) <= budget /\ steps \in Nat /\ budget \in Nat
    BY <1>3 DEF BeginTask, TypeOK
  <2> QED
    BY <1>3, <2>1, <2>2 DEF BeginTask
<1>4. CASE AllTasksRun
  <2>1. steps + BudgetFor(todo) <= budget /\ steps \in Nat /\ budget \in Nat
    BY <1>4 DEF AllTasksRun, TypeOK
  <2>2. ASSUME NEW s \in todo PROVE steps < budget
    <3>1. BudgetFor(todo) = BudgetFor(todo \ {s}) + MaxIterations /\ BudgetFor(todo \ {s}) \in Nat
      BY DEF TypeOK
    <3> QED
      BY <2>1, <3>1
  <2>3. todo = {}
    BY <1>4, <2>2 DEF AllTasksRun, MoreTasks
  <2> QED
    BY <1>4, <2>3 DEF AllTasksRun, loop
<1>5. CASE SampleGroup \/ KeepPolicy \/ UpdateActor \/ UpdateWeights
  <2>1. steps \in Nat /\ groups \in Nat /\ budget \in Nat /\ BudgetFor(todo) \in Nat
    BY DEF TypeOK
  <2> QED
    BY <1>5, <2>1 DEF SampleGroup, KeepPolicy, UpdateActor, UpdateWeights, loop
<1>6. CASE EndSearch
  <2>1. steps \in Nat /\ groups \in 0..MaxIterations /\ budget \in Nat /\ BudgetFor(todo) \in Nat
    BY DEF TypeOK
  <2> QED
    BY <1>6, <2>1 DEF EndSearch, loop
<1>7. CASE SaveTrace \/ CreateResult \/ FillResult
  BY <1>7 DEF SaveTrace, CreateResult, FillResult, loop
<1>8. CASE ResetAdapter \/ ResetFails \/ ResetIsNotSynced \/ KeepAdapter
  BY <1>8 DEF ResetAdapter, ResetFails, ResetIsNotSynced, KeepAdapter, EndTask
<1>9. CASE Crash
  BY <1>9 DEF Crash
<1> QED
  BY <1>1, <1>2, <1>3, <1>4, <1>5, <1>6, <1>7, <1>8, <1>9 DEF Next, Step

\* Files are only touched for the task that runs, and in their order.
LEMMA StepFilesInv == FitInv /\ [Next]_vars => FilesInv'
<1> SUFFICES ASSUME FitInv, [Next]_vars PROVE FilesInv'
  OBVIOUS
<1> USE DEF FitInv, FilesInv, TraceBeforeResult, InTask, Running
<1>1. CASE UNCHANGED vars \/ Terminated
  BY <1>1 DEF vars, Terminated, loop, disk
<1>2. CASE Start
  BY <1>2 DEF Start, Pending, disk
<1>3. ASSUME NEW s \in Samples, BeginTask(s) PROVE FilesInv'
  BY <1>3 DEF BeginTask, TypeOK
<1>4. CASE AllTasksRun \/ SampleGroup \/ KeepPolicy \/ UpdateActor \/ UpdateWeights \/ EndSearch
  BY <1>4 DEF AllTasksRun, SampleGroup, KeepPolicy, UpdateActor, UpdateWeights, EndSearch, loop, disk
<1>5. CASE SaveTrace
  BY <1>5 DEF SaveTrace, TypeOK, loop
<1>6. CASE CreateResult
  BY <1>6 DEF CreateResult, TypeOK, loop
<1>7. CASE FillResult
  BY <1>7 DEF FillResult, TypeOK, loop
<1>8. CASE ResetAdapter \/ ResetFails \/ ResetIsNotSynced \/ KeepAdapter
  BY <1>8 DEF ResetAdapter, ResetFails, ResetIsNotSynced, KeepAdapter, EndTask, disk
<1>9. CASE Crash
  BY <1>9 DEF Crash, disk
<1> QED
  BY <1>1, <1>2, <1>3, <1>4, <1>5, <1>6, <1>7, <1>8, <1>9 DEF Next, Step

\* Adapters are trained by the running task, pushed after it, and reset.
LEMMA StepAdapterInv == FitInv /\ [Next]_vars => AdapterInv'
<1> SUFFICES ASSUME FitInv, [Next]_vars PROVE AdapterInv'
  OBVIOUS
<1> USE DEF FitInv, AdapterInv, LeakNeedsFailedReset, OnPolicyOnceLearned, InTask
<1>1. CASE UNCHANGED vars \/ Terminated
  BY <1>1 DEF vars, Terminated, loop, adapters
<1>2. CASE Start
  BY <1>2 DEF Start
<1>3. ASSUME NEW s \in Samples, BeginTask(s) PROVE AdapterInv'
  BY <1>3 DEF BeginTask, adapters
<1>4. CASE AllTasksRun \/ KeepPolicy \/ EndSearch
  BY <1>4 DEF AllTasksRun, KeepPolicy, EndSearch, loop, adapters
<1>5. CASE SampleGroup
  BY <1>5 DEF SampleGroup, loop
<1>6. CASE UpdateActor
  BY <1>6 DEF UpdateActor, loop, FilesInv
<1>7. CASE UpdateWeights
  BY <1>7 DEF UpdateWeights, Synced, loop
<1>8. CASE SaveTrace \/ CreateResult \/ FillResult
  BY <1>8 DEF SaveTrace, CreateResult, FillResult, loop, adapters
<1>9. CASE ResetAdapter \/ ResetFails \/ ResetIsNotSynced \/ KeepAdapter
  BY <1>9 DEF ResetAdapter, ResetFails, ResetIsNotSynced, KeepAdapter, EndTask, AfterReset
<1>10. CASE Crash
  BY <1>10 DEF Crash, adapters, loop
<1> QED
  BY <1>1, <1>2, <1>3, <1>4, <1>5, <1>6, <1>7, <1>8, <1>9, <1>10 DEF Next, Step

\* The invariant of the outer loop.
LEMMA FitInvariant == Spec => []FitInv
<1>1. FitInv /\ [Next]_vars => FitInv'
  BY StepTypeOK, StepBudgetInv, StepFilesInv, StepAdapterInv DEF FitInv
<1> QED
  BY <1>1, InitFitInv, PTL DEF Spec
-----------------------------------------------------------------------------
(* The theorems.                                                           *)

\* Types, the groups of a task and the steps of a start within their budget
\* (TypeOK), for any number of samples, iterations and crashes.
THEOREM TypeCorrect == Spec => []TypeOK
  BY FitInvariant, PTL DEF FitInv

\* A result on disk has its trace beside it (TraceBeforeResult), wherever the
\* program was stopped and however often it was started again.
THEOREM ResultsHaveTraces == Spec => []TraceBeforeResult
  BY FitInvariant, PTL DEF FitInv, FilesInv

\* No pending sample is left out for want of budget (BudgetSuffices).
THEOREM BudgetIsEnough == Spec => []BudgetSuffices
  BY FitInvariant, PTL DEF FitInv, BudgetInv, BudgetSuffices

\* A task samples with another task's adapter only after end_episode caught
\* the exception of a reset (LeakNeedsFailedReset).
THEOREM NoSilentLeak == Spec => []LeakNeedsFailedReset
  BY FitInvariant, PTL DEF FitInv, AdapterInv

\* Every group of a task that has learned is sampled from the policy it
\* trains (OnPolicyOnceLearned), after failed resets too.
THEOREM GroupsAreOnPolicy == Spec => []OnPolicyOnceLearned
  BY FitInvariant, PTL DEF FitInv, AdapterInv

\* A step records the result of at most one sample, and of one without.
LEMMA LedgerStep ==
  FitInv /\ [Next]_vars => [Ledger!Next]_{s \in Samples : result[s] = "whole"}
<1> SUFFICES ASSUME FitInv, [Next]_vars
             PROVE  [Ledger!Next]_{s \in Samples : result[s] = "whole"}
  OBVIOUS
<1> DEFINE Recorded == {s \in Samples : result[s] = "whole"}
<1>1. CASE UNCHANGED result
  BY <1>1
<1>2. CASE CreateResult
  <2>1. task \in Samples /\ result[task] # "whole"
    BY <1>2 DEF FitInv, TypeOK, FilesInv, CreateResult
  <2>2. Recorded' = Recorded
    BY <1>2, <2>1 DEF CreateResult, FitInv, TypeOK
  <2> QED
    BY <2>2
<1>3. CASE FillResult
  <2>1. task \in Samples /\ task \notin Recorded
    BY <1>3 DEF FitInv, TypeOK, FilesInv, FillResult
  <2>2. Recorded' = Recorded \cup {task}
    BY <1>3, <2>1 DEF FillResult, FitInv, TypeOK
  <2> QED
    BY <2>1, <2>2 DEF Ledger!Next, Ledger!Record
<1>4. \/ UNCHANGED result \/ CreateResult \/ FillResult
  BY DEF Next, Step, vars, Terminated, disk, Start, BeginTask, AllTasksRun, SampleGroup, KeepPolicy,
         UpdateActor, UpdateWeights, EndSearch, SaveTrace, ResetAdapter, ResetFails,
         ResetIsNotSynced, KeepAdapter, EndTask, Crash
<1> QED
  BY <1>1, <1>2, <1>3, <1>4

\* Whatever dies and is started again, results behave like a ledger: written
\* once each, then kept (ImplementsLedger).
THEOREM LedgerImplemented == Spec => ImplementsLedger
<1>1. Init => Ledger!Init
  BY DEF Init, Ledger!Init
<1> QED
  BY <1>1, FitInvariant, LedgerStep, PTL DEF Spec, ImplementsLedger, Ledger!Spec
=============================================================================
