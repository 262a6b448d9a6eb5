----------------------------- MODULE StarORFit -----------------------------
(***************************************************************************)
(* The outer loop of StarOR: run_staror_fit walks over the samples of its  *)
(* datasets, StarORRunner.run_task searches and saves each of them, and    *)
(* VerlRayPolicyBackend trains a transient LoRA adapter during a task,     *)
(* pushes it to the rollout engine after every update and resets both      *)
(* when the task ends.  The program may die anywhere and be started again; *)
(* what survives is on disk.                                               *)
(*                                                                         *)
(* An adapter is the set of samples whose rewards have trained it since it *)
(* was last initialised.  An exception in a task is not caught: it ends    *)
(* the program, as a crash does.                                           *)
(***************************************************************************)
EXTENDS Integers, FiniteSets

CONSTANTS
  Samples,
  Position,        \* where a sample stands in the datasets, read one after another
  MaxIterations,   \* mcts.max_iterations, at least 1
  Configs,         \* the settings the program may be started with
  MaxCrashes,      \* bound: how often the program dies
  None

ASSUME SamplesAssumption ==
  /\ IsFiniteSet(Samples)
  /\ Position \in [Samples -> Nat]
  /\ \A r, s \in Samples : Position[r] = Position[s] => r = s
  /\ None \notin Samples

\* adapts: grpo.enable_adaptation; resets: reset_lora_on_begin_episode, with
\* LoRA on the new worker path.  Only an adapting program resets.
ASSUME ConfigAssumption ==
  /\ MaxIterations \in Nat \ {0} /\ MaxCrashes \in Nat
  /\ Configs \subseteq [adapts : BOOLEAN, resets : BOOLEAN]
  /\ \A c \in Configs : c.resets => c.adapts

VARIABLES
  pc,         \* where the program is; "down": not running
  config,     \* the settings of this start
  todo,       \* pending samples that have not been run
  budget,     \* total_budget
  steps,      \* trainer.global_steps
  task,       \* the sample being run
  groups,     \* rollout groups of the task
  actor,      \* the trainer's adapter
  rollout,    \* the rollout engine's adapter
  sampled,    \* the adapter that sampled the current group
  swallowed,  \* end_episode caught an exception since the program started
  trace,      \* the files of a sample's directory written before result.json
  result,     \* its result.json
  crashes

loop == <<config, todo, budget, task>>
adapters == <<actor, rollout, sampled, swallowed>>
disk == <<trace, result>>
vars == <<pc, loop, steps, groups, adapters, disk, crashes>>
-----------------------------------------------------------------------------
(* run_staror_fit.                                                         *)

\* Mutation: a sample is pending when its result is not whole.
MutantPending(s) == result[s] # "whole"

\* Mutation: the run directory is looked for instead of result.json.
MutantPendingDirectory(s) == trace[s] = "absent"

\* Mutation: what was completed is run again.
MutantPendingAlways(s) == TRUE

\* resume_skip_completed: result.json exists
Pending(s) == result[s] = "absent"

BudgetFor(S) == Cardinality(S) * MaxIterations

\* A fresh process: no adapter has been trained, the step counter starts at 0
\* (no checkpoint of StarOR's own is ever saved), and the disk is looked at
\* once for all of the samples.
Start ==
  LET pending == {s \in Samples : Pending(s)}
  IN
  /\ pc = "down"
  /\ pc' = IF pending = {} THEN "done" ELSE "next"
  /\ config' \in Configs
  /\ todo' = pending /\ budget' = BudgetFor(pending) /\ task' = None
  /\ steps' = 0 /\ groups' = 0
  /\ actor' = {} /\ rollout' = {} /\ sampled' = {} /\ swallowed' = FALSE
  /\ UNCHANGED <<disk, crashes>>

MoreTasks == todo # {} /\ steps < budget

\* run_task up to the search: the live log of the iterations is opened.
BeginTask(s) ==
  /\ pc = "next" /\ MoreTasks
  /\ s \in todo /\ \A r \in todo : Position[s] <= Position[r]
  /\ task' = s /\ todo' = todo \ {s}
  /\ groups' = 0
  /\ trace' = [trace EXCEPT ![s] = "partial"]
  /\ pc' = "search"
  /\ UNCHANGED <<config, budget, steps, adapters, result, crashes>>

AllTasksRun ==
  /\ pc = "next" /\ ~MoreTasks
  /\ pc' = "done"
  /\ UNCHANGED <<loop, steps, groups, adapters, disk, crashes>>
-----------------------------------------------------------------------------
(* One rollout group (grpo_rollout_group).                                 *)

\* An iteration of the search asks for one group at most.
MoreGroups == groups < MaxIterations

SampleGroup ==
  /\ pc = "search" /\ MoreGroups
  /\ steps' = steps + 1 /\ groups' = groups + 1
  /\ sampled' = rollout
  /\ pc' = "learn"
  /\ UNCHANGED <<loop, actor, rollout, swallowed, disk, crashes>>

\* Nothing left after filtering, a batch that does not divide into mini
\* batches, or no adaptation: the policy stays.
KeepPolicy ==
  /\ pc = "learn"
  /\ pc' = "search"
  /\ UNCHANGED <<loop, steps, groups, adapters, disk, crashes>>

UpdateActor ==
  /\ pc = "learn" /\ config.adapts
  /\ actor' = actor \cup {task}
  /\ pc' = "sync"
  /\ UNCHANGED <<loop, steps, groups, rollout, sampled, swallowed, disk, crashes>>

\* Mutation: the rollout engine is not told.
MutantSynced == rollout

\* checkpoint_manager.update_weights
Synced == actor

UpdateWeights ==
  /\ pc = "sync"
  /\ rollout' = Synced
  /\ pc' = "search"
  /\ UNCHANGED <<loop, steps, groups, actor, sampled, swallowed, disk, crashes>>

\* The search returns; its first iteration always has a leaf to expand.
EndSearch ==
  /\ pc = "search" /\ groups > 0
  /\ pc' = "save"
  /\ UNCHANGED <<loop, steps, groups, adapters, disk, crashes>>
-----------------------------------------------------------------------------
(* _save_trace_artifacts and end_episode.                                  *)

SaveTrace ==
  /\ pc = "save"
  /\ trace' = [trace EXCEPT ![task] = "whole"]
  /\ pc' = "result"
  /\ UNCHANGED <<loop, steps, groups, adapters, result, crashes>>

\* write_text creates the file and then fills it.
CreateResult ==
  /\ pc = "result"
  /\ result' = [result EXCEPT ![task] = "partial"]
  /\ pc' = "write"
  /\ UNCHANGED <<loop, steps, groups, adapters, trace, crashes>>

FillResult ==
  /\ pc = "write"
  /\ result' = [result EXCEPT ![task] = "whole"]
  /\ pc' = "end"
  /\ UNCHANGED <<loop, steps, groups, adapters, trace, crashes>>

EndTask ==
  /\ pc = "end"
  /\ pc' = "next" /\ task' = None
  /\ UNCHANGED <<config, todo, budget, steps, groups, sampled, disk, crashes>>

\* Mutation: the reset does not reach the rollout engine.
MutantAfterReset == rollout

\* The rollout engine gets the adapter the actor has just initialised.
AfterReset == {}

ResetAdapter ==
  /\ EndTask /\ config.resets
  /\ actor' = {} /\ rollout' = AfterReset
  /\ UNCHANGED swallowed

\* end_episode catches what reset_actor_for_episode raises ...
ResetFails ==
  /\ EndTask /\ config.resets
  /\ swallowed' = TRUE
  /\ UNCHANGED <<actor, rollout>>

\* ... and what the update_weights after it raises.
ResetIsNotSynced ==
  /\ EndTask /\ config.resets
  /\ actor' = {} /\ swallowed' = TRUE
  /\ UNCHANGED rollout

\* Without a reset (nothing trained, or the setting is off) the next task goes on with the adapter.
KeepAdapter ==
  /\ EndTask /\ ~config.resets
  /\ UNCHANGED <<actor, rollout, swallowed>>
-----------------------------------------------------------------------------
\* The program dies, by itself or by an exception of a task.
Crash ==
  /\ pc \notin {"down", "done"} /\ crashes < MaxCrashes
  /\ crashes' = crashes + 1
  /\ pc' = "down"
  /\ UNCHANGED <<loop, steps, groups, adapters, disk>>

Init ==
  /\ pc = "down" /\ config \in Configs /\ todo = {} /\ budget = 0 /\ task = None
  /\ steps = 0 /\ groups = 0
  /\ actor = {} /\ rollout = {} /\ sampled = {} /\ swallowed = FALSE
  /\ trace = [s \in Samples |-> "absent"]
  /\ result = [s \in Samples |-> "absent"]
  /\ crashes = 0

Step ==
  \/ Start \/ AllTasksRun \/ \E s \in Samples : BeginTask(s)
  \/ SampleGroup \/ KeepPolicy \/ UpdateActor \/ UpdateWeights \/ EndSearch
  \/ SaveTrace \/ CreateResult \/ FillResult
  \/ ResetAdapter \/ ResetFails \/ ResetIsNotSynced \/ KeepAdapter

Terminated == pc = "done" /\ UNCHANGED vars

Next == Step \/ Crash \/ Terminated

Spec == Init /\ [][Next]_vars

\* The program runs while it is up, a search returns (MoreGroups bounds it),
\* and somebody starts the program again when it died.
FairSpec == Spec /\ WF_vars(Step)
-----------------------------------------------------------------------------
(* Properties.                                                             *)

File == {"absent", "partial", "whole"}

\* Types; a task never asks for more groups than it has iterations, and the
\* loop never uses more steps than its budget.
TypeOK ==
  /\ pc \in {"down", "next", "search", "learn", "sync", "save", "result", "write",
             "end", "done"}
  /\ config \in Configs /\ todo \subseteq Samples /\ budget \in Nat
  /\ steps \in 0..budget /\ groups \in 0..MaxIterations
  /\ task \in Samples \cup {None}
  /\ pc \notin {"down", "next", "done"} => task # None
  /\ actor \subseteq Samples /\ rollout \subseteq Samples /\ sampled \subseteq Samples
  /\ swallowed \in BOOLEAN
  /\ trace \in [Samples -> File] /\ result \in [Samples -> File]
  /\ crashes \in 0..MaxCrashes

Ledger == INSTANCE ResultLedger WITH recorded <- {s \in Samples : result[s] = "whole"}

\* A result that was written is never written again or lost, across crashes
\* and restarts.
ImplementsLedger == Ledger!Spec

\* A sample that a restart skips has the files that explain its result: they
\* were all there before result.json was created, and nothing reopens them.
TraceBeforeResult ==
  \A s \in Samples : result[s] # "absent" => trace[s] = "whole"

\* While every reset has worked, a task samples with an adapter that no other
\* task has trained.
LeakNeedsFailedReset ==
  pc = "learn" /\ config.resets /\ ~swallowed => sampled \subseteq {task}

\* Once a task has trained the actor, each of its groups is sampled from the
\* policy that the log probabilities of the update are computed with, even if
\* the task began with a stale rollout engine.
OnPolicyOnceLearned ==
  pc = "learn" /\ task \in actor => sampled = actor

\* The step budget never stops the loop before the last pending sample.
BudgetSuffices == pc = "done" => todo = {}

\* With finitely many crashes every sample gets its result file in the end.
EverySampleGetsResult == \A s \in Samples : <>(result[s] # "absent")
=============================================================================
