------------------------- MODULE TrainerCheckpoints -------------------------
(***************************************************************************)
(* The checkpoints of RayPPOTrainer.fit: the loop over epochs and batches, *)
(* _save_checkpoint with the retention of each worker group's checkpoint   *)
(* manager (FSDP), crashes between any two of its writes, and              *)
(* _load_checkpoint (resume_mode auto).                                    *)
(*                                                                         *)
(* What a worker group has trained on is the sequence of the batches, each *)
(* with the launch that trained it; a file holds a copy of it.  A file     *)
(* that was opened but not completely written is partial, the tracker then *)
(* empty.  Only the actor and critic folders are ever removed, so that the *)
(* folder of a step, once made, stays.                                     *)
(***************************************************************************)
EXTENDS Integers, Sequences, SequencesExt

CONSTANTS
  StepsPerEpoch,            \* len(self.train_dataloader)
  TotalEpochs,
  TotalSteps,               \* total_training_steps
  SaveFreq,
  UseCritic,
  Limits,                   \* values of max_actor_ckpt_to_keep and max_critic_ckpt_to_keep
  NoLimit,                  \* None in the code: everything is kept
  MaxCrashes,               \* bound on the crashes
  NoTracker, EmptyTracker   \* no tracker file; one that was opened and not written

ASSUME CheckpointsAssumption ==
  /\ {StepsPerEpoch, TotalEpochs, TotalSteps, SaveFreq} \subseteq Nat \ {0}
  /\ UseCritic \in BOOLEAN /\ MaxCrashes \in Nat
  /\ Limits \subseteq (Nat \ {0}) \cup {NoLimit}
  /\ NoLimit \notin Int /\ NoTracker \notin Int /\ EmptyTracker \notin Int
  /\ NoTracker # EmptyTracker

VARIABLES
  keep,                     \* the limit of each worker group
  \* the driver
  pc,
  step,                     \* self.global_steps
  epoch, at,                \* the epoch, and the batches the loader has given of it
  saving,                   \* how far _save_checkpoint is in SaveOrder
  trained,                  \* what each worker group has trained on
  paths,                    \* previous_saved_paths of each checkpoint manager
  \* the files
  shards, data, tracker,
  crashes

memory == <<step, epoch, at, saving, trained, paths>>
files == <<shards, data, tracker>>
vars == <<keep, pc, memory, files, crashes>>

Roles == IF UseCritic THEN {"actor", "critic"} ELSE {"actor"}

\* Files by step, those that exist: what they hold.
Partial == [whole |-> FALSE, holds |-> << >>]
Whole(x) == [whole |-> TRUE, holds |-> x]
NoFiles == [s \in {} |-> Partial]
With(f, s, c) == [t \in DOMAIN f \cup {s} |-> IF t = s THEN c ELSE f[t]]
Without(f, S) == [t \in DOMAIN f \ S |-> f[t]]

\* Mutation: the tracker is written first.
MutantSaveOrder ==
  IF UseCritic THEN <<"tracker", "actor", "critic", "data">> ELSE <<"tracker", "actor", "data">>

\* The order in which _save_checkpoint writes.
SaveOrder ==
  IF UseCritic THEN <<"actor", "critic", "data", "tracker">> ELSE <<"actor", "data", "tracker">>

\* Nothing on disk, nothing launched.
Init ==
  /\ keep \in [Roles -> Limits]
  /\ pc = "down" /\ step = 0 /\ epoch = 0 /\ at = 0 /\ saving = 1
  /\ trained = [r \in Roles |-> << >>] /\ paths = [r \in Roles |-> << >>]
  /\ shards = [r \in Roles |-> NoFiles] /\ data = NoFiles /\ tracker = NoTracker
  /\ crashes = 0
-----------------------------------------------------------------------------
(* Launch: _load_checkpoint                                                *)

AtEpochBoundary(s) == s % StepsPerEpoch = 0

\* Mutation: the state of the loader is restored at the end of an epoch too.
MutantPosition(s) == IF s \in DOMAIN data THEN data[s].holds[1] ELSE 0

\* Where the loader goes on after a resume from step s.  At the end of an epoch
\* the saved state is that of an exhausted loader and is skipped.
Position(s) == IF AtEpochBoundary(s) \/ s \notin DOMAIN data THEN 0 ELSE data[s].holds[1]

Loadable(s) ==
  /\ \A r \in Roles : s \in DOMAIN shards[r] /\ shards[r][s].whole
  /\ AtEpochBoundary(s) \/ s \notin DOMAIN data \/ data[s].whole

Tracked == tracker \notin {NoTracker, EmptyTracker}

FromScratch ==
  /\ pc = "down" /\ tracker = NoTracker
  /\ pc' = "train" /\ step' = 1 /\ epoch' = 0 /\ at' = 0 /\ saving' = 1
  /\ trained' = [r \in Roles |-> << >>] /\ paths' = [r \in Roles |-> << >>]
  /\ UNCHANGED <<keep, files, crashes>>

\* The lists of saved paths start empty: what earlier launches left is not theirs.
Resume ==
  /\ pc = "down" /\ Tracked /\ Loadable(tracker)
  /\ pc' = "train" /\ step' = tracker + 1
  /\ epoch' = tracker \div StepsPerEpoch /\ at' = Position(tracker) /\ saving' = 1
  /\ trained' = [r \in Roles |-> shards[r][tracker].holds]
  /\ paths' = [r \in Roles |-> << >>]
  /\ UNCHANGED <<keep, files, crashes>>

\* int("") raises in find_latest_ckpt_path, torch.load in the workers or on data.pt.
Refuse ==
  /\ pc = "down"
  /\ tracker = EmptyTracker \/ (Tracked /\ ~Loadable(tracker))
  /\ pc' = "refused" /\ UNCHANGED <<keep, memory, files, crashes>>
-----------------------------------------------------------------------------
(* The training loop                                                       *)

\* Mutation: a step beyond the last one is not a last one.
MutantIsLastStep == step = TotalSteps

IsLastStep == step >= TotalSteps

\* One batch.  A capacity block about to expire asks for a checkpoint at any
\* step (should_save_ckpt_esi).
Update ==
  /\ pc = "train" /\ epoch < TotalEpochs /\ at < StepsPerEpoch
  /\ at' = at + 1
  /\ trained' = [r \in Roles |-> Append(trained[r], <<epoch * StepsPerEpoch + at, crashes>>)]
  /\ \/ pc' = "open"
     \/ ~IsLastStep /\ step % SaveFreq # 0 /\ pc' = "end"
  /\ UNCHANGED <<keep, step, epoch, saving, paths, files, crashes>>

\* The weights are pushed, the model is validated.
EndStep ==
  /\ pc = "end"
  /\ step' = step + 1
  /\ pc' = IF IsLastStep THEN "done" ELSE "train"
  /\ UNCHANGED <<keep, epoch, at, saving, trained, paths, files, crashes>>

NextEpoch ==
  /\ pc = "train" /\ epoch < TotalEpochs /\ at >= StepsPerEpoch
  /\ epoch' = epoch + 1 /\ at' = 0
  /\ UNCHANGED <<keep, pc, step, saving, trained, paths, files, crashes>>

EpochsOver ==
  /\ pc = "train" /\ epoch >= TotalEpochs
  /\ pc' = "done" /\ UNCHANGED <<keep, memory, files, crashes>>
-----------------------------------------------------------------------------
(* _save_checkpoint                                                        *)

Target == SaveOrder[saving]

\* After a write: the next one, or the rest of the step.
GoOn ==
  IF saving = Len(SaveOrder) THEN pc' = "end" /\ saving' = 1
  ELSE pc' = "open" /\ saving' = saving + 1

\* The paths that are dropped to leave n of them, the oldest.
Surplus(p, n) == {p[i] : i \in 1..(Len(p) - n)}
Newest(p, n) == IF Len(p) > n THEN SubSeq(p, Len(p) - n + 1, Len(p)) ELSE p

\* Mutation: one path too many is dropped before the save.
MutantRoom(r) == IF keep[r] = NoLimit \/ keep[r] = 1 THEN Len(paths[r]) ELSE keep[r] - 2

\* How many paths ensure_checkpoint_capacity leaves: with a limit of one all.
Room(r) == IF keep[r] = NoLimit \/ keep[r] = 1 THEN Len(paths[r]) ELSE keep[r] - 1

\* Rank 0 makes room and the ranks begin to write their shards, over those an
\* earlier launch may have left.
OpenShards(r) ==
  /\ pc = "open" /\ Target = r
  /\ pc' = "write"
  /\ paths' = [paths EXCEPT ![r] = Newest(@, Room(r))]
  /\ shards' = [shards EXCEPT ![r] = With(Without(@, Surplus(paths[r], Room(r))), step, Partial)]
  /\ UNCHANGED <<keep, step, epoch, at, saving, trained, data, tracker, crashes>>

\* How many register_checkpoint leaves, the new one included.
Kept(r) == IF keep[r] = NoLimit THEN Len(paths[r]) + 1 ELSE keep[r]

\* All ranks have written: after the barrier rank 0 registers the path.
WriteShards(r) ==
  LET all == Append(paths[r], step) IN
  /\ pc = "write" /\ Target = r /\ GoOn
  /\ paths' = [paths EXCEPT ![r] = Newest(all, Kept(r))]
  /\ shards' = [shards EXCEPT ![r] = Without(With(@, step, Whole(trained[r])), Surplus(all, Kept(r)))]
  /\ UNCHANGED <<keep, step, epoch, at, trained, data, tracker, crashes>>

OpenData ==
  /\ pc = "open" /\ Target = "data"
  /\ pc' = "write" /\ data' = With(data, step, Partial)
  /\ UNCHANGED <<keep, memory, shards, tracker, crashes>>

\* data.pt holds the position of the loader.
WriteData ==
  /\ pc = "write" /\ Target = "data" /\ GoOn
  /\ data' = With(data, step, Whole(<<at>>))
  /\ UNCHANGED <<keep, step, epoch, at, trained, paths, shards, tracker, crashes>>

\* open(..., "w") empties the tracker.
OpenTracker ==
  /\ pc = "open" /\ Target = "tracker"
  /\ pc' = "write" /\ tracker' = EmptyTracker
  /\ UNCHANGED <<keep, memory, shards, data, crashes>>

WriteTracker ==
  /\ pc = "write" /\ Target = "tracker" /\ GoOn
  /\ tracker' = step
  /\ UNCHANGED <<keep, step, epoch, at, trained, paths, shards, data, crashes>>
-----------------------------------------------------------------------------
Crash ==
  /\ pc \in {"train", "open", "write", "end"} /\ crashes < MaxCrashes
  /\ pc' = "down" /\ crashes' = crashes + 1
  /\ UNCHANGED <<keep, memory, files>>

Launch == FromScratch \/ Resume \/ Refuse
Train == Update \/ EndStep \/ NextEpoch \/ EpochsOver
Save ==
  \/ \E r \in Roles : OpenShards(r) \/ WriteShards(r)
  \/ OpenData \/ WriteData \/ OpenTracker \/ WriteTracker
Next == Launch \/ Train \/ Save \/ Crash

Spec == Init /\ [][Next]_vars

\* The driver runs on, and is launched again after a crash.
FairSpec == Spec /\ WF_vars(Launch \/ Train \/ Save)
-----------------------------------------------------------------------------
(* Properties                                                              *)

Steps == Nat \ {0}
Batches == Seq(Nat \X (0..MaxCrashes))
FilesOK(f, S) == DOMAIN f \subseteq Steps /\ \A s \in DOMAIN f : f[s] \in [whole : BOOLEAN, holds : S]

TypeOK ==
  /\ keep \in [Roles -> Limits]
  /\ pc \in {"down", "train", "open", "write", "end", "done", "refused"}
  /\ step \in Nat /\ epoch \in Nat /\ at \in 0..StepsPerEpoch
  /\ saving \in 1..Len(SaveOrder)
  /\ trained \in [Roles -> Batches] /\ paths \in [Roles -> Seq(Steps)]
  /\ DOMAIN shards = Roles /\ \A r \in Roles : FilesOK(shards[r], Batches)
  /\ FilesOK(data, Seq(0..StepsPerEpoch))
  /\ tracker \in Steps \cup {NoTracker, EmptyTracker}
  /\ crashes \in 0..MaxCrashes

\* The checkpoint that the tracker names can be resumed: its loader state is
\* there, and so is each worker group's folder of which more than one is kept;
\* the folders come from one and the same launch and have trained to its step,
\* wherever a save, a removal of older ones, or a resumed launch that saves a
\* step again is interrupted.
OnDisk(r, s) == s \in DOMAIN shards[r] /\ shards[r][s].whole
TrackedRestores ==
  Tracked =>
    /\ tracker \in DOMAIN data /\ data[tracker].whole
    /\ \A r \in Roles :
         /\ keep[r] # 1 => OnDisk(r, tracker)
         /\ OnDisk(r, tracker) => Len(shards[r][tracker].holds) = tracker
    /\ \A r, q \in Roles :
         OnDisk(r, tracker) /\ OnDisk(q, tracker) => shards[r][tracker] = shards[q][tracker]

\* The weights of every worker group come from the batches of the data in their
\* order, none left out and none twice, across crashes, resumes and epochs.
BatchesInOrder ==
  \A r \in Roles : \A i \in DOMAIN trained[r] : trained[r][i][1] = i - 1

\* total_training_steps is exceeded by one step at most for each crash: a run
\* that is resumed from its last checkpoint trains once more.
StopsInTime == \A r \in Roles : Len(trained[r]) <= TotalSteps + crashes

\* Training ends in spite of crashes, unless one came while the tracker was
\* being written, or the single checkpoint was being replaced.
TrainingEnds ==
  <>(\/ pc = "done"
     \/ pc = "refused" /\ (tracker = EmptyTracker \/ \E r \in Roles : keep[r] = 1))
=============================================================================
