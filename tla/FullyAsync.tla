----------------------------- MODULE FullyAsync -----------------------------
(***************************************************************************)
(* The fully asynchronous training of verl/experimental/                   *)
(* fully_async_policy: a rollouter that generates samples in tasks, a      *)
(* bounded message queue, and a trainer that takes samples, trains, and    *)
(* after Trigger steps pushes its weights and resets the rollouter's       *)
(* staleness.                                                              *)
(*                                                                         *)
(* The rollouter is one event loop: a coroutine runs until it waits, and   *)
(* they share one first-come-first-served lock that a coroutine keeps      *)
(* while it waits for tasks.  A put into the queue and the end of its task *)
(* are one step: the reply to a put arrives long before the trainer has    *)
(* trained on the sample.  Samples are their positions in the data, one    *)
(* epoch long; the pending queue never runs empty before they do.          *)
(***************************************************************************)
EXTENDS Integers, Sequences, FiniteSets, SequencesExt, FiniteSetsExt

CONSTANTS
  Total,                    \* total_rollout_steps
  Required,                 \* required_samples of one training step
  Trigger,                  \* trigger_parameter_sync_step
  MaxRequired,              \* required * (staleness_threshold + 1) * trigger
  MaxConcurrent,            \* max_concurrent_samples
  PendingMax,               \* size of the pending queue, 128 in the code
  SaveFreq, TestFreq,
  MaxCrashes,               \* bound on the crashes
  None                      \* no sample; in the queue: the finish signal

ASSUME AsyncAssumption ==
  /\ {Total, Required, Trigger, MaxConcurrent, SaveFreq, TestFreq} \subseteq Nat \ {0}
  /\ MaxRequired \in Nat /\ MaxRequired >= Required * Trigger
  /\ PendingMax \in Nat /\ MaxCrashes \in Nat
  /\ None \notin Int

VARIABLES
  \* the rollouter's processor and its tasks
  processor,                \* where _processor_worker is
  held,                     \* the sample it has taken but not submitted
  taken,                    \* samples taken from the pending queue
  active,                   \* self.active_tasks, finished ones included
  running,                  \* those that still generate
  staleness, paused,
  \* its lock, and the staleness reset under way
  lock,                     \* the holder and those who wait, in order
  counted,                  \* active tasks the reset has counted, or None
  \* the message queue
  queue, dropped,
  \* the trainer
  trainer,                  \* where fit is
  collected,                \* samples of the next training step
  localStep, version, trained,
  closing,                  \* the finish signal has come
  \* the checkpoint, and the crashes so far
  saved, crashes

rollouter == <<processor, held, taken, active, running, staleness, paused>>
locking == <<lock, counted>>
messages == <<queue, dropped>>
training == <<trainer, collected, localStep, version, trained, closing>>
vars == <<rollouter, locking, messages, training, saved, crashes>>

Samples == 1..Total
Coroutines == {"processor", "reset", "look", "resume"}

TypeOK ==
  /\ processor \in {"check", "pause", "drain", "rest", "waiting", "slot", "submit", "end", "done"}
  /\ held \in Samples \cup {None} /\ taken \in 0..Total
  /\ running \subseteq active /\ active \subseteq Samples
  /\ staleness \in Nat /\ paused \in BOOLEAN
  /\ lock \in Seq(Coroutines) /\ counted \in 0..Total \cup {None}
  /\ queue \in Seq(Samples \cup {None}) /\ Len(queue) <= MaxRequired
  /\ dropped \subseteq Samples
  /\ trainer \in {"collect", "train", "sync", "reset", "save", "stopping", "stopped"}
  /\ collected \subseteq Samples /\ trained \subseteq Samples
  /\ localStep \in 1..Trigger /\ version \in Nat
  /\ closing \in BOOLEAN
  /\ crashes \in 0..MaxCrashes

\* A run that starts from nothing; the checkpoint stands for the start.
Init ==
  /\ processor = "check" /\ held = None
  /\ active = {} /\ running = {} /\ staleness = 0 /\ paused = FALSE
  /\ lock = << >> /\ counted = None
  /\ queue = << >>
  /\ trainer = "collect" /\ collected = {} /\ localStep = 1 /\ closing = FALSE
  /\ taken = 0 /\ version = 0 /\ trained = {} /\ dropped = {}
  /\ saved = [version |-> 0, fed |-> 0, trained |-> {}]
  /\ crashes = 0
-----------------------------------------------------------------------------
(* The lock.  A coroutine that gives it up and asks again queues behind    *)
(* those who wait.                                                         *)

Holds(coroutine) == lock # << >> /\ Head(lock) = coroutine
Ask(coroutine) == lock' = Append(lock, coroutine)
Release == lock' = Tail(lock)
AskAgain(coroutine) == lock' = Append(Tail(lock), coroutine)

\* The processor has what it needs to go on: the loop runs nothing else.
Busy ==
  \/ processor = "check"
  \/ processor \in {"pause", "rest", "submit"} /\ Holds("processor")

\* The lock changes hands, which no training step is fast enough to see.
HandOver == Busy \/ Holds("look") \/ Holds("resume")

\* condition.notify_all(): a waiting processor asks for the lock again,
\* after those in first and before those in second.
NotifyAll(first, second) ==
  IF processor = "waiting"
  THEN /\ processor' = "rest"
       /\ lock' = first \o <<"processor">> \o second
  ELSE /\ lock' = first \o second
       /\ UNCHANGED processor
-----------------------------------------------------------------------------
(* The message queue                                                       *)

\* put_sample: a full queue loses its oldest message.
Put(message) ==
  LET full == Len(queue) >= MaxRequired IN
  /\ queue' = Append(IF full THEN Tail(queue) ELSE queue, message)
  /\ dropped' = IF full THEN dropped \cup ({Head(queue)} \ {None}) ELSE dropped
-----------------------------------------------------------------------------
(* The rollouter                                                           *)

\* _should_pause_generation
ShouldPause == Len(queue) >= MaxRequired \/ staleness >= MaxRequired

\* Everything the feed has drawn from the data: it keeps the pending queue
\* full and waits with one more sample.
Fed == Min({Total, taken + PendingMax + 1})

CheckPause ==
  /\ processor = "check"
  /\ paused \/ ShouldPause
  /\ processor' = "pause"
  /\ Ask("processor")
  /\ UNCHANGED <<held, taken, active, running, staleness, paused, counted, messages, training, saved, crashes>>

\* A sample is taken from the pending queue and counted at once.
CheckTake ==
  /\ processor = "check"
  /\ ~paused /\ ~ShouldPause
  /\ taken < Total
  /\ taken' = taken + 1
  /\ held' = taken + 1
  /\ staleness' = staleness + 1
  /\ processor' = IF Cardinality(active) >= MaxConcurrent THEN "slot" ELSE "submit"
  /\ Ask("processor")
  /\ UNCHANGED <<active, running, paused, counted, messages, training, saved, crashes>>

\* The end signal is counted like a sample.
CheckEnd ==
  /\ processor = "check"
  /\ ~paused /\ ~ShouldPause
  /\ taken = Total
  /\ staleness' = staleness + 1
  /\ processor' = "end"
  /\ Ask("processor")
  /\ UNCHANGED <<held, taken, active, running, paused, counted, messages, training, saved, crashes>>

Pause ==
  /\ processor = "pause" /\ Holds("processor")
  /\ paused' = TRUE
  /\ processor' = IF active = {} THEN "rest" ELSE "drain"
  /\ AskAgain("processor")
  /\ UNCHANGED <<held, taken, active, running, staleness, counted, messages, training, saved, crashes>>

\* asyncio.wait with the lock kept: the tasks that are done leave the set.
Reap ==
  /\ Holds("processor")
  /\ active # running
  /\ active' = running

Drain ==
  /\ processor = "drain"
  /\ Reap
  /\ processor' = IF running = {} THEN "rest" ELSE "drain"
  /\ AskAgain("processor")
  /\ UNCHANGED <<held, taken, running, staleness, paused, counted, messages, training, saved, crashes>>

\* Paused until somebody says otherwise.
Rest ==
  /\ processor = "rest" /\ Holds("processor")
  /\ processor' = IF paused THEN "waiting" ELSE "check"
  /\ Release
  /\ UNCHANGED <<held, taken, active, running, staleness, paused, counted, messages, training, saved, crashes>>

Slot ==
  /\ processor = "slot"
  /\ Reap
  /\ processor' = IF Cardinality(running) >= MaxConcurrent THEN "slot" ELSE "submit"
  /\ AskAgain("processor")
  /\ UNCHANGED <<held, taken, running, staleness, paused, counted, messages, training, saved, crashes>>

\* Nobody but the processor pauses, so it never has to wait here.
Submit ==
  /\ processor = "submit" /\ Holds("processor")
  /\ ~paused
  /\ active' = active \cup {held}
  /\ running' = running \cup {held}
  /\ held' = None
  /\ processor' = "check"
  /\ Release
  /\ UNCHANGED <<taken, staleness, paused, counted, messages, training, saved, crashes>>

\* _process_single_sample_streaming
Finish(sample) ==
  /\ ~Busy
  /\ sample \in running
  /\ running' = running \ {sample}
  /\ Put(sample)
  /\ UNCHANGED <<processor, held, taken, active, staleness, paused, locking, training, saved, crashes>>

\* Mutation: the finish signal does not wait for the tasks.
MutantMayEnd == TRUE

MayEnd == active = {}

\* The remaining tasks, one wait after the other.
EndDrain ==
  /\ processor = "end" /\ ~MayEnd
  /\ Reap
  /\ AskAgain("processor")
  /\ UNCHANGED <<processor, held, taken, running, staleness, paused, counted, messages, training, saved, crashes>>

\* The finish signal, into a queue that may be full.
End ==
  /\ processor = "end" /\ Holds("processor")
  /\ MayEnd
  /\ processor' = "done"
  /\ Release
  /\ Put(None)
  /\ UNCHANGED <<held, taken, active, running, staleness, paused, counted, training, saved, crashes>>

\* Mutation: the monitor recovers a pause only while something is queued.
MutantMayResume == paused /\ ~ShouldPause /\ queue # << >>

MayResume == paused /\ ~ShouldPause

\* _async_monitor_loop wakes up: it recovers a pause that is over, or goes
\* on to look whether the rollouter still runs.  Both take the lock.
MonitorWake ==
  /\ ~Busy
  /\ processor # "done"
  /\ ToSet(lock) \cap {"look", "resume"} = {}
  /\ Ask(IF MayResume THEN "resume" ELSE "look")
  /\ UNCHANGED <<rollouter, counted, messages, training, saved, crashes>>

MonitorResume ==
  /\ Holds("resume")
  /\ paused' = FALSE
  /\ NotifyAll(Tail(lock), <<"look">>)
  /\ UNCHANGED <<held, taken, active, running, staleness, counted, messages, training, saved, crashes>>

MonitorLook ==
  /\ ~Busy
  /\ Holds("look")
  /\ Release
  /\ UNCHANGED <<rollouter, counted, messages, training, saved, crashes>>

\* reset_staleness until it waits for the size of the queue
ResetStart ==
  /\ ~Busy
  /\ Holds("reset") /\ counted = None
  /\ paused' = FALSE
  /\ counted' = Cardinality(active)
  /\ NotifyAll(lock, << >>)
  /\ UNCHANGED <<held, taken, active, running, staleness, messages, training, saved, crashes>>

\* Mutation: what is being generated is not counted.
MutantStalenessNow == Len(queue)

StalenessNow == counted + Len(queue)

ResetEnd ==
  /\ ~Busy
  /\ Holds("reset") /\ counted # None
  /\ staleness' = StalenessNow
  /\ counted' = None
  /\ Release
  /\ trainer' = IF closing THEN "stopping" ELSE "save"
  /\ UNCHANGED <<processor, held, taken, active, running, paused, messages, collected, localStep, version,
                 trained, closing, saved, crashes>>
-----------------------------------------------------------------------------
(* The trainer                                                             *)

\* get_sample: a message at a time until there are enough.
Collect ==
  /\ trainer = "collect"
  /\ queue # << >> /\ Head(queue) # None
  /\ queue' = Tail(queue)
  /\ collected' = collected \cup {Head(queue)}
  /\ trainer' = IF Cardinality(collected) + 1 = Required THEN "train" ELSE "collect"
  /\ UNCHANGED <<rollouter, locking, dropped, localStep, version, trained, closing, saved, crashes>>

\* The finish signal: what has been collected is given up, and the weights
\* are pushed once more, but not in the middle of Trigger steps.
Stop ==
  /\ trainer = "collect"
  /\ queue # << >> /\ Head(queue) = None
  /\ queue' = Tail(queue)
  /\ trainer' = IF version % TestFreq # 0 /\ localStep = 1 THEN "sync" ELSE "stopping"
  /\ collected' = {}
  /\ closing' = TRUE
  /\ UNCHANGED <<rollouter, locking, dropped, localStep, version, trained, saved, crashes>>

\* _fit_update_actor and _fit_update_local_step
Train ==
  /\ ~HandOver
  /\ trainer = "train"
  /\ trained' = trained \cup collected
  /\ collected' = {}
  /\ IF localStep < Trigger
     THEN /\ localStep' = localStep + 1
          /\ trainer' = "save"
          /\ UNCHANGED version
     ELSE /\ localStep' = 1
          /\ version' = version + 1
          /\ trainer' = "sync"
  /\ UNCHANGED <<rollouter, locking, messages, closing, saved, crashes>>

\* _fit_update_weights: the weights are pushed, then staleness is reset.
Sync ==
  /\ ~Busy
  /\ trainer = "sync"
  /\ trainer' = "reset"
  /\ Ask("reset")
  /\ UNCHANGED <<rollouter, counted, messages, collected, localStep, version, trained, closing, saved, crashes>>

Checkpoint == [version |-> version, fed |-> Fed, trained |-> trained]

\* _fit_validate and _fit_save_checkpoint of a step
Save ==
  /\ trainer = "save"
  /\ saved' = IF version # saved.version /\ version % SaveFreq = 0 THEN Checkpoint ELSE saved
  /\ trainer' = "collect"
  /\ UNCHANGED <<rollouter, locking, messages, collected, localStep, version, trained, closing, crashes>>

\* The last save is forced, but not for the same version.
LastSave ==
  /\ trainer = "stopping"
  /\ saved' = IF version # saved.version THEN Checkpoint ELSE saved
  /\ trainer' = "stopped"
  /\ UNCHANGED <<rollouter, locking, messages, collected, localStep, version, trained, closing, crashes>>

\* Mutation: the data starts again from the version's step, not from the
\* saved position of the data loader.
MutantResumeAt == saved.version * Required * Trigger

ResumeAt == saved.fed

\* Everything is started again from the last checkpoint: what was pending, in
\* tasks or in the queue is not generated again.
Crash ==
  /\ crashes < MaxCrashes
  /\ trainer # "stopped"
  /\ crashes' = crashes + 1
  /\ processor' = "check" /\ held' = None
  /\ active' = {} /\ running' = {} /\ staleness' = 0 /\ paused' = FALSE
  /\ lock' = << >> /\ counted' = None
  /\ queue' = << >>
  /\ trainer' = "collect" /\ collected' = {} /\ localStep' = 1 /\ closing' = FALSE
  /\ taken' = ResumeAt
  /\ version' = saved.version
  /\ trained' = saved.trained
  /\ dropped' = {s \in dropped : s <= saved.fed}
  /\ UNCHANGED saved
-----------------------------------------------------------------------------
Processor ==
  \/ CheckPause \/ CheckTake \/ CheckEnd \/ Pause \/ Drain \/ Rest \/ Slot \/ Submit \/ EndDrain \/ End

Monitor == MonitorWake \/ MonitorResume \/ MonitorLook
Reset == ResetStart \/ ResetEnd
Trainer == Collect \/ Stop \/ Train \/ Sync \/ Save \/ LastSave

Next ==
  \/ Processor \/ Monitor \/ Reset \/ Trainer \/ Crash
  \/ \E sample \in running : Finish(sample)

Spec == Init /\ [][Next]_vars

\* The event loops run, generation comes to an end, the monitor looks again
\* and again; nothing makes a crash happen.
Fairness ==
  /\ WF_vars(Processor) /\ WF_vars(Monitor) /\ WF_vars(Reset) /\ SF_vars(Trainer)
  /\ \A sample \in Samples : WF_vars(Finish(sample))

FairSpec == Spec /\ Fairness
-----------------------------------------------------------------------------
Queued == ToSet(queue) \ {None}
Outstanding == Cardinality(running) + Cardinality({held} \ {None}) + Cardinality(Queued)

\* Staleness is bounded although a reset misses the sample that waits for a
\* slot and counts finished tasks twice: at most one sample more than
\* max_required_samples is neither trained nor lost.
FreshnessBound == Outstanding <= MaxRequired + 1

\* A sample is in one place: not generated twice, not trained twice even after
\* a resume, and not trained when the queue has lost it.  Each place is compared
\* with those further on.
OnePlace ==
  /\ \A i, j \in DOMAIN queue : queue[i] = queue[j] => i = j
  /\ held \notin running \cup Queued \cup collected \cup trained \cup dropped
  /\ running \cap (Queued \cup collected \cup trained \cup dropped) = {}
  /\ Queued \cap (collected \cup trained \cup dropped) = {}
  /\ (collected \cup dropped) \cap trained = {} /\ collected \cap dropped = {}

\* What a finished run has neither trained on nor lost from the full queue is
\* less than a training step, and for each crash what was between the data and
\* the trainer when the checkpoint was written: pending, generated or queued.
NothingLeftBehind ==
  trainer = "stopped" =>
    Total - Cardinality(trained \cup dropped) < Required + crashes * (MaxRequired + 1 + PendingMax + 1)

\* Neither pauses, resets, a full queue, nor a resume bring the trainer to wait
\* for samples that never come: training ends.
TrainingEnds == <>(trainer = "stopped")
=============================================================================
