-------------------------- MODULE RewardExecution --------------------------
(***************************************************************************)
(* How the reward calculator of one task runs programs: the groups of      *)
(* score_rollout_group, the execution cache, the r3 runs on perturbed      *)
(* instances (reward/default_reward.py), and the sandboxed executor with   *)
(* one directory per worker thread (reward/executor.py, mode "sandbox").   *)
(*                                                                         *)
(* A program's text is a model value.  Of a run, the model keeps what the  *)
(* rewards depend on: which program the interpreter really executed and    *)
(* which program wrote the LP file the structural reward reads.            *)
(***************************************************************************)
EXTENDS Integers, FiniteSets, Sequences

CONSTANTS
  Programs,
  WritesLp,      \* those that dump their model before they optimise
  Endless,       \* those that only a timeout ends
  Size,          \* bytes of a program's file
  Main,          \* the ident of the thread that scores
  PoolIdents,    \* the idents pool threads may get
  MaxWorkers,    \* min(8, cpu_count), at least 1
  Groups,        \* the trajectory groups the search may ask for
  Cases,         \* number of perturbed instances of the task, 0: r3 is off
  MaxGroups,     \* bound: groups scored
  MaxClock,      \* bound: seconds
  None

Idents == {Main} \cup PoolIdents

ASSUME ProgramAssumption ==
  /\ WritesLp \subseteq Programs /\ Endless \subseteq Programs
  /\ Size \in [Programs -> Nat]
  /\ Groups \subseteq Seq(Programs) \ {<< >>}
  /\ IsFiniteSet(PoolIdents) /\ Main \notin PoolIdents /\ MaxWorkers \in Nat \ {0}
  /\ Cases \in Nat /\ MaxGroups \in Nat /\ MaxClock \in Nat

\* ExecutionResult: the program that ran, the one whose LP file was read, and,
\* for the properties, the one whose LP file could not be removed before.
Result == [ran : Programs \cup {None}, lp : Programs \cup {None},
           left : Programs \cup {None}, how : {"exit", "timeout", "oserror"}]

ASSUME NoneAssumption == None \notin Programs /\ None \notin Result

VARIABLES
  phase,     \* "generate", "group" or "r3": which call the scorer is in
  groups,    \* how many groups have been started
  clock,     \* the seconds of file times
  jobs,      \* the programs of the group's trajectories
  taken,     \* how many jobs of the current pool.map have been taken
  answer,    \* _execute's result for each trajectory
  r3At,      \* the trajectory whose r3 cases run
  r3,        \* run_many's result for each case
  thread,    \* what each thread does
  lp,        \* the newest LP file of each worker directory
  bytecode,  \* the interpreter's __pycache__ in the worker directories
  cache      \* _exec_cache

call == <<phase, groups, jobs, r3At>>
vars == <<call, clock, taken, answer, r3, thread, lp, bytecode, cache>>

ThreadSteps == {"gone", "idle", "start", "run", "solved", "return"}
Thread == [step : ThreadSteps, job : Nat, prog : Programs \cup {None}, index : Nat,
           mtime : Nat, left : Programs \cup {None}, ran : Programs \cup {None},
           result : Result \cup {None}]
Fresh == [step |-> "gone", job |-> 0, prog |-> None, index |-> 0, mtime |-> 0,
          left |-> None, ran |-> None, result |-> None]
-----------------------------------------------------------------------------
(* Who works on what.                                                      *)

\* The jobs of the current call, and the program of each.
NumJobs == IF phase = "r3" THEN Cases ELSE Len(jobs)
Program(j) == IF phase = "r3" THEN jobs[r3At] ELSE jobs[j]
Busy(t) == thread[t].step \notin {"gone", "idle"}
Live == {t \in PoolIdents : thread[t].step # "gone"}
Workers == IF NumJobs < MaxWorkers THEN NumJobs ELSE MaxWorkers

\* A single job runs in the calling thread; a pool of Workers runs several.
\* A pool thread is started when a job finds no idle one.
MayTake(t) ==
  /\ phase \in {"group", "r3"} /\ ~Busy(t) /\ taken < NumJobs
  /\ IF NumJobs = 1 THEN t = Main
     ELSE t \in Live \/ (t \in PoolIdents /\ Cardinality(Live) < Workers)

\* A thread's local state dies with it; the main thread's stays.
PoolShutDown == [t \in Idents |-> IF t = Main THEN thread[t] ELSE Fresh]
-----------------------------------------------------------------------------
(* The scorer.                                                             *)

\* Between two groups the policy samples and updates, which takes a second at
\* least; between the runs of one group nothing needs to.
StartGroup(g) ==
  /\ phase = "generate" /\ groups < MaxGroups /\ clock < MaxClock
  /\ phase' = "group" /\ groups' = groups + 1
  /\ clock' = clock + 1
  /\ jobs' = g /\ taken' = 0
  /\ answer' = [i \in DOMAIN g |-> None]
  /\ UNCHANGED <<r3At, r3, thread, lp, bytecode, cache>>

StartCases(i) ==
  /\ phase' = "r3" /\ r3At' = i /\ taken' = 0
  /\ r3' = [c \in 1..Cases |-> None]

\* pool.map has all its results: the group goes on to its r3 runs.
GroupExecuted ==
  /\ phase = "group" /\ \A i \in DOMAIN answer : answer[i] # None
  /\ thread' = PoolShutDown
  /\ IF Cases = 0 THEN phase' = "generate" /\ UNCHANGED <<r3At, r3, taken>>
     ELSE StartCases(1)
  /\ UNCHANGED <<groups, clock, jobs, answer, lp, bytecode, cache>>

CasesExecuted ==
  /\ phase = "r3" /\ \A c \in 1..Cases : r3[c] # None
  /\ thread' = PoolShutDown
  /\ IF r3At < Len(jobs) THEN StartCases(r3At + 1)
     ELSE phase' = "generate" /\ r3At' = 0 /\ r3' = << >> /\ UNCHANGED taken
  /\ UNCHANGED <<groups, clock, jobs, answer, lp, bytecode, cache>>

Tick ==
  /\ clock < MaxClock /\ clock' = clock + 1
  /\ UNCHANGED <<call, taken, answer, r3, thread, lp, bytecode, cache>>
-----------------------------------------------------------------------------
(* One worker thread: _execute and _run_in_sandbox.                        *)

\* Mutation: the cache is not asked.
MutantCached(p) == FALSE

\* _execute asks the cache; the r3 runs do not.
Cached(p) == phase = "group" /\ cache[p] # None

TakeCached(t) ==
  /\ MayTake(t) /\ Cached(Program(taken + 1))
  /\ taken' = taken + 1
  /\ answer' = [answer EXCEPT ![taken + 1] = cache[Program(taken + 1)]]
  /\ thread' = [thread EXCEPT ![t].step = "idle"]
  /\ UNCHANGED <<call, clock, r3, lp, bytecode, cache>>

\* Mutation: every run of a thread writes the same file.
MutantNextIndex(t) == 1

\* run_index counts the runs of a thread
NextIndex(t) == thread[t].index + 1

\* Mutation: the LP file of the previous run stays, whether or not it could go.
MutantAfterCleanup(t, removed) == lp[t]

\* _cleanup_lp_artifacts: what cannot be removed stays, and nobody is told.
AfterCleanup(t, removed) == IF removed THEN None ELSE lp[t]

\* The job's program is written to solution_<run_index>.py of the thread's
\* directory, and the LP files in there go if they can.
TakeToRun(t) ==
  /\ MayTake(t) /\ ~Cached(Program(taken + 1))
  /\ taken' = taken + 1
  /\ \E removed \in BOOLEAN :
       /\ thread' = [thread EXCEPT ![t] =
            [step |-> "start", job |-> taken + 1, prog |-> Program(taken + 1),
             index |-> NextIndex(t), mtime |-> clock, left |-> IF removed THEN None ELSE lp[t],
             ran |-> None, result |-> None]]
       /\ lp' = [lp EXCEPT ![t] = AfterCleanup(t, removed)]
  /\ UNCHANGED <<call, clock, answer, r3, bytecode, cache>>

\* The bytecode the import of the thread's solution file looks at: it stands
\* for the file when it records the file's time in seconds and its size.
CachedCode(t) == {b \in bytecode : b.dir = t /\ b.index = thread[t].index}
Valid(t) == {b \in CachedCode(t) : /\ b.mtime = thread[t].mtime
                                   /\ Size[b.prog] = Size[thread[t].prog]}

Start(t) ==
  /\ thread[t].step = "start"
  /\ IF Valid(t) # {}
     THEN /\ \E b \in Valid(t) :
               thread' = [thread EXCEPT ![t].step = "run", ![t].ran = b.prog]
          /\ UNCHANGED bytecode
     ELSE /\ thread' = [thread EXCEPT ![t].step = "run", ![t].ran = thread[t].prog]
          /\ bytecode' = (bytecode \ CachedCode(t)) \cup
               {[dir |-> t, index |-> thread[t].index, mtime |-> thread[t].mtime,
                 prog |-> thread[t].prog]}
  /\ UNCHANGED <<call, clock, taken, answer, r3, lp, cache>>

\* The run is over with result r.
RunEnds(t, r) ==
  /\ thread' = [thread EXCEPT ![t].step = "return", ![t].result = r]
  /\ UNCHANGED <<call, clock, taken, answer, r3, lp, bytecode, cache>>

CannotStart(t) ==
  /\ thread[t].step = "start"
  /\ RunEnds(t, [ran |-> None, lp |-> None, left |-> thread[t].left, how |-> "oserror"])

WriteLp(t) ==
  /\ thread[t].step = "run" /\ thread[t].ran \in WritesLp
  /\ lp' = [lp EXCEPT ![t] = thread[t].ran]
  /\ thread' = [thread EXCEPT ![t].step = "solved"]
  /\ UNCHANGED <<call, clock, taken, answer, r3, bytecode, cache>>

\* A normal exit: model information is read from the directory's newest LP file.
Exit(t) ==
  /\ thread[t].step = IF thread[t].ran \in WritesLp THEN "solved" ELSE "run"
  /\ thread[t].ran \notin Endless
  /\ RunEnds(t, [ran |-> thread[t].ran, lp |-> lp[t], left |-> thread[t].left, how |-> "exit"])

\* Mutation: a run that timed out is run again.
MutantTimedOut(t) ==
  /\ thread[t].step \in {"start", "run", "solved"}
  /\ thread' = [thread EXCEPT ![t].step = "start"]
  /\ UNCHANGED <<call, clock, taken, answer, r3, lp, bytecode, cache>>

\* timeout_sec is over: the process is killed and its LP file is not read.
TimedOut(t) ==
  /\ thread[t].step \in {"start", "run", "solved"}
  /\ RunEnds(t, [ran |-> thread[t].ran, lp |-> None, left |-> thread[t].left, how |-> "timeout"])

\* Mutation: the second look at the cache is left out.
MutantPublished(p, r) == r

\* The lock is taken again: a result that got there first is the answer.
Published(p, r) == IF cache[p] # None THEN cache[p] ELSE r

Return(t) ==
  LET job == thread[t].job
      res == Published(thread[t].prog, thread[t].result)
  IN
  /\ thread[t].step = "return"
  /\ thread' = [thread EXCEPT ![t] = [Fresh EXCEPT !.step = "idle", !.index = thread[t].index]]
  /\ IF phase = "group"
     THEN /\ cache' = [cache EXCEPT ![thread[t].prog] = res]
          /\ answer' = [answer EXCEPT ![job] = res]
          /\ UNCHANGED r3
     ELSE /\ r3' = [r3 EXCEPT ![job] = thread[t].result]
          /\ UNCHANGED <<answer, cache>>
  /\ UNCHANGED <<call, clock, taken, lp, bytecode>>

ThreadStep(t) ==
  \/ TakeCached(t) \/ TakeToRun(t) \/ Start(t) \/ CannotStart(t)
  \/ WriteLp(t) \/ Exit(t) \/ TimedOut(t) \/ Return(t)
-----------------------------------------------------------------------------
Init ==
  /\ phase = "generate" /\ groups = 0 /\ clock = 0
  /\ jobs = << >> /\ taken = 0 /\ answer = << >>
  /\ r3At = 0 /\ r3 = << >>
  /\ thread = [t \in Idents |-> Fresh]
  /\ lp = [t \in Idents |-> None]
  /\ bytecode = {}
  /\ cache = [p \in Programs |-> None]

SearchOver == phase = "generate" /\ UNCHANGED vars

Next ==
  \/ \E g \in Groups : StartGroup(g)
  \/ GroupExecuted \/ CasesExecuted \/ Tick
  \/ \E t \in Idents : ThreadStep(t)
  \/ SearchOver

Spec == Init /\ [][Next]_vars

\* Threads are scheduled, a program that does not end is killed in time, and
\* the scorer goes on when its pool is done.
FairSpec ==
  /\ Spec
  /\ WF_vars(GroupExecuted \/ CasesExecuted)
  /\ \A t \in Idents : WF_vars(ThreadStep(t))
-----------------------------------------------------------------------------
(* Properties.                                                             *)

ThreadsOK ==
  /\ thread \in [Idents -> Thread]
  /\ \A t \in Idents : Busy(t) =>
       /\ phase \in {"group", "r3"} /\ thread[t].job \in 1..NumJobs
       /\ thread[t].prog = Program(thread[t].job)
  /\ \A t \in PoolIdents : thread[t].index <= taken
  /\ \A t \in Idents : thread[t].step \in {"run", "solved"} => thread[t].ran \in Programs
  /\ \A t \in Idents : thread[t].step = "return" => thread[t].result \in Result

\* Types; a pool never has more threads than MaxWorkers, and each of them
\* numbers its files from 1.
TypeOK ==
  /\ phase \in {"generate", "group", "r3"} /\ groups \in Nat /\ clock \in Nat
  /\ jobs \in Groups \cup {<< >>} /\ (phase # "generate" => jobs \in Groups)
  /\ taken \in Nat /\ r3At \in Nat
  /\ answer \in [1..Len(jobs) -> Result \cup {None}]
  /\ phase = "r3" => r3At \in 1..Len(jobs) /\ r3 \in [1..Cases -> Result \cup {None}]
  /\ ThreadsOK /\ Cardinality(Live) <= MaxWorkers
  /\ lp \in [Idents -> Programs \cup {None}]
  /\ bytecode \subseteq [dir : Idents, index : Nat, mtime : Nat, prog : Programs]
  /\ cache \in [Programs -> Result \cup {None}]

Memo == INSTANCE MemoizedExecution WITH Results <- Result, memo <- cache

\* Every trajectory with the same program is told the same result, in a group
\* and in later groups, even when two workers run the program at the same time
\* and only one of them times out.
ImplementsMemo == Memo!Spec

\* The structural reward of a trajectory never sees another program's LP file,
\* although worker directories are used again, with one exception: a file that
\* could not be removed right before the run (the error is swallowed) is read
\* after it, if the program of the run dumps no model of its own.
FreshStructure ==
  \A i \in DOMAIN answer :
    answer[i] # None /\ answer[i].lp # None =>
      \/ answer[i].lp = answer[i].ran
      \/ answer[i].lp = answer[i].left /\ answer[i].ran \notin WritesLp

\* The result a trajectory is scored with is that of its own program, although
\* worker directories, file names and bytecode are reused from group to group.
OwnProgram ==
  \A i \in DOMAIN answer :
    answer[i] # None => answer[i].ran \in {jobs[i], None}

\* A pool gives every trajectory of a group its result, and every case of the
\* r3 runs its own; no hanging program holds the search up.
GroupsAreScored == phase = "group" ~> phase = "generate"

\* The class comment of PythonCodeExecutor calls the sandbox one workspace
\* reused for faster set-up, and _invoke_runner removes what an earlier sample
\* may have left there: an r3 run executes the trajectory's own program.
OwnProgramInCases ==
  phase = "r3" => \A c \in DOMAIN r3 : r3[c] # None => r3[c].ran \in {jobs[r3At], None}
=============================================================================
