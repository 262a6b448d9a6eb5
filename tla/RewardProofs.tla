---------------------------- MODULE RewardProofs ----------------------------
(***************************************************************************)
(* Proofs about the rewards of a group. RewardExecution: its types, the    *)
(* memo it implements, and the two facts a trajectory's score rests on,    *)
(* that the LP file read after a run and the program that ran are its      *)
(* own. StructuralReward and ConsensusReward: the rewards computed from    *)
(* what ran, in exact fractions, for all inputs.                           *)
(***************************************************************************)
EXTENDS RewardExecution, ConsensusReward, StructuralReward, Selections,
        FiniteSetTheorems, WellFoundedInduction, TLAPS

-----------------------------------------------------------------------------
(* The inductive invariant behind the types and the memo: what is not yet  *)
(* answered is either not taken or being run by exactly one thread.        *)

Out == IF phase = "r3" THEN r3 ELSE answer

TakenOK ==
  /\ taken <= NumJobs
  /\ \A i \in 1..NumJobs : i > taken => Out[i] = None

RunningOK ==
  /\ \A t \in Idents : Busy(t) => thread[t].job <= taken /\ Out[thread[t].job] = None
  /\ \A s, t \in Idents : Busy(s) /\ Busy(t) /\ s # t => thread[s].job # thread[t].job

BetweenOK ==
  /\ phase # "group" => \A i \in DOMAIN answer : answer[i] # None
  /\ phase = "generate" => \A t \in PoolIdents : thread[t] = Fresh

JobsOK == (phase # "generate" => TakenOK) /\ RunningOK /\ BetweenOK

TypeInv == TypeOK /\ JobsOK

\* The scorer's variables have their types.
CallOK ==
  /\ phase \in {"generate", "group", "r3"} /\ groups \in Nat /\ clock \in Nat
  /\ jobs \in Groups \cup {<< >>} /\ (phase # "generate" => jobs \in Groups)
  /\ taken \in Nat /\ r3At \in Nat
  /\ answer \in [1..Len(jobs) -> Result \cup {None}]
  /\ phase = "r3" => r3At \in 1..Len(jobs) /\ r3 \in [1..Cases -> Result \cup {None}]

\* So do the files and the cache.
FilesOK ==
  /\ lp \in [Idents -> Programs \cup {None}]
  /\ bytecode \subseteq [dir : Idents, index : Nat, mtime : Nat, prog : Programs]
  /\ cache \in [Programs -> Result \cup {None}]

PoolOK == Cardinality(Live) <= MaxWorkers

\* The type invariant in three parts, each preserved for its own reasons.
LEMMA TypeParts == TypeOK <=> CallOK /\ FilesOK /\ ThreadsOK /\ PoolOK
BY DEF TypeOK, CallOK, FilesOK, PoolOK

\* A job of a call is a program, whichever call it is.
LEMMA ProgramTyped ==
  ASSUME CallOK, phase # "generate", NEW j \in 1..NumJobs
  PROVE  Program(j) \in Programs /\ NumJobs \in Nat
<1> USE ProgramAssumption
<1>1. jobs \in Seq(Programs)
  BY DEF CallOK
<1>2. Len(jobs) \in Nat /\ \A i \in 1..Len(jobs) : jobs[i] \in Programs
  BY <1>1
<1>3. CASE phase = "r3"
  BY <1>2, <1>3 DEF CallOK, Program, NumJobs
<1>4. CASE phase # "r3"
  BY <1>2, <1>4 DEF Program, NumJobs
<1> QED BY <1>3, <1>4

\* Initially nothing runs.
LEMMA InitTypeInv == Init => TypeInv
<1> SUFFICES ASSUME Init PROVE TypeInv
  OBVIOUS
<1> USE ProgramAssumption DEF Init
<1>1. CallOK
  BY DEF CallOK
<1>2. FilesOK
  BY DEF FilesOK
<1>3. ThreadsOK
  BY DEF ThreadsOK, Fresh, Thread, ThreadSteps, Busy, Idents
<1>4. PoolOK
  <2>1. Live = {}
    BY DEF Live, Fresh, Idents
  <2> QED BY <2>1, FS_EmptySet DEF PoolOK
<1>5. JobsOK
  BY DEF JobsOK, RunningOK, BetweenOK, Busy, Fresh, Idents
<1> QED BY <1>1, <1>2, <1>3, <1>4, <1>5, TypeParts DEF TypeInv

\* Taking a job is one way a thread can change: its own record does, to
\* another that is well typed, and the call stays the same.
LEMMA LiveGrows ==
  ASSUME TypeInv, NEW t \in Idents, MayTake(t), NEW r, r.step # "gone",
         thread' = [thread EXCEPT ![t] = r]
  PROVE  PoolOK'
<1> USE ProgramAssumption
<1>1. IsFiniteSet(Live)
  BY FS_Subset DEF Live
<1>2. Cardinality(Live) \in Nat /\ Cardinality(Live) <= MaxWorkers
  BY <1>1, FS_CardinalityType DEF TypeInv, TypeOK
<1>3. CASE t \in Live \/ t = Main
  <2>1. Live' = Live
    BY <1>3 DEF Live, TypeInv, TypeOK, ThreadsOK, Idents
  <2> QED BY <2>1, <1>2 DEF PoolOK
<1>4. CASE t \in PoolIdents \ Live
  <2>1. Live' = Live \cup {t}
    BY <1>4 DEF Live, TypeInv, TypeOK, ThreadsOK, Idents
  <2>2. Cardinality(Live') = Cardinality(Live) + 1
    BY <1>1, <1>4, <2>1, FS_AddElement
  <2>3. Cardinality(Live) < Workers
    BY <1>4 DEF MayTake
  <2>4. Workers <= MaxWorkers
    <3>1. NumJobs \in Nat
      BY ProgramTyped DEF MayTake, NumJobs, CallOK, TypeInv, TypeOK
    <3> QED BY <3>1 DEF Workers
  <2>5. Workers \in Nat
    <3>1. NumJobs \in Nat
      BY DEF NumJobs, TypeInv, TypeOK, MayTake
    <3> QED BY <3>1 DEF Workers
  <2> QED BY <1>2, <2>2, <2>3, <2>4, <2>5 DEF PoolOK
<1> QED BY <1>3, <1>4 DEF Idents


\* Whatever ends a run leaves a result.
LEMMA RunHasResult ==
  ASSUME TypeInv, NEW t \in Idents, CannotStart(t) \/ Exit(t) \/ TimedOut(t)
  PROVE  \E r \in Result : RunEnds(t, r)
<1>1. /\ thread[t].ran \in Programs \cup {None} /\ lp[t] \in Programs \cup {None}
      /\ thread[t].left \in Programs \cup {None}
  BY TypeParts DEF TypeInv, ThreadsOK, Thread, FilesOK
<1>2. CASE CannotStart(t)
  BY <1>1, <1>2 DEF CannotStart, Result
<1>3. CASE Exit(t)
  BY <1>1, <1>3 DEF Exit, Result
<1>4. CASE TimedOut(t)
  BY <1>1, <1>4 DEF TimedOut, Result
<1> QED BY <1>2, <1>3, <1>4

\* What a thread's step does to the threads: only its own record changes.
LEMMA ThreadStepShape ==
  ASSUME TypeInv, NEW t \in Idents, ThreadStep(t)
  PROVE  /\ phase # "generate" /\ UNCHANGED <<call, clock>>
         /\ thread' = [thread EXCEPT ![t] = thread'[t]]
         /\ thread'[t] \in Thread /\ thread'[t].step # "gone"
         /\ NumJobs' = NumJobs /\ \A j : Program(j)' = Program(j)
<1> USE ProgramAssumption
<1>1. thread \in [Idents -> Thread] /\ CallOK /\ FilesOK /\ ThreadsOK
  BY TypeParts DEF TypeInv, ThreadsOK
<1>2. CASE TakeCached(t)
  BY <1>1, <1>2 DEF TakeCached, MayTake, call, Thread, ThreadSteps, NumJobs, Program
<1>3. CASE TakeToRun(t)
  <2>1. phase # "generate" /\ taken + 1 \in 1..NumJobs
    BY <1>1, <1>3 DEF TakeToRun, MayTake, CallOK, NumJobs
  <2>2. Program(taken + 1) \in Programs
    BY <2>1, <1>1, ProgramTyped
  <2>3. PICK removed \in BOOLEAN : thread' = [thread EXCEPT ![t] =
          [step |-> "start", job |-> taken + 1, prog |-> Program(taken + 1),
           index |-> NextIndex(t), mtime |-> clock,
           left |-> IF removed THEN None ELSE lp[t], ran |-> None, result |-> None]]
    BY <1>3 DEF TakeToRun
  <2>4. thread'[t] \in Thread /\ thread'[t].step # "gone"
    <3>1. (IF removed THEN None ELSE lp[t]) \in Programs \cup {None}
      BY <1>1 DEF FilesOK
    <3> QED BY <1>1, <2>1, <2>2, <2>3, <3>1 DEF Thread, ThreadSteps, NextIndex, CallOK
  <2>5. UNCHANGED <<call, clock>> /\ NumJobs' = NumJobs /\ \A j : Program(j)' = Program(j)
    BY <1>3 DEF TakeToRun, call, NumJobs, Program
  <2> QED BY <1>1, <2>1, <2>3, <2>4, <2>5
<1>4. CASE Start(t)
  <2>1. phase # "generate"
    BY <1>1, <1>4 DEF Start, ThreadsOK, Busy
  <2>2. \A b \in Valid(t) : b.prog \in Programs
    BY <1>1 DEF Valid, CachedCode, FilesOK
  <2>3. PICK x \in Programs \cup {None} :
          thread' = [thread EXCEPT ![t].step = "run", ![t].ran = x]
    BY <1>1, <1>4, <2>2 DEF Start, Thread
  <2>4. thread'[t] \in Thread /\ thread'[t].step # "gone"
    BY <1>1, <2>3 DEF Thread, ThreadSteps
  <2>5. thread' = [thread EXCEPT ![t] = thread'[t]]
    BY <1>1, <2>3
  <2>6. UNCHANGED <<call, clock>> /\ NumJobs' = NumJobs /\ \A j : Program(j)' = Program(j)
    BY <1>4 DEF Start, call, NumJobs, Program
  <2> QED BY <2>1, <2>4, <2>5, <2>6
<1>5. CASE CannotStart(t) \/ Exit(t) \/ TimedOut(t)
  <2>1. phase # "generate"
    BY <1>1, <1>5 DEF CannotStart, Exit, TimedOut, ThreadsOK, Busy
  <2>2. PICK r \in Result : RunEnds(t, r)
    BY <1>5, RunHasResult
  <2>3. thread'[t] \in Thread /\ thread'[t].step # "gone"
    BY <1>1, <2>2 DEF RunEnds, Thread, ThreadSteps
  <2>4. thread' = [thread EXCEPT ![t] = thread'[t]]
    BY <1>1, <2>2 DEF RunEnds
  <2>5. UNCHANGED <<call, clock>> /\ NumJobs' = NumJobs /\ \A j : Program(j)' = Program(j)
    BY <2>2 DEF RunEnds, call, NumJobs, Program
  <2> QED BY <2>1, <2>3, <2>4, <2>5
<1>6. CASE WriteLp(t)
  <2>1. phase # "generate"
    BY <1>1, <1>6 DEF WriteLp, ThreadsOK, Busy
  <2> QED
    BY <1>1, <1>6, <2>1 DEF WriteLp, call, Thread, ThreadSteps, NumJobs, Program
<1>7. CASE Return(t)
  <2>1. phase # "generate"
    BY <1>1, <1>7 DEF Return, ThreadsOK, Busy
  <2> QED
    BY <1>1, <1>7, <2>1 DEF Return, call, Thread, ThreadSteps, Fresh, NumJobs, Program
<1> QED BY <1>2, <1>3, <1>4, <1>5, <1>6, <1>7 DEF ThreadStep

\* The scorer's own variables stay well typed.
LEMMA StepCallOK == TypeInv /\ Next => CallOK'
<1> SUFFICES ASSUME TypeInv, Next PROVE CallOK'
  OBVIOUS
<1> USE ProgramAssumption
<1>1. CallOK /\ FilesOK /\ ThreadsOK
  BY TypeParts DEF TypeInv
<1>2. ASSUME NEW g \in Groups, StartGroup(g) PROVE CallOK'
  <2>1. Len(g) \in Nat /\ DOMAIN g = 1..Len(g)
    OBVIOUS
  <2> QED BY <1>1, <1>2, <2>1 DEF StartGroup, CallOK
<1>3. CASE GroupExecuted \/ CasesExecuted
  <2>1. phase # "generate" /\ jobs \in Groups /\ Len(jobs) \in Nat \ {0}
    BY <1>1, <1>3 DEF GroupExecuted, CasesExecuted, CallOK
  <2> QED BY <1>1, <1>3, <2>1 DEF GroupExecuted, CasesExecuted, StartCases, CallOK
<1>4. CASE Tick
  BY <1>1, <1>4 DEF Tick, call, CallOK
<1>5. ASSUME NEW t \in Idents, ThreadStep(t) PROVE CallOK'
  <2>1. /\ phase # "generate" /\ UNCHANGED <<call, clock>>
        /\ jobs \in Groups /\ Len(jobs) \in Nat
    BY <1>1, <1>5, ThreadStepShape DEF CallOK
  <2>2. CASE TakeCached(t)
    <3>1. phase = "group" /\ Program(taken + 1) \in Programs /\ taken + 1 \in 1..Len(jobs)
      BY <1>1, <2>1, <2>2, ProgramTyped DEF TakeCached, MayTake, Cached, NumJobs, CallOK
    <3>2. cache[Program(taken + 1)] \in Result \cup {None}
      BY <1>1, <3>1 DEF FilesOK
    <3> QED BY <1>1, <2>1, <2>2, <3>1, <3>2 DEF TakeCached, call, CallOK
  <2>3. CASE TakeToRun(t)
    BY <1>1, <2>1, <2>3 DEF TakeToRun, call, CallOK
  <2>4. CASE Return(t)
    <3>1. thread[t].result \in Result /\ thread[t].prog \in Programs
      <4>1. Busy(t) /\ thread[t].step = "return"
        BY <2>4 DEF Return, Busy
      <4> QED BY <4>1, <1>1, <2>1, ProgramTyped DEF ThreadsOK
    <3>2. Published(thread[t].prog, thread[t].result) \in Result
      BY <1>1, <3>1 DEF Published, FilesOK
    <3> QED BY <1>1, <2>1, <2>4, <3>1, <3>2 DEF Return, call, CallOK
  <2>5. CASE UNCHANGED <<call, clock, taken, answer, r3>>
    BY <1>1, <2>5 DEF call, CallOK
  <2> QED
    BY <1>5, <2>2, <2>3, <2>4, <2>5
    DEF ThreadStep, Start, CannotStart, Exit, TimedOut, RunEnds, WriteLp
<1>6. CASE UNCHANGED vars
  BY <1>1, <1>6 DEF vars, call, CallOK
<1> QED BY <1>2, <1>3, <1>4, <1>5, <1>6 DEF Next, SearchOver

\* So do the files and the cache.
LEMMA StepFilesOK == TypeInv /\ Next => FilesOK'
<1> SUFFICES ASSUME TypeInv, Next PROVE FilesOK'
  OBVIOUS
<1> USE ProgramAssumption
<1>1. CallOK /\ FilesOK /\ ThreadsOK /\ thread \in [Idents -> Thread]
  BY TypeParts DEF TypeInv, ThreadsOK
<1>2. CASE UNCHANGED <<lp, bytecode, cache>>
  BY <1>1, <1>2 DEF FilesOK
<1>3. ASSUME NEW t \in Idents, ThreadStep(t) PROVE FilesOK'
  <2>1. phase # "generate"
    BY <1>3, ThreadStepShape
  <2>2. CASE TakeToRun(t)
    <3>1. PICK removed \in BOOLEAN : lp' = [lp EXCEPT ![t] = AfterCleanup(t, removed)]
      BY <2>2 DEF TakeToRun
    <3>2. AfterCleanup(t, removed) \in Programs \cup {None}
      BY <1>1 DEF AfterCleanup, FilesOK
    <3> QED BY <1>1, <2>2, <3>1, <3>2 DEF TakeToRun, FilesOK
  <2>3. CASE Start(t)
    <3>1. thread[t].prog \in Programs
      BY <1>1, <2>1, <2>3, ProgramTyped DEF Start, ThreadsOK, Busy
    <3> QED BY <1>1, <2>3, <3>1 DEF Start, FilesOK, Thread
  <2>4. CASE WriteLp(t)
    BY <1>1, <2>4 DEF WriteLp, FilesOK
  <2>5. CASE Return(t)
    <3>1. thread[t].result \in Result
      BY <1>1, <2>5 DEF Return, ThreadsOK
    <3>2. \A p \in Programs : Published(p, thread[t].result) \in Result
      BY <1>1, <3>1 DEF Published, FilesOK
    <3>3. thread[t].prog \in Programs
      BY <1>1, <2>1, <2>5, ProgramTyped DEF Return, ThreadsOK, Busy
    <3> QED BY <1>1, <2>5, <3>2, <3>3 DEF Return, FilesOK
  <2> QED
    BY <1>2, <1>3, <2>2, <2>3, <2>4, <2>5
    DEF ThreadStep, TakeCached, CannotStart, Exit, TimedOut, RunEnds
<1> QED
  BY <1>2, <1>3
  DEF Next, SearchOver, vars, StartGroup, GroupExecuted, CasesExecuted, Tick


\* The thread that steps keeps the rest of the pool within its size.
LEMMA StepPoolOK == TypeInv /\ Next => PoolOK'
<1> SUFFICES ASSUME TypeInv, Next PROVE PoolOK'
  OBVIOUS
<1> USE ProgramAssumption
<1>1. CallOK /\ FilesOK /\ ThreadsOK /\ PoolOK /\ thread \in [Idents -> Thread]
  BY TypeParts DEF TypeInv, ThreadsOK
<1>2. CASE UNCHANGED thread
  BY <1>1, <1>2 DEF PoolOK, Live
<1>3. CASE thread' = PoolShutDown
  <2>1. Live' = {}
    BY <1>3 DEF Live, PoolShutDown, Fresh, Idents
  <2> QED BY <2>1, FS_EmptySet DEF PoolOK
<1>4. ASSUME NEW t \in Idents, ThreadStep(t) PROVE PoolOK'
  <2>1. /\ thread' = [thread EXCEPT ![t] = thread'[t]]
        /\ thread'[t].step # "gone"
    BY <1>4, ThreadStepShape
  <2>2. CASE TakeCached(t) \/ TakeToRun(t)
    BY <2>1, <2>2, LiveGrows DEF TakeCached, TakeToRun
  <2>3. CASE thread[t].step # "gone"
    <3>1. Live' = Live
      BY <1>1, <2>1, <2>3 DEF Live, Idents
    <3> QED BY <1>1, <3>1 DEF PoolOK
  <2> QED
    BY <1>4, <2>2, <2>3
    DEF ThreadStep, Start, CannotStart, Exit, TimedOut, RunEnds, WriteLp, Return
<1> QED
  BY <1>2, <1>3, <1>4
  DEF Next, SearchOver, vars, StartGroup, GroupExecuted, CasesExecuted, Tick

\* When a call has all its results, no thread is busy.
LEMMA AnsweredMeansIdle ==
  ASSUME TypeInv, phase # "generate", \A i \in 1..NumJobs : Out[i] # None
  PROVE  \A t \in Idents : ~Busy(t)
BY DEF TypeInv, TypeOK, ThreadsOK, JobsOK, RunningOK

\* Threads have their types, work for the call they belong to, and count
\* their runs from their start.
LEMMA StepThreadsOK == TypeInv /\ Next => ThreadsOK'
<1> SUFFICES ASSUME TypeInv, Next PROVE ThreadsOK'
  OBVIOUS
<1> USE ProgramAssumption
<1>1. /\ CallOK /\ FilesOK /\ ThreadsOK /\ thread \in [Idents -> Thread]
      /\ JobsOK
  BY TypeParts DEF TypeInv, ThreadsOK
<1>2. ASSUME NEW g \in Groups, StartGroup(g) PROVE ThreadsOK'
  <2>1. phase = "generate" /\ UNCHANGED thread /\ taken' = 0
    BY <1>2 DEF StartGroup
  <2>2. \A t \in Idents : ~Busy(t)
    BY <1>1, <2>1 DEF ThreadsOK
  <2>3. \A t \in PoolIdents : thread[t].index = 0
    BY <1>1, <2>1 DEF JobsOK, BetweenOK, Fresh
  <2> QED BY <1>1, <2>1, <2>2, <2>3 DEF ThreadsOK, Busy
<1>3. CASE GroupExecuted \/ CasesExecuted
  <2>1. \A t \in Idents : ~Busy(t)
    <3>1. phase # "generate" /\ \A i \in 1..NumJobs : Out[i] # None
      BY <1>1, <1>3 DEF GroupExecuted, CasesExecuted, Out, NumJobs, CallOK
    <3> QED BY <3>1, AnsweredMeansIdle
  <2>2. thread' = PoolShutDown /\ taken' \in Nat
    BY <1>1, <1>3 DEF GroupExecuted, CasesExecuted, StartCases, CallOK
  <2>3. /\ thread' \in [Idents -> Thread]
        /\ \A t \in Idents : thread'[t].step \in {"gone", "idle"}
        /\ \A t \in PoolIdents : thread'[t].index = 0
    BY <1>1, <2>1, <2>2 DEF PoolShutDown, Fresh, Thread, ThreadSteps, Busy, Idents
  <2> QED BY <2>2, <2>3 DEF ThreadsOK, Busy
<1>4. CASE UNCHANGED <<call, thread, taken>>
  BY <1>1, <1>4 DEF ThreadsOK, Busy, call, NumJobs, Program
<1>5. ASSUME NEW t \in Idents, ThreadStep(t) PROVE ThreadsOK'
  <2>1. /\ phase # "generate" /\ UNCHANGED <<call, clock>> /\ phase' = phase
        /\ thread' = [thread EXCEPT ![t] = thread'[t]]
        /\ thread'[t] \in Thread
        /\ NumJobs' = NumJobs /\ \A j : Program(j)' = Program(j)
    BY <1>5, ThreadStepShape DEF call
  <2>2. thread' \in [Idents -> Thread] /\ \A s \in Idents \ {t} : thread'[s] = thread[s]
    BY <1>1, <2>1
  <2>3. taken' \in Nat /\ taken <= taken'
    BY <1>1, <1>5
    DEF ThreadStep, TakeCached, TakeToRun, Start, CannotStart, Exit, TimedOut,
        RunEnds, WriteLp, Return, CallOK
  <2>4. /\ Busy(t)' => /\ thread'[t].job \in 1..NumJobs
                       /\ thread'[t].prog = Program(thread'[t].job)
        /\ thread'[t].step \in {"run", "solved"} => thread'[t].ran \in Programs
        /\ thread'[t].step = "return" => thread'[t].result \in Result
        /\ t \in PoolIdents => thread'[t].index <= taken'
    <3>1. CASE TakeCached(t)
      BY <1>1, <2>1, <2>3, <3>1 DEF TakeCached, Busy, ThreadsOK, CallOK, Thread
    <3>2. CASE TakeToRun(t)
      <4>1. /\ thread'[t].step = "start" /\ thread'[t].job = taken + 1
            /\ thread'[t].prog = Program(taken + 1)
            /\ thread'[t].index = thread[t].index + 1 /\ taken' = taken + 1
        BY <1>1, <3>2 DEF TakeToRun, NextIndex
      <4>2. taken + 1 \in 1..NumJobs
        BY <1>1, <2>1, <3>2 DEF TakeToRun, MayTake, CallOK, NumJobs
      <4> QED BY <1>1, <4>1, <4>2 DEF ThreadsOK, Thread, CallOK
    <3>3. CASE Return(t)
      BY <1>1, <2>1, <3>3 DEF Return, Busy, ThreadsOK, Fresh
    <3>4. CASE Start(t)
      <4>1. Busy(t) /\ Program(thread[t].job) \in Programs
        BY <1>1, <2>1, <3>4, ProgramTyped DEF Start, Busy, ThreadsOK
      <4>2. \A b \in Valid(t) : b.prog \in Programs
        BY <1>1 DEF Valid, CachedCode, FilesOK
      <4>3. PICK x \in Programs :
              thread' = [thread EXCEPT ![t].step = "run", ![t].ran = x]
        BY <1>1, <3>4, <4>1, <4>2 DEF Start, ThreadsOK
      <4>4. /\ thread'[t].step = "run" /\ thread'[t].ran = x
            /\ thread'[t].job = thread[t].job /\ thread'[t].prog = thread[t].prog
            /\ thread'[t].index = thread[t].index
        BY <1>1, <4>3 DEF Thread
      <4>5. taken' = taken
        BY <3>4 DEF Start
      <4> QED BY <1>1, <4>1, <4>4, <4>5 DEF ThreadsOK
    <3>5. CASE CannotStart(t) \/ Exit(t) \/ TimedOut(t)
      <4>1. PICK r \in Result : RunEnds(t, r)
        BY <3>5, RunHasResult
      <4>2. Busy(t) /\ UNCHANGED taken
        BY <3>5, <4>1 DEF CannotStart, Exit, TimedOut, Busy, RunEnds
      <4> QED BY <1>1, <4>1, <4>2 DEF RunEnds, ThreadsOK
    <3>6. CASE WriteLp(t)
      BY <1>1, <2>1, <3>6 DEF WriteLp, Busy, ThreadsOK
    <3> QED BY <1>5, <3>1, <3>2, <3>3, <3>4, <3>5, <3>6 DEF ThreadStep
  <2>5. \A s \in Idents \ {t} :
          /\ Busy(s)' => /\ thread'[s].job \in 1..NumJobs
                         /\ thread'[s].prog = Program(thread'[s].job)
          /\ thread'[s].step \in {"run", "solved"} => thread'[s].ran \in Programs
          /\ thread'[s].step = "return" => thread'[s].result \in Result
          /\ s \in PoolIdents => thread'[s].index <= taken'
    BY <1>1, <2>2, <2>3 DEF ThreadsOK, Busy, CallOK, Thread, Idents
  <2>6. phase' \in {"group", "r3"}
    BY <1>1, <2>1 DEF CallOK
  <2> QED BY <1>1, <2>1, <2>2, <2>4, <2>5, <2>6 DEF ThreadsOK, Idents
<1> QED
  BY <1>2, <1>3, <1>4, <1>5 DEF Next, SearchOver, vars, Tick


\* A job is answered once: by the cache when it is taken, or by the one thread
\* that runs it.
LEMMA StepJobsOK == TypeInv /\ Next => JobsOK'
<1> SUFFICES ASSUME TypeInv, Next PROVE JobsOK'
  OBVIOUS
<1> USE ProgramAssumption, NoneAssumption
<1>1. /\ CallOK /\ FilesOK /\ ThreadsOK /\ thread \in [Idents -> Thread]
      /\ JobsOK
  BY TypeParts DEF TypeInv, ThreadsOK
<1>2. ASSUME NEW g \in Groups, StartGroup(g) PROVE JobsOK'
  <2>1. phase = "generate" /\ phase' = "group" /\ UNCHANGED thread /\ taken' = 0
        /\ jobs' = g /\ answer' = [i \in DOMAIN g |-> None]
    BY <1>2 DEF StartGroup
  <2>2. \A t \in Idents : ~Busy(t)'
    BY <1>1, <2>1 DEF ThreadsOK, Busy
  <2>3. TakenOK'
    BY <2>1 DEF TakenOK, NumJobs, Out
  <2> QED BY <2>1, <2>2, <2>3 DEF JobsOK, RunningOK, BetweenOK
<1>3. CASE GroupExecuted \/ CasesExecuted
  <2>1. \A t \in Idents : ~Busy(t)
    <3>1. phase # "generate" /\ \A i \in 1..NumJobs : Out[i] # None
      BY <1>1, <1>3 DEF GroupExecuted, CasesExecuted, Out, NumJobs, CallOK
    <3> QED BY <3>1, AnsweredMeansIdle
  <2>2. thread' = PoolShutDown
    BY <1>3 DEF GroupExecuted, CasesExecuted
  <2>3. (\A t \in Idents : ~Busy(t)') /\ \A t \in PoolIdents : thread'[t] = Fresh
    BY <1>1, <2>1, <2>2 DEF PoolShutDown, Fresh, Busy, Idents
  <2>4. answer' = answer /\ \A i \in DOMAIN answer : answer[i] # None
    BY <1>1, <1>3 DEF GroupExecuted, CasesExecuted, JobsOK, BetweenOK
  <2>5. \/ phase' = "generate"
        \/ phase' = "r3" /\ taken' = 0 /\ r3' = [c \in 1..Cases |-> None]
    BY <1>3 DEF GroupExecuted, CasesExecuted, StartCases
  <2>6. phase' = "r3" => TakenOK'
    BY <2>5 DEF TakenOK, NumJobs, Out
  <2> QED BY <2>3, <2>4, <2>5, <2>6 DEF JobsOK, RunningOK, BetweenOK
<1>4. CASE UNCHANGED <<call, thread, taken, answer, r3>>
  BY <1>1, <1>4 DEF JobsOK, TakenOK, RunningOK, BetweenOK, Busy, Out, call, NumJobs
<1>5. ASSUME NEW t \in Idents, ThreadStep(t) PROVE JobsOK'
  <2>1. /\ phase # "generate" /\ phase' = phase /\ UNCHANGED call
        /\ thread' = [thread EXCEPT ![t] = thread'[t]]
        /\ thread'[t] \in Thread
        /\ NumJobs' = NumJobs /\ \A j : Program(j)' = Program(j)
    BY <1>5, ThreadStepShape DEF call
  <2>2. \A s \in Idents \ {t} : thread'[s] = thread[s]
    BY <1>1, <2>1
  <2>3. NumJobs \in Nat /\ DOMAIN Out = 1..NumJobs /\ taken \in Nat /\ TakenOK
    BY <1>1, <2>1 DEF NumJobs, Out, CallOK, JobsOK
  <2>4. CASE TakeCached(t)
    <3>1. phase = "group" /\ taken + 1 \in 1..NumJobs /\ taken' = taken + 1
      BY <1>1, <2>3, <2>4 DEF TakeCached, MayTake, Cached
    <3>2. Out' = [Out EXCEPT ![taken + 1] = cache[Program(taken + 1)]]
      BY <2>1, <2>4, <3>1 DEF TakeCached, Out
    <3>3. TakenOK'
      BY <2>1, <2>3, <3>1, <3>2 DEF TakenOK
    <3>4. ~Busy(t)'
      BY <1>1, <2>4 DEF TakeCached, Busy
    <3>5. \A s \in Idents \ {t} : Busy(s)' => Busy(s) /\ thread'[s].job <= taken
                                  /\ Out'[thread'[s].job] = None
      BY <1>1, <2>2, <2>3, <3>1, <3>2 DEF Busy, JobsOK, RunningOK, ThreadsOK, Thread
    <3>6. RunningOK'
      BY <1>1, <2>2, <2>3, <3>1, <3>4, <3>5 DEF JobsOK, RunningOK, Thread
    <3> QED BY <2>1, <3>1, <3>3, <3>6 DEF JobsOK, BetweenOK
  <2>5. CASE TakeToRun(t)
    <3>1. /\ taken + 1 \in 1..NumJobs /\ taken' = taken + 1
          /\ UNCHANGED <<answer, r3>> /\ Out' = Out /\ Out[taken + 1] = None
      BY <1>1, <2>1, <2>3, <2>5 DEF TakeToRun, MayTake, TakenOK, Out, call
    <3>2. TakenOK'
      BY <2>1, <2>3, <3>1 DEF TakenOK
    <3>3. thread'[t].job = taken + 1
      BY <1>1, <2>5 DEF TakeToRun
    <3>4. \A s \in Idents \ {t} : Busy(s)' => Busy(s) /\ thread'[s].job \in Nat
                                  /\ thread'[s].job <= taken
                                  /\ Out'[thread'[s].job] = None
      BY <1>1, <2>2, <3>1 DEF Busy, JobsOK, RunningOK, Thread
    <3>5. RunningOK'
      BY <1>1, <2>2, <2>3, <3>1, <3>3, <3>4 DEF JobsOK, RunningOK
    <3> QED BY <1>1, <2>1, <3>1, <3>2, <3>5 DEF JobsOK, BetweenOK
  <2>6. CASE Return(t)
    <3> DEFINE j == thread[t].job
    <3>1. Busy(t) /\ j \in 1..NumJobs /\ j <= taken /\ taken' = taken
      BY <1>1, <2>6 DEF Return, Busy, ThreadsOK, JobsOK, RunningOK
    <3>2. \A i \in 1..NumJobs : i # j => Out'[i] = Out[i]
      BY <2>1, <2>3, <2>6 DEF Return, Out
    <3>3. TakenOK'
      BY <2>1, <2>3, <3>1, <3>2 DEF TakenOK
    <3>4. ~Busy(t)'
      BY <1>1, <2>6 DEF Return, Busy, Fresh
    <3>5. \A s \in Idents \ {t} : Busy(s)' => Busy(s) /\ thread'[s].job <= taken
                                  /\ Out'[thread'[s].job] = None
      BY <1>1, <2>2, <3>1, <3>2 DEF Busy, JobsOK, RunningOK, ThreadsOK
    <3>6. RunningOK'
      BY <1>1, <2>2, <3>1, <3>4, <3>5 DEF JobsOK, RunningOK
    <3>7. phase # "group" => answer' = answer
      BY <2>6 DEF Return
    <3> QED BY <1>1, <2>1, <3>3, <3>6, <3>7 DEF JobsOK, BetweenOK
  <2>7. CASE UNCHANGED <<taken, answer, r3>> /\ thread[t].step \notin {"gone", "idle"}
             /\ thread'[t].job = thread[t].job
    <3>1. TakenOK' /\ Out' = Out
      BY <2>1, <2>3, <2>7 DEF TakenOK, Out, call
    <3>2. \A s \in Idents : thread'[s].job = thread[s].job /\ (Busy(s)' => Busy(s))
      BY <2>2, <2>7 DEF Busy
    <3>3. RunningOK'
      BY <1>1, <2>7, <3>1, <3>2 DEF JobsOK, RunningOK
    <3> QED BY <1>1, <2>1, <2>7, <3>1, <3>3 DEF JobsOK, BetweenOK
  <2>8. ASSUME Start(t) \/ CannotStart(t) \/ Exit(t) \/ TimedOut(t) \/ WriteLp(t)
        PROVE  /\ UNCHANGED <<taken, answer, r3>> /\ thread[t].step \notin {"gone", "idle"}
               /\ thread'[t].job = thread[t].job
    BY <1>1, <2>8 DEF Start, CannotStart, Exit, TimedOut, WriteLp, RunEnds, Thread
  <2> QED BY <1>5, <2>4, <2>5, <2>6, <2>7, <2>8 DEF ThreadStep
<1> QED
  BY <1>2, <1>3, <1>4, <1>5 DEF Next, SearchOver, vars, Tick

\* Every step keeps the invariant.
LEMMA StepTypeInv == TypeInv /\ [Next]_vars => TypeInv'
<1>1. ASSUME TypeInv, Next PROVE TypeInv'
  <2>1. CallOK' /\ FilesOK' /\ ThreadsOK' /\ PoolOK' /\ JobsOK'
    BY <1>1, StepCallOK, StepFilesOK, StepThreadsOK, StepPoolOK, StepJobsOK
  <2> QED BY <2>1 DEF TypeInv, TypeOK, CallOK, FilesOK, PoolOK
<1>2. TypeInv /\ UNCHANGED vars => TypeInv'
  BY DEF vars, call, TypeInv, TypeOK, JobsOK, ThreadsOK, TakenOK, RunningOK, BetweenOK,
         Busy, Out, NumJobs, Program, Live
<1> QED BY <1>1, <1>2

\* Types, the size of the worker pool and the numbering of its threads' files
\* (TypeOK), for any programs, groups, worker count and interleaving.
THEOREM TypeCorrect == Spec => []TypeOK
<1>1. TypeInv => TypeOK
  BY DEF TypeInv
<1> QED BY <1>1, InitTypeInv, StepTypeInv, PTL DEF Spec

-----------------------------------------------------------------------------
(* The memo.                                                               *)

\* Only a group's answers and the cache are seen by the memo; of the steps
\* that change them, each is one of the memo's.
LEMMA MemoStep == TypeInv /\ TypeInv' /\ [Next]_vars => [Memo!Next]_<<jobs, answer, cache>>
<1> SUFFICES ASSUME TypeInv, TypeInv', [Next]_vars
             PROVE  [Memo!Next]_<<jobs, answer, cache>>
  OBVIOUS
<1> USE ProgramAssumption, NoneAssumption
<1>1. CallOK /\ FilesOK /\ ThreadsOK /\ JobsOK /\ CallOK'
  BY TypeParts DEF TypeInv, TypeOK, CallOK
<1>2. ASSUME NEW g \in Groups, StartGroup(g) PROVE Memo!Next
  <2>1. Memo!Ask(g)
    BY <1>1, <1>2 DEF StartGroup, Memo!Ask, JobsOK, BetweenOK
  <2> QED BY <2>1 DEF Memo!Next
<1>3. ASSUME NEW t \in Idents, ThreadStep(t) PROVE [Memo!Next]_<<jobs, answer, cache>>
  <2>1. /\ phase # "generate" /\ UNCHANGED jobs /\ jobs \in Groups
        /\ DOMAIN jobs = 1..Len(jobs) /\ Len(jobs) \in Nat
    BY <1>1, <1>3, ThreadStepShape DEF call, CallOK
  <2>2. CASE TakeCached(t)
    <3> DEFINE i == taken + 1
               r == cache[jobs[i]]
    <3>1. phase = "group" /\ i \in 1..Len(jobs) /\ Program(i) = jobs[i]
      BY <1>1, <2>2 DEF TakeCached, MayTake, Cached, NumJobs, Program, CallOK
    <3>2. jobs[i] \in Programs /\ r \in Result
      BY <1>1, <2>1, <2>2, <3>1, ProgramTyped DEF TakeCached, Cached, FilesOK, NumJobs
    <3>3. answer[i] = None
      BY <1>1, <3>1 DEF JobsOK, TakenOK, Out, NumJobs, CallOK
    <3>4. cache' = [cache EXCEPT ![jobs[i]] = r] /\ answer' = [answer EXCEPT ![i] = r]
      BY <1>1, <2>2, <3>1, <3>2 DEF TakeCached, FilesOK
    <3>5. Memo!Answer(i, r)
      BY <2>1, <3>1, <3>3, <3>4 DEF Memo!Answer
    <3> QED BY <2>1, <3>1, <3>2, <3>5 DEF Memo!Next
  <2>3. CASE Return(t) /\ phase = "group"
    <3> DEFINE i == thread[t].job
               r == Published(thread[t].prog, thread[t].result)
    <3>1. /\ Busy(t) /\ i \in 1..Len(jobs) /\ thread[t].prog = jobs[i]
          /\ thread[t].result \in Result
      BY <1>1, <2>3 DEF Return, Busy, ThreadsOK, NumJobs, Program
    <3>2. jobs[i] \in Programs
      BY <1>1, <2>1, <2>3, <3>1, ProgramTyped DEF NumJobs, Program
    <3>3. r \in Result /\ cache[jobs[i]] \in {None, r}
      BY <1>1, <3>1, <3>2 DEF Published, FilesOK
    <3>4. answer[i] = None
      BY <1>1, <2>3, <3>1 DEF JobsOK, RunningOK, Out
    <3>5. cache' = [cache EXCEPT ![jobs[i]] = r] /\ answer' = [answer EXCEPT ![i] = r]
      BY <2>3, <3>1 DEF Return
    <3>6. Memo!Answer(i, r)
      BY <2>1, <3>1, <3>3, <3>4, <3>5 DEF Memo!Answer
    <3> QED BY <2>1, <3>1, <3>3, <3>6 DEF Memo!Next
  <2>4. CASE Return(t) /\ phase # "group"
    BY <2>1, <2>4 DEF Return
  <2> QED
    BY <1>3, <2>1, <2>2, <2>3, <2>4
    DEF ThreadStep, TakeToRun, Start, CannotStart, Exit, TimedOut, RunEnds, WriteLp
<1>4. CASE GroupExecuted \/ CasesExecuted \/ Tick \/ UNCHANGED vars
  BY <1>4 DEF GroupExecuted, CasesExecuted, Tick, vars, call
<1> QED BY <1>2, <1>3, <1>4 DEF Next, SearchOver

\* Whatever the workers do at the same time, the cache and the answers behave
\* like a memo that fixes a program's result once (ImplementsMemo).
THEOREM MemoImplemented == Spec => ImplementsMemo
<1>1. Init => Memo!Init
  BY DEF Init, Memo!Init
<1> QED
  BY <1>1, InitTypeInv, StepTypeInv, MemoStep, PTL DEF Spec, ImplementsMemo, Memo!Spec
-----------------------------------------------------------------------------
(* The LP file.                                                            *)

OwnLp(r) == r.lp # None => r.lp = r.ran \/ (r.lp = r.left /\ r.ran \notin WritesLp)

LpFilesOK ==
  \A t \in Idents :
    /\ thread[t].step \in {"start", "run"} => lp[t] = thread[t].left
    /\ thread[t].step = "solved" => lp[t] = thread[t].ran
    /\ thread[t].step = "return" => OwnLp(thread[t].result)

LpInv ==
  /\ LpFilesOK
  /\ \A p \in Programs : cache[p] # None => OwnLp(cache[p])
  /\ FreshStructure

\* A directory's LP file is gone before its next run unless it could not be
\* removed, and written by that run if the run writes one.
LEMMA StepLpInv == TypeInv /\ LpInv /\ [Next]_vars => LpInv'
<1> SUFFICES ASSUME TypeInv, LpInv, [Next]_vars PROVE LpInv'
  OBVIOUS
<1> USE ProgramAssumption, NoneAssumption
<1>1. /\ CallOK /\ FilesOK /\ ThreadsOK /\ JobsOK
      /\ thread \in [Idents -> Thread] /\ lp \in [Idents -> Programs \cup {None}]
  BY TypeParts DEF TypeInv, ThreadsOK, FilesOK
<1>2. ASSUME NEW g \in Groups, StartGroup(g) PROVE LpInv'
  BY <1>2 DEF StartGroup, LpInv, LpFilesOK, FreshStructure
<1>3. CASE GroupExecuted \/ CasesExecuted
  <2>1. thread' = PoolShutDown /\ UNCHANGED <<answer, lp, cache>>
    BY <1>3 DEF GroupExecuted, CasesExecuted
  <2>2. LpFilesOK'
    BY <2>1 DEF LpInv, LpFilesOK, PoolShutDown, Fresh
  <2> QED BY <2>1, <2>2 DEF LpInv, FreshStructure
<1>4. CASE Tick \/ UNCHANGED vars
  BY <1>4 DEF Tick, vars, LpInv, LpFilesOK, FreshStructure
<1>5. ASSUME NEW t \in Idents, ThreadStep(t) PROVE LpInv'
  <2>1. /\ thread' = [thread EXCEPT ![t] = thread'[t]] /\ phase # "generate"
        /\ thread'[t] \in Thread
    BY <1>5, ThreadStepShape
  <2>2. \A s \in Idents \ {t} : thread'[s] = thread[s]
    BY <1>1, <2>1
  <2>3. \A s \in Idents \ {t} : lp'[s] = lp[s]
    BY <1>1, <1>5
    DEF ThreadStep, TakeCached, TakeToRun, Start, CannotStart, Exit, TimedOut, RunEnds,
        WriteLp, Return
  <2>4. /\ thread'[t].step \in {"start", "run"} => lp'[t] = thread'[t].left
        /\ thread'[t].step = "solved" => lp'[t] = thread'[t].ran
        /\ thread'[t].step = "return" => OwnLp(thread'[t].result)
    <3>1. CASE TakeCached(t)
      BY <1>1, <3>1 DEF TakeCached
    <3>2. CASE TakeToRun(t)
      <4>1. PICK removed \in BOOLEAN :
              /\ thread' = [thread EXCEPT ![t] =
                   [step |-> "start", job |-> taken + 1, prog |-> Program(taken + 1),
                    index |-> NextIndex(t), mtime |-> clock,
                    left |-> IF removed THEN None ELSE lp[t], ran |-> None, result |-> None]]
              /\ lp' = [lp EXCEPT ![t] = AfterCleanup(t, removed)]
        BY <3>2 DEF TakeToRun
      <4> QED BY <1>1, <4>1 DEF AfterCleanup
    <3>3. CASE Start(t)
      <4>1. PICK x : thread' = [thread EXCEPT ![t].step = "run", ![t].ran = x]
        BY <3>3 DEF Start
      <4>2. thread'[t].step = "run" /\ thread'[t].left = thread[t].left
        BY <1>1, <4>1 DEF Thread
      <4>3. thread[t].step = "start" /\ lp' = lp
        BY <3>3 DEF Start
      <4> QED BY <4>2, <4>3 DEF LpInv, LpFilesOK
    <3>4. CASE CannotStart(t)
      BY <1>1, <3>4 DEF CannotStart, RunEnds, OwnLp
    <3>5. CASE WriteLp(t)
      BY <1>1, <3>5 DEF WriteLp, Thread
    <3>6. CASE Exit(t)
      BY <1>1, <3>6 DEF Exit, RunEnds, OwnLp, LpInv, LpFilesOK
    <3>7. CASE TimedOut(t)
      BY <1>1, <3>7 DEF TimedOut, RunEnds, OwnLp
    <3>8. CASE Return(t)
      BY <1>1, <3>8 DEF Return, Fresh
    <3> QED BY <1>5, <3>1, <3>2, <3>3, <3>4, <3>5, <3>6, <3>7, <3>8 DEF ThreadStep
  <2>5. LpFilesOK'
    BY <2>2, <2>3, <2>4 DEF LpInv, LpFilesOK
  <2>6. /\ \A p \in Programs : cache'[p] # None => OwnLp(cache'[p])
        /\ FreshStructure'
    <3>1. CASE TakeCached(t)
      <4>1. phase = "group" /\ taken + 1 \in 1..NumJobs
        BY <1>1, <2>1, <3>1 DEF TakeCached, MayTake, Cached, NumJobs, CallOK
      <4>2. OwnLp(cache[Program(taken + 1)])
        BY <1>1, <2>1, <3>1, <4>1, ProgramTyped DEF TakeCached, Cached, LpInv
      <4> QED BY <1>1, <3>1, <4>2 DEF TakeCached, LpInv, FreshStructure, OwnLp, CallOK
    <3>2. CASE Return(t) /\ phase = "group"
      <4> DEFINE r == Published(thread[t].prog, thread[t].result)
      <4>1. OwnLp(thread[t].result) /\ Busy(t)
        BY <3>2 DEF Return, Busy, LpInv, LpFilesOK
      <4>2. thread[t].prog \in Programs
        BY <1>1, <2>1, <4>1, ProgramTyped DEF ThreadsOK
      <4>3. OwnLp(r)
        BY <4>1, <4>2 DEF Published, LpInv
      <4>4. cache' = [cache EXCEPT ![thread[t].prog] = r]
            /\ answer' = [answer EXCEPT ![thread[t].job] = r]
        BY <3>2 DEF Return
      <4> QED BY <1>1, <4>2, <4>3, <4>4 DEF LpInv, FreshStructure, OwnLp, CallOK, FilesOK
    <3>3. CASE UNCHANGED <<answer, cache>>
      BY <3>3 DEF LpInv, FreshStructure
    <3> QED
      BY <1>5, <3>1, <3>2, <3>3
      DEF ThreadStep, TakeToRun, Start, CannotStart, Exit, TimedOut, RunEnds, WriteLp, Return
  <2> QED BY <2>5, <2>6 DEF LpInv
<1> QED BY <1>2, <1>3, <1>4, <1>5 DEF Next, SearchOver

\* The LP file the structural reward reads was written by the run it belongs
\* to, whatever the directory was used for before; only a file that could not be
\* removed, and that the run did not replace, is read in its place
\* (FreshStructure).
THEOREM StructureIsFresh == Spec => []FreshStructure
<1>1. Init => LpInv
  BY DEF Init, LpInv, LpFilesOK, FreshStructure, Fresh
<1>2. LpInv => FreshStructure
  BY DEF LpInv
<1> QED BY <1>1, <1>2, InitTypeInv, StepTypeInv, StepLpInv, PTL DEF Spec

-----------------------------------------------------------------------------
(* The program that runs.                                                  *)

\* Files of the past, and among them the bytecode a running group may meet: in
\* a directory it is older than the group where it is ahead of the thread, and
\* never carries the time of a file that is about to be imported.
BytecodeOK ==
  /\ \A b \in bytecode : b.mtime <= clock
  /\ \A t \in Idents : thread[t].mtime <= clock
  /\ phase = "group" =>
       \A b \in bytecode :
         /\ b.index > thread[b.dir].index => b.mtime < clock
         /\ thread[b.dir].step = "start" /\ b.index = thread[b.dir].index
              => b.mtime < thread[b.dir].mtime

RanOK ==
  phase = "group" =>
    \A t \in Idents :
      /\ thread[t].step = "start" => thread[t].ran = None
      /\ thread[t].step \in {"run", "solved"} => thread[t].ran = thread[t].prog
      /\ thread[t].step = "return" => thread[t].result.ran \in {thread[t].prog, None}

ProgramInv ==
  /\ BytecodeOK /\ RanOK
  /\ \A p \in Programs : cache[p] # None => cache[p].ran \in {p, None}
  /\ OwnProgram

\* In a group, no bytecode stands for a file the import has not seen.
LEMMA NoStaleBytecode ==
  ASSUME TypeInv, ProgramInv, phase = "group", NEW t \in Idents,
         thread[t].step = "start"
  PROVE  Valid(t) = {}
<1>1. \A b \in bytecode : b.mtime \in Nat /\ thread[t].mtime \in Nat
  BY TypeParts DEF TypeInv, FilesOK, ThreadsOK, Thread
<1> QED BY <1>1 DEF Valid, CachedCode, ProgramInv, BytecodeOK

\* Bytecode stays older than what it could be mistaken for.
LEMMA StepBytecodeOK == TypeInv /\ ProgramInv /\ Next => BytecodeOK'
<1> SUFFICES ASSUME TypeInv, ProgramInv, Next PROVE BytecodeOK'
  OBVIOUS
<1>1. /\ CallOK /\ FilesOK /\ ThreadsOK /\ JobsOK /\ BytecodeOK
      /\ thread \in [Idents -> Thread] /\ clock \in Nat
      /\ bytecode \subseteq [dir : Idents, index : Nat, mtime : Nat, prog : Programs]
  BY TypeParts DEF TypeInv, ThreadsOK, FilesOK, CallOK, ProgramInv
<1>2. \A t \in Idents : thread[t].index \in Nat /\ thread[t].mtime \in Nat
  BY <1>1 DEF Thread
<1>3. \A b \in bytecode : b.dir \in Idents /\ b.index \in Nat /\ b.mtime \in Nat
  BY <1>1
<1>4. ASSUME NEW g \in Groups, StartGroup(g) PROVE BytecodeOK'
  <2>1. clock' = clock + 1 /\ UNCHANGED <<thread, bytecode>> /\ phase = "generate"
    BY <1>4 DEF StartGroup
  <2>2. \A t \in Idents : thread[t].step # "start"
    BY <1>1, <2>1 DEF ThreadsOK, Busy
  <2> QED BY <1>1, <1>2, <1>3, <2>1, <2>2 DEF BytecodeOK
<1>5. CASE GroupExecuted \/ CasesExecuted
  <2>1. thread' = PoolShutDown /\ phase' # "group" /\ UNCHANGED <<clock, bytecode>>
    BY <1>5 DEF GroupExecuted, CasesExecuted, StartCases
  <2>2. \A t \in Idents : thread'[t].mtime <= clock
    BY <1>1, <1>2, <2>1 DEF PoolShutDown, Fresh, BytecodeOK
  <2> QED BY <1>1, <2>1, <2>2 DEF BytecodeOK
<1>6. CASE Tick
  <2>1. clock' = clock + 1 /\ UNCHANGED <<thread, bytecode, phase>>
    BY <1>6 DEF Tick, call
  <2> QED BY <1>1, <1>2, <1>3, <2>1 DEF BytecodeOK
<1>7. ASSUME NEW t \in Idents, ThreadStep(t) PROVE BytecodeOK'
  <2>1. /\ thread' = [thread EXCEPT ![t] = thread'[t]] /\ thread'[t] \in Thread
        /\ UNCHANGED <<phase, clock>>
    BY <1>7, ThreadStepShape DEF call
  <2>2. \A s \in Idents \ {t} : thread'[s] = thread[s]
    BY <1>1, <2>1
  <2>3. CASE TakeToRun(t)
    <3>1. /\ thread'[t].index = thread[t].index + 1 /\ thread'[t].mtime = clock
          /\ bytecode' = bytecode
      BY <1>1, <2>3 DEF TakeToRun, NextIndex
    <3> QED BY <1>1, <1>2, <1>3, <2>1, <2>2, <3>1 DEF BytecodeOK
  <2>4. CASE Start(t)
    <3>1. /\ thread'[t].index = thread[t].index /\ thread'[t].mtime = thread[t].mtime
          /\ thread'[t].step = "run"
      BY <1>1, <2>4 DEF Start, Thread
    <3>2. \A b \in bytecode' : b \in bytecode \/
            b = [dir |-> t, index |-> thread[t].index, mtime |-> thread[t].mtime,
                 prog |-> thread[t].prog]
      BY <2>4 DEF Start
    <3> QED BY <1>1, <1>2, <1>3, <2>1, <2>2, <3>1, <3>2 DEF BytecodeOK
  <2>5. CASE Return(t)
    <3>1. /\ thread'[t].index = thread[t].index /\ thread'[t].mtime = 0
          /\ thread'[t].step = "idle" /\ bytecode' = bytecode
      BY <1>1, <2>5 DEF Return, Fresh
    <3> QED BY <1>1, <1>2, <1>3, <2>1, <2>2, <3>1 DEF BytecodeOK
  <2>6. CASE /\ thread'[t].index = thread[t].index /\ thread'[t].mtime = thread[t].mtime
             /\ thread'[t].step # "start" /\ bytecode' = bytecode
    BY <1>1, <1>2, <1>3, <2>1, <2>2, <2>6 DEF BytecodeOK
  <2>7. ASSUME TakeCached(t) \/ CannotStart(t) \/ Exit(t) \/ TimedOut(t) \/ WriteLp(t)
        PROVE  /\ thread'[t].index = thread[t].index /\ thread'[t].mtime = thread[t].mtime
               /\ thread'[t].step # "start" /\ bytecode' = bytecode
    BY <1>1, <2>7
    DEF TakeCached, CannotStart, Exit, TimedOut, RunEnds, WriteLp, Thread
  <2> QED BY <1>7, <2>3, <2>4, <2>5, <2>6, <2>7 DEF ThreadStep
<1>8. CASE UNCHANGED vars
  BY <1>1, <1>8 DEF vars, call, BytecodeOK
<1> QED BY <1>4, <1>5, <1>6, <1>7, <1>8 DEF Next, SearchOver

\* A group's runs execute their own programs.
LEMMA StepRanOK == TypeInv /\ ProgramInv /\ Next => RanOK'
<1> SUFFICES ASSUME TypeInv, ProgramInv, Next PROVE RanOK'
  OBVIOUS
<1>1. CallOK /\ ThreadsOK /\ RanOK /\ thread \in [Idents -> Thread]
  BY TypeParts DEF TypeInv, ThreadsOK, ProgramInv
<1>2. ASSUME NEW g \in Groups, StartGroup(g) PROVE RanOK'
  BY <1>1, <1>2 DEF StartGroup, RanOK, ThreadsOK, Busy
<1>3. CASE GroupExecuted \/ CasesExecuted
  BY <1>3 DEF GroupExecuted, CasesExecuted, StartCases, RanOK
<1>4. CASE Tick \/ UNCHANGED vars
  BY <1>1, <1>4 DEF Tick, vars, call, RanOK
<1>5. ASSUME NEW t \in Idents, ThreadStep(t), phase = "group" PROVE RanOK'
  <2>1. thread' = [thread EXCEPT ![t] = thread'[t]] /\ thread'[t] \in Thread
    BY <1>5, ThreadStepShape
  <2>2. \A s \in Idents \ {t} : thread'[s] = thread[s]
    BY <1>1, <2>1
  <2>3. /\ thread'[t].step = "start" => thread'[t].ran = None
        /\ thread'[t].step \in {"run", "solved"} => thread'[t].ran = thread'[t].prog
        /\ thread'[t].step = "return" => thread'[t].result.ran \in {thread'[t].prog, None}
    <3>1. CASE TakeCached(t)
      BY <1>1, <3>1 DEF TakeCached
    <3>2. CASE TakeToRun(t)
      BY <1>1, <3>2 DEF TakeToRun
    <3>3. CASE Start(t)
      <4>1. Valid(t) = {}
        BY <1>5, <3>3, NoStaleBytecode DEF Start
      <4>2. thread' = [thread EXCEPT ![t].step = "run", ![t].ran = thread[t].prog]
        BY <3>3, <4>1 DEF Start
      <4> QED BY <1>1, <4>2 DEF Thread
    <3>4. CASE CannotStart(t)
      BY <1>1, <3>4 DEF CannotStart, RunEnds
    <3>5. CASE WriteLp(t)
      BY <1>1, <1>5, <3>5 DEF WriteLp, RanOK, Thread
    <3>6. CASE Exit(t)
      BY <1>1, <1>5, <3>6 DEF Exit, RunEnds, RanOK, Thread
    <3>7. CASE TimedOut(t)
      BY <1>1, <1>5, <3>7 DEF TimedOut, RunEnds, RanOK, Thread
    <3>8. CASE Return(t)
      BY <1>1, <3>8 DEF Return, Fresh
    <3> QED BY <1>5, <3>1, <3>2, <3>3, <3>4, <3>5, <3>6, <3>7, <3>8 DEF ThreadStep
  <2> QED BY <1>1, <1>5, <2>2, <2>3 DEF RanOK
<1>6. ASSUME NEW t \in Idents, ThreadStep(t), phase # "group" PROVE RanOK'
  BY <1>6, ThreadStepShape DEF call, RanOK
<1> QED BY <1>2, <1>3, <1>4, <1>5, <1>6 DEF Next, SearchOver

\* What is cached, and what is answered, is a run of the trajectory's program.
LEMMA StepProgramInv == TypeInv /\ ProgramInv /\ [Next]_vars => ProgramInv'
<1> SUFFICES ASSUME TypeInv, ProgramInv, [Next]_vars PROVE ProgramInv'
  OBVIOUS
<1> USE ProgramAssumption, NoneAssumption
<1>1. CallOK /\ FilesOK /\ ThreadsOK
  BY TypeParts DEF TypeInv
<1>2. BytecodeOK' /\ RanOK'
  <2>1. CASE UNCHANGED vars
    BY <2>1 DEF vars, call, ProgramInv, BytecodeOK, RanOK
  <2> QED BY <2>1, StepBytecodeOK, StepRanOK
<1>3. /\ \A p \in Programs : cache'[p] # None => cache'[p].ran \in {p, None}
      /\ OwnProgram'
  <2>1. ASSUME NEW g \in Groups, StartGroup(g)
        PROVE  UNCHANGED cache /\ OwnProgram'
    BY <2>1 DEF StartGroup, OwnProgram
  <2>2. ASSUME NEW t \in Idents, TakeCached(t)
        PROVE  UNCHANGED cache /\ OwnProgram'
    <3>1. phase = "group" /\ taken + 1 \in 1..NumJobs /\ Program(taken + 1) = jobs[taken + 1]
      BY <1>1, <2>2 DEF TakeCached, MayTake, Cached, NumJobs, Program, CallOK
    <3>2. cache[jobs[taken + 1]].ran \in {jobs[taken + 1], None}
      BY <1>1, <2>2, <3>1, ProgramTyped DEF TakeCached, Cached, ProgramInv
    <3> QED
      BY <1>1, <2>2, <3>1, <3>2 DEF TakeCached, call, ProgramInv, OwnProgram, CallOK
  <2>3. ASSUME NEW t \in Idents, Return(t), phase = "group"
        PROVE  /\ \A p \in Programs : cache'[p] # None => cache'[p].ran \in {p, None}
               /\ OwnProgram'
    <3> DEFINE prog == thread[t].prog
               r == Published(prog, thread[t].result)
    <3>1. Busy(t) /\ prog = jobs[thread[t].job] /\ prog \in Programs
      BY <1>1, <2>3, ProgramTyped DEF Return, Busy, ThreadsOK, Program
    <3>2. r.ran \in {prog, None}
      BY <2>3, <3>1 DEF Return, Published, ProgramInv, RanOK
    <3>3. /\ cache' = [cache EXCEPT ![prog] = r] /\ UNCHANGED jobs
          /\ answer' = [answer EXCEPT ![thread[t].job] = r]
      BY <2>3 DEF Return, call
    <3> QED
      BY <1>1, <3>1, <3>2, <3>3 DEF ProgramInv, OwnProgram, FilesOK, CallOK
  <2>4. CASE UNCHANGED <<jobs, answer, cache>>
    BY <2>4 DEF ProgramInv, OwnProgram
  <2> QED
    BY <2>1, <2>2, <2>3, <2>4
    DEF Next, SearchOver, vars, call, GroupExecuted, CasesExecuted, Tick, ThreadStep,
        TakeToRun, Start, CannotStart, Exit, TimedOut, RunEnds, WriteLp, Return, ProgramInv
<1> QED BY <1>2, <1>3 DEF ProgramInv

\* A trajectory is scored with a run of its own program (OwnProgram): directories,
\* file names and bytecode are reused, but not within one group.
THEOREM GroupRunsOwnPrograms == Spec => []OwnProgram
<1>1. Init => ProgramInv
  BY DEF Init, ProgramInv, BytecodeOK, RanOK, OwnProgram, Fresh
<1>2. ProgramInv => OwnProgram
  BY DEF ProgramInv
<1> QED BY <1>1, <1>2, InitTypeInv, StepTypeInv, StepProgramInv, PTL DEF Spec

-----------------------------------------------------------------------------
(* Numbers, finite sets of them, and folds.                                *)

\* A non-empty set of naturals has a least element: the form in which these
\* proofs use induction.
LEMMA LeastElement ==
  ASSUME NEW T \in SUBSET Nat, T # {}
  PROVE  \E x \in T : \A y \in T : x <= y
<1>1. PICK x \in T : \A y \in T : <<y, x>> \notin OpToRel(<, Nat)
  BY WFMin, NatLessThanWellFounded
<1>2. ASSUME NEW y \in T PROVE x <= y
  <2>1. ~(y < x)
    BY <1>1 DEF OpToRel
  <2> QED BY <2>1
<1> QED BY <1>2

\* Positions of a finite set of numbers grow with them.
LEMMA RankGrows ==
  ASSUME NEW I \in SUBSET Int, IsFiniteSet(I), NEW i \in I
  PROVE  /\ Cardinality(I) \in Nat
         /\ Cardinality({j \in I : j < i}) \in Nat
         /\ Cardinality({j \in I : j < i}) < Cardinality(I)
         /\ \A k \in I : i < k => Cardinality({j \in I : j < i}) < Cardinality({j \in I : j < k})
<1> DEFINE Below(k) == {j \in I : j < k}
<1>1. \A k \in Int : Below(k) \in SUBSET I
  OBVIOUS
<1>2. i \in Int /\ i \notin Below(i)
  OBVIOUS
<1>3. Cardinality(Below(i)) \in Nat /\ Cardinality(I) \in Nat
  BY <1>1, <1>2, FS_Subset, FS_CardinalityType
<1>4. Cardinality(Below(i)) < Cardinality(I)
  BY <1>1, <1>2, <1>3, FS_Subset
<1>5. ASSUME NEW k \in I, i < k PROVE Cardinality(Below(i)) < Cardinality(Below(k))
  <2>1. k \in Int
    OBVIOUS
  <2>2. Below(i) \in SUBSET Below(k) /\ i \in Below(k)
    <3>1. \A j \in I : j < i => j < k
      BY <1>2, <1>5, <2>1
    <3> QED BY <1>5, <3>1
  <2> HIDE DEF Below
  <2>3. IsFiniteSet(Below(k)) /\ Cardinality(Below(k)) \in Nat
    BY <1>1, <2>1, FS_Subset, FS_CardinalityType
  <2> QED BY <1>2, <1>3, <2>2, <2>3, FS_Subset
<1> QED BY <1>3, <1>4, <1>5

\* A finite set of numbers is listed in increasing order and completely.
LEMMA ListedFacts ==
  ASSUME NEW I \in SUBSET Int, IsFiniteSet(I)
  PROVE  /\ Cardinality(I) \in Nat
         /\ Listed(I) \in [1..Cardinality(I) -> I]
         /\ \A m, n \in 1..Cardinality(I) : m < n => Listed(I)[m] < Listed(I)[n]
         /\ \A i \in I : \E n \in 1..Cardinality(I) : Listed(I)[n] = i
<1> DEFINE c == Cardinality(I)
           Rank(i) == Cardinality({j \in I : j < i})
           r == [i \in I |-> Rank(i) + 1]
<1>1. c \in Nat
  BY FS_CardinalityType
<1>2. /\ \A i \in I : Rank(i) \in Nat /\ Rank(i) < c
      /\ \A i, k \in I : i < k => Rank(i) < Rank(k)
  BY RankGrows
<1>3. r \in Injection(I, 1..c)
  <2> HIDE DEF Rank
  <2>1. r \in [I -> 1..c]
    BY <1>1, <1>2
  <2>2. \A i, k \in I : r[i] = r[k] => i = k
    BY <1>2
  <2> HIDE DEF r
  <2> QED BY <2>1, <2>2 DEF Injection, IsInjective
<1>4. r \in Surjection(I, 1..c)
  BY <1>1, <1>3, FS_Interval, FS_Injection
<1>5. \A n \in 1..c : \E i \in I : Rank(i) = n - 1
  <2> SUFFICES ASSUME NEW n \in 1..c PROVE \E i \in I : Rank(i) = n - 1
    OBVIOUS
  <2>1. \E i \in I : r[i] = n
    BY <1>4 DEF Surjection
  <2> HIDE DEF Rank, c
  <2> QED BY <1>1, <1>2, <2>1
<1> DEFINE l == Listed(I)
<1>6. \A n \in 1..c : l[n] = CHOOSE i \in I : Rank(i) = n - 1
  BY DEF Listed
<1>7. \A n \in 1..c : l[n] \in I /\ Rank(l[n]) = n - 1
  BY <1>5, <1>6
<1>8. l \in [1..c -> I]
  BY <1>7 DEF Listed
<1>9. \A i, k \in I : Rank(i) = Rank(k) => i = k
  BY <1>2
<1>10. \A m, n \in 1..c : m < n => l[m] < l[n]
  <2> HIDE DEF Rank, c, l
  <2> SUFFICES ASSUME NEW m \in 1..c, NEW n \in 1..c, m < n PROVE l[m] < l[n]
    OBVIOUS
  <2>1. l[m] \in Int /\ l[n] \in Int /\ l[m] \in I /\ l[n] \in I
    BY <1>7
  <2>2. l[n] < l[m] => Rank(l[n]) < Rank(l[m])
    BY <1>2, <2>1
  <2>3. Rank(l[m]) = m - 1 /\ Rank(l[n]) = n - 1
    BY <1>7
  <2> QED BY <1>1, <2>1, <2>2, <2>3
<1>11. \A i \in I : \E n \in 1..c : l[n] = i
  <2> HIDE DEF Rank, c, l
  <2> SUFFICES ASSUME NEW i \in I PROVE \E n \in 1..c : l[n] = i
    OBVIOUS
  <2>1. Rank(i) + 1 \in 1..c
    BY <1>1, <1>2
  <2>2. Rank(l[Rank(i) + 1]) = Rank(i) /\ l[Rank(i) + 1] \in I
    BY <1>2, <1>7, <2>1
  <2> QED BY <1>9, <2>1, <2>2
<1> QED BY <1>1, <1>8, <1>10, <1>11

\* Quotient and remainder.
LEMMA DivisionFacts ==
  ASSUME NEW a \in Int, NEW b \in Nat, b > 0
  PROVE  /\ (a \div b) \in Int /\ (a % b) \in Int /\ (a % b) >= 0 /\ (a % b) < b
         /\ a = (a \div b) * b + (a % b)
  OBVIOUS

\* The greatest of the first numbers, and of some of them with a greatest.
LEMMA MaxIs ==
  ASSUME NEW s \in SUBSET Int, NEW m \in s, \A x \in s : x <= m
  PROVE  Max(s) = m
<1>1. \A x \in s : (\A y \in s : x >= y) => x = m
  OBVIOUS
<1> QED BY <1>1 DEF Max

\* Some of the first numbers have a greatest.
LEMMA MaxOfFirst ==
  ASSUME NEW n \in Nat, NEW s \in SUBSET (1..n), s # {}
  PROVE  Max(s) \in s /\ Max(s) \in 1..n /\ \A x \in s : x <= Max(s)
<1> DEFINE U == {b \in Nat : \A x \in s : x <= b}
<1>1. n \in U /\ U \in SUBSET Nat
  OBVIOUS
<1>2. PICK b \in U : \A c \in U : b <= c
  BY <1>1, LeastElement
<1>3. b \in Nat /\ \A x \in s : x <= b
  OBVIOUS
<1>4. b \in s
  <2> SUFFICES ASSUME b \notin s PROVE FALSE
    OBVIOUS
  <2>1. PICK x \in s : TRUE
    OBVIOUS
  <2>2. b >= 1
    BY <1>3, <2>1
  <2>3. \A y \in s : y <= b - 1
    BY <1>3
  <2>4. b - 1 \in U
    BY <1>3, <2>2, <2>3
  <2> HIDE DEF U
  <2> QED BY <1>2, <1>3, <2>4
<1>5. s \in SUBSET Int
  OBVIOUS
<1> QED BY <1>3, <1>4, <1>5, MaxIs

\* it folds F over the numbers up to n, the greatest last: the recursion of
\* MapThenFoldSet under FoldLeft.
FoldsOver(it, n, F, base) ==
  \A s \in SUBSET (1..n) : it[s] = IF s = {} THEN base ELSE F[<<it[s \ {Max(s)}], Max(s)>>]

\* The recursion of a fold has a solution whatever it folds.
LEMMA FoldExists ==
  ASSUME NEW V, NEW base \in V, NEW n \in Nat, NEW F \in [V \X (1..n) -> V]
  PROVE  \E it \in [SUBSET (1..n) -> V] : FoldsOver(it, n, F, base)
<1> DEFINE Fails == {k \in 0..n : ~\E it \in [SUBSET (1..k) -> V] : FoldsOver(it, k, F, base)}
<1> SUFFICES ASSUME Fails # {} PROVE FALSE
  <2>1. n \in 0..n
    OBVIOUS
  <2> QED BY <2>1
<1>1. Fails \in SUBSET Nat
  OBVIOUS
<1>2. PICK k \in Fails : \A j \in Fails : k <= j
  BY <1>1, LeastElement
<1>3. k \in 0..n
  OBVIOUS
<1>4. k # 0
  <2>1. SUBSET (1..0) = {{}}
    OBVIOUS
  <2> DEFINE it == [s \in SUBSET (1..0) |-> base]
  <2>2. it \in [SUBSET (1..0) -> V] /\ FoldsOver(it, 0, F, base)
    BY <2>1 DEF FoldsOver
  <2> QED BY <2>2
<1> DEFINE j == k - 1
<1>5. j \in Nat /\ j < k /\ j \in 0..n /\ k = j + 1 /\ k \in Nat /\ k <= n
  BY <1>3, <1>4
<1>6. PICK it \in [SUBSET (1..j) -> V] : FoldsOver(it, j, F, base)
  <2>1. j \notin Fails
    <3> HIDE DEF Fails, j
    <3> QED BY <1>2, <1>5, <1>1
  <2> QED BY <1>5, <2>1
<1> HIDE DEF j
<1> DEFINE new == [s \in SUBSET (1..k) |-> IF k \in s THEN F[<<it[s \ {k}], k>>] ELSE it[s]]
<1>7. \A s \in SUBSET (1..k) : s \ {k} \in SUBSET (1..j) /\ (k \notin s => s \in SUBSET (1..j))
  BY <1>5
<1>8. new \in [SUBSET (1..k) -> V]
  BY <1>5, <1>7
<1>9. ASSUME NEW s \in SUBSET (1..k)
      PROVE  new[s] = IF s = {} THEN base ELSE F[<<new[s \ {Max(s)}], Max(s)>>]
  <2>1. CASE k \in s
    <3>1. Max(s) = k
      BY <1>5, <2>1, MaxIs
    <3>2. new[s \ {k}] = it[s \ {k}]
      OBVIOUS
    <3> QED BY <2>1, <3>1, <3>2
  <2>2. CASE k \notin s
    BY <1>6, <1>7, <2>2 DEF FoldsOver
  <2> QED BY <2>1, <2>2
<1>10. FoldsOver(new, k, F, base)
  BY <1>9 DEF FoldsOver
<1> HIDE DEF new
<1> QED BY <1>8, <1>10

\* The same for arguments that are in V.
FoldsIn(it, n, F, base, V) ==
  /\ it[{}] = base
  /\ \A s \in SUBSET (1..n) : s # {} /\ it[s \ {Max(s)}] \in V => it[s] = F[<<it[s \ {Max(s)}], Max(s)>>]

\* The first k numbers.
LEMMA FirstNumbers ==
  ASSUME NEW n \in Nat, NEW k \in 1..n
  PROVE  /\ 1..k \in SUBSET (1..n) /\ 1..k # {} /\ k \in 1..k /\ 1..k \in SUBSET Int
         /\ \A x \in 1..k : x <= k
  OBVIOUS

\* h has the values of it for the first k numbers.
Traces(h, it, n) == \A k \in 0..n : h[k] = it[1..k]

\* h has the values of a fold after each of the n numbers.
GoesThrough(h, n, F, base, V) ==
  (\A k \in 0..n : h[k] \in V) /\ h[0] = base /\ \A k \in 1..n : h[k] = F[<<h[k - 1], k>>]

\* A fold over a sequence goes through it from left to right.
LEMMA FoldSteps ==
  ASSUME NEW V, NEW base \in V, NEW n \in Nat, NEW F \in [V \X (1..n) -> V],
         NEW it, FoldsIn(it, n, F, base, V),
         NEW h, Traces(h, it, n)
  PROVE  GoesThrough(h, n, F, base, V)
<1>1. h[0] = base
  BY DEF Traces, FoldsIn
<1>2. ASSUME NEW k \in 1..n, h[k - 1] \in V PROVE h[k] = F[<<h[k - 1], k>>]
  <2>1. 1..k \in SUBSET (1..n) /\ 1..k # {} /\ k \in 1..k /\ 1..k \in SUBSET Int /\ \A x \in 1..k : x <= k
    BY FirstNumbers
  <2>2. Max(1..k) = k
    BY <2>1, MaxIs
  <2>3. (1..k) \ {k} = 1..(k - 1)
    OBVIOUS
  <2>4. k \in 0..n /\ k - 1 \in 0..n
    OBVIOUS
  <2>5. it[1..k] = F[<<it[1..(k - 1)], k>>]
    BY <1>2, <2>1, <2>2, <2>3, <2>4 DEF FoldsIn, Traces
  <2> QED BY <2>4, <2>5 DEF Traces
<1>3. \A k \in 0..n : h[k] \in V
  <2> DEFINE Fails == {k \in 0..n : h[k] \notin V}
  <2> SUFFICES ASSUME Fails # {} PROVE FALSE
    OBVIOUS
  <2>1. Fails \in SUBSET Nat
    OBVIOUS
  <2>2. PICK k \in Fails : \A j \in Fails : k <= j
    BY <2>1, LeastElement
  <2>3. k # 0
    BY <1>1
  <2>4. k \in 1..n /\ k - 1 \in 0..n /\ k - 1 < k
    BY <2>3
  <2>5. h[k - 1] \in V
    BY <2>2, <2>4
  <2>6. h[k] = F[<<h[k - 1], k>>]
    BY <1>2, <2>4, <2>5
  <2>7. h[k] \in V
    BY <2>4, <2>5, <2>6
  <2> QED BY <2>7
<1>4. \A k \in 1..n : h[k - 1] \in V
  BY <1>3
<1> QED BY <1>1, <1>2, <1>3, <1>4 DEF GoesThrough
-----------------------------------------------------------------------------
(* The patches of a case.                                                  *)

-----------------------------------------------------------------------------
(* Fractions.                                                              *)

\* d divides n.
Divides(d, n) == \E q \in Nat : n = q * d

Common(a, b) == {d \in Nat \ {0} : Divides(d, a) /\ Divides(d, b)}

\* The greatest common divisor, without recursion.
GreatestCommon(p) == IF p[2] = 0 THEN p[1] ELSE Max(Common(p[1], p[2]))

\* Euclid's step keeps the common divisors.
LEMMA EuclidStep ==
  ASSUME NEW a \in Nat, NEW b \in Nat, b > 0
  PROVE  Common(a, b) = Common(b, a % b) /\ (a % b) \in Nat /\ (a % b) < b
<1> DEFINE r == a % b
           q == a \div b
<1>1. q \in Int /\ r \in Nat /\ r < b /\ a = q * b + r
  BY DivisionFacts
<1>2. q \in Nat
  BY <1>1
<1> HIDE DEF r, q
<1>3. ASSUME NEW d \in Nat \ {0}, Divides(d, b) PROVE Divides(d, a) <=> Divides(d, r)
  <2>1. PICK m \in Nat : b = m * d
    BY <1>3 DEF Divides
  <2>2. ASSUME Divides(d, r) PROVE Divides(d, a)
    BY <1>1, <1>2, <2>1, <2>2 DEF Divides
  <2>3. ASSUME Divides(d, a) PROVE Divides(d, r)
    <3>1. PICK k \in Nat : a = k * d
      BY <2>3 DEF Divides
    <3> DEFINE t == k - q * m
    <3>2. r = t * d /\ t \in Int
      BY <1>1, <1>2, <2>1, <3>1
    <3> HIDE DEF t
    <3>3. t >= 0
      BY <1>1, <3>2
    <3> QED BY <3>2, <3>3 DEF Divides
  <2> QED BY <2>2, <2>3
<1>4. Common(a, b) = Common(b, r)
  BY <1>3 DEF Common
<1> QED BY <1>1, <1>4 DEF r

\* There is a solution of Euclid's recursion.
LEMMA GcdExists ==
  LET g == [p \in Nat \X Nat |-> GreatestCommon(p)] IN
  g = [p \in Nat \X Nat |-> IF p[2] = 0 THEN p[1] ELSE g[<<p[2], p[1] % p[2]>>]]
<1> DEFINE g == [p \in Nat \X Nat |-> GreatestCommon(p)]
<1>1. ASSUME NEW p \in Nat \X Nat
      PROVE  g[p] = IF p[2] = 0 THEN p[1] ELSE g[<<p[2], p[1] % p[2]>>]
  <2>1. CASE p[2] = 0
    BY <2>1 DEF GreatestCommon
  <2>2. CASE p[2] # 0
    <3> DEFINE a == p[1]
               b == p[2]
               r == a % b
    <3>1. a \in Nat /\ b \in Nat /\ b > 0
      BY <2>2
    <3>2. Common(a, b) = Common(b, r) /\ r \in Nat /\ r < b
      BY <3>1, EuclidStep
    <3>3. <<b, r>> \in Nat \X Nat /\ <<b, r>>[1] = b /\ <<b, r>>[2] = r
      BY <3>1, <3>2
    <3>4. g[p] = Max(Common(a, b))
      BY <2>2 DEF GreatestCommon
    <3>5. g[<<b, r>>] = IF r = 0 THEN b ELSE Max(Common(b, r))
      BY <3>3 DEF GreatestCommon
    <3>6. r = 0 => Max(Common(b, r)) = b
      <4> HIDE DEF a, b, r
      <4> SUFFICES ASSUME r = 0 PROVE Max(Common(b, 0)) = b
        OBVIOUS
      <4>1. Divides(b, b) /\ Divides(b, 0)
        BY <3>1 DEF Divides
      <4>2. \A d \in Nat \ {0} : Divides(d, b) => d <= b
        BY <3>1 DEF Divides
      <4>3. Common(b, 0) \in SUBSET Int /\ b \in Common(b, 0) /\ \A x \in Common(b, 0) : x <= b
        BY <3>1, <4>1, <4>2 DEF Common
      <4> QED BY <4>3, MaxIs
    <3> HIDE DEF a, b, r, g
    <3>7. g[p] = g[<<b, r>>]
      BY <3>2, <3>4, <3>5, <3>6
    <3> QED BY <2>2, <3>7 DEF a, b, r
  <2> QED BY <2>1, <2>2
<1>2. g = [p \in Nat \X Nat |-> g[p]]
  OBVIOUS
<1> HIDE DEF g
<1>3. g = [p \in Nat \X Nat |-> IF p[2] = 0 THEN p[1] ELSE g[<<p[2], p[1] % p[2]>>]]
  BY <1>1, <1>2
<1> QED BY <1>3 DEF g

\* Gcd follows Euclid's recursion.
LEMMA GcdRecursion ==
  ASSUME NEW a \in Nat, NEW b \in Nat
  PROVE  Gcd[<<a, b>>] = IF b = 0 THEN a ELSE Gcd[<<b, a % b>>]
<1> DEFINE Solves(g) == g = [p \in Nat \X Nat |-> IF p[2] = 0 THEN p[1] ELSE g[<<p[2], p[1] % p[2]>>]]
<1>1. \E g : Solves(g)
  BY GcdExists
<1>2. Gcd = CHOOSE g : Solves(g)
  BY DEF Gcd
<1>3. Solves(Gcd)
  BY <1>1, <1>2
<1>4. <<a, b>> \in Nat \X Nat /\ <<a, b>>[1] = a /\ <<a, b>>[2] = b
  OBVIOUS
<1> QED BY <1>3, <1>4

\* What Gcd returns divides both, and is positive if one of them is.
LEMMA GcdDivides ==
  ASSUME NEW a \in Nat, NEW b \in Nat, a > 0 \/ b > 0
  PROVE  /\ Gcd[<<a, b>>] \in Nat /\ Gcd[<<a, b>>] > 0
         /\ Divides(Gcd[<<a, b>>], a) /\ Divides(Gcd[<<a, b>>], b)
<1> DEFINE Good(x, y) == /\ Gcd[<<x, y>>] \in Nat /\ Gcd[<<x, y>>] > 0
                         /\ Divides(Gcd[<<x, y>>], x) /\ Divides(Gcd[<<x, y>>], y)
           Bad == {y \in Nat : \E x \in Nat : (x > 0 \/ y > 0) /\ ~Good(x, y)}
<1> SUFFICES ASSUME Bad # {} PROVE FALSE
  BY Zenon
<1>1. Bad \in SUBSET Nat
  OBVIOUS
<1>2. PICK y \in Bad : \A z \in Bad : y <= z
  BY <1>1, LeastElement
<1>3. PICK x \in Nat : (x > 0 \/ y > 0) /\ ~Good(x, y)
  BY Zenon, <1>2
<1>4. y \in Nat
  <2> HIDE DEF Bad, Good
  <2> QED BY <1>1
<1>5. CASE y = 0
  <2>1. Gcd[<<x, 0>>] = x
    BY <1>3, <1>5, GcdRecursion
  <2>2. Divides(x, x) /\ Divides(x, 0)
    <3> HIDE DEF Bad, Good
    <3>1. x = 1 * x /\ 0 = 0 * x
      OBVIOUS
    <3> QED BY <3>1 DEF Divides
  <2> QED BY <1>3, <1>5, <2>1, <2>2
<1>6. CASE y # 0
  <2> DEFINE r == x % y
  <2>1. Common(x, y) = Common(y, r) /\ r \in Nat /\ r < y
    <3>1. y > 0
      BY <1>4, <1>6
    <3> HIDE DEF Bad, Good
    <3> QED BY <1>3, <1>4, <3>1, EuclidStep
  <2>2. Gcd[<<x, y>>] = Gcd[<<y, r>>]
    BY <1>4, <1>6, GcdRecursion
  <2> HIDE DEF r
  <2>3. r \notin Bad
    BY <1>1, <1>2, <1>4, <2>1
  <2>4. Good(y, r)
    BY <1>4, <1>6, <2>1, <2>3
  <2> DEFINE d == Gcd[<<y, r>>]
  <2>5. d \in Common(y, r)
    BY <2>4 DEF Common
  <2>6. d \in Common(x, y)
    BY <2>1, <2>5
  <2>7. Good(x, y)
    BY <2>2, <2>6 DEF Common
  <2> QED BY <1>3, <2>7
<1> QED BY <1>5, <1>6

Fraction == Int \X (Nat \ {0})

\* Factors other than zero cancel.
LEMMA Cancel ==
  ASSUME NEW x \in Int, NEW y \in Int, NEW z \in Nat, z > 0, x * z = y * z
  PROVE  x = y
<1> DEFINE t == x - y
<1>1. t \in Int /\ t * z = 0
  OBVIOUS
<1> HIDE DEF t
<1>2. CASE t >= 1
  BY <1>1, <1>2
<1>3. CASE t <= -1
  BY <1>1, <1>3
<1>4. t = 0
  BY <1>1, <1>2, <1>3
<1> QED BY <1>4 DEF t

\* Multiples divide exactly.
LEMMA ExactQuotient ==
  ASSUME NEW k \in Int, NEW g \in Nat, g > 0
  PROVE  (k * g) \div g = k
<1> DEFINE n == k * g
           c == n \div g
           r == n % g
<1>1. n \in Int
  OBVIOUS
<1>2. c \in Int /\ r \in Int /\ 0 <= r /\ r < g /\ n = c * g + r
  BY <1>1, DivisionFacts
<1> DEFINE t == k - c
<1>3. t \in Int /\ t * g = r
  BY <1>2
<1> HIDE DEF c, r, t, n
<1>4. t < 1
  BY <1>2, <1>3
<1>5. t > -1
  BY <1>2, <1>3
<1>6. t = 0
  BY <1>3, <1>4, <1>5
<1>7. k = c
  BY <1>2, <1>6 DEF t
<1> QED BY <1>7 DEF c, n

\* A fraction has the value it was made from.
LEMMA FracValue ==
  ASSUME NEW n \in Int, NEW d \in Nat, d > 0
  PROVE  /\ Frac(n, d) \in Fraction
         /\ Frac(n, d)[1] * d = n * Frac(n, d)[2]
<1> DEFINE g == Gcd[<<Abs(n), Abs(d)>>]
<1>1. Abs(n) \in Nat /\ Abs(d) = d /\ (n >= 0 => Abs(n) = n) /\ (n < 0 => Abs(n) = -n)
  BY DEF Abs
<1>2. g \in Nat /\ g > 0 /\ Divides(g, Abs(n)) /\ Divides(g, d)
  BY <1>1, GcdDivides
<1>3. Frac(n, d) = <<(1 * n) \div g, (1 * d) \div g>>
  BY DEF Frac, g
<1> HIDE DEF g
<1>4. PICK k \in Int : n = k * g
  <2>1. PICK q \in Nat : Abs(n) = q * g
    BY <1>2 DEF Divides
  <2>2. CASE n >= 0
    BY <1>1, <2>1, <2>2
  <2>3. CASE n < 0
    <3>1. n = (-q) * g /\ -q \in Int
      BY <1>1, <1>2, <2>1, <2>3
    <3> QED BY <3>1
  <2> QED BY <2>2, <2>3
<1>5. PICK m \in Nat : d = m * g
  BY <1>2 DEF Divides
<1>6. m > 0
  BY <1>2, <1>5
<1>7. Frac(n, d) = <<k, m>>
  BY <1>2, <1>3, <1>4, <1>5, ExactQuotient
<1>8. k * d = n * m
  BY <1>2, <1>4, <1>5
<1> QED BY <1>6, <1>7, <1>8 DEF Fraction

\* Nothing is nothing over one.
LEMMA FracOfZero ==
  ASSUME NEW d \in Nat, d > 0
  PROVE  Frac(0, d) = Zero
<1>1. Abs(0) = 0 /\ Abs(d) = d /\ ~(d < 0)
  BY DEF Abs
<1>2. 0 % d = 0
  BY DivisionFacts
<1>3. Gcd[<<0, d>>] = d
  <2>1. Gcd[<<0, d>>] = Gcd[<<d, 0>>]
    BY <1>2, GcdRecursion
  <2>2. Gcd[<<d, 0>>] = d
    BY GcdRecursion
  <2> QED BY <2>1, <2>2
<1>4. (0 * d) \div d = 0 /\ (1 * d) \div d = 1
  BY ExactQuotient
<1>5. 0 * d = 0 /\ 1 * d = d /\ 1 * 0 = 0
  OBVIOUS
<1> QED BY <1>1, <1>3, <1>4, <1>5 DEF Frac, Zero, Whole

\* A k-th is written with one and k.
LEMMA FracOfPart ==
  ASSUME NEW b \in Nat, NEW k \in Nat, b > 0, k > 0
  PROVE  Frac(b, k * b) = <<1, k>>
<1> DEFINE n == k * b
<1>1. n \in Nat /\ n > 0 /\ n >= b
  OBVIOUS
<1>2. n % b = 0
  BY <1>1, ExactQuotient, DivisionFacts
<1>3. Gcd[<<n, b>>] = b
  <2> HIDE DEF n
  <2>1. Gcd[<<n, b>>] = Gcd[<<b, 0>>]
    BY <1>1, <1>2, GcdRecursion
  <2>2. Gcd[<<b, 0>>] = b
    BY GcdRecursion
  <2> QED BY <2>1, <2>2
<1>4. Gcd[<<b, n>>] = b
  <2>1. CASE n = b
    BY <1>3, <2>1
  <2>2. CASE n # b
    <3> HIDE DEF n
    <3>1. (b % n) = b
      BY <1>1, <2>2, DivisionFacts
    <3>2. Gcd[<<b, n>>] = Gcd[<<n, b>>]
      BY <1>1, <3>1, GcdRecursion
    <3> QED BY <1>3, <3>2
  <2> QED BY <2>1, <2>2
<1>5. Abs(b) = b /\ Abs(n) = n /\ ~(n < 0)
  BY <1>1 DEF Abs
<1>6. (1 * b) \div b = 1 /\ (1 * n) \div b = k
  BY ExactQuotient
<1> HIDE DEF n
<1>7. Frac(b, n) = <<1, k>>
  BY <1>4, <1>5, <1>6 DEF Frac
<1> QED BY <1>7 DEF n

-----------------------------------------------------------------------------
(* Sums and records, one element after the other.                          *)

\* it has the values that a fold goes through.
HasHistory(it, n, F, base, V) ==
  \E h \in [0..n -> V] : GoesThrough(h, n, F, base, V) /\ h[n] = it[1..n]

\* The values of a fold after each of the numbers.
LEMMA FoldHistory ==
  ASSUME NEW V, NEW base \in V, NEW n \in Nat, NEW F \in [V \X (1..n) -> V],
         NEW it, FoldsIn(it, n, F, base, V)
  PROVE  HasHistory(it, n, F, base, V)
<1> DEFINE h == [k \in 0..n |-> it[1..k]]
<1>1. Traces(h, it, n)
  BY DEF Traces
<1> HIDE DEF h
<1>2. GoesThrough(h, n, F, base, V)
  BY <1>1, FoldSteps
<1>3. h = [k \in 0..n |-> h[k]]
  BY DEF h
<1>4. h \in [0..n -> V]
  BY <1>2, <1>3 DEF GoesThrough
<1>5. h[n] = it[1..n]
  BY <1>1 DEF Traces
<1> QED BY <1>2, <1>4, <1>5 DEF HasHistory

TotalOf(scores) == FoldLeft(+, 0, scores)

\* The sum of two fractions is a fraction of the same value.
LEMMA PlusValue ==
  ASSUME NEW a \in Fraction, NEW b \in Fraction
  PROVE  /\ Plus(a, b) \in Fraction
         /\ Plus(a, b)[1] * (a[2] * b[2]) = (a[1] * b[2] + b[1] * a[2]) * Plus(a, b)[2]
<1> DEFINE n == a[1] * b[2] + b[1] * a[2]
           d == a[2] * b[2]
<1>1. n \in Int /\ d \in Nat /\ d > 0
  BY DEF Fraction
<1>2. Plus(a, b) = Frac(n, d)
  BY DEF Plus
<1> HIDE DEF n, d
<1>3. Plus(a, b) \in Fraction /\ Plus(a, b)[1] * d = n * Plus(a, b)[2]
  BY <1>1, <1>2, FracValue
<1> QED BY <1>3 DEF n, d

\* A sum of fractions adds one after the other.
LEMMA SumsUp ==
  ASSUME NEW fractions \in Seq(Fraction)
  PROVE  \E h \in [0..Len(fractions) -> Fraction] :
           /\ h[0] = Zero
           /\ \A k \in 1..Len(fractions) : h[k] = Plus(h[k - 1], fractions[k])
           /\ Sum(fractions) = h[Len(fractions)]
<1> DEFINE V == Fraction
           n == Len(fractions)
           F == [x \in V \X (1..n) |-> Plus(x[1], fractions[x[2]])]
<1>1. /\ n \in Nat /\ DOMAIN fractions = 1..n
      /\ \A x \in V, k \in 1..n : Plus(x, fractions[k]) \in V
      /\ Zero \in V
  BY PlusValue DEF Zero, Whole, Fraction
<1>2. F \in [V \X (1..n) -> V]
  BY <1>1
<1>3. \A x \in V, k \in 1..n : F[<<x, k>>] = Plus(x, fractions[k])
  OBVIOUS
<1> HIDE DEF n, F, V
<1> DEFINE Solves(it) ==
     it = [s \in SUBSET (1..n) |-> IF s = {} THEN Zero ELSE Plus(it[s \ {Max(s)}], fractions[Max(s)])]
<1>4. Sum(fractions) = (CHOOSE it : Solves(it))[1..n]
  BY <1>1, Zenon DEF Sum, FoldLeft, MapThenFoldSet
<1>5. \E it : Solves(it)
  <2>1. PICK it \in [SUBSET (1..n) -> V] : FoldsOver(it, n, F, Zero)
    BY <1>1, <1>2, FoldExists
  <2>2. \A s \in SUBSET (1..n) :
          it[s] = IF s = {} THEN Zero ELSE Plus(it[s \ {Max(s)}], fractions[Max(s)])
    BY <1>1, <1>3, <2>1, MaxOfFirst DEF FoldsOver
  <2>3. it = [s \in SUBSET (1..n) |-> it[s]]
    OBVIOUS
  <2>4. Solves(it)
    BY <2>2, <2>3
  <2> HIDE DEF Solves
  <2> QED BY <2>4
<1> DEFINE fold == CHOOSE it : Solves(it)
<1>6. Solves(fold)
  BY <1>5
<1> HIDE DEF fold
<1>7. fold[{}] = Zero
  BY <1>6
<1>8. ASSUME NEW s \in SUBSET (1..n), s # {}, fold[s \ {Max(s)}] \in V
      PROVE  fold[s] = F[<<fold[s \ {Max(s)}], Max(s)>>]
  BY <1>1, <1>3, <1>6, <1>8, MaxOfFirst
<1> HIDE DEF Solves
<1>9. FoldsIn(fold, n, F, Zero, V)
  BY <1>7, <1>8 DEF FoldsIn
<1>10. PICK h \in [0..n -> V] : GoesThrough(h, n, F, Zero, V) /\ h[n] = fold[1..n]
  <2>1. HasHistory(fold, n, F, Zero, V)
    BY <1>1, <1>2, <1>9, FoldHistory
  <2> QED BY <2>1 DEF HasHistory
<1>11. \A k \in 1..n : h[k] = Plus(h[k - 1], fractions[k])
  <2>1. \A k \in 1..n : k - 1 \in 0..n
    BY <1>1
  <2>2. \A k \in 1..n : h[k - 1] \in V
    BY <2>1
  <2> QED BY <1>1, <1>3, <1>10, <2>2 DEF GoesThrough
<1>12. h[0] = Zero
  BY <1>10 DEF GoesThrough
<1> QED BY <1>4, <1>10, <1>11, <1>12 DEF fold, n, V

\* A sum of scores adds one after the other.
LEMMA TotalsUp ==
  ASSUME NEW scores \in Seq(Int)
  PROVE  \E h \in [0..Len(scores) -> Int] :
           /\ h[0] = 0
           /\ \A k \in 1..Len(scores) : h[k] = h[k - 1] + scores[k]
           /\ TotalOf(scores) = h[Len(scores)]
<1> DEFINE V == Int
           n == Len(scores)
           F == [x \in V \X (1..n) |-> x[1] + scores[x[2]]]
<1>1. n \in Nat /\ DOMAIN scores = 1..n /\ (\A k \in 1..n : scores[k] \in Int) /\ 0 \in V
      /\ \A x \in V, k \in 1..n : x + scores[k] \in V
  OBVIOUS
<1>2. F \in [V \X (1..n) -> V]
  BY <1>1
<1>3. \A x \in V, k \in 1..n : F[<<x, k>>] = x + scores[k]
  OBVIOUS
<1> HIDE DEF n, F, V
<1> DEFINE Solves(it) ==
     it = [s \in SUBSET (1..n) |-> IF s = {} THEN 0 ELSE it[s \ {Max(s)}] + scores[Max(s)]]
<1>4. TotalOf(scores) = (CHOOSE it : Solves(it))[1..n]
  BY <1>1, Zenon DEF TotalOf, FoldLeft, MapThenFoldSet
<1>5. \E it : Solves(it)
  <2>1. PICK it \in [SUBSET (1..n) -> V] : FoldsOver(it, n, F, 0)
    BY <1>1, <1>2, FoldExists
  <2>2. \A s \in SUBSET (1..n) :
          it[s] = IF s = {} THEN 0 ELSE it[s \ {Max(s)}] + scores[Max(s)]
    BY <1>1, <1>3, <2>1, MaxOfFirst DEF FoldsOver
  <2>3. it = [s \in SUBSET (1..n) |-> it[s]]
    OBVIOUS
  <2>4. Solves(it)
    BY <2>2, <2>3
  <2> HIDE DEF Solves
  <2> QED BY <2>4
<1> DEFINE fold == CHOOSE it : Solves(it)
<1>6. Solves(fold)
  BY <1>5
<1> HIDE DEF fold
<1>7. fold[{}] = 0
  BY <1>6
<1>8. ASSUME NEW s \in SUBSET (1..n), s # {}, fold[s \ {Max(s)}] \in V
      PROVE  fold[s] = F[<<fold[s \ {Max(s)}], Max(s)>>]
  BY <1>1, <1>3, <1>6, <1>8, MaxOfFirst
<1> HIDE DEF Solves
<1>9. FoldsIn(fold, n, F, 0, V)
  BY <1>7, <1>8 DEF FoldsIn
<1>10. PICK h \in [0..n -> V] : GoesThrough(h, n, F, 0, V) /\ h[n] = fold[1..n]
  <2>1. HasHistory(fold, n, F, 0, V)
    BY <1>1, <1>2, <1>9, FoldHistory
  <2> QED BY <2>1 DEF HasHistory
<1>11. \A k \in 1..n : h[k] = h[k - 1] + scores[k]
  <2>1. \A k \in 1..n : k - 1 \in 0..n
    BY <1>1
  <2>2. \A k \in 1..n : h[k - 1] \in V
    BY <2>1
  <2> QED BY <1>1, <1>3, <1>10, <2>2 DEF GoesThrough
<1>12. h[0] = 0
  BY <1>10 DEF GoesThrough
<1> QED BY <1>4, <1>10, <1>11, <1>12 DEF fold, n, V

Below(I, bound) == \A i \in I : i < bound

\* A fraction x over y stands for n k-ths.
Stands(f, n, k) == f \in Fraction /\ f[1] * k = n * f[2]

\* Sums of fractions over k.
LEMMA StandsSum ==
  ASSUME NEW k \in Nat, k > 0, NEW m \in Int, NEW n \in Int,
         NEW f, Stands(f, m, k), NEW g, Stands(g, n, k)
  PROVE  Stands(Plus(f, g), m + n, k)
<1> DEFINE p == f[1]
           q == f[2]
           s == g[1]
           t == g[2]
           x == Plus(f, g)[1]
           y == Plus(f, g)[2]
<1>1. f \in Fraction /\ g \in Fraction /\ p * k = m * q /\ s * k = n * t
  BY DEF Stands
<1>2. p \in Int /\ s \in Int /\ q \in Nat /\ t \in Nat /\ q > 0 /\ t > 0
  BY <1>1 DEF Fraction
<1>3. Plus(f, g) \in Fraction /\ x * (q * t) = (p * t + s * q) * y
  BY <1>1, PlusValue
<1>4. x \in Int /\ y \in Nat
  BY <1>3 DEF Fraction
<1> HIDE DEF p, q, s, t, x, y
<1> DEFINE z == q * t
           u == x * k
           w == (m + n) * y
<1>5. z \in Nat /\ z > 0 /\ u \in Int /\ w \in Int
  BY <1>2, <1>4
<1>6. u * z = w * z
  BY <1>1, <1>2, <1>3, <1>4
<1> HIDE DEF u, w, z
<1>7. u = w
  BY <1>5, <1>6, Cancel
<1> QED BY <1>3, <1>7 DEF Stands, u, w, x, y

-----------------------------------------------------------------------------
(* The clusters of a group.                                                *)

\* Choices that exclude later ones, by a rank: O is what is chosen.
Greedy(O, E, free, against) ==
  \A i \in E : i \in O <=> i \in free /\ \A j \in E : <<j, i>> \in against => j \notin O

\* The same for the elements below a rank.
GreedyBelow(O, n, E, rank, free, against) ==
  \A i \in E : rank[i] < n => (i \in O <=> i \in free /\ \A j \in E : <<j, i>> \in against => j \notin O)

\* Only elements of a lower rank exclude another.
Ranked(E, rank, against) == \A i, j \in E : <<j, i>> \in against => rank[j] < rank[i]

\* Choices of that kind can be made.
LEMMA GreedyExists ==
  ASSUME NEW E, NEW N \in Nat, NEW rank \in [E -> Nat], \A i \in E : rank[i] < N,
         NEW free, NEW against, Ranked(E, rank, against)
  PROVE  \E O \in SUBSET E : Greedy(O, E, free, against)
<1> DEFINE Fails == {n \in Nat : ~\E O \in SUBSET E : GreedyBelow(O, n, E, rank, free, against)}
<1>1. Fails = {}
  <2> SUFFICES ASSUME Fails # {} PROVE FALSE
    OBVIOUS
  <2>1. Fails \in SUBSET Nat
    OBVIOUS
  <2>2. PICK n \in Fails : \A m \in Fails : n <= m
    BY <2>1, LeastElement
  <2>3. n \in Nat
    OBVIOUS
  <2>4. CASE n = 0
    BY <2>4 DEF GreedyBelow
  <2>5. CASE n # 0
    <3> DEFINE m == n - 1
    <3>1. m \in Nat /\ m < n /\ \A k \in Nat : k < n => (k < m \/ k = m)
      BY <2>3, <2>5
    <3>2. m \notin Fails
      BY <2>1, <2>2, <3>1
    <3>3. PICK O \in SUBSET E : GreedyBelow(O, m, E, rank, free, against)
      BY <3>1, <3>2
    <3> HIDE DEF Fails, m
    <3> DEFINE Q == {i \in E : IF rank[i] < m THEN i \in O
                               ELSE rank[i] = m /\ i \in free /\ \A j \in E : <<j, i>> \in against => j \notin O}
    <3>4. Q \in SUBSET E
      OBVIOUS
    <3>5. \A j \in E : rank[j] < m => (j \in Q <=> j \in O)
      OBVIOUS
    <3>6. ASSUME NEW i \in E, rank[i] < n
          PROVE  i \in Q <=> i \in free /\ \A j \in E : <<j, i>> \in against => j \notin Q
      BY <3>1, <3>3, <3>5, <3>6 DEF Ranked, GreedyBelow
    <3>7. GreedyBelow(Q, n, E, rank, free, against)
      BY <3>6 DEF GreedyBelow
    <3>8. n \notin Fails
      BY <3>4, <3>7 DEF Fails
    <3> QED BY <3>8
  <2> QED BY <2>4, <2>5
<1>2. PICK O \in SUBSET E : GreedyBelow(O, N, E, rank, free, against)
  BY <1>1
<1>3. Greedy(O, E, free, against)
  BY <1>2 DEF GreedyBelow, Greedy
<1> QED BY <1>3

\* Whoever is scored: an objective is a number or there is none.
IsScored(g) ==
  /\ Len(g) \in Nat /\ DOMAIN g = 1..Len(g)
  /\ \A i \in DOMAIN g : g[i].obj \in Int \cup {NoObjective}

Remembers(hist) == hist.leaders \in Seq(Int)

\* Objectives of a group that are compared are numbers.
LEMMA EligibleFacts ==
  ASSUME NEW g, IsScored(g)
  PROVE  /\ Eligible(g) \in SUBSET (1..Len(g)) /\ IsFiniteSet(Eligible(g))
         /\ \A i \in Eligible(g) : i \in Nat /\ g[i].obj \in Int
<1>1. Len(g) \in Nat /\ DOMAIN g = 1..Len(g) /\ \A i \in DOMAIN g : g[i].obj \in Int \cup {NoObjective}
  BY DEF IsScored
<1>2. Eligible(g) \in SUBSET (1..Len(g)) /\ \A i \in Eligible(g) : g[i].obj \in Int
  BY <1>1 DEF Eligible
<1>3. IsFiniteSet(1..Len(g))
  BY <1>1, FS_Interval
<1>4. IsFiniteSet(Eligible(g))
  BY <1>2, <1>3, FS_Subset
<1> QED BY <1>1, <1>2, <1>4

\* The rollouts that are looked at before another.
Ahead(g, i) == {j \in Eligible(g) : Earlier(g, j, i)}

\* Looking at rollouts in their order ranks them.
LEMMA RankOfEarlier ==
  ASSUME NEW g, IsScored(g), NEW i \in Eligible(g)
  PROVE  /\ Cardinality(Ahead(g, i)) \in Nat
         /\ Cardinality(Ahead(g, i)) < Cardinality(Eligible(g)) + 1
         /\ \A j \in Eligible(g) : Earlier(g, j, i) => Cardinality(Ahead(g, j)) < Cardinality(Ahead(g, i))
<1> DEFINE E == Eligible(g)
<1>1. IsFiniteSet(E) /\ \A k \in E : k \in Nat /\ g[k].obj \in Int
  BY EligibleFacts
<1> HIDE DEF E
<1>2. \A k : Ahead(g, k) \in SUBSET E
  BY DEF Ahead, E
<1>3. \A k : IsFiniteSet(Ahead(g, k)) /\ Cardinality(Ahead(g, k)) <= Cardinality(E)
  BY <1>1, <1>2, FS_Subset
<1>4. \A k : Cardinality(Ahead(g, k)) \in Nat
  BY <1>3, FS_CardinalityType
<1>5. Cardinality(E) \in Nat
  BY <1>1, FS_CardinalityType
<1>6. i \in E
  BY DEF E
<1>7. ASSUME NEW j \in E, Earlier(g, j, i)
      PROVE  Cardinality(Ahead(g, j)) < Cardinality(Ahead(g, i))
  <2>1. j \in Nat /\ i \in Nat /\ g[j].obj \in Int /\ g[i].obj \in Int
    BY <1>1, <1>6
  <2>2. ~Earlier(g, j, j)
    BY <2>1 DEF Earlier
  <2>3. \A k \in E : Earlier(g, k, j) => Earlier(g, k, i)
    BY <1>1, <1>7, <2>1 DEF Earlier
  <2>4. Ahead(g, j) \in SUBSET (Ahead(g, i) \ {j}) /\ j \in Ahead(g, i)
    BY <1>7, <2>2, <2>3 DEF Ahead, E
  <2>5. IsFiniteSet(Ahead(g, i) \ {j}) /\ Cardinality(Ahead(g, i) \ {j}) = Cardinality(Ahead(g, i)) - 1
    BY <1>3, <2>4, FS_RemoveElement
  <2>6. Cardinality(Ahead(g, j)) <= Cardinality(Ahead(g, i) \ {j})
    BY <2>4, <2>5, FS_Subset
  <2> QED BY <1>4, <2>5, <2>6
<1> QED BY <1>3, <1>4, <1>5, <1>7 DEF E

\* A rollout opens a cluster if nobody before it takes it.
LEMMA OpenersFacts ==
  ASSUME NEW hist, NEW g, IsScored(g)
  PROVE  /\ Openers(hist, g) \in SUBSET Eligible(g)
         /\ \A i \in Eligible(g) :
              i \in Openers(hist, g) <=>
                /\ Matching(hist, g[i].obj) = NoObjective
                /\ \A j \in Openers(hist, g) : Earlier(g, j, i) => ~WithinTol(g[i].obj, g[j].obj)
<1> DEFINE E == Eligible(g)
           rank == [i \in E |-> Cardinality(Ahead(g, i))]
           free == {i \in E : Matching(hist, g[i].obj) = NoObjective}
           against == {p \in E \X E : Earlier(g, p[1], p[2]) /\ WithinTol(g[p[2]].obj, g[p[1]].obj)}
           N == Cardinality(E) + 1
           Body(f, i) == /\ Matching(hist, g[i].obj) = NoObjective
                         /\ \A j \in E : Earlier(g, j, i) /\ WithinTol(g[i].obj, g[j].obj) => ~f[j]
           Solves(f) == f = [i \in E |-> Body(f, i)]
           opens == CHOOSE f : Solves(f)
<1>1. \A i, j \in E : <<j, i>> \in against <=> Earlier(g, j, i) /\ WithinTol(g[i].obj, g[j].obj)
  OBVIOUS
<1>2. IsFiniteSet(E) /\ Cardinality(E) \in Nat
  BY EligibleFacts, FS_CardinalityType
<1>3. rank \in [E -> Nat] /\ \A i \in E : rank[i] < N
  BY RankOfEarlier
<1>4. Ranked(E, rank, against)
  BY <1>1, RankOfEarlier DEF Ranked
<1>5. N \in Nat
  BY <1>2
<1> HIDE DEF rank, N, against, free
<1>6. PICK O \in SUBSET E : Greedy(O, E, free, against)
  BY <1>3, <1>4, <1>5, GreedyExists
<1>7. \E f : Solves(f)
  <2> DEFINE f == [i \in E |-> i \in O]
  <2>1. \A i \in E : i \in O <=> Body(f, i)
    BY <1>1, <1>6 DEF Greedy, free
  <2>2. \A i \in E : (i \in O) = Body(f, i)
    <3> SUFFICES ASSUME NEW i \in E PROVE (i \in O) = Body(f, i)
      OBVIOUS
    <3>1. i \in O <=> Body(f, i)
      BY <2>1
    <3>2. CASE i \in O
      <4>1. Body(f, i)
        BY <3>1, <3>2
      <4> HIDE DEF E, f
      <4> QED BY <3>2, <4>1, Zenon
    <3>3. CASE i \notin O
      <4>1. ~Body(f, i)
        BY <3>1, <3>3
      <4>2. (i \in O) = FALSE
        BY <3>3
      <4> HIDE DEF E, f
      <4>3. Body(f, i) = FALSE
        BY <4>1, Zenon
      <4> HIDE DEF Body
      <4> QED BY <4>2, <4>3
    <3> QED BY <3>2, <3>3, Zenon
  <2>3. Solves(f)
    <3> HIDE DEF E, Body
    <3> QED BY <2>2, Zenon
  <2> HIDE DEF Solves, f
  <2> QED BY <2>3
<1>8. Solves(opens)
  BY <1>7
<1>9. Openers(hist, g) = {i \in E : opens[i]}
  BY Zenon DEF Openers
<1> HIDE DEF opens
<1>10. \A i \in E : opens[i] <=> Body(opens, i)
  <2> HIDE DEF Body, E
  <2> QED BY <1>8, Zenon
<1>11. \A i \in E : i \in Openers(hist, g) <=> opens[i]
  <2> HIDE DEF E
  <2> QED BY <1>9, Zenon
<1>12. Openers(hist, g) \in SUBSET E
  BY <1>9
<1>13. ASSUME NEW i \in E
       PROVE  i \in Openers(hist, g) <=>
                /\ Matching(hist, g[i].obj) = NoObjective
                /\ \A j \in Openers(hist, g) : Earlier(g, j, i) => ~WithinTol(g[i].obj, g[j].obj)
  <2> HIDE DEF E
  <2> QED BY <1>10, <1>11, <1>12, Zenon
<1> QED BY <1>12, <1>13, Zenon DEF E

\* A finite set of numbers has a least one.
LEMMA SmallestExists ==
  ASSUME NEW s \in SUBSET Int, IsFiniteSet(s), s # {}
  PROVE  \E m \in s : \A x \in s : m <= x
<1> DEFINE c == Cardinality(s)
           f == Listed(s)
<1>1. /\ c \in Nat /\ f \in [1..c -> s]
      /\ \A m, n \in 1..c : m < n => f[m] < f[n]
      /\ \A i \in s : \E n \in 1..c : f[n] = i
  BY ListedFacts
<1> HIDE DEF c, f
<1>2. 1 \in 1..c
  <2>1. PICK i \in s : TRUE
    OBVIOUS
  <2>2. PICK n \in 1..c : f[n] = i
    BY <1>1
  <2> QED BY <1>1, <2>2
<1>3. f[1] \in s /\ f[1] \in Int
  BY <1>1, <1>2
<1>4. ASSUME NEW x \in s PROVE f[1] <= x
  BY <1>1, <1>2, <1>3
<1> QED BY <1>3, <1>4

\* An objective is within its own tolerance.
LEMMA WithinItself ==
  ASSUME NEW v \in Int
  PROVE  WithinTol(v, v)
<1>1. TolNum \in Nat /\ TolDen \in Nat
  BY RewardAssumption
<1>2. Abs(v) \in Nat /\ Abs(v - v) = 0
  BY DEF Abs
<1>3. TolNum * Abs(v) \in Nat /\ TolDen * 0 = 0
  BY <1>1, <1>2
<1> QED BY <1>2, <1>3 DEF WithinTol

\* What matching_leader finds.
LEMMA MatchingFacts ==
  ASSUME NEW hist, Remembers(hist), NEW v
  PROVE  /\ Matching(hist, v) = NoObjective => \A n \in DOMAIN hist.leaders : ~WithinTol(v, hist.leaders[n])
         /\ Matching(hist, v) # NoObjective => Matching(hist, v) \in ToSet(hist.leaders) /\ WithinTol(v, Matching(hist, v))
<1> DEFINE leaders == hist.leaders
           fits == {i \in DOMAIN leaders : WithinTol(v, leaders[i])}
<1>1. leaders \in Seq(Int)
  BY DEF Remembers
<1>2. fits \in SUBSET Nat /\ \A i \in fits : leaders[i] \in Int
  BY <1>1
<1>3. CASE fits = {}
  <2>1. Matching(hist, v) = NoObjective
    BY <1>3, Zenon DEF Matching
  <2> QED BY <1>3, <2>1
<1>4. CASE fits # {}
  <2> DEFINE i == CHOOSE i \in fits : \A j \in fits : i <= j
  <2>1. \E k \in fits : \A j \in fits : k <= j
    BY <1>2, <1>4, LeastElement
  <2>2. i \in fits
    BY <2>1
  <2>3. Matching(hist, v) = leaders[i]
    BY <1>4, Zenon DEF Matching
  <2> HIDE DEF i
  <2>4. leaders[i] \in Int /\ WithinTol(v, leaders[i]) /\ leaders[i] \in ToSet(leaders)
    BY <1>2, <2>2 DEF ToSet
  <2> QED BY <2>3, <2>4, RewardAssumption
<1> QED BY <1>3, <1>4

Values(g) == {g[i].obj : i \in Eligible(g)}
OpenValues(hist, g) == {g[i].obj : i \in Openers(hist, g)}

\* The values that open clusters, looked at in increasing order.
OpensIn(W, V, hist) ==
  \A v \in V : v \in W <=> Matching(hist, v) = NoObjective /\ \A u \in W : u < v => ~WithinTol(v, u)

\* Whether a value opens a cluster does not depend on who has it.
LEMMA OpenValuesFacts ==
  ASSUME NEW hist, NEW g, IsScored(g)
  PROVE  OpenValues(hist, g) \in SUBSET Values(g) /\ OpensIn(OpenValues(hist, g), Values(g), hist)
<1> DEFINE E == Eligible(g)
           O == Openers(hist, g)
           W == OpenValues(hist, g)
<1>1. /\ E \in SUBSET (1..Len(g)) /\ IsFiniteSet(E)
      /\ \A i \in E : i \in Nat /\ g[i].obj \in Int
  BY EligibleFacts
<1>2. /\ O \in SUBSET E
      /\ \A i \in E : i \in O <=> /\ Matching(hist, g[i].obj) = NoObjective
                                  /\ \A j \in O : Earlier(g, j, i) => ~WithinTol(g[i].obj, g[j].obj)
  BY OpenersFacts
<1>3. W \in SUBSET Values(g)
  BY <1>2 DEF OpenValues, Values
<1>4. \A u \in W : \E j \in O : u = g[j].obj
  BY DEF OpenValues
<1>5. \A j \in O : g[j].obj \in W
  BY DEF OpenValues
<1> HIDE DEF E, O, W
<1>6. ASSUME NEW v \in Values(g)
      PROVE  v \in W <=> Matching(hist, v) = NoObjective /\ \A u \in W : u < v => ~WithinTol(v, u)
  <2>1. ASSUME v \in W, NEW u \in W, u < v PROVE Matching(hist, v) = NoObjective /\ ~WithinTol(v, u)
    BY <1>2, <1>4, <2>1 DEF Earlier
  <2>2. v \in W => Matching(hist, v) = NoObjective
    BY <1>2, <1>4
  <2>3. ASSUME Matching(hist, v) = NoObjective, \A u \in W : u < v => ~WithinTol(v, u)
        PROVE  v \in W
    BY <1>1, <1>2, <1>5, <2>3, LeastElement DEF Values, E, Earlier
  <2> QED BY <2>1, <2>2, <2>3
<1> QED BY <1>3, <1>6 DEF OpensIn, W

\* There is one way to open clusters.
LEMMA OpensOnce ==
  ASSUME NEW V \in SUBSET Int, IsFiniteSet(V), NEW hist, NEW W \in SUBSET V, OpensIn(W, V, hist),
         NEW U \in SUBSET V, OpensIn(U, V, hist)
  PROVE  W = U
<1> DEFINE D == {v \in V : ~(v \in W <=> v \in U)}
<1> SUFFICES ASSUME D # {} PROVE FALSE
  OBVIOUS
<1>1. D \in SUBSET V /\ D \in SUBSET Int
  OBVIOUS
<1>2. IsFiniteSet(D)
  BY <1>1, FS_Subset
<1>3. PICK v \in D : \A x \in D : v <= x
  BY <1>1, <1>2, SmallestExists
<1>4. v \in V /\ v \in Int /\ ~(v \in W <=> v \in U)
  OBVIOUS
<1>5. \A u \in V : u < v => u \notin D
  BY <1>3, <1>4
<1>6. \A u \in V : u < v => (u \in W <=> u \in U)
  BY <1>5
<1> HIDE DEF D
<1>7. (\A u \in W : u < v => ~WithinTol(v, u)) <=> (\A u \in U : u < v => ~WithinTol(v, u))
  BY <1>6
<1> QED BY <1>4, <1>7 DEF OpensIn

\* u is the cluster in W that takes v first.
Takes(W, v, u) == u \in W /\ WithinTol(v, u) /\ \A w \in W : WithinTol(v, w) => u <= w

\* The leader of an objective.
LeadValue(hist, W, v) ==
  IF Matching(hist, v) # NoObjective THEN Matching(hist, v) ELSE CHOOSE u : Takes(W, v, u)

\* One cluster takes it.
LEMMA TakenOnce ==
  ASSUME NEW W \in SUBSET Int, NEW v, NEW u, Takes(W, v, u)
  PROVE  (CHOOSE w : Takes(W, v, w)) = u
<1>1. \A w : Takes(W, v, w) => w = u
  BY DEF Takes
<1> QED BY <1>1

\* The cluster that is first in the order of the group.
IsFirst(g, opened, i, j) ==
  /\ j \in opened /\ WithinTol(g[i].obj, g[j].obj)
  /\ \A k \in opened : WithinTol(g[i].obj, g[k].obj) => k = j \/ Earlier(g, j, k)

\* A rollout that opens no cluster and matches none before is taken by one.
LEMMA FirstExists ==
  ASSUME NEW hist, NEW g, IsScored(g), NEW i \in Eligible(g) \ Openers(hist, g),
         Matching(hist, g[i].obj) = NoObjective
  PROVE  \E j : IsFirst(g, Openers(hist, g), i, j)
<1> DEFINE O == Openers(hist, g)
           v == g[i].obj
           F == {j \in O : WithinTol(v, g[j].obj)}
           S == {g[j].obj : j \in F}
<1>1. \A k \in Eligible(g) : k \in Nat /\ g[k].obj \in Int
  BY EligibleFacts
<1>2. O \in SUBSET Eligible(g) /\ F # {}
  BY OpenersFacts
<1>3. F \in SUBSET Nat /\ \A j \in F : g[j].obj \in Int
  BY <1>1, <1>2
<1>4. S \in SUBSET Int /\ S # {}
  BY <1>2, <1>3
<1>5. IsFiniteSet(S)
  <2>1. S \in SUBSET Values(g)
    BY <1>2 DEF Values
  <2>2. IsFiniteSet(Values(g))
    <3>1. IsFiniteSet(Eligible(g))
      BY EligibleFacts
    <3> DEFINE f == [k \in Eligible(g) |-> g[k].obj]
    <3>2. f \in Surjection(Eligible(g), Values(g))
      BY DEF Values, Surjection
    <3> HIDE DEF f
    <3> QED BY <3>1, <3>2, FS_Surjection
  <2> HIDE DEF S
  <2> QED BY <2>1, <2>2, FS_Subset
<1>6. PICK m \in S : \A x \in S : m <= x
  BY <1>4, <1>5, SmallestExists
<1> DEFINE T == {j \in F : g[j].obj = m}
<1>7. T # {} /\ T \in SUBSET Nat
  BY <1>3, <1>6
<1>8. PICK j \in T : \A k \in T : j <= k
  BY <1>7, LeastElement
<1>9. j \in F /\ g[j].obj = m /\ j \in O /\ WithinTol(v, g[j].obj)
  OBVIOUS
<1>10. ASSUME NEW k \in O, WithinTol(v, g[k].obj) PROVE k = j \/ Earlier(g, j, k)
  BY <1>10, <1>3, <1>6, <1>8, <1>9 DEF Earlier
<1> QED BY <1>9, <1>10 DEF IsFirst

\* The leader of a rollout depends on its objective only.
LEMMA LeaderFacts ==
  ASSUME NEW mem, NEW g, IsScored(g), NEW localScope, Remembers(History(mem, localScope)), NEW i \in Eligible(g)
  PROVE  LET hist == History(mem, localScope) IN
         /\ LeaderOf(mem, g, localScope)[i] = LeadValue(hist, OpenValues(hist, g), g[i].obj)
         /\ Matching(hist, g[i].obj) = NoObjective =>
              Takes(OpenValues(hist, g), g[i].obj, LeaderOf(mem, g, localScope)[i])
<1> DEFINE hist == History(mem, localScope)
           O == Openers(hist, g)
           W == OpenValues(hist, g)
           v == g[i].obj
           first == CHOOSE j \in O : /\ WithinTol(g[i].obj, g[j].obj)
                                     /\ \A k \in O : WithinTol(g[i].obj, g[k].obj) => k = j \/ Earlier(g, j, k)
           lead == LeaderOf(mem, g, localScope)[i]
<1>1. \A k \in Eligible(g) : k \in Nat /\ g[k].obj \in Int
  BY EligibleFacts
<1>2. /\ O \in SUBSET Eligible(g)
      /\ i \in O => Matching(hist, v) = NoObjective
  BY OpenersFacts
<1>3. lead = IF i \in O THEN v ELSE IF Matching(hist, v) # NoObjective THEN Matching(hist, v) ELSE g[first].obj
  BY Zenon DEF LeaderOf
<1> HIDE DEF hist
<1>4. W \in SUBSET Int /\ (\A j \in O : g[j].obj \in W)
  BY <1>1, <1>2 DEF OpenValues
<1>5. v \in Int /\ v \in Values(g)
  BY <1>1 DEF Values
<1> HIDE DEF lead
<1> DEFINE Goal == lead = LeadValue(hist, W, v) /\ (Matching(hist, v) = NoObjective => Takes(W, v, lead))
<1>6. ASSUME i \in O PROVE Goal
  <2>1. v \in W /\ lead = v /\ Matching(hist, v) = NoObjective
    BY <1>2, <1>3, <1>4, <1>6
  <2>2. \A w \in W : w < v => ~WithinTol(v, w)
    BY <1>5, <2>1, OpenValuesFacts DEF OpensIn
  <2> HIDE DEF v, W
  <2>3. WithinTol(v, v)
    BY <1>5, WithinItself
  <2>4. \A w \in W : WithinTol(v, w) => v <= w
    BY <1>4, <1>5, <2>2
  <2>5. Takes(W, v, v)
    BY <2>1, <2>3, <2>4 DEF Takes
  <2>6. (CHOOSE w : Takes(W, v, w)) = v
    BY <1>4, <2>5, TakenOnce
  <2> QED BY <2>1, <2>5, <2>6 DEF LeadValue
<1>7. ASSUME i \notin O, Matching(hist, v) # NoObjective PROVE Goal
  BY <1>3, <1>7 DEF LeadValue
<1>8. ASSUME i \notin O, Matching(hist, v) = NoObjective PROVE Goal
  <2>1. lead = g[first].obj
    BY <1>3, <1>8
  <2>2. \E j : IsFirst(g, O, i, j)
    BY <1>8, FirstExists
  <2> HIDE DEF O
  <2>3. \E j \in O : /\ WithinTol(g[i].obj, g[j].obj)
                     /\ \A k \in O : WithinTol(g[i].obj, g[k].obj) => k = j \/ Earlier(g, j, k)
    BY <2>2, Zenon DEF IsFirst
  <2>4. /\ first \in O /\ WithinTol(g[i].obj, g[first].obj)
        /\ \A k \in O : WithinTol(g[i].obj, g[k].obj) => k = first \/ Earlier(g, first, k)
    BY <2>3, Zenon
  <2> HIDE DEF first
  <2>5. g[first].obj \in W /\ first \in Nat /\ g[first].obj \in Int
    BY <1>1, <1>2, <1>4, <2>4
  <2>6. ASSUME NEW w \in W, WithinTol(v, w) PROVE g[first].obj <= w
    <3>1. PICK k \in O : w = g[k].obj
      BY DEF OpenValues, O
    <3>2. k = first \/ Earlier(g, first, k)
      BY <2>4, <2>6, <3>1
    <3>3. w \in Int
      BY <1>4
    <3> QED BY <2>5, <3>1, <3>2, <3>3 DEF Earlier
  <2>7. Takes(W, v, lead)
    BY <2>1, <2>4, <2>5, <2>6 DEF Takes
  <2>8. (CHOOSE w : Takes(W, v, w)) = lead
    BY <1>4, <2>7, TakenOnce
  <2> QED BY <1>8, <2>7, <2>8 DEF LeadValue
<1>9. Goal
  BY <1>6, <1>7, <1>8
<1> QED BY <1>9, Zenon DEF lead, hist

\* The leaders a memory shows to a group are numbers.
LEMMA HistoryRemembers ==
  ASSUME NEW mem, Remembers(mem), NEW localScope
  PROVE  Remembers(History(mem, localScope))
BY DEF Remembers, History, EmptyMemory

\* The rollouts of a group in another order.
Mixed(g, order) == [i \in DOMAIN g |-> g[order[i]]]
IsOrder(order, g) == order \in [DOMAIN g -> DOMAIN g] /\ ToSet(order) = DOMAIN g

\* The rollouts are the same ones.
LEMMA MixedFacts ==
  ASSUME NEW g, IsScored(g), NEW order, IsOrder(order, g)
  PROVE  /\ IsScored(Mixed(g, order))
         /\ Eligible(Mixed(g, order)) = {n \in DOMAIN g : order[n] \in Eligible(g)}
         /\ \A n \in DOMAIN g : Mixed(g, order)[n] = g[order[n]]
         /\ Values(Mixed(g, order)) = Values(g)
<1> DEFINE m == Mixed(g, order)
           n == Len(g)
<1>1. n \in Nat /\ DOMAIN g = 1..n /\ \A i \in 1..n : g[i].obj \in Int \cup {NoObjective}
  BY DEF IsScored
<1>2. order \in [1..n -> 1..n] /\ \A k \in 1..n : \E i \in 1..n : order[i] = k
  BY <1>1 DEF IsOrder, ToSet
<1>3. DOMAIN m = 1..n /\ \A i \in 1..n : m[i] = g[order[i]]
  BY <1>1 DEF Mixed
<1>4. m \in [1..n -> {g[i] : i \in 1..n}]
  BY <1>1, <1>2 DEF Mixed
<1>5. Len(m) = n
  BY <1>1, <1>4
<1> HIDE DEF m, n
<1>6. IsScored(m)
  <2>1. \A i \in 1..n : order[i] \in 1..n
    BY <1>2
  <2>2. \A i \in 1..n : m[i].obj \in Int \cup {NoObjective}
    BY <1>1, <1>3, <2>1
  <2> QED BY <1>1, <1>3, <1>5, <2>2 DEF IsScored
<1>7. Eligible(m) = {i \in 1..n : order[i] \in Eligible(g)}
  BY <1>1, <1>2, <1>3 DEF Eligible
<1>8. Values(m) = Values(g)
  <2>1. \A i \in Eligible(m) : order[i] \in Eligible(g) /\ m[i].obj = g[order[i]].obj
    BY <1>3, <1>7
  <2>2. \A k \in Eligible(g) : \E i \in Eligible(m) : g[k].obj = m[i].obj
    <3> SUFFICES ASSUME NEW k \in Eligible(g) PROVE \E i \in Eligible(m) : g[k].obj = m[i].obj
      OBVIOUS
    <3>1. k \in 1..n
      BY <1>1, EligibleFacts DEF n
    <3>2. PICK i \in 1..n : order[i] = k
      BY <1>2, <3>1
    <3>3. i \in Eligible(m)
      BY <1>7, <3>2
    <3> QED BY <1>3, <3>2, <3>3
  <2> QED BY <2>1, <2>2 DEF Values
<1> QED BY <1>1, <1>3, <1>6, <1>7, <1>8 DEF m

\* Finitely many objectives are looked at.
LEMMA FiniteValues ==
  ASSUME NEW g, IsScored(g)
  PROVE  IsFiniteSet(Values(g)) /\ Values(g) \in SUBSET Int
<1>1. IsFiniteSet(Eligible(g)) /\ \A i \in Eligible(g) : g[i].obj \in Int
  BY EligibleFacts
<1> DEFINE f == [k \in Eligible(g) |-> g[k].obj]
<1>2. f \in Surjection(Eligible(g), Values(g))
  BY DEF Values, Surjection
<1> HIDE DEF f
<1>3. IsFiniteSet(Values(g))
  BY <1>1, <1>2, FS_Surjection
<1> QED BY <1>1, <1>3 DEF Values

\* Another order opens clusters for the same objectives.
LEMMA MixedOpensTheSame ==
  ASSUME NEW g, IsScored(g), NEW order, IsOrder(order, g), NEW hist
  PROVE  OpenValues(hist, Mixed(g, order)) = OpenValues(hist, g)
<1> DEFINE m == Mixed(g, order)
           V == Values(g)
           W == OpenValues(hist, m)
           U == OpenValues(hist, g)
<1>1. IsScored(m) /\ Values(m) = V
  BY MixedFacts
<1>2. IsFiniteSet(V) /\ V \in SUBSET Int
  BY FiniteValues
<1>3. U \in SUBSET V /\ OpensIn(U, V, hist)
  BY OpenValuesFacts
<1>4. W \in SUBSET V /\ OpensIn(W, V, hist)
  BY <1>1, OpenValuesFacts
<1> HIDE DEF m, V, W, U
<1>5. W = U
  BY <1>2, <1>3, <1>4, OpensOnce
<1> QED BY <1>5 DEF W, U, m

\* The clusters of a group are sound whatever its objectives are and in
\* whatever order they come (_prepare_semantic_group).
THEOREM ClustersAlwaysSound ==
  ASSUME NEW mem, Remembers(mem), NEW g, IsScored(g), NEW localScope
  PROVE  GroupClustersSound(mem, g, localScope)
<1> DEFINE lead == LeaderOf(mem, g, localScope)
           hist == History(mem, localScope)
           opened == Openers(hist, g)
           W == OpenValues(hist, g)
<1>1. Remembers(hist)
  BY HistoryRemembers
<1>2. DOMAIN lead = Eligible(g)
  BY DEF LeaderOf
<1>3. \A i \in Eligible(g) : /\ lead[i] = LeadValue(hist, W, g[i].obj)
                             /\ Matching(hist, g[i].obj) = NoObjective => Takes(W, g[i].obj, lead[i])
  BY <1>1, LeaderFacts
<1>5. /\ opened \in SUBSET Eligible(g)
      /\ \A i \in opened : /\ Matching(hist, g[i].obj) = NoObjective
                           /\ \A j \in opened : Earlier(g, j, i) => ~WithinTol(g[i].obj, g[j].obj)
  BY OpenersFacts
<1> HIDE DEF lead, opened, W
<1>6. ASSUME NEW i \in DOMAIN lead PROVE WithinTol(g[i].obj, lead[i])
  BY <1>1, <1>2, <1>3, MatchingFacts DEF Takes, LeadValue
<1>7. \A i, j \in DOMAIN lead : g[i].obj = g[j].obj => lead[i] = lead[j]
  BY <1>2, <1>3
<1>8. ASSUME NEW i \in opened
      PROVE  /\ \A n \in DOMAIN hist.leaders : ~WithinTol(g[i].obj, hist.leaders[n])
             /\ \A j \in opened : g[j].obj < g[i].obj => ~WithinTol(g[i].obj, g[j].obj)
  BY <1>1, <1>5, MatchingFacts DEF Earlier
<1>9. ASSUME NEW o \in {p \in [DOMAIN g -> DOMAIN g] : ToSet(p) = DOMAIN g}
      PROVE  LeaderOf(mem, [i \in DOMAIN g |-> g[o[i]]], localScope) =
               [i \in {n \in DOMAIN g : o[n] \in DOMAIN lead} |-> lead[o[i]]]
  <2> DEFINE m == Mixed(g, o)
             new == LeaderOf(mem, m, localScope)
             D == {n \in DOMAIN g : o[n] \in DOMAIN lead}
  <2>1. IsOrder(o, g)
    BY DEF IsOrder
  <2>2. /\ IsScored(m) /\ Eligible(m) = {n \in DOMAIN g : o[n] \in Eligible(g)}
        /\ \A n \in DOMAIN g : m[n] = g[o[n]]
    BY <2>1, MixedFacts
  <2>3. OpenValues(hist, m) = W
    BY <2>1, MixedOpensTheSame DEF W
  <2> HIDE DEF m
  <2>4. DOMAIN new = Eligible(m) /\ new = [i \in DOMAIN new |-> new[i]]
    BY DEF LeaderOf
  <2>5. \A i \in Eligible(m) : new[i] = LeadValue(hist, OpenValues(hist, m), m[i].obj)
    BY <1>1, <2>2, LeaderFacts
  <2> HIDE DEF new
  <2>6. Eligible(m) = D
    BY <1>2, <2>2
  <2>7. \A i \in D : new[i] = lead[o[i]]
    BY <1>2, <1>3, <2>2, <2>3, <2>5, <2>6
  <2> HIDE DEF D
  <2>8. new = [i \in D |-> lead[o[i]]]
    BY <2>4, <2>6, <2>7
  <2> QED BY <2>8 DEF new, m, D, Mixed
<1>10. \A o \in {p \in [DOMAIN g -> DOMAIN g] : ToSet(p) = DOMAIN g} :
          LeaderOf(mem, [i \in DOMAIN g |-> g[o[i]]], localScope) =
            [i \in {n \in DOMAIN g : o[n] \in DOMAIN lead} |-> lead[o[i]]]
  BY <1>9
<1> QED BY <1>6, <1>7, <1>8, <1>10, Zenon DEF GroupClustersSound, lead, opened

-----------------------------------------------------------------------------
(* Sums of counts.                                                         *)

\* h has the sums of the first elements of scores.
AddsUp(h, scores) ==
  /\ h \in [0..Len(scores) -> Int] /\ h[0] = 0
  /\ \A k \in 1..Len(scores) : h[k] = h[k - 1] + scores[k]

\* There is only one such h, and its last sum is the total.
LEMMA TotalIs ==
  ASSUME NEW scores \in Seq(Int), NEW h, AddsUp(h, scores)
  PROVE  TotalOf(scores) = h[Len(scores)]
<1> DEFINE n == Len(scores)
<1>1. PICK it \in [0..n -> Int] :
        /\ it[0] = 0 /\ \A k \in 1..n : it[k] = it[k - 1] + scores[k]
        /\ TotalOf(scores) = it[n]
  BY TotalsUp
<1>2. n \in Nat /\ DOMAIN scores = 1..n /\ \A k \in 1..n : scores[k] \in Int
  OBVIOUS
<1>3. h \in [0..n -> Int] /\ h[0] = 0 /\ \A k \in 1..n : h[k] = h[k - 1] + scores[k]
  BY DEF AddsUp
<1> HIDE DEF n
<1> DEFINE Bad == {k \in 0..n : h[k] # it[k]}
<1>4. Bad = {}
  <2> SUFFICES ASSUME Bad # {} PROVE FALSE
    OBVIOUS
  <2>1. Bad \in SUBSET Nat
    BY <1>2
  <2>2. PICK k \in Bad : \A j \in Bad : k <= j
    BY <2>1, LeastElement
  <2>3. k \in 1..n /\ k - 1 \in 0..n
    BY <1>1, <1>2, <1>3
  <2>4. k - 1 \notin Bad
    BY <2>2, <2>3
  <2>5. h[k - 1] = it[k - 1]
    BY <2>3, <2>4
  <2> QED BY <1>1, <1>3, <2>3, <2>5
<1>5. n \in 0..n
  BY <1>2
<1> QED BY <1>1, <1>4, <1>5 DEF n

\* A total has its sums.
LEMMA TotalHas ==
  ASSUME NEW scores \in Seq(Int)
  PROVE  \E h : AddsUp(h, scores)
<1>1. PICK h \in [0..Len(scores) -> Int] :
        h[0] = 0 /\ \A k \in 1..Len(scores) : h[k] = h[k - 1] + scores[k]
  BY TotalsUp
<1> QED BY <1>1 DEF AddsUp

\* One more score.
LEMMA TotalOneMore ==
  ASSUME NEW scores \in Seq(Int), NEW x \in Int
  PROVE  TotalOf(Append(scores, x)) = TotalOf(scores) + x
<1> DEFINE n == Len(scores)
           longer == Append(scores, x)
<1>1. PICK h : AddsUp(h, scores)
  BY TotalHas
<1>2. h \in [0..n -> Int] /\ h[0] = 0 /\ \A k \in 1..n : h[k] = h[k - 1] + scores[k]
  BY <1>1 DEF AddsUp
<1>3. /\ n \in Nat /\ longer \in Seq(Int) /\ Len(longer) = n + 1
      /\ longer[n + 1] = x /\ \A k \in 1..n : longer[k] = scores[k]
  OBVIOUS
<1>4. TotalOf(scores) = h[n]
  BY <1>1, TotalIs
<1> HIDE DEF n, longer
<1> DEFINE new == [k \in 0..(n + 1) |-> IF k = n + 1 THEN h[n] + x ELSE h[k]]
<1>5. h[n] \in Int
  BY <1>2, <1>3
<1>6. new \in [0..(n + 1) -> Int] /\ new[0] = 0 /\ new[n + 1] = h[n] + x
  BY <1>2, <1>3, <1>5
<1>7. ASSUME NEW k \in 1..(n + 1) PROVE new[k] = new[k - 1] + longer[k]
  <2>1. k \in 0..(n + 1) /\ k - 1 \in 0..(n + 1) /\ k - 1 # n + 1
    BY <1>3
  <2>2. CASE k = n + 1
    BY <1>3, <1>6, <2>1, <2>2
  <2>3. CASE k # n + 1
    BY <1>2, <1>3, <2>1, <2>3
  <2> QED BY <2>2, <2>3
<1> HIDE DEF new
<1>8. AddsUp(new, longer)
  BY <1>3, <1>6, <1>7 DEF AddsUp
<1>9. TotalOf(longer) = new[n + 1]
  BY <1>3, <1>8, TotalIs
<1> QED BY <1>4, <1>6, <1>9 DEF longer

\* One score that is d more.
LEMMA TotalOneChanged ==
  ASSUME NEW s \in Seq(Int), NEW t \in Seq(Int), Len(t) = Len(s), NEW p \in 1..Len(s), NEW d \in Int,
         \A k \in 1..Len(s) : t[k] = IF k = p THEN s[k] + d ELSE s[k]
  PROVE  TotalOf(t) = TotalOf(s) + d
<1> DEFINE n == Len(s)
<1>1. PICK h : AddsUp(h, s)
  BY TotalHas
<1>2. h \in [0..n -> Int] /\ h[0] = 0 /\ \A k \in 1..n : h[k] = h[k - 1] + s[k]
  BY <1>1 DEF AddsUp
<1>3. n \in Nat /\ p \in 1..n /\ Len(t) = n /\ \A k \in 1..n : s[k] \in Int /\ t[k] = IF k = p THEN s[k] + d ELSE s[k]
  OBVIOUS
<1>4. TotalOf(s) = h[n]
  BY <1>1, TotalIs
<1> HIDE DEF n
<1> DEFINE new == [k \in 0..n |-> IF k < p THEN h[k] ELSE h[k] + d]
<1>5. new \in [0..n -> Int] /\ new[0] = 0 /\ new[n] = h[n] + d
  BY <1>2, <1>3
<1>6. ASSUME NEW k \in 1..n PROVE new[k] = new[k - 1] + t[k]
  <2>1. k \in 0..n /\ k - 1 \in 0..n /\ h[k] \in Int /\ h[k - 1] \in Int /\ s[k] \in Int /\ h[k] = h[k - 1] + s[k]
    BY <1>2, <1>3
  <2> DEFINE a == h[k - 1]
             b == s[k]
  <2>5. a \in Int /\ b \in Int /\ d \in Int /\ h[k] = a + b
    BY <2>1
  <2> HIDE DEF a, b
  <2>6. h[k] + d = a + (b + d) /\ h[k] + d = (a + d) + b
    BY <2>5
  <2>2. CASE k < p
    BY <1>3, <2>1, <2>2
  <2>3. CASE k = p
    <3>1. k - 1 < p /\ ~(k < p)
      BY <1>3, <2>3
    <3>2. t[k] = s[k] + d /\ new[k] = h[k] + d /\ new[k - 1] = h[k - 1]
      BY <1>3, <2>1, <2>3, <3>1
    <3> QED BY <2>6, <3>2 DEF a, b
  <2>4. CASE k > p
    <3>1. ~(k - 1 < p) /\ k # p /\ ~(k < p)
      BY <1>3, <2>4
    <3>2. t[k] = s[k] /\ new[k] = h[k] + d /\ new[k - 1] = h[k - 1] + d
      BY <1>3, <2>1, <3>1
    <3> HIDE DEF new
    <3> QED BY <2>6, <3>2 DEF a, b
  <2> QED BY <1>3, <2>2, <2>3, <2>4
<1> HIDE DEF new
<1>7. AddsUp(new, t)
  BY <1>3, <1>5, <1>6 DEF AddsUp
<1>8. TotalOf(t) = new[n]
  BY <1>3, <1>7, TotalIs
<1> QED BY <1>4, <1>5, <1>8

\* Nothing adds up to nothing.
LEMMA TotalOfNothing ==
  ASSUME NEW n \in Nat
  PROVE  TotalOf([k \in 1..n |-> 0]) = 0
<1> DEFINE s == [k \in 1..n |-> 0]
           h == [k \in 0..n |-> 0]
<1>1. s \in Seq(Int) /\ Len(s) = n
  OBVIOUS
<1>2. AddsUp(h, s)
  BY <1>1 DEF AddsUp
<1>3. h[n] = 0
  OBVIOUS
<1> HIDE DEF s, h
<1>4. TotalOf(s) = 0
  BY <1>1, <1>2, <1>3, TotalIs
<1> QED BY <1>4 DEF s

-----------------------------------------------------------------------------
(* What a memory counts.                                                   *)

\* Leaders once each, a count for every leader, and the sum of the counts.
IsMemory(m) ==
  /\ m = [leaders |-> m.leaders, count |-> m.count, total |-> m.total]
  /\ m.leaders \in Seq(Int) /\ m.count \in Seq(Nat) /\ Len(m.count) = Len(m.leaders)
  /\ \A i, j \in DOMAIN m.leaders : m.leaders[i] = m.leaders[j] => i = j
  /\ m.total \in Nat /\ m.total = TotalOf(m.count)

\* CountIn finds the count of a leader.
LEMMA CountOfLeader ==
  ASSUME NEW m, IsMemory(m), NEW l
  PROVE  /\ CountIn(m, l) \in Nat
         /\ \A i \in DOMAIN m.leaders : m.leaders[i] = l => CountIn(m, l) = m.count[i]
         /\ (\A i \in DOMAIN m.leaders : m.leaders[i] # l) => CountIn(m, l) = 0
<1>1. /\ DOMAIN m.leaders = DOMAIN m.count
      /\ \A i \in DOMAIN m.leaders : m.count[i] \in Nat
      /\ \A i, j \in DOMAIN m.leaders : m.leaders[i] = m.leaders[j] => i = j
  BY DEF IsMemory
<1>2. CASE \A i \in DOMAIN m.leaders : m.leaders[i] # l
  BY <1>2 DEF CountIn
<1>3. CASE \E i \in DOMAIN m.leaders : m.leaders[i] = l
  BY <1>1, <1>3 DEF CountIn
<1> QED BY <1>2, <1>3

Bump(l, leader) == IF l = leader THEN 1 ELSE 0

\* A sample of a leader it has.
LEMMA CommitKnown ==
  ASSUME NEW m, IsMemory(m), NEW leader \in Int, \E i \in DOMAIN m.leaders : m.leaders[i] = leader
  PROVE  LET new == Committed(m, leader) IN
         /\ IsMemory(new)
         /\ new.leaders = m.leaders /\ new.total = m.total + 1
         /\ \A l : CountIn(new, l) = CountIn(m, l) + Bump(l, leader)
<1> DEFINE new == Committed(m, leader)
           counts == [i \in DOMAIN m.count |-> m.count[i] + IF m.leaders[i] = leader THEN 1 ELSE 0]
           n == Len(m.leaders)
<1>1. /\ m = [leaders |-> m.leaders, count |-> m.count, total |-> m.total]
      /\ m.leaders \in Seq(Int) /\ m.count \in Seq(Nat) /\ Len(m.count) = n
      /\ \A i, j \in DOMAIN m.leaders : m.leaders[i] = m.leaders[j] => i = j
      /\ m.total \in Nat /\ m.total = TotalOf(m.count)
  BY DEF IsMemory
<1>2. new = [leaders |-> m.leaders, count |-> counts, total |-> m.total + 1]
  BY <1>1 DEF Committed
<1>3. n \in Nat /\ DOMAIN m.leaders = 1..n /\ DOMAIN m.count = 1..n /\ \A i \in 1..n : m.count[i] \in Nat
  BY <1>1
<1>4. PICK p \in 1..n : m.leaders[p] = leader
  BY <1>3
<1>5. \A i \in 1..n : m.leaders[i] = leader <=> i = p
  BY <1>1, <1>3, <1>4
<1>6. counts \in Seq(Nat) /\ Len(counts) = n
  BY <1>3
<1>7. \A i \in 1..n : counts[i] = IF i = p THEN m.count[i] + 1 ELSE m.count[i]
  BY <1>3, <1>5
<1> HIDE DEF new, counts
<1>8. TotalOf(counts) = m.total + 1
  <2> DEFINE s == m.count
  <2>1. s \in Seq(Int) /\ counts \in Seq(Int) /\ Len(s) = n
    BY <1>1, <1>6
  <2> HIDE DEF s, n
  <2>2. \A i \in 1..Len(s) : counts[i] = IF i = p THEN s[i] + 1 ELSE s[i]
    BY <1>7, <2>1 DEF s
  <2>3. p \in 1..Len(s) /\ 1 \in Int /\ Len(counts) = Len(s)
    BY <1>4, <1>6, <2>1
  <2>4. TotalOf(counts) = TotalOf(s) + 1
    BY <2>1, <2>2, <2>3, TotalOneChanged
  <2> QED BY <1>1, <2>4 DEF s
<1>9. new.leaders = m.leaders /\ new.count = counts /\ new.total = m.total + 1
  BY <1>2
<1>10. IsMemory(new)
  BY <1>1, <1>2, <1>6, <1>8, <1>9 DEF IsMemory
<1>11. ASSUME NEW l PROVE CountIn(new, l) = CountIn(m, l) + Bump(l, leader)
  <2>1. CASE \E i \in 1..n : m.leaders[i] = l
    <3>1. PICK i \in 1..n : m.leaders[i] = l
      BY <2>1
    <3>2. CountIn(new, l) = counts[i]
      BY <1>3, <1>9, <1>10, <3>1, CountOfLeader
    <3>3. CountIn(m, l) = m.count[i]
      BY <1>3, <3>1, CountOfLeader
    <3>4. l = leader <=> i = p
      BY <1>5, <3>1
    <3> QED BY <1>3, <1>7, <3>1, <3>2, <3>3, <3>4 DEF Bump
  <2>2. CASE ~\E i \in 1..n : m.leaders[i] = l
    <3>1. l # leader
      BY <1>4, <2>2
    <3>2. CountIn(new, l) = 0
      BY <1>3, <1>9, <1>10, <2>2, CountOfLeader
    <3>3. CountIn(m, l) = 0
      BY <1>3, <2>2, CountOfLeader
    <3> QED BY <3>1, <3>2, <3>3 DEF Bump
  <2> QED BY <2>1, <2>2
<1> QED BY <1>9, <1>10, <1>11 DEF new

\* A sample of a new leader.
LEMMA CommitNew ==
  ASSUME NEW m, IsMemory(m), NEW leader \in Int, ~\E i \in DOMAIN m.leaders : m.leaders[i] = leader
  PROVE  LET new == Committed(m, leader) IN
         /\ IsMemory(new)
         /\ new.leaders = Append(m.leaders, leader) /\ new.total = m.total + 1
         /\ \A l : CountIn(new, l) = CountIn(m, l) + Bump(l, leader)
<1> DEFINE new == Committed(m, leader)
           ls == Append(m.leaders, leader)
           counts == Append(m.count, 1)
           n == Len(m.leaders)
<1>1. /\ m.leaders \in Seq(Int) /\ m.count \in Seq(Nat) /\ Len(m.count) = n
      /\ \A i, j \in DOMAIN m.leaders : m.leaders[i] = m.leaders[j] => i = j
      /\ m.total \in Nat /\ m.total = TotalOf(m.count)
  BY DEF IsMemory
<1>2. new = [leaders |-> ls, count |-> counts, total |-> m.total + 1]
  BY DEF Committed
<1>3. n \in Nat /\ DOMAIN m.leaders = 1..n /\ \A i \in 1..n : m.count[i] \in Nat
  <2>1. n \in Nat /\ DOMAIN m.leaders = 1..n
    BY <1>1
  <2> DEFINE c == m.count
  <2>2. c \in Seq(Nat) /\ Len(c) = n
    BY <1>1
  <2> HIDE DEF c, n
  <2>3. \A i \in 1..n : c[i] \in Nat
    BY <2>1, <2>2
  <2> QED BY <2>1, <2>3 DEF c
<1>4. /\ ls \in Seq(Int) /\ Len(ls) = n + 1 /\ ls[n + 1] = leader /\ \A i \in 1..n : ls[i] = m.leaders[i]
      /\ DOMAIN ls = 1..(n + 1)
  BY <1>1
<1>5. counts \in Seq(Nat) /\ Len(counts) = n + 1 /\ counts[n + 1] = 1 /\ \A i \in 1..n : counts[i] = m.count[i]
  BY <1>1
<1>6. TotalOf(counts) = m.total + 1
  BY <1>1, TotalOneMore
<1> HIDE DEF new, counts, ls
<1>7. new.leaders = ls /\ new.count = counts /\ new.total = m.total + 1
  BY <1>2
<1>8. \A i, j \in 1..(n + 1) : ls[i] = ls[j] => i = j
  <2>1. \A i \in 1..(n + 1) : i \in 1..n \/ i = n + 1
    BY <1>3
  <2>2. \A i \in 1..n : m.leaders[i] # leader
    BY <1>3
  <2>3. \A i, j \in 1..n : m.leaders[i] = m.leaders[j] => i = j
    BY <1>1, <1>3
  <2> QED BY <1>4, <2>1, <2>2, <2>3
<1>9. IsMemory(new)
  BY <1>1, <1>2, <1>4, <1>5, <1>6, <1>7, <1>8 DEF IsMemory
<1>10. n + 1 \in 1..(n + 1) /\ \A i \in 1..n : i \in 1..(n + 1)
  BY <1>3
<1>11. ASSUME NEW l PROVE CountIn(new, l) = CountIn(m, l) + Bump(l, leader)
  <2>1. CASE \E i \in 1..n : m.leaders[i] = l
    <3>1. PICK i \in 1..n : m.leaders[i] = l
      BY <2>1
    <3>2. CountIn(new, l) = counts[i]
      <4>1. i \in DOMAIN new.leaders /\ new.leaders[i] = l /\ new.count = counts
        BY <1>4, <1>7, <1>10, <3>1
      <4> QED BY <1>9, <4>1, CountOfLeader
    <3>3. CountIn(m, l) = m.count[i]
      BY <1>3, <3>1, CountOfLeader
    <3>4. l # leader
      BY <1>3, <3>1
    <3> QED BY <1>3, <1>5, <3>1, <3>2, <3>3, <3>4 DEF Bump
  <2>2. CASE l = leader
    <3>1. CountIn(new, l) = counts[n + 1]
      BY <1>4, <1>7, <1>9, <1>10, <2>2, CountOfLeader
    <3>2. CountIn(m, l) = 0
      BY <1>3, <2>2, CountOfLeader
    <3> QED BY <1>5, <2>2, <3>1, <3>2 DEF Bump
  <2>3. CASE l # leader /\ ~\E i \in 1..n : m.leaders[i] = l
    <3>1. \A i \in 1..(n + 1) : ls[i] # l
      <4>1. \A i \in 1..(n + 1) : i \in 1..n \/ i = n + 1
        BY <1>3
      <4> QED BY <1>4, <2>3, <4>1
    <3>2. CountIn(new, l) = 0
      BY <1>4, <1>7, <1>9, <3>1, CountOfLeader
    <3>3. CountIn(m, l) = 0
      BY <1>3, <2>3, CountOfLeader
    <3> QED BY <2>3, <3>2, <3>3 DEF Bump
  <2> QED BY <2>1, <2>2, <2>3
<1> QED BY <1>7, <1>9, <1>11 DEF new, ls

\* commit_sample counts one sample more, of its leader.
LEMMA CommitCounts ==
  ASSUME NEW m, IsMemory(m), NEW leader \in Int
  PROVE  LET new == Committed(m, leader) IN
         /\ IsMemory(new)
         /\ ToSet(new.leaders) = ToSet(m.leaders) \cup {leader}
         /\ new.total = m.total + 1
         /\ \A l : CountIn(new, l) = CountIn(m, l) + Bump(l, leader)
<1>1. m.leaders \in Seq(Int)
  BY DEF IsMemory
<1>2. CASE \E i \in DOMAIN m.leaders : m.leaders[i] = leader
  BY <1>2, CommitKnown DEF ToSet
<1>3. CASE ~\E i \in DOMAIN m.leaders : m.leaders[i] = leader
  <2> DEFINE n == Len(m.leaders)
             ls == Append(m.leaders, leader)
  <2>1. /\ n \in Nat /\ DOMAIN m.leaders = 1..n /\ DOMAIN ls = 1..(n + 1)
        /\ ls[n + 1] = leader /\ \A i \in 1..n : ls[i] = m.leaders[i]
    BY <1>1
  <2>2. \A i : i \in 1..(n + 1) <=> i \in 1..n \/ i = n + 1
    BY <2>1
  <2> HIDE DEF n, ls
  <2>3. \A x : x \in ToSet(ls) <=> x \in ToSet(m.leaders) \cup {leader}
    BY <2>1, <2>2 DEF ToSet
  <2>4. ToSet(ls) = ToSet(m.leaders) \cup {leader}
    BY <2>3
  <2> QED BY <1>3, <2>4, CommitNew DEF ls
<1> QED BY <1>2, <1>3

\* A rollout with a leader is committed.
Scored(m, lead, i) == IF i \in DOMAIN lead THEN Committed(m, lead[i]) ELSE m

\* A memory after the rollouts of a group.
Grown(m, g, lead) ==
  FoldLeft(LAMBDA x, i : IF i \in DOMAIN lead THEN Committed(x, lead[i]) ELSE x, m, [i \in DOMAIN g |-> i])

Memory == {m \in [leaders : Seq(Int), count : Seq(Nat), total : Nat] : IsMemory(m)}

\* The leaders of a group.
AreLeaders(lead, n) == DOMAIN lead \in SUBSET (1..n) /\ \A i \in DOMAIN lead : lead[i] \in Int

\* A group is committed one rollout after the other.
LEMMA GrowsOneByOne ==
  ASSUME NEW m \in Memory, NEW g, Len(g) \in Nat, DOMAIN g = 1..Len(g), NEW lead, AreLeaders(lead, Len(g))
  PROVE  \E h \in [0..Len(g) -> Memory] :
           /\ h[0] = m
           /\ \A k \in 1..Len(g) : h[k] = Scored(h[k - 1], lead, k)
           /\ Grown(m, g, lead) = h[Len(g)]
<1> DEFINE V == Memory
           n == Len(g)
           ids == [i \in DOMAIN g |-> i]
           F == [x \in V \X (1..n) |-> Scored(x[1], lead, x[2])]
<1>1. /\ n \in Nat /\ DOMAIN g = 1..n /\ DOMAIN ids = 1..n
      /\ (\A k \in 1..n : ids[k] = k)
      /\ m \in V
      /\ \A x \in V, k \in 1..n : Scored(x, lead, k) \in V
  <2>1. ASSUME NEW x \in Memory, NEW k \in 1..n PROVE Scored(x, lead, k) \in Memory
    <3>1. CASE k \notin DOMAIN lead
      BY <3>1 DEF Scored
    <3>2. CASE k \in DOMAIN lead
      <4>1. lead[k] \in Int /\ IsMemory(x)
        BY <3>2 DEF AreLeaders, Memory
      <4>2. IsMemory(Committed(x, lead[k]))
        BY <4>1, CommitCounts
      <4> DEFINE y == Committed(x, lead[k])
      <4>3. y \in Memory
        BY <4>2 DEF y, IsMemory, Memory
      <4> QED BY <3>2, <4>3 DEF Scored
    <3> QED BY <3>1, <3>2
  <2> QED BY <2>1
<1>2. F \in [V \X (1..n) -> V]
  BY <1>1
<1>3. \A x \in V, k \in 1..n : F[<<x, k>>] = Scored(x, lead, k)
  OBVIOUS
<1> HIDE DEF n, F, V
<1> DEFINE Solves(it) ==
     it = [s \in SUBSET (1..n) |-> IF s = {} THEN m ELSE Scored(it[s \ {Max(s)}], lead, ids[Max(s)])]
<1>4. Grown(m, g, lead) = (CHOOSE it : Solves(it))[1..n]
  BY <1>1, Zenon DEF Grown, FoldLeft, MapThenFoldSet, Scored
<1>5. \E it : Solves(it)
  <2>1. PICK it \in [SUBSET (1..n) -> V] : FoldsOver(it, n, F, m)
    BY <1>1, <1>2, FoldExists
  <2>2. \A s \in SUBSET (1..n) :
          it[s] = IF s = {} THEN m ELSE Scored(it[s \ {Max(s)}], lead, ids[Max(s)])
    <3> SUFFICES ASSUME NEW s \in SUBSET (1..n), s # {}
                 PROVE  it[s] = Scored(it[s \ {Max(s)}], lead, ids[Max(s)])
      BY <2>1 DEF FoldsOver
    <3>1. Max(s) \in 1..n
      BY <1>1, MaxOfFirst
    <3>2. it[s \ {Max(s)}] \in V
      OBVIOUS
    <3>3. it[s] = F[<<it[s \ {Max(s)}], Max(s)>>]
      BY <2>1 DEF FoldsOver
    <3> QED BY <1>1, <1>3, <3>1, <3>2, <3>3
  <2>3. it = [s \in SUBSET (1..n) |-> it[s]]
    OBVIOUS
  <2>4. Solves(it)
    BY <2>2, <2>3
  <2> HIDE DEF Solves
  <2> QED BY <2>4
<1> DEFINE fold == CHOOSE it : Solves(it)
<1>6. Solves(fold)
  BY <1>5
<1> HIDE DEF fold
<1>7. fold[{}] = m
  BY <1>6
<1>8. ASSUME NEW s \in SUBSET (1..n), s # {}, fold[s \ {Max(s)}] \in V
      PROVE  fold[s] = F[<<fold[s \ {Max(s)}], Max(s)>>]
  BY <1>1, <1>3, <1>6, <1>8, MaxOfFirst
<1> HIDE DEF Solves
<1>9. FoldsIn(fold, n, F, m, V)
  BY <1>7, <1>8 DEF FoldsIn
<1>10. PICK h \in [0..n -> V] : GoesThrough(h, n, F, m, V) /\ h[n] = fold[1..n]
  <2>1. HasHistory(fold, n, F, m, V)
    BY <1>1, <1>2, <1>9, FoldHistory
  <2> QED BY <2>1 DEF HasHistory
<1>11. \A k \in 1..n : h[k] = Scored(h[k - 1], lead, k)
  <2>1. \A k \in 1..n : k - 1 \in 0..n
    <3>1. n \in Nat
      BY <1>1
    <3> QED BY <3>1
  <2>2. \A k \in 1..n : h[k - 1] \in V
    BY <2>1
  <2> QED BY <1>1, <1>3, <1>10, <2>2 DEF GoesThrough
<1>12. h[0] = m
  BY <1>10 DEF GoesThrough
<1> QED BY <1>4, <1>10, <1>11, <1>12 DEF fold, n, V

\* The rollouts up to k that have leader l, and those that have one.
CountedUpTo(lead, k, l) == {i \in DOMAIN lead : i <= k /\ lead[i] = l}
ScoredUpTo(lead, k) == {i \in DOMAIN lead : i <= k}
LeadersUpTo(lead, k) == {lead[i] : i \in ScoredUpTo(lead, k)}

\* now is the memory m with the rollouts up to k.
CountsUpTo(now, m, lead, k) ==
  /\ ToSet(now.leaders) = ToSet(m.leaders) \cup LeadersUpTo(lead, k)
  /\ now.total = m.total + Cardinality(ScoredUpTo(lead, k))
  /\ \A l : CountIn(now, l) = CountIn(m, l) + Cardinality(CountedUpTo(lead, k, l))

\* One rollout more, in a set of those that are counted.
LEMMA OneRolloutMore ==
  ASSUME NEW k \in Nat, k > 0, NEW S, NEW T, S \in SUBSET (1..(k - 1)), T = S \cup {k}
  PROVE  Cardinality(S) \in Nat /\ Cardinality(T) = Cardinality(S) + 1
<1>1. IsFiniteSet(1..(k - 1))
  BY FS_Interval
<1>2. IsFiniteSet(S)
  BY <1>1, FS_Subset
<1>3. k \notin S
  OBVIOUS
<1> QED BY <1>2, <1>3, FS_AddElement, FS_CardinalityType

\* Committing one rollout more keeps the books.
LEMMA ScoredStep ==
  ASSUME NEW n \in Nat, NEW lead, AreLeaders(lead, n), NEW k \in 1..n,
         NEW m, IsMemory(m), NEW now, IsMemory(now), CountsUpTo(now, m, lead, k - 1)
  PROVE  CountsUpTo(Scored(now, lead, k), m, lead, k)
<1> DEFINE new == Scored(now, lead, k)
<1>1. /\ DOMAIN lead \in SUBSET (1..n) /\ \A i \in DOMAIN lead : lead[i] \in Int
      /\ \A i \in DOMAIN lead : i \in Int
  BY DEF AreLeaders
<1>2. \A i \in DOMAIN lead : i <= k <=> i <= k - 1 \/ i = k
  BY <1>1
<1>3. /\ ToSet(now.leaders) = ToSet(m.leaders) \cup LeadersUpTo(lead, k - 1)
      /\ now.total = m.total + Cardinality(ScoredUpTo(lead, k - 1))
      /\ \A l : CountIn(now, l) = CountIn(m, l) + Cardinality(CountedUpTo(lead, k - 1, l))
  BY DEF CountsUpTo
<1>4. CASE k \notin DOMAIN lead
  BY <1>2, <1>3, <1>4 DEF Scored, ScoredUpTo, CountedUpTo, CountsUpTo, LeadersUpTo
<1>5. CASE k \in DOMAIN lead
  <2> DEFINE v == lead[k]
  <2>1. v \in Int /\ new = Committed(now, v)
    BY <1>1, <1>5 DEF Scored
  <2> HIDE DEF new
  <2>2. /\ ToSet(new.leaders) = ToSet(now.leaders) \cup {v}
        /\ new.total = now.total + 1
        /\ \A l : CountIn(new, l) = CountIn(now, l) + Bump(l, v)
    BY <2>1, CommitCounts
  <2>3. ScoredUpTo(lead, k) = ScoredUpTo(lead, k - 1) \cup {k}
    BY <1>2, <1>5 DEF ScoredUpTo
  <2>4. ScoredUpTo(lead, k - 1) \in SUBSET (1..(k - 1))
    BY <1>1 DEF ScoredUpTo
  <2>5. k \in Nat /\ k > 0
    OBVIOUS
  <2>6. ToSet(new.leaders) = ToSet(m.leaders) \cup LeadersUpTo(lead, k)
    BY <1>3, <2>2, <2>3 DEF LeadersUpTo
  <2>7. new.total = m.total + Cardinality(ScoredUpTo(lead, k))
    <3>1. /\ Cardinality(ScoredUpTo(lead, k - 1)) \in Nat
          /\ Cardinality(ScoredUpTo(lead, k)) = Cardinality(ScoredUpTo(lead, k - 1)) + 1
      BY <2>3, <2>4, <2>5, OneRolloutMore
    <3>2. m.total \in Nat
      BY DEF IsMemory
    <3> QED BY <1>3, <2>2, <3>1, <3>2
  <2>8. ASSUME NEW l PROVE CountIn(new, l) = CountIn(m, l) + Cardinality(CountedUpTo(lead, k, l))
    <3> DEFINE S == CountedUpTo(lead, k - 1, l)
               T == CountedUpTo(lead, k, l)
    <3>1. S \in SUBSET (1..(k - 1))
      BY <1>1 DEF CountedUpTo
    <3>2. CountIn(m, l) \in Nat
      BY CountOfLeader
    <3>3. CountIn(new, l) = CountIn(m, l) + Cardinality(S) + Bump(l, v)
      BY <1>3, <2>2
    <3>4. CASE l = v
      <4>1. T = S \cup {k}
        BY <1>2, <1>5, <3>4 DEF CountedUpTo
      <4> HIDE DEF S, T
      <4>2. Cardinality(S) \in Nat /\ Cardinality(T) = Cardinality(S) + 1
        BY <2>5, <3>1, <4>1, OneRolloutMore
      <4>3. Bump(l, v) = 1
        BY <3>4 DEF Bump
      <4>4. CountIn(new, l) = CountIn(m, l) + Cardinality(T)
        BY <3>2, <3>3, <4>2, <4>3
      <4> QED BY <4>4 DEF T
    <3>5. CASE l # v
      <4>1. T = S
        BY <1>2, <1>5, <3>5 DEF CountedUpTo
      <4>2. Cardinality(S) \in Nat
        BY <2>5, <3>1, OneRolloutMore
      <4>3. Bump(l, v) = 0
        BY <3>5 DEF Bump
      <4> HIDE DEF S, T
      <4>4. CountIn(new, l) = CountIn(m, l) + Cardinality(T)
        BY <3>2, <3>3, <4>1, <4>2, <4>3
      <4> QED BY <4>4 DEF T
    <3> QED BY <3>4, <3>5
  <2>9. CountsUpTo(new, m, lead, k)
    BY <2>6, <2>7, <2>8 DEF CountsUpTo
  <2> QED BY <2>9 DEF new
<1> QED BY <1>4, <1>5

\* A grown memory has what preview_r1 counts.
LEMMA GrownCounts ==
  ASSUME NEW m, IsMemory(m), NEW g, Len(g) \in Nat, DOMAIN g = 1..Len(g), NEW lead, AreLeaders(lead, Len(g))
  PROVE  LET grown == Grown(m, g, lead) IN
         /\ IsMemory(grown)
         /\ ToSet(grown.leaders) = LeadersOf(lead) \cup ToSet(m.leaders)
         /\ grown.total = PreviewTotal(m, lead)
         /\ \A l : CountIn(grown, l) = PreviewCount(m, lead, l)
<1> DEFINE n == Len(g)
           grown == Grown(m, g, lead)
<1>1. m \in Memory
  BY DEF IsMemory, Memory
<1>2. PICK h \in [0..n -> Memory] :
        /\ h[0] = m /\ \A k \in 1..n : h[k] = Scored(h[k - 1], lead, k)
        /\ grown = h[n]
  BY <1>1, GrowsOneByOne
<1>3. n \in Nat /\ DOMAIN lead \in SUBSET (1..n)
  BY DEF AreLeaders
<1>4. AreLeaders(lead, n) /\ \A k \in 0..n : IsMemory(h[k])
  BY <1>2 DEF Memory
<1>5. CountsUpTo(m, m, lead, 0)
  <2>1. \A i \in DOMAIN lead : ~(i <= 0)
    BY <1>3
  <2>2. ScoredUpTo(lead, 0) = {} /\ \A l : CountedUpTo(lead, 0, l) = {}
    BY <2>1 DEF ScoredUpTo, CountedUpTo
  <2>3. LeadersUpTo(lead, 0) = {}
    BY <2>2 DEF LeadersUpTo
  <2>4. m.total \in Nat /\ \A l : CountIn(m, l) \in Nat
    BY CountOfLeader DEF IsMemory
  <2>5. Cardinality({}) = 0
    BY FS_EmptySet
  <2> QED BY <2>2, <2>3, <2>4, <2>5 DEF CountsUpTo
<1> HIDE DEF n, grown
<1> DEFINE Bad == {k \in 0..n : ~CountsUpTo(h[k], m, lead, k)}
<1>6. Bad = {}
  <2> SUFFICES ASSUME Bad # {} PROVE FALSE
    OBVIOUS
  <2>1. Bad \in SUBSET Nat
    BY <1>3
  <2>2. PICK k \in Bad : \A j \in Bad : k <= j
    BY <2>1, LeastElement
  <2>3. k \in 1..n /\ k - 1 \in 0..n
    BY <1>2, <1>3, <1>5
  <2>4. k - 1 \notin Bad
    BY <2>2, <2>3
  <2>5. CountsUpTo(h[k - 1], m, lead, k - 1) /\ IsMemory(h[k - 1])
    BY <1>4, <2>3, <2>4
  <2>6. CountsUpTo(Scored(h[k - 1], lead, k), m, lead, k)
    BY <1>3, <1>4, <2>3, <2>5, ScoredStep
  <2> QED BY <1>2, <2>3, <2>6
<1>7. n \in 0..n
  BY <1>3
<1>8. CountsUpTo(grown, m, lead, n) /\ IsMemory(grown)
  BY <1>2, <1>4, <1>6, <1>7
<1>9. \A i \in DOMAIN lead : i <= n
  BY <1>3
<1>10. ScoredUpTo(lead, n) = DOMAIN lead /\ \A l : CountedUpTo(lead, n, l) = {i \in DOMAIN lead : lead[i] = l}
  BY <1>9 DEF ScoredUpTo, CountedUpTo
<1>11. LeadersUpTo(lead, n) = LeadersOf(lead)
  BY <1>10 DEF LeadersUpTo, LeadersOf
<1> QED BY <1>8, <1>10, <1>11 DEF CountsUpTo, PreviewTotal, PreviewCount, GroupCount, grown

\* The counts of the leaders in listed, as far as they are among the first j.
FirstCounts(m, listed, j) ==
  [n \in DOMAIN listed |-> IF \E i \in 1..j : m.leaders[i] = listed[n] THEN CountIn(m, listed[n]) ELSE 0]

\* Every leader once.
ListsLeaders(listed, m) ==
  /\ Len(listed) \in Nat /\ DOMAIN listed = 1..Len(listed)
  /\ \A i, j \in DOMAIN listed : listed[i] = listed[j] => i = j
  /\ \A n \in DOMAIN listed : \E i \in DOMAIN m.leaders : m.leaders[i] = listed[n]
  /\ \A i \in DOMAIN m.leaders : \E n \in DOMAIN listed : m.leaders[i] = listed[n]

\* One leader more.
LEMMA FirstCountsStep ==
  ASSUME NEW m, IsMemory(m), NEW listed, ListsLeaders(listed, m), NEW k \in 1..Len(m.leaders)
  PROVE  /\ FirstCounts(m, listed, k) \in Seq(Int)
         /\ TotalOf(FirstCounts(m, listed, k)) = TotalOf(FirstCounts(m, listed, k - 1)) + m.count[k]
<1> DEFINE K == Len(listed)
           s == FirstCounts(m, listed, k - 1)
           t == FirstCounts(m, listed, k)
<1>1. K \in Nat /\ DOMAIN listed = 1..K /\ \A l : CountIn(m, l) \in Nat
  BY CountOfLeader DEF ListsLeaders
<1>2. s \in Seq(Int) /\ Len(s) = K /\ t \in Seq(Int) /\ Len(t) = K
  BY <1>1 DEF FirstCounts
<1>3. /\ DOMAIN m.leaders = 1..Len(m.leaders) /\ Len(m.leaders) \in Nat
      /\ \A i, j \in DOMAIN m.leaders : m.leaders[i] = m.leaders[j] => i = j
      /\ m.count[k] \in Nat
  BY DEF IsMemory
<1>4. PICK p \in 1..K : m.leaders[k] = listed[p]
  BY <1>1, <1>3 DEF ListsLeaders
<1>5. \A n \in 1..K : listed[n] = m.leaders[k] <=> n = p
  BY <1>1, <1>4 DEF ListsLeaders
<1>6. \A i : i \in 1..k <=> i \in 1..(k - 1) \/ i = k
  BY <1>3
<1>7. \A i \in 1..(k - 1) : m.leaders[i] # m.leaders[k]
  BY <1>3
<1>8. CountIn(m, listed[p]) = m.count[k]
  BY <1>3, <1>4, CountOfLeader
<1>9. \A n \in 1..K : t[n] = IF n = p THEN s[n] + m.count[k] ELSE s[n]
  BY <1>1, <1>3, <1>4, <1>5, <1>6, <1>7, <1>8 DEF FirstCounts
<1> HIDE DEF s, t, K
<1>10. TotalOf(t) = TotalOf(s) + m.count[k]
  <2>1. p \in 1..Len(s) /\ m.count[k] \in Int /\ Len(t) = Len(s)
    BY <1>2, <1>3, <1>4
  <2>2. \A n \in 1..Len(s) : t[n] = IF n = p THEN s[n] + m.count[k] ELSE s[n]
    BY <1>2, <1>9
  <2> QED BY <1>2, <2>1, <2>2, TotalOneChanged
<1> QED BY <1>2, <1>10 DEF s, t

\* The counts of all leaders add up to the total in any order.
LEMMA ListedTotal ==
  ASSUME NEW m, IsMemory(m), NEW listed, ListsLeaders(listed, m)
  PROVE  TotalOf([n \in DOMAIN listed |-> CountIn(m, listed[n])]) = m.total
<1> DEFINE N == Len(m.leaders)
           all == [n \in DOMAIN listed |-> CountIn(m, listed[n])]
<1>1. /\ N \in Nat /\ DOMAIN m.leaders = 1..N /\ m.count \in Seq(Int) /\ Len(m.count) = N
      /\ m.total = TotalOf(m.count)
  BY DEF IsMemory
<1>2. PICK h : AddsUp(h, m.count)
  BY <1>1, TotalHas
<1>3. h \in [0..N -> Int] /\ h[0] = 0 /\ \A k \in 1..N : h[k] = h[k - 1] + m.count[k]
  BY <1>1, <1>2 DEF AddsUp
<1>4. m.total = h[N]
  BY <1>1, <1>2, TotalIs
<1>5. TotalOf(FirstCounts(m, listed, 0)) = 0
  BY TotalOfNothing DEF ListsLeaders, FirstCounts
<1>6. FirstCounts(m, listed, N) = all
  <2>1. \A n \in DOMAIN listed : \E i \in 1..N : m.leaders[i] = listed[n]
    BY <1>1 DEF ListsLeaders
  <2> QED BY <2>1 DEF FirstCounts
<1> HIDE DEF N, all
<1> DEFINE Bad == {k \in 0..N : TotalOf(FirstCounts(m, listed, k)) # h[k]}
<1>7. Bad = {}
  <2> SUFFICES ASSUME Bad # {} PROVE FALSE
    OBVIOUS
  <2>1. Bad \in SUBSET Nat
    BY <1>1
  <2>2. PICK k \in Bad : \A j \in Bad : k <= j
    BY <2>1, LeastElement
  <2>3. k \in 1..N /\ k - 1 \in 0..N
    BY <1>1, <1>3, <1>5
  <2>4. k - 1 \notin Bad
    BY <2>2, <2>3
  <2>5. TotalOf(FirstCounts(m, listed, k - 1)) = h[k - 1]
    BY <2>3, <2>4
  <2>6. TotalOf(FirstCounts(m, listed, k)) = TotalOf(FirstCounts(m, listed, k - 1)) + m.count[k]
    BY <2>3, FirstCountsStep DEF N
  <2> QED BY <1>3, <2>3, <2>5, <2>6
<1>8. N \in 0..N
  BY <1>1
<1>9. TotalOf(all) = m.total
  BY <1>4, <1>6, <1>7, <1>8
<1> QED BY <1>9 DEF all

\* No leader counts more than all of them.
LEMMA CountBelowTotal ==
  ASSUME NEW m, IsMemory(m), NEW l
  PROVE  CountIn(m, l) <= m.total
<1> DEFINE N == Len(m.leaders)
<1>1. /\ N \in Nat /\ DOMAIN m.leaders = 1..N /\ m.count \in Seq(Int) /\ Len(m.count) = N
      /\ m.total = TotalOf(m.count) /\ m.total \in Nat /\ \A k \in 1..N : m.count[k] \in Nat
  BY DEF IsMemory
<1>2. PICK h : AddsUp(h, m.count)
  BY <1>1, TotalHas
<1>3. h \in [0..N -> Int] /\ h[0] = 0 /\ \A k \in 1..N : h[k] = h[k - 1] + m.count[k]
  BY <1>1, <1>2 DEF AddsUp
<1>4. m.total = h[N]
  BY <1>1, <1>2, TotalIs
<1> HIDE DEF N
<1>5. CASE \A i \in 1..N : m.leaders[i] # l
  BY <1>1, <1>5, CountOfLeader
<1>6. CASE \E i \in 1..N : m.leaders[i] = l
  <2>1. PICK i \in 1..N : m.leaders[i] = l
    BY <1>6
  <2>2. CountIn(m, l) = m.count[i]
    BY <1>1, <2>1, CountOfLeader
  <2> DEFINE c == m.count[i]
             Bad == {k \in 0..N : ~(0 <= h[k] /\ (i <= k => c <= h[k]))}
  <2>3. Bad = {}
    <3> SUFFICES ASSUME Bad # {} PROVE FALSE
      OBVIOUS
    <3>1. Bad \in SUBSET Nat
      BY <1>1
    <3>2. PICK k \in Bad : \A j \in Bad : k <= j
      BY <3>1, LeastElement
    <3>3. k # 0
      BY <1>3
    <3>4. k \in 1..N /\ k - 1 \in 0..N
      BY <1>1, <3>3
    <3>5. k - 1 \notin Bad
      BY <3>2, <3>4
    <3>6. 0 <= h[k - 1] /\ (i <= k - 1 => c <= h[k - 1])
      BY <3>4, <3>5
    <3>7. h[k] = h[k - 1] + m.count[k] /\ m.count[k] \in Nat /\ h[k - 1] \in Int /\ c \in Nat
      BY <1>1, <1>3, <3>4
    <3>8. 0 <= h[k]
      BY <3>6, <3>7
    <3>9. i <= k => c <= h[k]
      BY <3>4, <3>6, <3>7
    <3> QED BY <3>4, <3>8, <3>9
  <2>4. N \in 0..N /\ i <= N
    BY <1>1
  <2>5. c <= h[N]
    BY <2>3, <2>4
  <2> QED BY <1>4, <2>2, <2>5
<1> QED BY <1>5, <1>6

\* A finite set is listed without repetition.
LEMMA SetToSeqFacts ==
  ASSUME NEW S, IsFiniteSet(S)
  PROVE  /\ Cardinality(S) \in Nat
         /\ SetToSeq(S) \in [1..Cardinality(S) -> S]
         /\ \A i, j \in 1..Cardinality(S) : SetToSeq(S)[i] = SetToSeq(S)[j] => i = j
         /\ \A x \in S : \E i \in 1..Cardinality(S) : SetToSeq(S)[i] = x
<1> DEFINE c == Cardinality(S)
           q == SetToSeq(S)
<1>1. c \in Nat /\ ExistsBijection(1..c, S)
  BY FS_CardinalityType
<1>2. PICK f \in [1..c -> S] : IsInjective(f)
  BY <1>1 DEF ExistsBijection, Bijection, Injection
<1>3. q = CHOOSE x \in [1..c -> S] : IsInjective(x)
  BY DEF SetToSeq, c
<1> HIDE DEF q, c
<1>4. q \in [1..c -> S] /\ IsInjective(q)
  BY <1>2, <1>3
<1>5. q \in Surjection(1..c, S)
  <2>1. q \in Injection(1..c, S)
    BY <1>4 DEF Injection
  <2>2. 1 \in Int /\ c \in Int /\ (IF 1 > c THEN 0 ELSE c - 1 + 1) = c
    BY <1>1
  <2>3. Cardinality(1..c) = c
    BY <2>2, FS_Interval
  <2>4. Cardinality(1..c) = Cardinality(S)
    BY <2>3 DEF c
  <2> QED BY <2>1, <2>4, FS_Injection
<1>6. \A x \in S : \E i \in 1..c : q[i] = x
  BY <1>5 DEF Surjection
<1> QED BY <1>1, <1>4, <1>6 DEF IsInjective, c, q

\* The leaders of a scored group are numbers.
LEMMA LeadersAreNumbers ==
  ASSUME NEW mem, NEW g, IsScored(g), NEW localScope, Remembers(History(mem, localScope))
  PROVE  /\ AreLeaders(LeaderOf(mem, g, localScope), Len(g))
         /\ DOMAIN LeaderOf(mem, g, localScope) = Eligible(g)
<1> DEFINE lead == LeaderOf(mem, g, localScope)
           hist == History(mem, localScope)
           W == OpenValues(hist, g)
<1>1. DOMAIN lead = Eligible(g)
  BY Zenon DEF LeaderOf
<1>2. Eligible(g) \in SUBSET (1..Len(g)) /\ \A i \in Eligible(g) : g[i].obj \in Int
  BY EligibleFacts
<1>3. W \in SUBSET Int
  <2>1. W \in SUBSET Values(g)
    BY OpenValuesFacts
  <2> QED BY <1>2, <2>1 DEF Values
<1>4. ASSUME NEW i \in Eligible(g) PROVE lead[i] \in Int
  <2>1. /\ lead[i] = LeadValue(hist, W, g[i].obj)
        /\ Matching(hist, g[i].obj) = NoObjective => Takes(W, g[i].obj, lead[i])
    BY LeaderFacts
  <2> HIDE DEF lead, W, hist
  <2>2. CASE Matching(hist, g[i].obj) = NoObjective
    BY <1>3, <2>1, <2>2 DEF Takes
  <2>3. CASE Matching(hist, g[i].obj) # NoObjective
    BY <2>1, <2>3, MatchingFacts DEF hist, LeadValue, Remembers, ToSet
  <2> QED BY <2>2, <2>3
<1> HIDE DEF lead
<1>5. AreLeaders(lead, Len(g))
  BY <1>1, <1>2, <1>4 DEF AreLeaders
<1> QED BY <1>1, <1>5 DEF lead

\* n over d, of numbers that are enough.
LEMMA FracStands ==
  ASSUME NEW n \in Int, NEW d \in Nat, d > 0
  PROVE  Stands(Frac(n, d), n, d)
BY FracValue DEF Stands

\* A fraction that stands for at most n over k.
LEMMA StandsAtMostOne ==
  ASSUME NEW k \in Nat, k > 0, NEW n \in Int, n <= k, NEW f, Stands(f, n, k)
  PROVE  AtMost(f, One)
<1> DEFINE x == f[1]
           y == f[2]
<1>1. x \in Int /\ y \in Nat /\ y > 0 /\ x * k = n * y
  BY DEF Stands, Fraction
<1> HIDE DEF x, y
<1>2. x <= y
  BY <1>1
<1>3. x * One[2] <= One[1] * y
  BY <1>1, <1>2 DEF One, Whole
<1> QED BY <1>3 DEF AtMost, x, y

\* Shares over one whole add up like their counts.
LEMMA SharesAddUp ==
  ASSUME NEW D \in Nat, D > 0, NEW counts \in Seq(Int), NEW parts \in Seq(Fraction), Len(parts) = Len(counts),
         \A n \in 1..Len(counts) : Stands(parts[n], counts[n] * AlphaDen + AlphaNum, D)
  PROVE  Stands(Sum(parts), TotalOf(counts) * AlphaDen + Len(counts) * AlphaNum, D)
<1> DEFINE K == Len(counts)
<1>1. PICK h \in [0..K -> Fraction] :
        /\ h[0] = Zero /\ \A k \in 1..K : h[k] = Plus(h[k - 1], parts[k])
        /\ Sum(parts) = h[K]
  BY SumsUp
<1>2. PICK c : AddsUp(c, counts)
  BY TotalHas
<1>3. c \in [0..K -> Int] /\ c[0] = 0 /\ \A k \in 1..K : c[k] = c[k - 1] + counts[k]
  BY <1>2 DEF AddsUp
<1>4. TotalOf(counts) = c[K]
  BY <1>2, TotalIs
<1>5. K \in Nat /\ \A k \in 1..K : counts[k] \in Int
  OBVIOUS
<1>6. \A k \in 1..K : Stands(parts[k], counts[k] * AlphaDen + AlphaNum, D)
  OBVIOUS
<1>7. AlphaDen \in Nat /\ AlphaNum \in Nat
  BY RewardAssumption
<1> HIDE DEF K
<1> DEFINE Part(k) == c[k] * AlphaDen + k * AlphaNum
           Bad == {k \in 0..K : ~Stands(h[k], Part(k), D)}
<1>8. Stands(h[0], Part(0), D)
  BY <1>1, <1>3, <1>7 DEF Zero, Whole, Fraction, Stands
<1>9. ASSUME NEW k \in 1..K, Stands(h[k - 1], Part(k - 1), D)
      PROVE  Stands(h[k], Part(k), D)
  <2>1. k - 1 \in 0..K /\ c[k - 1] \in Int /\ counts[k] \in Int /\ c[k] = c[k - 1] + counts[k] /\ k \in Int
    BY <1>3, <1>5
  <2> DEFINE m == Part(k - 1)
             p == counts[k] * AlphaDen + AlphaNum
  <2>2. m \in Int /\ p \in Int
    <3>1. AlphaDen \in Int /\ AlphaNum \in Int /\ k - 1 \in Int
      BY <1>7, <2>1
    <3>2. \A u, v \in Int : u * v \in Int /\ u + v \in Int
      OBVIOUS
    <3>3. c[k - 1] * AlphaDen \in Int /\ (k - 1) * AlphaNum \in Int /\ counts[k] * AlphaDen \in Int
      BY ONLY <2>1, <3>1, <3>2
    <3> QED BY ONLY <3>1, <3>2, <3>3 DEF m, p, Part
  <2>3. Part(k) = m + p
    <3> DEFINE x == c[k - 1]
               y == counts[k]
    <3>1. x \in Int /\ y \in Int /\ c[k] = x + y
      BY <2>1
    <3> HIDE DEF x, y
    <3>2. (x + y) * AlphaDen = x * AlphaDen + y * AlphaDen
      BY <1>7, <3>1
    <3>3. k * AlphaNum = (k - 1) * AlphaNum + AlphaNum
      BY <1>7, <2>1
    <3>4. x * AlphaDen \in Int /\ y * AlphaDen \in Int /\ (k - 1) * AlphaNum \in Int
      BY <1>7, <2>1, <3>1
    <3>5. (x * AlphaDen + y * AlphaDen) + ((k - 1) * AlphaNum + AlphaNum)
            = (x * AlphaDen + (k - 1) * AlphaNum) + (y * AlphaDen + AlphaNum)
      BY <1>7, <3>4
    <3> QED BY <3>1, <3>2, <3>3, <3>5 DEF x, y
  <2> HIDE DEF Part
  <2>4. Stands(h[k - 1], m, D) /\ Stands(parts[k], p, D)
    BY <1>6, <1>9
  <2> HIDE DEF m, p
  <2>5. Stands(Plus(h[k - 1], parts[k]), m + p, D)
    BY <2>2, <2>4, StandsSum
  <2> QED BY <1>1, <2>3, <2>5
<1> HIDE DEF Part
<1>10. Bad = {}
  <2> SUFFICES ASSUME Bad # {} PROVE FALSE
    OBVIOUS
  <2>1. Bad \in SUBSET Nat
    BY <1>5
  <2>2. PICK k \in Bad : \A j \in Bad : k <= j
    BY <2>1, LeastElement
  <2>3. k \in 1..K /\ k - 1 \in 0..K
    BY <1>5, <1>8
  <2>4. k - 1 \notin Bad
    BY <2>2, <2>3
  <2>5. Stands(h[k - 1], Part(k - 1), D)
    BY <2>3, <2>4
  <2> QED BY <1>9, <2>3, <2>5
<1>11. K \in 0..K
  BY <1>5
<1>12. Stands(h[K], Part(K), D)
  BY <1>10, <1>11
<1> QED BY <1>1, <1>4, <1>12 DEF Part, K

\* A group that can be scored with a memory.
IsScorable(mem, g, localScope) == IsScored(g) /\ IsMemory(History(mem, localScope))

WholeOf(mem, g, localScope) ==
  PreviewTotal(History(mem, localScope), LeaderOf(mem, g, localScope)) * AlphaDen
    + AlphaNum * PriorClusters(History(mem, localScope), LeaderOf(mem, g, localScope), localScope)

\* What the formulas of r1 are computed from.
LEMMA ShareFacts ==
  ASSUME NEW mem, NEW g, NEW localScope \in BOOLEAN, IsScorable(mem, g, localScope)
  PROVE  LET hist == History(mem, localScope)
             lead == LeaderOf(mem, g, localScope)
             all == LeadersOf(lead) \cup ToSet(hist.leaders)
             grown == Grown(hist, g, lead)
         IN  /\ IsMemory(grown) /\ ToSet(grown.leaders) = all
             /\ grown.total = PreviewTotal(hist, lead)
             /\ \A l : CountIn(grown, l) = PreviewCount(hist, lead, l)
             /\ IsFiniteSet(all) /\ all \in SUBSET Int /\ Cardinality(all) \in Nat
             /\ PriorClusters(hist, lead, localScope) \in Nat
             /\ Cardinality(all) <= PriorClusters(hist, lead, localScope)
<1> DEFINE hist == History(mem, localScope)
           lead == LeaderOf(mem, g, localScope)
           all == LeadersOf(lead) \cup ToSet(hist.leaders)
           grown == Grown(hist, g, lead)
<1>1. IsScored(g) /\ IsMemory(hist) /\ Remembers(hist) /\ Len(g) \in Nat /\ DOMAIN g = 1..Len(g)
  BY DEF IsScorable, IsMemory, Remembers, IsScored
<1>2. AreLeaders(lead, Len(g))
  BY <1>1, LeadersAreNumbers
<1> HIDE DEF hist, lead
<1>3. /\ IsMemory(grown) /\ ToSet(grown.leaders) = all
      /\ grown.total = PreviewTotal(hist, lead)
      /\ \A l : CountIn(grown, l) = PreviewCount(hist, lead, l)
  BY <1>1, <1>2, GrownCounts
<1> HIDE DEF grown
<1>4. IsFiniteSet(all) /\ all \in SUBSET Int
  <2> DEFINE ls == grown.leaders
             n == Len(ls)
  <2>1. ls \in Seq(Int)
    BY <1>3 DEF IsMemory
  <2>2. n \in Nat /\ DOMAIN ls = 1..n /\ ls \in [1..n -> Int]
    BY <2>1
  <2>3. all = ToSet(ls)
    BY <1>3
  <2> HIDE DEF ls, n, all
  <2>4. ls \in Surjection(1..n, all)
    BY <2>2, <2>3 DEF Surjection, ToSet
  <2>5. IsFiniteSet(1..n)
    BY <2>2, FS_Interval
  <2>6. IsFiniteSet(all)
    BY <2>4, <2>5, FS_Surjection
  <2>7. all \in SUBSET Int
    BY <2>2, <2>3 DEF ToSet
  <2> QED BY <2>6, <2>7
<1>5. Cardinality(all) \in Nat
  BY <1>4, FS_CardinalityType
<1>6. /\ PriorClusters(hist, lead, localScope) \in Nat
      /\ Cardinality(all) <= PriorClusters(hist, lead, localScope)
  BY <1>5, RewardAssumption DEF PriorClusters, AtLeast
<1> QED BY <1>3, <1>4, <1>5, <1>6 DEF grown, hist, lead

\* A share of a cluster stands for its count and its alpha, over all of them.
LEMMA ShareStands ==
  ASSUME NEW mem, NEW g, NEW localScope \in BOOLEAN, IsScorable(mem, g, localScope),
         PriorClusters(History(mem, localScope), LeaderOf(mem, g, localScope), localScope) > 0
  PROVE  LET hist == History(mem, localScope)
             lead == LeaderOf(mem, g, localScope)
             D == WholeOf(mem, g, localScope)
         IN  /\ D \in Nat /\ D > 0
             /\ \A l : Stands(ClusterShare(mem, g, localScope, l),
                              PreviewCount(hist, lead, l) * AlphaDen + AlphaNum, D)
<1> DEFINE hist == History(mem, localScope)
           lead == LeaderOf(mem, g, localScope)
           T == PreviewTotal(hist, lead)
           P == PriorClusters(hist, lead, localScope)
           D == WholeOf(mem, g, localScope)
           grown == Grown(hist, g, lead)
<1>1. /\ IsMemory(grown) /\ grown.total = T /\ P \in Nat
      /\ \A l : CountIn(grown, l) = PreviewCount(hist, lead, l)
  BY ShareFacts
<1>2. T \in Nat /\ \A l : PreviewCount(hist, lead, l) \in Nat
  <2>1. T \in Nat
    BY <1>1 DEF IsMemory
  <2> HIDE DEF T, grown, hist, lead
  <2>2. \A l : CountIn(grown, l) \in Nat
    BY <1>1, CountOfLeader
  <2> QED BY <1>1, <2>1, <2>2
<1>3. D = T * AlphaDen + AlphaNum * P
  BY DEF WholeOf
<1>4. ASSUME NEW l PROVE ClusterShare(mem, g, localScope, l) = Frac(PreviewCount(hist, lead, l) * AlphaDen + AlphaNum, D)
  BY <1>3 DEF ClusterShare
<1>5. P > 0
  OBVIOUS
<1> HIDE DEF T, P, hist, lead, D
<1>6. D \in Nat /\ D > 0
  BY <1>1, <1>2, <1>3, <1>5, RewardAssumption
<1>7. ASSUME NEW l
      PROVE  Stands(ClusterShare(mem, g, localScope, l), PreviewCount(hist, lead, l) * AlphaDen + AlphaNum, D)
  BY <1>2, <1>4, <1>6, RewardAssumption, FracStands
<1> QED BY <1>6, <1>7 DEF hist, lead, D

\* The shares of all clusters are at most one whole.
LEMMA SharesAtMostOne ==
  ASSUME NEW mem, NEW g, NEW localScope \in BOOLEAN, IsScorable(mem, g, localScope)
  PROVE  LET hist == History(mem, localScope)
             lead == LeaderOf(mem, g, localScope)
             listed == SetToSeq(LeadersOf(lead) \cup ToSet(hist.leaders))
         IN  AtMost(Sum([n \in DOMAIN listed |-> ClusterShare(mem, g, localScope, listed[n])]), One)
<1> DEFINE hist == History(mem, localScope)
           lead == LeaderOf(mem, g, localScope)
           all == LeadersOf(lead) \cup ToSet(hist.leaders)
           K == Cardinality(all)
           listed == SetToSeq(all)
           parts == [n \in DOMAIN listed |-> ClusterShare(mem, g, localScope, listed[n])]
           P == PriorClusters(hist, lead, localScope)
           grown == Grown(hist, g, lead)
           T == PreviewTotal(hist, lead)
<1>1. /\ IsMemory(grown) /\ ToSet(grown.leaders) = all /\ grown.total = T
      /\ \A l : CountIn(grown, l) = PreviewCount(hist, lead, l)
      /\ IsFiniteSet(all) /\ all \in SUBSET Int /\ K \in Nat /\ P \in Nat /\ K <= P
  BY ShareFacts
<1>2. /\ listed \in [1..K -> all]
      /\ \A i, j \in 1..K : listed[i] = listed[j] => i = j
      /\ \A x \in all : \E i \in 1..K : listed[i] = x
  BY <1>1, SetToSeqFacts
<1>3. P > 0 => /\ WholeOf(mem, g, localScope) \in Nat /\ WholeOf(mem, g, localScope) > 0
               /\ \A l : Stands(ClusterShare(mem, g, localScope, l),
                                PreviewCount(hist, lead, l) * AlphaDen + AlphaNum, WholeOf(mem, g, localScope))
  BY ShareStands
<1>4. WholeOf(mem, g, localScope) = T * AlphaDen + AlphaNum * P
  BY DEF WholeOf
<1> HIDE DEF hist, lead, all, K, P, listed, grown, T
<1>5. CASE K = 0
  <2>1. DOMAIN listed = 1..0 /\ 1..0 = {}
    BY <1>2, <1>5
  <2>2. DOMAIN parts = {}
    BY <2>1
  <2>3. parts \in Seq(Fraction) /\ Len(parts) = 0
    BY <2>2
  <2> HIDE DEF parts
  <2>4. Sum(parts) = Zero
    BY <2>3, SumsUp
  <2>5. AtMost(Zero, One)
    BY DEF AtMost, Zero, One, Whole
  <2> QED BY <2>4, <2>5 DEF parts, listed, all, hist, lead
<1>6. CASE K # 0
  <2> DEFINE D == WholeOf(mem, g, localScope)
             counts == [n \in 1..K |-> CountIn(grown, listed[n])]
             N == T * AlphaDen + K * AlphaNum
  <2>1. P > 0
    BY <1>1, <1>6
  <2>2. D \in Nat /\ D > 0 /\ \A l : Stands(ClusterShare(mem, g, localScope, l), CountIn(grown, l) * AlphaDen + AlphaNum, D)
    BY <1>1, <1>3, <2>1
  <2>3. T \in Nat /\ \A l : CountIn(grown, l) \in Nat
    BY <1>1, CountOfLeader DEF IsMemory
  <2>4. counts \in Seq(Int) /\ Len(counts) = K
    BY <1>1, <2>3
  <2>5. DOMAIN listed = 1..K /\ Len(listed) = K
    BY <1>1, <1>2
  <2>6. parts \in Seq(Fraction) /\ Len(parts) = K
    BY <1>1, <2>2, <2>5 DEF Stands
  <2>7. \A n \in 1..K : parts[n] = ClusterShare(mem, g, localScope, listed[n])
    BY <2>5
  <2>8. \A n \in 1..K : counts[n] = CountIn(grown, listed[n])
    OBVIOUS
  <2>9. ListsLeaders(listed, grown)
    <3>1. \A x : x \in all <=> \E i \in DOMAIN grown.leaders : grown.leaders[i] = x
      BY <1>1 DEF ToSet
    <3>2. \A n \in 1..K : listed[n] \in all
      BY <1>2
    <3>3. \A n \in 1..K : \E i \in DOMAIN grown.leaders : grown.leaders[i] = listed[n]
      BY <3>1, <3>2
    <3>4. \A i \in DOMAIN grown.leaders : \E n \in 1..K : grown.leaders[i] = listed[n]
      BY <1>2, <3>1
    <3> QED BY <1>1, <1>2, <2>5, <3>3, <3>4 DEF ListsLeaders
  <2>10. TotalOf(counts) = T
    BY <1>1, <2>5, <2>9, ListedTotal
  <2> HIDE DEF counts, parts, D
  <2>11. \A n \in 1..Len(counts) : Stands(parts[n], counts[n] * AlphaDen + AlphaNum, D)
    BY <2>2, <2>4, <2>7, <2>8
  <2>12. Stands(Sum(parts), N, D)
    BY <2>10, <2>11, <2>2, <2>4, <2>6, SharesAddUp
  <2>13. N \in Int /\ N <= D
    BY <1>1, <1>4, <2>3, RewardAssumption DEF D
  <2> HIDE DEF N
  <2>14. AtMost(Sum(parts), One)
    BY <2>2, <2>12, <2>13, StandsAtMostOne
  <2> QED BY <2>14 DEF parts, listed, all, hist, lead
<1> QED BY <1>5, <1>6

\* A fraction between 0 and 1.
IsShare(f) == f \in Fraction /\ 0 <= f[1] /\ f[1] <= f[2]

\* n over k is one if n is at most k.
LEMMA StandsIsShare ==
  ASSUME NEW k \in Nat, k > 0, NEW n \in Nat, n <= k, NEW f, Stands(f, n, k)
  PROVE  IsShare(f)
<1> DEFINE x == f[1]
           y == f[2]
<1>1. f \in Fraction /\ x \in Int /\ y \in Nat /\ y > 0 /\ x * k = n * y
  BY DEF Stands, Fraction
<1>2. AtMost(f, One)
  BY StandsAtMostOne
<1>3. x * One[2] <= One[1] * y
  BY <1>2 DEF AtMost
<1>4. x <= y
  BY <1>1, <1>3 DEF One, Whole
<1> HIDE DEF x, y
<1>5. 0 <= x
  BY <1>1
<1> QED BY <1>1, <1>4, <1>5 DEF IsShare, x, y

\* r1 is a share.
LEMMA R1IsShare ==
  ASSUME NEW mem, NEW g, NEW localScope \in BOOLEAN, IsScorable(mem, g, localScope), NEW i \in DOMAIN g
  PROVE  IsShare(R1(mem, g, localScope, i))
<1> DEFINE hist == History(mem, localScope)
           lead == LeaderOf(mem, g, localScope)
           all == LeadersOf(lead) \cup ToSet(hist.leaders)
           P == PriorClusters(hist, lead, localScope)
           grown == Grown(hist, g, lead)
           T == PreviewTotal(hist, lead)
           l == lead[i]
<1>1. /\ IsMemory(grown) /\ grown.total = T
      /\ \A v : CountIn(grown, v) = PreviewCount(hist, lead, v)
      /\ IsFiniteSet(all) /\ Cardinality(all) \in Nat /\ P \in Nat /\ Cardinality(all) <= P
  BY ShareFacts
<1>2. P > 0 => /\ WholeOf(mem, g, localScope) \in Nat /\ WholeOf(mem, g, localScope) > 0
               /\ \A v : Stands(ClusterShare(mem, g, localScope, v),
                                PreviewCount(hist, lead, v) * AlphaDen + AlphaNum, WholeOf(mem, g, localScope))
  BY ShareStands
<1>3. WholeOf(mem, g, localScope) = T * AlphaDen + AlphaNum * P
  BY DEF WholeOf
<1>4. DOMAIN lead = Eligible(g)
  BY LeadersAreNumbers DEF IsScorable, IsMemory, Remembers
<1>5. CASE i \notin Eligible(g)
  BY <1>5 DEF R1, Zero, Whole, IsShare, Fraction
<1>6. CASE i \in Eligible(g)
  <2>1. R1(mem, g, localScope, i) = ClusterShare(mem, g, localScope, l)
    BY <1>6 DEF R1
  <2>2. l \in all
    BY <1>4, <1>6 DEF LeadersOf
  <2> HIDE DEF hist, lead, all, P, grown, T, l
  <2>3. P >= 1
    BY <1>1, <2>2, FS_EmptySet
  <2> DEFINE D == WholeOf(mem, g, localScope)
             n == CountIn(grown, l) * AlphaDen + AlphaNum
  <2>4. D \in Nat /\ D > 0 /\ Stands(ClusterShare(mem, g, localScope, l), n, D)
    BY <1>1, <1>2, <2>3
  <2>5. CountIn(grown, l) \in Nat /\ CountIn(grown, l) <= T /\ T \in Nat
    BY <1>1, CountOfLeader, CountBelowTotal DEF IsMemory
  <2>6. n \in Nat /\ n <= D
    BY <1>1, <1>3, <2>3, <2>5, RewardAssumption
  <2> HIDE DEF D, n
  <2>7. IsShare(ClusterShare(mem, g, localScope, l))
    BY <2>4, <2>6, StandsIsShare
  <2> QED BY <2>1, <2>7
<1> QED BY <1>5, <1>6

-----------------------------------------------------------------------------
(* The total reward.                                                       *)

\* A product of fractions has the value of the product.
LEMMA TimesValue ==
  ASSUME NEW a \in Fraction, NEW b \in Fraction
  PROVE  /\ Times(a, b) \in Fraction
         /\ Times(a, b)[1] * (a[2] * b[2]) = (a[1] * b[1]) * Times(a, b)[2]
<1> DEFINE n == a[1] * b[1]
           d == a[2] * b[2]
<1>1. n \in Int /\ d \in Nat /\ d > 0
  BY DEF Fraction
<1>2. Times(a, b) = Frac(n, d)
  BY DEF Times
<1> HIDE DEF n, d
<1>3. Times(a, b) \in Fraction /\ Times(a, b)[1] * d = n * Times(a, b)[2]
  BY <1>1, <1>2, FracValue
<1> QED BY <1>3 DEF n, d

\* At most n tenths.
Tenths(f, n) == f \in Fraction /\ 0 <= f[1] /\ f[1] * 10 <= n * f[2]

\* Factors greater than zero keep an order.
LEMMA LessTimes ==
  ASSUME NEW x \in Int, NEW y \in Int, NEW z \in Nat, z > 0
  PROVE  x * z <= y * z => x <= y
<1> SUFFICES ASSUME x > y PROVE x * z > y * z
  BY SMT
<1> DEFINE t == x - y
<1>1. t \in Nat /\ t >= 1 /\ x = y + t
  OBVIOUS
<1> HIDE DEF t
<1>2. (y + t) * z = y * z + t * z /\ t * z >= 1
  BY <1>1
<1> DEFINE p == y * z
           q == t * z
<1>3. p \in Int /\ q \in Int /\ x * z = p + q /\ q >= 1
  BY <1>1, <1>2
<1> HIDE DEF q
<1>4. p + q > p
  BY <1>3
<1> QED BY <1>3, <1>4

\* w tenths of a share are at most w tenths.
LEMMA WeightedShare ==
  ASSUME NEW w \in Nat, NEW t, IsShare(t)
  PROVE  Tenths(Times(Frac(w, 10), t), w)
<1> DEFINE a == Frac(w, 10)
           p == a[1]
           q == a[2]
           r == t[1]
           s == t[2]
           f == Times(a, t)
           x == f[1]
           y == f[2]
<1>1. a \in Fraction /\ p * 10 = w * q
  BY FracValue
<1>2. t \in Fraction /\ 0 <= r /\ r <= s
  BY DEF IsShare
<1> HIDE DEF a
<1>3. f \in Fraction /\ x * (q * s) = (p * r) * y
  BY <1>1, <1>2, TimesValue
<1>4. p \in Int /\ q \in Nat /\ q > 0 /\ r \in Nat /\ s \in Nat /\ s > 0
  BY <1>1, <1>2 DEF Fraction
<1> HIDE DEF f
<1>5. x \in Int /\ y \in Nat /\ y > 0
  BY <1>3 DEF Fraction
<1> HIDE DEF p, q, r, s, x, y
<1>6. (x * 10) * (q * s) = (w * q) * (r * y)
  BY <1>1, <1>3, <1>4, <1>5
<1> DEFINE e == s - r
<1>7. e \in Nat /\ s = r + e
  BY <1>2, <1>4
<1> HIDE DEF e
<1> DEFINE z == q * s
           u == x * 10
           v == w * y
<1>8. z \in Nat /\ z > 0 /\ u \in Int /\ v \in Int
  BY <1>4, <1>5
<1>9. u * z <= v * z
  BY <1>4, <1>5, <1>6, <1>7
<1>10. 0 * z <= (x * 10) * z
  BY <1>4, <1>5, <1>6, <1>8
<1> HIDE DEF z
<1>11. u <= v
  BY <1>8, <1>9, LessTimes
<1>12. 0 <= x
  BY <1>10, <1>5, <1>8, LessTimes
<1> QED BY <1>3, <1>11, <1>12 DEF Tenths, x, y, f, a

\* Tenths add up.
LEMMA TenthsAdd ==
  ASSUME NEW m \in Nat, NEW n \in Nat, NEW f, Tenths(f, m), NEW g, Tenths(g, n)
  PROVE  Tenths(Plus(f, g), m + n)
<1> DEFINE p == f[1]
           q == f[2]
           s == g[1]
           t == g[2]
           x == Plus(f, g)[1]
           y == Plus(f, g)[2]
<1>1. f \in Fraction /\ g \in Fraction /\ 0 <= p /\ 0 <= s /\ p * 10 <= m * q /\ s * 10 <= n * t
  BY DEF Tenths
<1>2. p \in Nat /\ s \in Nat /\ q \in Nat /\ t \in Nat /\ q > 0 /\ t > 0
  BY <1>1 DEF Fraction
<1>3. Plus(f, g) \in Fraction /\ x * (q * t) = (p * t + s * q) * y
  BY <1>1, PlusValue
<1>4. x \in Int /\ y \in Nat
  BY <1>3 DEF Fraction
<1> HIDE DEF p, q, s, t, x, y
<1> DEFINE z == q * t
           a == m * q - p * 10
           b == n * t - s * 10
           u == x * 10
           v == (m + n) * y
<1>5. z \in Nat /\ z > 0 /\ a \in Nat /\ b \in Nat /\ u \in Int /\ v \in Int
  BY <1>1, <1>2, <1>4
<1>6. v * z = u * z + (a * t + b * q) * y
  BY <1>2, <1>3, <1>4, <1>5
<1>7. (a * t + b * q) * y \in Nat
  BY <1>2, <1>4, <1>5
<1>8. 0 <= x
  BY <1>2, <1>3, <1>4, <1>5, LessTimes
<1> DEFINE w == (a * t + b * q) * y
<1>9. u <= v
  BY <1>5, <1>6, <1>7, LessTimes
<1> QED BY <1>3, <1>8, <1>9 DEF Tenths, x, y

\* A product of shares is a share.
LEMMA TimesShare ==
  ASSUME NEW a, IsShare(a), NEW b, IsShare(b)
  PROVE  IsShare(Times(a, b))
<1> DEFINE p == a[1]
           q == a[2]
           r == b[1]
           s == b[2]
           n == p * r
           d == q * s
<1>1. a \in Fraction /\ b \in Fraction /\ 0 <= p /\ p <= q /\ 0 <= r /\ r <= s
  BY DEF IsShare
<1>2. p \in Nat /\ q \in Nat /\ q > 0 /\ r \in Nat /\ s \in Nat /\ s > 0
  BY <1>1 DEF Fraction
<1>3. Times(a, b) = Frac(n, d)
  BY DEF Times
<1> HIDE DEF p, q, r, s
<1>4. n \in Nat /\ d \in Nat /\ d > 0
  BY <1>2
<1>5. n <= d
  BY <1>1, <1>2, <1>4
<1> HIDE DEF n, d
<1>6. Stands(Frac(n, d), n, d)
  BY <1>4, FracStands
<1>7. IsShare(Frac(n, d))
  BY <1>4, <1>5, <1>6, StandsIsShare
<1> QED BY <1>3, <1>7

\* How cases can end, and the settings of the reward.
CaseEnds == {"passed", "offScale", "failed"}
AreRewardSettings(settings) ==
  /\ settings.r3On \in BOOLEAN /\ settings.r4On \in BOOLEAN
  /\ settings.multiplier \in Nat /\ settings.multiplier <= 10

CaseSum(cases, settings) == FoldLeft(LAMBDA s, c : s + CaseScore(c, settings), 0, cases)

\* The scores of the cases add up one after the other.
LEMMA CaseSumIsTotal ==
  ASSUME NEW cases \in Seq(CaseEnds), NEW settings
  PROVE  CaseSum(cases, settings) = TotalOf([n \in DOMAIN cases |-> CaseScore(cases[n], settings)])
<1> DEFINE scores == [n \in DOMAIN cases |-> CaseScore(cases[n], settings)]
           n == Len(cases)
           Solves(it) ==
             it = [s \in SUBSET (1..n) |-> IF s = {} THEN 0 ELSE it[s \ {Max(s)}] + CaseScore(cases[Max(s)], settings)]
           Adds(it) ==
             it = [s \in SUBSET (1..n) |-> IF s = {} THEN 0 ELSE it[s \ {Max(s)}] + scores[Max(s)]]
<1>1. n \in Nat /\ DOMAIN cases = 1..n /\ DOMAIN scores = 1..n
  OBVIOUS
<1>2. \A s \in SUBSET (1..n) : s # {} => scores[Max(s)] = CaseScore(cases[Max(s)], settings)
  BY <1>1, MaxOfFirst
<1> HIDE DEF n, scores
<1>3. CaseSum(cases, settings) = (CHOOSE it : Solves(it))[1..n]
  BY <1>1, Zenon DEF CaseSum, FoldLeft, MapThenFoldSet
<1>4. TotalOf(scores) = (CHOOSE it : Adds(it))[1..n]
  BY <1>1, Zenon DEF TotalOf, FoldLeft, MapThenFoldSet
<1>5. ASSUME NEW it PROVE Solves(it) <=> Adds(it)
  <2> DEFINE A == [s \in SUBSET (1..n) |-> IF s = {} THEN 0 ELSE it[s \ {Max(s)}] + CaseScore(cases[Max(s)], settings)]
             B == [s \in SUBSET (1..n) |-> IF s = {} THEN 0 ELSE it[s \ {Max(s)}] + scores[Max(s)]]
  <2>1. A = B
    BY <1>2
  <2> HIDE DEF A, B
  <2>2. (it = A) <=> (it = B)
    BY <2>1
  <2> QED BY <2>2, Zenon DEF A, B
<1>6. (CHOOSE it : Solves(it)) = (CHOOSE it : Adds(it))
  BY <1>5
<1> HIDE DEF Solves, Adds
<1>7. CaseSum(cases, settings) = TotalOf(scores)
  BY <1>3, <1>4, <1>6
<1> QED BY <1>7 DEF scores

\* Scores of at most ten add up to at most ten for each.
LEMMA TotalOfTens ==
  ASSUME NEW scores \in Seq(Int), \A n \in 1..Len(scores) : 0 <= scores[n] /\ scores[n] <= 10
  PROVE  TotalOf(scores) \in Nat /\ TotalOf(scores) <= 10 * Len(scores)
<1> DEFINE N == Len(scores)
<1>1. PICK h : AddsUp(h, scores)
  BY TotalHas
<1>2. h \in [0..N -> Int] /\ h[0] = 0 /\ \A k \in 1..N : h[k] = h[k - 1] + scores[k]
  BY <1>1 DEF AddsUp
<1>3. TotalOf(scores) = h[N]
  BY <1>1, TotalIs
<1>4. N \in Nat /\ \A k \in 1..N : scores[k] \in Int /\ 0 <= scores[k] /\ scores[k] <= 10
  OBVIOUS
<1> HIDE DEF N
<1> DEFINE Bad == {k \in 0..N : ~(0 <= h[k] /\ h[k] <= 10 * k)}
<1>5. Bad = {}
  <2> SUFFICES ASSUME Bad # {} PROVE FALSE
    OBVIOUS
  <2>1. Bad \in SUBSET Nat
    BY <1>4
  <2>2. PICK k \in Bad : \A j \in Bad : k <= j
    BY <2>1, LeastElement
  <2>3. k # 0
    BY <1>2
  <2>4. k \in 1..N /\ k - 1 \in 0..N
    BY <1>4, <2>3
  <2>5. k - 1 \notin Bad
    BY <2>2, <2>4
  <2>6. 0 <= h[k - 1] /\ h[k - 1] <= 10 * (k - 1)
    BY <2>4, <2>5
  <2>7. h[k - 1] \in Int /\ h[k] = h[k - 1] + scores[k] /\ scores[k] \in Int /\ 0 <= scores[k] /\ scores[k] <= 10 /\ k \in Int
    BY <1>2, <1>4, <2>4
  <2>8. 0 <= h[k] /\ h[k] <= 10 * k
    BY <2>6, <2>7
  <2> QED BY <2>4, <2>8
<1>6. N \in 0..N
  BY <1>4
<1>7. h[N] \in Int /\ 0 <= h[N] /\ h[N] <= 10 * N
  BY <1>2, <1>5, <1>6
<1> QED BY <1>3, <1>7 DEF N

\* Nothing and everything are shares.
LEMMA EndsAreShares == IsShare(Zero) /\ IsShare(One)
BY DEF IsShare, Zero, One, Whole, Fraction

\* r3 is a share, of whatever cases.
LEMMA R3IsShare ==
  ASSUME NEW settings, AreRewardSettings(settings), NEW r, r.cases \in Seq(CaseEnds)
  PROVE  IsShare(R3(r, settings))
<1> DEFINE cases == r.cases
           scores == [n \in DOMAIN cases |-> CaseScore(cases[n], settings)]
           total == CaseSum(cases, settings)
           N == Len(cases)
<1>1. CASE ~settings.planned
  BY <1>1, EndsAreShares DEF R3
<1>2. CASE settings.planned /\ cases = << >>
  BY <1>2, EndsAreShares DEF R3
<1>3. CASE settings.planned /\ cases # << >>
  <2>1. R3(r, settings) = Frac(total, 10 * N)
    BY <1>3, Zenon DEF R3, CaseSum
  <2>2. cases \in Seq(CaseEnds) /\ N \in Nat /\ N > 0 /\ DOMAIN cases = 1..N /\ \A n \in 1..N : cases[n] \in CaseEnds
    BY <1>3
  <2>3. \A c \in CaseEnds : CaseScore(c, settings) \in Int /\ 0 <= CaseScore(c, settings) /\ CaseScore(c, settings) <= 10
    BY DEF CaseEnds, CaseScore, AreRewardSettings
  <2> HIDE DEF cases, N
  <2>4. scores \in Seq(Int) /\ Len(scores) = N /\ \A n \in 1..N : 0 <= scores[n] /\ scores[n] <= 10
    BY <2>2, <2>3
  <2>5. total = TotalOf(scores)
    BY <2>2, CaseSumIsTotal
  <2> HIDE DEF scores, total
  <2>6. total \in Nat /\ total <= 10 * N
    BY <2>4, <2>5, TotalOfTens
  <2> DEFINE d == 10 * N
  <2>7. d \in Nat /\ d > 0 /\ total <= d
    BY <2>2, <2>6
  <2> HIDE DEF d
  <2>8. Stands(Frac(total, d), total, d)
    BY <2>6, <2>7, FracStands
  <2>9. IsShare(Frac(total, d))
    BY <2>6, <2>7, <2>8, StandsIsShare
  <2> QED BY <2>1, <2>9 DEF d
<1> QED BY <1>1, <1>2, <1>3

\* Four weights of ten tenths in all, as those the code defaults to.
AreWeights(w) ==
  /\ w[1] \in Nat /\ w[2] \in Nat /\ w[3] \in Nat /\ w[4] \in Nat
  /\ w[1] + w[2] + w[3] + w[4] = 10

WeightsAreShares == \A part \in {"early", "middle", "late"} : AreWeights(WeightsOf[part])

\* Switching terms off keeps the sum of the weights.
LEMMA EffectiveSum ==
  ASSUME WeightsAreShares, NEW settings, AreRewardSettings(settings)
  PROVE  AreWeights(EffectiveWeights(WeightsOf[PhaseOf(settings)], settings))
<1> DEFINE w == WeightsOf[PhaseOf(settings)]
           e == EffectiveWeights(w, settings)
<1>1. PhaseOf(settings) \in {"early", "middle", "late"}
  BY DEF PhaseOf
<1>2. AreWeights(w)
  BY <1>1 DEF WeightsAreShares
<1> HIDE DEF w
<1>3. /\ e[1] = w[1] + (IF settings.r4On THEN 0 ELSE w[4])
      /\ e[2] = w[2] + (IF settings.r3On THEN 0 ELSE w[3])
      /\ e[3] = (IF settings.r3On THEN w[3] ELSE 0)
      /\ e[4] = (IF settings.r4On THEN w[4] ELSE 0)
  BY DEF EffectiveWeights
<1> HIDE DEF e
<1>4. AreWeights(e)
  BY <1>2, <1>3 DEF AreWeights, AreRewardSettings
<1> QED BY <1>4 DEF e, w

\* A sum of four.
LEMMA SumOfFour ==
  ASSUME NEW a \in Fraction, NEW b \in Fraction, NEW c \in Fraction, NEW d \in Fraction
  PROVE  Sum(<<a, b, c, d>>) = Plus(Plus(Plus(Plus(Zero, a), b), c), d)
<1> DEFINE q == <<a, b, c, d>>
<1>1. q \in Seq(Fraction) /\ Len(q) = 4 /\ q[1] = a /\ q[2] = b /\ q[3] = c /\ q[4] = d
  OBVIOUS
<1> HIDE DEF q
<1>2. PICK h \in [0..4 -> Fraction] :
        /\ h[0] = Zero /\ \A k \in 1..4 : h[k] = Plus(h[k - 1], q[k])
        /\ Sum(q) = h[4]
  BY <1>1, SumsUp
<1>3. h[1] = Plus(h[0], a)
  BY <1>1, <1>2
<1>4. h[2] = Plus(h[1], b)
  BY <1>1, <1>2
<1>5. h[3] = Plus(h[2], c)
  BY <1>1, <1>2
<1>6. h[4] = Plus(h[3], d)
  BY <1>1, <1>2
<1>7. Sum(q) = Plus(Plus(Plus(Plus(Zero, a), b), c), d)
  BY <1>2, <1>3, <1>4, <1>5, <1>6
<1> QED BY <1>7 DEF q

\* The weighted sum of four shares is a share.
LEMMA WeightedSumIsShare ==
  ASSUME NEW w, AreWeights(w), NEW a, IsShare(a), NEW b, IsShare(b), NEW c, IsShare(c), NEW d, IsShare(d)
  PROVE  LET total == Sum(<<Times(Frac(w[1], 10), a), Times(Frac(w[2], 10), b),
                            Times(Frac(w[3], 10), c), Times(Frac(w[4], 10), d)>>)
         IN  AtMost(Zero, total) /\ AtMost(total, One)
<1> DEFINE i == Times(Frac(w[1], 10), a)
           j == Times(Frac(w[2], 10), b)
           k == Times(Frac(w[3], 10), c)
           l == Times(Frac(w[4], 10), d)
           total == Sum(<<i, j, k, l>>)
<1>1. /\ w[1] \in Nat /\ w[2] \in Nat /\ w[3] \in Nat /\ w[4] \in Nat
      /\ w[1] + w[2] + w[3] + w[4] = 10
  BY DEF AreWeights
<1>2. Tenths(i, w[1]) /\ Tenths(j, w[2]) /\ Tenths(k, w[3]) /\ Tenths(l, w[4])
  BY <1>1, WeightedShare
<1> HIDE DEF i, j, k, l
<1>3. i \in Fraction /\ j \in Fraction /\ k \in Fraction /\ l \in Fraction
  BY <1>2 DEF Tenths
<1>4. total = Plus(Plus(Plus(Plus(Zero, i), j), k), l)
  BY <1>3, SumOfFour
<1> DEFINE t1 == Plus(Zero, i)
           t2 == Plus(t1, j)
           t3 == Plus(t2, k)
           t4 == Plus(t3, l)
           n0 == 0
           n1 == n0 + w[1]
           n2 == n1 + w[2]
           n3 == n2 + w[3]
           n4 == n3 + w[4]
<1>5. Tenths(Zero, n0) /\ n0 \in Nat
  BY DEF Zero, Whole, Fraction, Tenths
<1>6. n1 \in Nat /\ n2 \in Nat /\ n3 \in Nat /\ n4 = 10
  BY <1>1
<1> HIDE DEF n0
<1>7. Tenths(t1, n1)
  BY <1>1, <1>2, <1>5, TenthsAdd
<1> HIDE DEF t1, n1
<1>8. Tenths(t2, n2)
  BY <1>1, <1>2, <1>6, <1>7, TenthsAdd
<1> HIDE DEF t2, n2
<1>9. Tenths(t3, n3)
  BY <1>1, <1>2, <1>6, <1>8, TenthsAdd
<1> HIDE DEF t3, n3
<1>10. Tenths(t4, n4)
  BY <1>1, <1>2, <1>6, <1>9, TenthsAdd
<1>11. total = t4
  BY <1>4 DEF t1, t2, t3
<1> HIDE DEF t4, n4, total
<1>12. total \in Fraction /\ 0 <= total[1] /\ total[1] * 10 <= 10 * total[2]
  BY <1>6, <1>10, <1>11 DEF Tenths
<1>13. total[1] \in Int /\ total[2] \in Nat
  BY <1>12 DEF Fraction
<1>14. AtMost(Zero, total)
  BY <1>12, <1>13 DEF AtMost, Zero, Whole
<1>15. AtMost(total, One)
  BY <1>12, <1>13 DEF AtMost, One, Whole
<1> QED BY <1>14, <1>15 DEF total, i, j, k, l

\* What a rollout can have besides its objective.
IsRollout(r) == IsShare(r.r4) /\ r.cases \in Seq(CaseEnds)

\* The terms of combine_rewards are shares.
LEMMA TermsAreShares ==
  ASSUME NEW settings, AreRewardSettings(settings), NEW r, IsRollout(r)
  PROVE  /\ IsShare(ScaleFactor(r, settings)) /\ IsShare(R2(r))
         /\ IsShare(IF settings.r3On THEN R3(r, settings) ELSE Zero)
         /\ IsShare(IF settings.r4On THEN r.r4 ELSE Zero)
<1>1. IsShare(Frac(settings.multiplier, 10))
  BY FracStands, StandsIsShare DEF AreRewardSettings
<1>2. IsShare(ScaleFactor(r, settings))
  BY <1>1, EndsAreShares DEF ScaleFactor
<1>3. IsShare(R2(r))
  BY EndsAreShares DEF R2
<1>4. r.cases \in Seq(CaseEnds) /\ IsShare(r.r4)
  BY DEF IsRollout
<1>5. IsShare(R3(r, settings))
  BY <1>4, R3IsShare
<1> QED BY <1>2, <1>3, <1>4, <1>5, EndsAreShares

\* A total reward is between 0 and 1.
LEMMA TotalIsShare ==
  ASSUME WeightsAreShares, NEW settings, AreRewardSettings(settings), NEW r, IsRollout(r), NEW r1, IsShare(r1)
  PROVE  AtMost(Zero, Total(r1, r, settings)) /\ AtMost(Total(r1, r, settings), One)
<1> DEFINE w == EffectiveWeights(WeightsOf[PhaseOf(settings)], settings)
           a == Times(ScaleFactor(r, settings), r1)
           c == IF settings.r3On THEN R3(r, settings) ELSE Zero
           d == IF settings.r4On THEN r.r4 ELSE Zero
           total == Sum(<<Times(Frac(w[1], 10), a), Times(Frac(w[2], 10), R2(r)),
                          Times(Frac(w[3], 10), c), Times(Frac(w[4], 10), d)>>)
<1>1. AreWeights(w)
  BY EffectiveSum
<1>2. IsShare(a)
  BY TermsAreShares, TimesShare
<1>3. IsShare(R2(r)) /\ IsShare(c) /\ IsShare(d)
  BY TermsAreShares
<1>4. Total(r1, r, settings) = total
  BY Zenon DEF Total
<1> HIDE DEF w, a, c, d
<1>5. AtMost(Zero, total) /\ AtMost(total, One)
  BY <1>1, <1>2, <1>3, WeightedSumIsShare
<1> QED BY <1>4, <1>5

\* w tenths of one are w tenths.
LEMMA WeightOfOne ==
  ASSUME NEW w \in Nat
  PROVE  Stands(Times(Frac(w, 10), One), w, 10)
<1> DEFINE a == Frac(w, 10)
           p == a[1]
           q == a[2]
           f == Times(a, One)
           x == f[1]
           y == f[2]
<1>1. a \in Fraction /\ p * 10 = w * q
  BY FracValue
<1>2. One \in Fraction /\ One[1] = 1 /\ One[2] = 1
  BY DEF One, Whole, Fraction
<1> HIDE DEF a
<1>3. f \in Fraction /\ x * (q * One[2]) = (p * One[1]) * y
  BY <1>1, <1>2, TimesValue
<1>4. p \in Int /\ q \in Nat /\ q > 0
  BY <1>1 DEF Fraction
<1> HIDE DEF f
<1>5. x \in Int /\ y \in Nat /\ y > 0
  BY <1>3 DEF Fraction
<1> HIDE DEF p, q, x, y
<1>6. x * q = p * y
  BY <1>2, <1>3, <1>4
<1> DEFINE u == x * 10
           v == w * y
<1>7. u \in Int /\ v \in Int
  BY <1>5
<1>8. u * q = v * q
  BY <1>1, <1>4, <1>5, <1>6
<1> HIDE DEF u, v
<1>9. u = v
  BY <1>4, <1>7, <1>8, Cancel
<1> QED BY <1>3, <1>9 DEF Stands, u, v, x, y, f, a

\* Without a weight a term is nothing.
LEMMA NoWeight == Stands(Times(Frac(0, 10), Zero), 0, 10)
<1>1. Frac(0, 10) = Zero
  BY FracOfZero
<1>2. Times(Zero, Zero) = Zero
  BY FracOfZero DEF Times, Zero, Whole
<1>3. Zero \in Fraction /\ Zero[1] = 0 /\ Zero[2] = 1
  BY DEF Zero, Whole, Fraction
<1>4. Stands(Zero, 0, 10)
  BY <1>3 DEF Stands
<1> QED BY <1>1, <1>2, <1>4

\* A fraction of equal parts is one.
LEMMA FracOfAll ==
  ASSUME NEW d \in Nat, d > 0
  PROVE  Frac(d, d) = One
<1> DEFINE k == 1
<1>1. k \in Nat /\ k > 0 /\ k * d = d
  OBVIOUS
<1> HIDE DEF k
<1>2. Frac(d, k * d) = <<1, k>>
  BY <1>1, FracOfPart
<1> QED BY <1>1, <1>2 DEF One, Whole, k

\* A sum that stands for everything is one.
LEMMA EverythingIsOne ==
  ASSUME NEW k \in Nat, k > 0, NEW f, NEW g, f \in Fraction, g \in Fraction, Stands(Plus(f, g), k, k)
  PROVE  Plus(f, g) = One
<1> DEFINE n == f[1] * g[2] + g[1] * f[2]
           d == f[2] * g[2]
           x == Frac(n, d)[1]
           y == Frac(n, d)[2]
<1>1. n \in Int /\ d \in Nat /\ d > 0 /\ Plus(f, g) = Frac(n, d)
  BY DEF Fraction, Plus
<1> HIDE DEF n, d
<1>2. Frac(n, d) \in Fraction /\ x * d = n * y
  BY <1>1, FracValue
<1>3. x \in Int /\ y \in Nat /\ y > 0
  BY <1>2 DEF Fraction
<1>4. x * k = k * y
  BY <1>1 DEF Stands
<1> HIDE DEF x, y
<1>5. x = y
  BY <1>3, <1>4, Cancel
<1>6. d * y = n * y
  BY <1>1, <1>2, <1>3, <1>5
<1>7. d = n
  BY <1>1, <1>3, <1>6, Cancel
<1> QED BY <1>1, <1>7, FracOfAll

\* A rollout that everything is right about.
Perfect == [code |-> TRUE, run |-> "ok", obj |-> 0, inScale |-> TRUE, r4 |-> One, cases |-> <<"passed">>]

\* Its r3 is one.
LEMMA PerfectR3 ==
  ASSUME NEW settings
  PROVE  R3(Perfect, settings) = One
<1> DEFINE cases == <<"passed">>
<1>1. Perfect.cases = cases
  BY DEF Perfect
<1>2. CASE ~settings.planned
  BY <1>2 DEF R3
<1>3. CASE settings.planned
  <2>1. cases \in Seq(CaseEnds) /\ Len(cases) = 1 /\ DOMAIN cases = 1..1 /\ cases[1] = "passed" /\ cases # << >>
    BY DEF CaseEnds
  <2> HIDE DEF cases
  <2>2. R3(Perfect, settings) = Frac(CaseSum(cases, settings), 10 * Len(cases))
    BY <1>1, <1>3, <2>1, Zenon DEF R3, CaseSum
  <2> DEFINE scores == [n \in DOMAIN cases |-> CaseScore(cases[n], settings)]
  <2>3. CaseSum(cases, settings) = TotalOf(scores)
    BY <2>1, CaseSumIsTotal
  <2>4. scores = Append(<< >>, 10)
    BY <2>1 DEF CaseScore
  <2> HIDE DEF scores
  <2>5. TotalOf(scores) = TotalOf(<< >>) + 10
    <3>1. << >> \in Seq(Int) /\ 10 \in Int
      OBVIOUS
    <3> QED BY <2>4, <3>1, TotalOneMore
  <2>6. TotalOf(<< >>) = 0
    <3>1. << >> \in Seq(Int) /\ Len(<< >>) = 0
      OBVIOUS
    <3> QED BY <3>1, TotalsUp
  <2>7. R3(Perfect, settings) = Frac(10, 10)
    BY <2>1, <2>2, <2>3, <2>5, <2>6
  <2>8. 10 \in Nat /\ 10 > 0
    OBVIOUS
  <2> QED BY <2>7, <2>8, FracOfAll
<1> QED BY <1>2, <1>3

\* Where every enabled term is one, the total is, whatever is switched off.
LEMMA PerfectTotal ==
  ASSUME WeightsAreShares, NEW settings, AreRewardSettings(settings)
  PROVE  Total(One, Perfect, settings) = One
<1> DEFINE w == EffectiveWeights(WeightsOf[PhaseOf(settings)], settings)
           a == Times(ScaleFactor(Perfect, settings), One)
           b == R2(Perfect)
           c == IF settings.r3On THEN R3(Perfect, settings) ELSE Zero
           d == IF settings.r4On THEN Perfect.r4 ELSE Zero
           i == Times(Frac(w[1], 10), a)
           j == Times(Frac(w[2], 10), b)
           k == Times(Frac(w[3], 10), c)
           l == Times(Frac(w[4], 10), d)
<1>1. AreWeights(w) /\ (~settings.r3On => w[3] = 0) /\ (~settings.r4On => w[4] = 0)
  BY EffectiveSum DEF EffectiveWeights
<1>2. a = One
  BY FracOfAll DEF ScaleFactor, Perfect, Times, One, Whole
<1>3. b = One
  BY DEF R2, R2Success, Perfect
<1>4. c = IF settings.r3On THEN One ELSE Zero
  BY PerfectR3
<1>5. d = IF settings.r4On THEN One ELSE Zero
  BY DEF Perfect
<1>6. Total(One, Perfect, settings) = Sum(<<i, j, k, l>>)
  BY Zenon DEF Total
<1> HIDE DEF w, a, b, c, d
<1>7. /\ w[1] \in Nat /\ w[2] \in Nat /\ w[3] \in Nat /\ w[4] \in Nat
      /\ w[1] + w[2] + w[3] + w[4] = 10
  BY <1>1 DEF AreWeights
<1>8. Stands(i, w[1], 10) /\ Stands(j, w[2], 10)
  BY <1>2, <1>3, <1>7, WeightOfOne
<1>9. Stands(k, w[3], 10)
  BY <1>1, <1>4, <1>7, WeightOfOne, NoWeight
<1>10. Stands(l, w[4], 10)
  BY <1>1, <1>5, <1>7, WeightOfOne, NoWeight
<1> HIDE DEF i, j, k, l
<1>11. i \in Fraction /\ j \in Fraction /\ k \in Fraction /\ l \in Fraction
  BY <1>8, <1>9, <1>10 DEF Stands
<1> DEFINE t1 == Plus(Zero, i)
           t2 == Plus(t1, j)
           t3 == Plus(t2, k)
           t4 == Plus(t3, l)
           ten == 10
           n0 == 0
           n1 == n0 + w[1]
           n2 == n1 + w[2]
           n3 == n2 + w[3]
           n4 == n3 + w[4]
<1>12. Sum(<<i, j, k, l>>) = t4
  BY <1>11, SumOfFour
<1>13. ten \in Nat /\ ten > 0 /\ n0 \in Int /\ Stands(Zero, n0, ten)
  BY DEF Zero, Whole, Fraction, Stands
<1>14. n1 \in Int /\ n2 \in Int /\ n3 \in Int /\ n4 = ten
  BY <1>7
<1>15. Stands(i, w[1], ten) /\ Stands(j, w[2], ten) /\ Stands(k, w[3], ten) /\ Stands(l, w[4], ten)
  BY <1>8, <1>9, <1>10
<1>16. w[1] \in Int /\ w[2] \in Int /\ w[3] \in Int /\ w[4] \in Int
  BY <1>7
<1> HIDE DEF n0, ten
<1>17. Stands(t1, n1, ten)
  BY <1>13, <1>15, <1>16, StandsSum
<1> HIDE DEF t1, n1
<1>18. Stands(t2, n2, ten)
  BY <1>13, <1>14, <1>15, <1>16, <1>17, StandsSum
<1> HIDE DEF t2, n2
<1>19. Stands(t3, n3, ten)
  BY <1>13, <1>14, <1>15, <1>16, <1>18, StandsSum
<1> HIDE DEF t3, n3
<1>20. Stands(t4, n4, ten)
  BY <1>13, <1>14, <1>15, <1>16, <1>19, StandsSum
<1>21. t3 \in Fraction
  BY <1>19 DEF Stands
<1>22. t4 = One
  BY <1>11, <1>13, <1>14, <1>20, <1>21, EverythingIsOne
<1> QED BY <1>6, <1>12, <1>22

\* The shares of the clusters, what is committed and the total rewards agree,
\* for every group, memory and setting whose weights are shares.
THEOREM TotalsAlwaysShares ==
  ASSUME WeightsAreShares, NEW mem, NEW g, NEW localScope \in BOOLEAN, IsScorable(mem, g, localScope),
         \A i \in DOMAIN g : IsRollout(g[i]), NEW settings, AreRewardSettings(settings)
  PROVE  GroupTotalsAreShares(mem, g, localScope, settings)
<1> DEFINE lead == LeaderOf(mem, g, localScope)
           hist == History(mem, localScope)
           after == AfterGroup(mem, g, localScope)
           leaders == LeadersOf(lead) \cup ToSet(hist.leaders)
           listed == SetToSeq(leaders)
           total(i) == Total(R1(mem, g, localScope, i), g[i], settings)
           A == AtMost(Sum([n \in DOMAIN listed |-> ClusterShare(mem, g, localScope, listed[n])]), One)
           B == ~localScope => /\ \A l \in leaders : CountIn(after, l) = PreviewCount(hist, lead, l)
                               /\ after.total = PreviewTotal(hist, lead)
                               /\ after.total = FoldLeft(+, 0, after.count)
           C == \A i \in DOMAIN g : AtMost(Zero, total(i)) /\ AtMost(total(i), One)
           E == Total(One, Perfect, settings) = One
<1>1. A
  BY SharesAtMostOne
<1>2. B
  <2> SUFFICES ASSUME ~localScope
               PROVE  /\ \A l \in leaders : CountIn(after, l) = PreviewCount(hist, lead, l)
                      /\ after.total = PreviewTotal(hist, lead)
                      /\ after.total = FoldLeft(+, 0, after.count)
    OBVIOUS
  <2> DEFINE grown == Grown(hist, g, lead)
  <2>1. hist = mem
    BY DEF History
  <2>2. /\ IsMemory(grown) /\ grown.total = PreviewTotal(hist, lead)
        /\ \A l : CountIn(grown, l) = PreviewCount(hist, lead, l)
    BY ShareFacts
  <2>3. after = grown
    <3>1. after = Grown(mem, g, lead)
      BY Zenon DEF AfterGroup, Grown
    <3> HIDE DEF after, lead, hist
    <3> QED BY <2>1, <3>1
  <2> HIDE DEF grown, after, lead, hist
  <2>4. after.total = TotalOf(after.count)
    BY <2>2, <2>3 DEF IsMemory
  <2>5. after.total = FoldLeft(+, 0, after.count)
    BY <2>4, Zenon DEF TotalOf
  <2> QED BY <2>2, <2>3, <2>5
<1>3. C
  <2> SUFFICES ASSUME NEW i \in DOMAIN g PROVE AtMost(Zero, total(i)) /\ AtMost(total(i), One)
    BY Zenon
  <2>1. IsRollout(g[i]) /\ IsShare(R1(mem, g, localScope, i))
    BY R1IsShare
  <2> QED BY <2>1, TotalIsShare
<1>4. E
  BY PerfectTotal
<1> HIDE DEF A, B, C, E
<1>5. A /\ B /\ C /\ E
  BY <1>1, <1>2, <1>3, <1>4
<1> QED BY <1>5, Zenon DEF GroupTotalsAreShares, A, B, C, E, Perfect

\* The empty memory is one.
LEMMA EmptyIsMemory == IsMemory(EmptyMemory)
<1>1. << >> \in Seq(Int) /\ << >> \in Seq(Nat) /\ Len(<< >>) = 0 /\ DOMAIN << >> = {}
  OBVIOUS
<1>2. TotalOf(<< >>) = 0
  <2>1. << >> \in Seq(Int) /\ Len(<< >>) = 0
    OBVIOUS
  <2> QED BY <2>1, TotalsUp
<1>3. EmptyMemory.leaders = << >> /\ EmptyMemory.count = << >> /\ EmptyMemory.total = 0
  BY DEF EmptyMemory
<1>4. EmptyMemory = [leaders |-> EmptyMemory.leaders, count |-> EmptyMemory.count, total |-> EmptyMemory.total]
  BY <1>3 DEF EmptyMemory
<1> QED BY <1>1, <1>2, <1>3, <1>4 DEF IsMemory

\* A memory is one after each group.
LEMMA AfterIsMemory ==
  ASSUME NEW mem, IsMemory(mem), NEW g, IsScored(g)
  PROVE  IsMemory(AfterGroup(mem, g, FALSE))
<1> DEFINE lead == LeaderOf(mem, g, FALSE)
<1>1. History(mem, FALSE) = mem
  BY DEF History
<1>2. Remembers(History(mem, FALSE)) /\ Len(g) \in Nat /\ DOMAIN g = 1..Len(g)
  BY <1>1 DEF IsMemory, Remembers, IsScored
<1>3. AreLeaders(lead, Len(g))
  BY <1>2, LeadersAreNumbers
<1>4. AfterGroup(mem, g, FALSE) = Grown(mem, g, lead)
  BY Zenon DEF AfterGroup, Grown
<1> HIDE DEF lead
<1>5. IsMemory(Grown(mem, g, lead))
  BY <1>2, <1>3, GrownCounts
<1> QED BY <1>4, <1>5

-----------------------------------------------------------------------------
(* Fractions in lowest terms, and sums of them.                            *)

\* What a quotient and a remainder are.
LEMMA DivMod ==
  ASSUME NEW q \in Int, NEW d \in Nat, d > 0, NEW r \in Int, 0 <= r, r < d
  PROVE  /\ (q * d + r) \div d = q /\ ((q * d + r) % d) = r
<1> DEFINE n == q * d + r
           c == n \div d
           e == n % d
<1>1. n \in Int
  OBVIOUS
<1>2. c \in Int /\ e \in Int /\ 0 <= e /\ e < d /\ n = c * d + e
  BY <1>1, DivisionFacts
<1> HIDE DEF c, e
<1> DEFINE t == q - c
<1>3. t \in Int /\ t * d = e - r
  BY <1>2
<1>4. q = c + t
  BY <1>2
<1> HIDE DEF t
<1>5. CASE t >= 1
  BY <1>2, <1>3, <1>5
<1>6. CASE t <= -1
  BY <1>2, <1>3, <1>6
<1>7. CASE t = 0
  BY <1>2, <1>3, <1>4, <1>7 DEF c, e
<1> QED BY <1>3, <1>5, <1>6, <1>7

\* Sequences with the same length and elements are the same.
LEMMA SameSequence ==
  ASSUME NEW S, NEW s \in Seq(S), NEW n \in Nat, Len(s) = n, NEW t, DOMAIN t = 1..n, t = [i \in 1..n |-> t[i]],
         \A i \in 1..n : s[i] = t[i]
  PROVE  s = t
<1>1. s = [i \in 1..n |-> s[i]]
  OBVIOUS
<1> QED BY <1>1

\* A factor of both numbers is a factor of the greatest common divisor.
LEMMA GcdScaled ==
  ASSUME NEW a \in Nat, NEW b \in Nat, NEW k \in Nat, k > 0
  PROVE  Gcd[<<k * a, k * b>>] = k * Gcd[<<a, b>>]
<1> DEFINE Good(x, y) == Gcd[<<k * x, k * y>>] = k * Gcd[<<x, y>>]
           Bad == {y \in Nat : \E x \in Nat : ~Good(x, y)}
<1> SUFFICES ASSUME Bad # {} PROVE FALSE
  BY Zenon
<1>1. Bad \in SUBSET Nat
  OBVIOUS
<1>2. PICK y \in Bad : \A z \in Bad : y <= z
  BY <1>1, LeastElement
<1>3. PICK x \in Nat : ~Good(x, y)
  BY Zenon, <1>2
<1>4. y \in Nat
  OBVIOUS
<1>5. k * x \in Nat /\ k * y \in Nat
  BY <1>3, <1>4
<1>6. CASE y = 0
  <2>1. Gcd[<<x, 0>>] = x
    BY <1>3, GcdRecursion
  <2>2. Gcd[<<k * x, 0>>] = k * x
    BY <1>5, GcdRecursion
  <2>3. k * 0 = 0
    OBVIOUS
  <2> QED BY <1>3, <1>6, <2>1, <2>2, <2>3
<1>7. CASE y # 0
  <2> DEFINE q == x \div y
             r == x % y
             u == k * x
             v == k * y
             w == k * r
  <2>1. q \in Int /\ r \in Int /\ 0 <= r /\ r < y /\ x = q * y + r /\ y > 0
    BY <1>3, <1>4, <1>7, DivisionFacts
  <2>2. Gcd[<<x, y>>] = Gcd[<<y, r>>]
    BY <1>3, <1>4, <1>7, GcdRecursion
  <2> HIDE DEF q, r
  <2>3. v \in Nat /\ v > 0 /\ w \in Int /\ 0 <= w /\ w < v /\ u = q * v + w
    BY <1>3, <1>4, <2>1
  <2> HIDE DEF u, v, w
  <2>4. (u % v) = w
    BY <2>1, <2>3, DivMod
  <2>5. u \in Nat
    BY <1>5 DEF u
  <2>6. Gcd[<<u, v>>] = Gcd[<<v, w>>]
    BY <2>3, <2>4, <2>5, GcdRecursion
  <2>7. r \notin Bad
    <3> HIDE DEF Bad
    <3> QED BY <1>2, <1>4, <1>1, <2>1
  <2>8. Good(y, r)
    <3>1. r \in Nat
      BY <2>1
    <3> HIDE DEF Good
    <3> QED BY <1>4, <2>7, <3>1
  <2>9. Gcd[<<v, w>>] = k * Gcd[<<y, r>>]
    BY <2>8 DEF v, w
  <2>10. Good(x, y)
    BY <2>2, <2>6, <2>9 DEF u, v
  <2> HIDE DEF Good
  <2> QED BY <1>3, <2>10
<1> QED BY <1>6, <1>7

\* A fraction does not change with a common factor.
LEMMA FracScaled ==
  ASSUME NEW n \in Int, NEW d \in Nat, d > 0, NEW k \in Nat, k > 0
  PROVE  Frac(k * n, k * d) = Frac(n, d)
<1> DEFINE a == Abs(n)
           g == Gcd[<<a, d>>]
           N == k * n
           D == k * d
           G == Gcd[<<Abs(N), D>>]
<1>1. a \in Nat /\ Abs(d) = d /\ (n >= 0 => n = a) /\ (n < 0 => n = -a)
  BY DEF Abs
<1>2. N \in Int /\ D \in Nat /\ D > 0
  OBVIOUS
<1>3. Abs(N) = k * a /\ Abs(D) = D
  BY <1>1, <1>2 DEF Abs
<1>4. G = k * g
  BY <1>1, <1>3, GcdScaled
<1>5. g \in Nat /\ g > 0 /\ Divides(g, a) /\ Divides(g, d)
  BY <1>1, GcdDivides
<1>6. Frac(n, d) = <<(1 * n) \div g, (1 * d) \div g>>
  BY <1>1 DEF Frac
<1>7. Frac(N, D) = <<(1 * N) \div G, (1 * D) \div G>>
  BY <1>2, <1>3 DEF Frac
<1> HIDE DEF a, g, G
<1>8. PICK p \in Nat : a = p * g
  BY <1>5 DEF Divides
<1>9. PICK m \in Nat : d = m * g
  BY <1>5 DEF Divides
<1>10. PICK z \in Int : n = z * g
  <2>1. CASE n >= 0
    BY <1>1, <1>8, <2>1
  <2>2. CASE n < 0
    BY <1>1, <1>5, <1>8, <2>2
  <2> QED BY <2>1, <2>2
<1>11. (1 * n) \div g = z /\ (1 * d) \div g = m
  BY <1>10, <1>5, <1>9, ExactQuotient
<1>12. G \in Nat /\ G > 0
  BY <1>4, <1>5
<1>13. (1 * N) \div G = z /\ (1 * D) \div G = m
  BY <1>10, <1>12, <1>4, <1>5, <1>9, ExactQuotient
<1>14. Frac(N, D) = Frac(n, d)
  BY <1>6, <1>7, <1>11, <1>13
<1> QED BY <1>14 DEF N, D

\* Fractions of one value are one fraction.
LEMMA FracEqual ==
  ASSUME NEW n \in Int, NEW d \in Nat, d > 0, NEW m \in Int, NEW e \in Nat, e > 0, n * e = m * d
  PROVE  Frac(n, d) = Frac(m, e)
<1>1. Frac(e * n, e * d) = Frac(n, d)
  BY FracScaled
<1>2. Frac(d * m, d * e) = Frac(m, e)
  BY FracScaled
<1>3. e * n = d * m /\ e * d = d * e
  OBVIOUS
<1> QED BY <1>1, <1>2, <1>3

\* Whole numbers are in lowest terms.
LEMMA FracOfWhole ==
  ASSUME NEW n \in Int
  PROVE  Frac(n, 1) = Whole(n)
<1> DEFINE f == Frac(n, 1)
           g == Gcd[<<Abs(n), Abs(1)>>]
<1>1. Abs(n) \in Nat /\ Abs(1) = 1
  BY DEF Abs
<1>2. g \in Nat /\ g > 0 /\ Divides(g, 1)
  BY <1>1, GcdDivides
<1>3. g = 1
  BY <1>2 DEF Divides
<1>4. f = <<(1 * n) \div g, (1 * 1) \div g>>
  BY DEF Frac, g
<1>5. (1 * n) \div 1 = n /\ (1 * 1) \div 1 = 1
  BY ExactQuotient
<1>6. f = <<n, 1>>
  BY <1>3, <1>4, <1>5
<1> QED BY <1>6 DEF Whole

\* A fraction in lowest terms.
Reduced(f) == f \in Fraction /\ f = Frac(f[1], f[2])

\* What Frac returns is in lowest terms.
LEMMA FracReduced ==
  ASSUME NEW n \in Int, NEW d \in Nat, d > 0
  PROVE  Reduced(Frac(n, d))
<1> DEFINE f == Frac(n, d)
<1>1. f \in Fraction /\ f[1] * d = n * f[2]
  BY FracValue
<1> HIDE DEF f
<1>2. f[1] \in Int /\ f[2] \in Nat /\ f[2] > 0
  BY <1>1 DEF Fraction
<1>3. Frac(f[1], f[2]) = Frac(n, d)
  BY <1>1, <1>2, FracEqual
<1> QED BY <1>1, <1>3 DEF Reduced, f

\* Whole numbers are in lowest terms.
LEMMA WholeReduced ==
  ASSUME NEW n \in Int
  PROVE  Reduced(Whole(n)) /\ Whole(n)[1] = n /\ Whole(n)[2] = 1
<1>1. Whole(n) \in Fraction /\ Whole(n)[1] = n /\ Whole(n)[2] = 1
  BY DEF Whole, Fraction
<1> QED BY <1>1, FracOfWhole DEF Reduced

\* A sum of two is in lowest terms.
LEMMA PlusReduced ==
  ASSUME NEW a \in Fraction, NEW b \in Fraction
  PROVE  Reduced(Plus(a, b))
<1> DEFINE n == a[1] * b[2] + b[1] * a[2]
           d == a[2] * b[2]
<1>1. n \in Int /\ d \in Nat /\ d > 0
  BY DEF Fraction
<1>2. Plus(a, b) = Frac(n, d)
  BY DEF Plus
<1> HIDE DEF n, d
<1> QED BY <1>1, <1>2, FracReduced

\* Adding nothing.
LEMMA PlusNothing ==
  ASSUME NEW f, Reduced(f)
  PROVE  Plus(f, Zero) = f /\ Plus(Zero, f) = f
<1>1. f[1] \in Int /\ f[2] \in Nat /\ f = Frac(f[1], f[2])
  BY DEF Reduced, Fraction
<1>2. Zero[1] = 0 /\ Zero[2] = 1
  BY DEF Zero, Whole
<1> DEFINE a == f[1]
           b == f[2]
<1>3. Plus(f, Zero) = Frac(a * 1 + 0 * b, b * 1) /\ Plus(Zero, f) = Frac(0 * b + a * 1, 1 * b)
  BY <1>2 DEF Plus
<1>4. a * 1 + 0 * b = a /\ b * 1 = b /\ 0 * b + a * 1 = a /\ 1 * b = b
  BY <1>1
<1> HIDE DEF a, b
<1>5. Plus(f, Zero) = Frac(a, b) /\ Plus(Zero, f) = Frac(a, b)
  BY <1>3, <1>4
<1> QED BY <1>1, <1>5 DEF a, b

\* Whole numbers add up beside a fraction.
LEMMA WholesAdd ==
  ASSUME NEW f \in Fraction, NEW m \in Int, NEW n \in Int
  PROVE  Plus(Plus(f, Whole(m)), Whole(n)) = Plus(f, Whole(m + n))
<1> DEFINE a == f[1]
           b == f[2]
           g == Plus(f, Whole(m))
           c == g[1]
           d == g[2]
           k == m + n
<1>1. a \in Int /\ b \in Nat /\ b > 0 /\ k \in Int
  BY DEF Fraction
<1>2. Whole(m) \in Fraction /\ Whole(m)[1] = m /\ Whole(m)[2] = 1
  BY WholeReduced DEF Reduced
<1>3. Whole(n)[1] = n /\ Whole(n)[2] = 1
  BY WholeReduced
<1>4. Whole(k)[1] = k /\ Whole(k)[2] = 1
  BY <1>1, WholeReduced
<1>5. g \in Fraction /\ c * (b * 1) = (a * 1 + m * b) * d
  BY <1>2, PlusValue
<1>6. c \in Int /\ d \in Nat /\ d > 0
  BY <1>5 DEF Fraction
<1>7. Plus(g, Whole(n)) = Frac(c * 1 + n * d, d * 1)
  BY <1>3 DEF Plus
<1>8. Plus(f, Whole(k)) = Frac(a * 1 + k * b, b * 1)
  BY <1>4 DEF Plus
<1>9. (c * 1 + n * d) * (b * 1) = (a * 1 + k * b) * (d * 1)
  BY <1>1, <1>5, <1>6
<1> DEFINE x == c * 1 + n * d
           y == d * 1
           z == a * 1 + k * b
           w == b * 1
<1>10. x \in Int /\ y \in Nat /\ y > 0 /\ z \in Int /\ w \in Nat /\ w > 0 /\ x * w = z * y
  BY <1>1, <1>6, <1>9
<1> HIDE DEF x, y, z, w
<1>11. Frac(x, y) = Frac(z, w)
  BY <1>10, FracEqual
<1>12. Plus(g, Whole(n)) = Plus(f, Whole(k))
  BY <1>7, <1>8, <1>11 DEF x, y, z, w
<1> QED BY <1>12 DEF g, k

\* A value over a multiple of the denominator.
LEMMA StandsScaled ==
  ASSUME NEW n \in Int, NEW k \in Int, NEW f, Stands(f, n, k), NEW j \in Int
  PROVE  Stands(f, n * j, k * j)
<1> DEFINE a == f[1]
           b == f[2]
<1>1. f \in Fraction /\ a \in Int /\ b \in Int /\ a * k = n * b
  BY DEF Stands, Fraction
<1> HIDE DEF a, b
<1>2. a * (k * j) = (a * k) * j /\ (n * j) * b = (n * b) * j
  BY <1>1
<1>3. a * (k * j) = (n * j) * b
  BY <1>1, <1>2
<1> QED BY <1>1, <1>3 DEF Stands, a, b

\* Fractions over one denominator are in the order of their numerators.
LEMMA StandsInOrder ==
  ASSUME NEW k \in Nat, k > 0, NEW n \in Int, NEW m \in Int, n <= m,
         NEW f, Stands(f, n, k), NEW g, Stands(g, m, k)
  PROVE  AtMost(f, g)
<1> DEFINE a == f[1]
           b == f[2]
           c == g[1]
           d == g[2]
<1>1. a \in Int /\ b \in Nat /\ b > 0 /\ c \in Int /\ d \in Nat /\ d > 0 /\ a * k = n * b /\ c * k = m * d
  BY DEF Stands, Fraction
<1> HIDE DEF a, b, c, d
<1>2. (a * d) * k = n * (b * d) /\ (c * b) * k = m * (b * d)
  BY <1>1
<1>3. n * (b * d) <= m * (b * d)
  BY <1>1
<1>4. a * d <= c * b
  BY <1>1, <1>2, <1>3, LessTimes
<1> QED BY <1>4 DEF AtMost, a, b, c, d

\* Sums are in the order of their terms.
LEMMA PlusInOrder ==
  ASSUME NEW a \in Fraction, NEW b \in Fraction, AtMost(a, b), NEW c \in Fraction, NEW d \in Fraction, AtMost(c, d)
  PROVE  AtMost(Plus(a, c), Plus(b, d))
<1> DEFINE a1 == a[1]
           a2 == a[2]
           b1 == b[1]
           b2 == b[2]
           c1 == c[1]
           c2 == c[2]
           d1 == d[1]
           d2 == d[2]
           p == a1 * c2 + c1 * a2
           q == b1 * d2 + d1 * b2
           u == a2 * c2
           v == b2 * d2
<1>1. /\ a1 \in Int /\ a2 \in Nat /\ a2 > 0 /\ b1 \in Int /\ b2 \in Nat /\ b2 > 0
      /\ c1 \in Int /\ c2 \in Nat /\ c2 > 0 /\ d1 \in Int /\ d2 \in Nat /\ d2 > 0
  BY DEF Fraction
<1>2. a1 * b2 <= b1 * a2 /\ c1 * d2 <= d1 * c2
  BY DEF AtMost
<1>3. Stands(Plus(a, c), p, u) /\ Stands(Plus(b, d), q, v)
  BY PlusValue DEF Stands
<1> HIDE DEF a1, a2, b1, b2, c1, c2, d1, d2
<1>4. p \in Int /\ q \in Int /\ u \in Nat /\ u > 0 /\ v \in Nat /\ v > 0
  BY <1>1
<1>5. p * v <= q * u
  BY <1>1, <1>2
<1> DEFINE n == p * v
           m == q * u
           k == u * v
           e == v * u
<1>6. Stands(Plus(a, c), n, k) /\ Stands(Plus(b, d), m, e)
  BY <1>3, <1>4, StandsScaled
<1>7. n \in Int /\ m \in Int /\ k \in Nat /\ k > 0 /\ e = k /\ n <= m
  BY <1>4, <1>5
<1> HIDE DEF n, m, k, e
<1> QED BY <1>6, <1>7, StandsInOrder

-----------------------------------------------------------------------------
(* Structural rewards.                                                     *)

Shares == {f \in Fraction : IsShare(f)}

\* What a sample weighs less with each iteration.
DecayRate == Frac(DecayNum, DecayDen)

\* The decay per iteration is a share.
LEMMA RateIsShare == IsShare(DecayRate) /\ DecayRate \in Shares
<1>1. DecayNum \in Nat /\ DecayNum \in Int /\ DecayDen \in Nat /\ DecayDen > 0 /\ DecayNum <= DecayDen
  BY StructureAssumption
<1>2. Stands(DecayRate, DecayNum, DecayDen)
  BY <1>1, FracStands DEF DecayRate
<1>3. IsShare(DecayRate)
  BY <1>1, <1>2, StandsIsShare
<1> QED BY <1>3 DEF IsShare, Shares

\* A product of shares is a share.
LEMMA TimesRate == ASSUME NEW f \in Shares PROVE Times(f, DecayRate) \in Shares
<1>1. IsShare(f)
  BY DEF Shares
<1>2. IsShare(Times(f, DecayRate))
  BY <1>1, RateIsShare, TimesShare
<1> QED BY <1>2 DEF IsShare, Shares

\* d decays n times.
IsDecay(d, n) ==
  /\ d \in [0..n -> Shares] /\ d[0] = One
  /\ \A k \in 1..n : d[k] = Times(d[k - 1], DecayRate)

\* There is a decay over any number of iterations.
LEMMA DecayExists == ASSUME NEW n \in Nat PROVE \E d : IsDecay(d, n)
<1> DEFINE Bad == {k \in Nat : ~\E d : IsDecay(d, k)}
<1> SUFFICES ASSUME Bad # {} PROVE FALSE
  OBVIOUS
<1>1. Bad \in SUBSET Nat
  OBVIOUS
<1>2. PICK k \in Bad : \A j \in Bad : k <= j
  BY <1>1, LeastElement
<1>3. k \in Nat /\ ~\E d : IsDecay(d, k)
  OBVIOUS
<1>4. k # 0
  <2> DEFINE d == [i \in 0..0 |-> One]
  <2>1. One \in Shares
    BY EndsAreShares DEF IsShare, Shares
  <2>2. IsDecay(d, 0)
    BY <2>1 DEF IsDecay
  <2> HIDE DEF d
  <2> QED BY <1>3, <2>2
<1> DEFINE j == k - 1
<1>5. j \in Nat /\ j < k /\ k = j + 1
  BY <1>3, <1>4
<1> HIDE DEF j
<1>6. PICK d : IsDecay(d, j)
  BY <1>2, <1>3, <1>5
<1> DEFINE e == [i \in 0..k |-> IF i = k THEN Times(d[j], DecayRate) ELSE d[i]]
<1>7. IsDecay(e, k)
  <2>1. d \in [0..j -> Shares] /\ d[0] = One /\ \A i \in 1..j : d[i] = Times(d[i - 1], DecayRate)
    BY <1>6 DEF IsDecay
  <2>2. \A i \in 0..k : i # k => i \in 0..j
    BY <1>5
  <2>3. d[j] \in Shares
    BY <1>5, <2>1
  <2>4. \A i \in 0..k : e[i] \in Shares
    BY <2>1, <2>2, <2>3, TimesRate
  <2>5. e[0] = One /\ e[k] = Times(d[j], DecayRate) /\ \A i \in 0..j : e[i] = d[i]
    BY <1>5, <2>1
  <2>6. e \in [0..k -> Shares]
    BY <2>4
  <2> HIDE DEF e
  <2>7. ASSUME NEW i \in 1..k PROVE e[i] = Times(e[i - 1], DecayRate)
    BY <1>5, <2>1, <2>5
  <2> QED BY <2>5, <2>6, <2>7 DEF IsDecay
<1> HIDE DEF e
<1> QED BY <1>3, <1>7

\* Decays agree as far as both go.
LEMMA DecaysAgree ==
  ASSUME NEW n \in Nat, NEW m \in Nat, NEW d, IsDecay(d, n), NEW e, IsDecay(e, m), NEW i \in 0..n, i <= m
  PROVE  d[i] = e[i]
<1> DEFINE Bad == {k \in Nat : k <= n /\ k <= m /\ d[k] # e[k]}
<1> SUFFICES ASSUME Bad # {} PROVE FALSE
  OBVIOUS
<1>1. Bad \in SUBSET Nat
  OBVIOUS
<1>2. PICK k \in Bad : \A j \in Bad : k <= j
  BY <1>1, LeastElement
<1>3. k \in Nat /\ k <= n /\ k <= m /\ d[k] # e[k]
  OBVIOUS
<1>4. k # 0
  BY <1>3 DEF IsDecay
<1>5. k \in 1..n /\ k \in 1..m /\ k - 1 \in Nat /\ k - 1 <= n /\ k - 1 <= m /\ k - 1 < k
  BY <1>3, <1>4
<1>6. k - 1 \notin Bad
  BY <1>2, <1>3, <1>5
<1>7. d[k - 1] = e[k - 1]
  BY <1>5, <1>6
<1> QED BY <1>3, <1>5, <1>7 DEF IsDecay

\* Decay follows its recursion.
LEMMA DecayIs ==
  /\ Decay[0] = One
  /\ \A n \in Nat : Decay[n] \in Shares /\ Decay[n + 1] = Times(Decay[n], DecayRate)
<1> DEFINE Solves(d) == d = [n \in Nat |-> IF n = 0 THEN One ELSE Times(d[n - 1], Frac(DecayNum, DecayDen))]
           It(n) == CHOOSE d : IsDecay(d, n)
           g == [n \in Nat |-> It(n)[n]]
<1>1. \A n \in Nat : IsDecay(It(n), n)
  BY DecayExists
<1> HIDE DEF It
<1>2. g[0] = One /\ \A n \in Nat : g[n] \in Shares
  BY <1>1 DEF IsDecay
<1>3. ASSUME NEW n \in Nat, n # 0 PROVE g[n] = Times(g[n - 1], DecayRate)
  <2>1. n - 1 \in Nat /\ n \in 1..n /\ n - 1 \in 0..n /\ n - 1 <= n - 1
    BY <1>3
  <2>2. It(n)[n] = Times(It(n)[n - 1], DecayRate)
    BY <1>1, <2>1 DEF IsDecay
  <2>3. It(n)[n - 1] = It(n - 1)[n - 1]
    BY <1>1, <2>1, DecaysAgree
  <2> QED BY <2>1, <2>2, <2>3
<1>4. Solves(g)
  BY <1>2, <1>3 DEF DecayRate
<1> HIDE DEF g
<1>5. Decay = CHOOSE d : Solves(d)
  BY DEF Decay
<1>6. Solves(Decay)
  BY <1>4, <1>5
<1>7. Decay[0] = One
  BY <1>6
<1>8. \A n \in Nat : Decay[n + 1] = Times(Decay[n], DecayRate)
  BY <1>6 DEF DecayRate
<1> HIDE DEF Solves
<1> DEFINE Bad == {n \in Nat : Decay[n] \notin Shares}
<1>9. Bad = {}
  <2> SUFFICES ASSUME Bad # {} PROVE FALSE
    OBVIOUS
  <2>1. Bad \in SUBSET Nat
    OBVIOUS
  <2>2. PICK k \in Bad : \A j \in Bad : k <= j
    BY <2>1, LeastElement
  <2>3. k \in Nat /\ Decay[k] \notin Shares
    OBVIOUS
  <2>4. One \in Shares
    BY EndsAreShares DEF IsShare, Shares
  <2>5. k # 0
    BY <1>7, <2>3, <2>4
  <2>6. k - 1 \in Nat /\ k - 1 < k /\ k = k - 1 + 1
    BY <2>3, <2>5
  <2>7. k - 1 \notin Bad
    BY <2>2, <2>3, <2>6
  <2>8. Decay[k - 1] \in Shares
    BY <2>6, <2>7
  <2> QED BY <1>8, <2>3, <2>6, <2>8, TimesRate
<1> QED BY <1>7, <1>8, <1>9

\* A share is at most one and no less than zero.
LEMMA ShareBounds ==
  ASSUME NEW f, IsShare(f)
  PROVE  f \in Fraction /\ AtMost(Zero, f) /\ AtMost(f, One)
<1>1. f \in Fraction /\ f[1] \in Int /\ f[2] \in Nat /\ 0 <= f[1] /\ f[1] <= f[2]
  BY DEF IsShare, Fraction
<1>2. Zero[1] = 0 /\ Zero[2] = 1 /\ One[1] = 1 /\ One[2] = 1
  BY DEF Zero, One, Whole
<1>3. 0 * f[2] <= f[1] * 1 /\ f[1] * 1 <= 1 * f[2]
  BY <1>1
<1> QED BY <1>1, <1>2, <1>3 DEF AtMost

\* A share of something is no more than it.
LEMMA TimesAtMost ==
  ASSUME NEW f, IsShare(f), NEW r, IsShare(r)
  PROVE  AtMost(Times(f, r), f)
<1> DEFINE a == f[1]
           b == f[2]
           p == r[1]
           q == r[2]
           n == a * p
           d == b * q
           m == a * q
<1>1. a \in Nat /\ b \in Nat /\ b > 0 /\ p \in Nat /\ q \in Nat /\ q > 0 /\ p <= q /\ f \in Fraction
  BY DEF IsShare, Fraction
<1>2. Times(f, r) = Frac(n, d)
  BY DEF Times
<1> HIDE DEF a, b, p, q
<1>3. n \in Int /\ d \in Nat /\ d > 0 /\ m \in Int /\ n <= m /\ a * d = m * b
  BY <1>1
<1> HIDE DEF n, d, m
<1>4. Stands(Frac(n, d), n, d)
  BY <1>3, FracStands
<1>5. Stands(f, m, d)
  BY <1>1, <1>3 DEF Stands, a, b
<1> QED BY <1>2, <1>3, <1>4, <1>5, StandsInOrder

\* Fractions are no more than themselves.
LEMMA AtMostItself == ASSUME NEW f \in Fraction PROVE AtMost(f, f)
<1>1. f[1] \in Int /\ f[2] \in Int
  BY DEF Fraction
<1>2. f[1] * f[2] \in Int
  BY <1>1
<1> QED BY <1>2 DEF AtMost

\* Products with a factor that is not negative keep an order.
LEMMA TimesInOrder ==
  ASSUME NEW x \in Int, NEW y \in Int, x <= y, NEW z \in Nat
  PROVE  x * z <= y * z
<1> DEFINE t == y - x
<1>1. t \in Nat /\ y = x + t
  OBVIOUS
<1> HIDE DEF t
<1>2. (x + t) * z = x * z + t * z /\ t * z \in Nat /\ x * z \in Int
  BY <1>1
<1> DEFINE a == x * z
           b == t * z
<1>3. y * z = a + b /\ a \in Int /\ b \in Nat
  BY <1>1, <1>2
<1> HIDE DEF b
<1>4. a <= a + b
  BY <1>3
<1> QED BY <1>3, <1>4

\* Whole numbers add up.
LEMMA WholePlusWhole ==
  ASSUME NEW m \in Int, NEW n \in Int
  PROVE  Plus(Whole(m), Whole(n)) = Whole(m + n)
<1>1. Reduced(Whole(m + n)) /\ Reduced(Whole(m)) /\ Whole(m) \in Fraction
  BY WholeReduced DEF Reduced
<1>2. Zero \in Fraction
  BY DEF Zero, Whole, Fraction
<1>3. Plus(Plus(Zero, Whole(m)), Whole(n)) = Plus(Zero, Whole(m + n))
  BY <1>2, WholesAdd
<1> QED BY <1>1, <1>3, PlusNothing

\* The order of fractions is transitive.
LEMMA AtMostTransitive ==
  ASSUME NEW f \in Fraction, NEW g \in Fraction, NEW h \in Fraction, AtMost(f, g), AtMost(g, h)
  PROVE  AtMost(f, h)
<1> DEFINE a == f[1]
           b == f[2]
           c == g[1]
           d == g[2]
           e == h[1]
           k == h[2]
<1>1. /\ a \in Int /\ b \in Nat /\ b > 0 /\ c \in Int /\ d \in Nat /\ d > 0 /\ e \in Int /\ k \in Nat /\ k > 0
      /\ a * d <= c * b /\ c * k <= e * d
  BY DEF AtMost, Fraction
<1> HIDE DEF a, b, c, d, e, k
<1> DEFINE x == a * k
           y == e * b
           p == a * d
           q == c * b
           r == c * k
           s == e * d
<1>2. x \in Int /\ y \in Int /\ p \in Int /\ q \in Int /\ r \in Int /\ s \in Int
  BY <1>1
<1>3. x * d = p * k /\ q * k = r * b /\ s * b = y * d
  BY <1>1
<1>4. p <= q /\ r <= s
  BY <1>1
<1> HIDE DEF x, y, p, q, r, s
<1>5. p * k <= q * k /\ r * b <= s * b
  BY <1>1, <1>2, <1>4, TimesInOrder
<1>6. x * d \in Int /\ y * d \in Int /\ q * k \in Int
  BY <1>1, <1>2
<1>7. x * d <= y * d
  BY <1>3, <1>5, <1>6
<1>8. x <= y
  BY <1>1, <1>2, <1>7, LessTimes
<1> QED BY <1>8 DEF AtMost, x, y, a, b, e, k

\* The steps of a sum.
SumsBy(h, q) ==
  /\ h \in [0..Len(q) -> Fraction] /\ h[0] = Zero
  /\ \A k \in 1..Len(q) : h[k] = Plus(h[k - 1], q[k])

\* A sum has steps.
LEMMA SumHas ==
  ASSUME NEW q \in Seq(Fraction)
  PROVE  \E h : SumsBy(h, q) /\ Sum(q) = h[Len(q)]
<1>1. PICK h \in [0..Len(q) -> Fraction] :
        /\ h[0] = Zero /\ \A k \in 1..Len(q) : h[k] = Plus(h[k - 1], q[k])
        /\ Sum(q) = h[Len(q)]
  BY SumsUp
<1> QED BY <1>1 DEF SumsBy

\* The steps of a sum are in lowest terms.
LEMMA StepsReduced ==
  ASSUME NEW q \in Seq(Fraction), NEW h, SumsBy(h, q), NEW k \in 0..Len(q)
  PROVE  Reduced(h[k])
<1>1. Len(q) \in Nat /\ \A i \in 1..Len(q) : q[i] \in Fraction
  OBVIOUS
<1>2. CASE k = 0
  BY <1>2, WholeReduced DEF Zero, SumsBy
<1>3. CASE k # 0
  BY <1>1, <1>3, PlusReduced DEF SumsBy
<1> QED BY <1>2, <1>3

\* A sum is in lowest terms.
LEMMA SumReduced ==
  ASSUME NEW q \in Seq(Fraction)
  PROVE  Sum(q) \in Fraction /\ Reduced(Sum(q))
<1>1. PICK h : SumsBy(h, q) /\ Sum(q) = h[Len(q)]
  BY SumHas
<1>2. Len(q) \in 0..Len(q)
  OBVIOUS
<1>3. Reduced(h[Len(q)])
  BY <1>1, <1>2, StepsReduced
<1> QED BY <1>1, <1>3 DEF Reduced

\* Nothing adds up to nothing.
LEMMA SumOfNothing == Sum(<< >>) = Zero
<1>1. << >> \in Seq(Fraction) /\ Len(<< >>) = 0
  OBVIOUS
<1> QED BY <1>1, SumHas DEF SumsBy

\* Sums of sequences with the same first terms go through the same values.
LEMMA StepsAgree ==
  ASSUME NEW q \in Seq(Fraction), NEW r \in Seq(Fraction), Len(q) <= Len(r), \A k \in 1..Len(q) : q[k] = r[k],
         NEW h, SumsBy(h, q), NEW g, SumsBy(g, r)
  PROVE  \A k \in 0..Len(q) : h[k] = g[k]
<1> DEFINE n == Len(q)
           m == Len(r)
           Bad == {k \in 0..n : h[k] # g[k]}
<1> SUFFICES ASSUME Bad # {} PROVE FALSE
  OBVIOUS
<1>1. n \in Nat /\ m \in Nat /\ n <= m
  OBVIOUS
<1>2. h[0] = Zero /\ g[0] = Zero /\ (\A k \in 1..n : h[k] = Plus(h[k - 1], q[k]))
      /\ (\A k \in 1..m : g[k] = Plus(g[k - 1], r[k])) /\ (\A k \in 1..n : q[k] = r[k])
  BY DEF SumsBy
<1> HIDE DEF n, m
<1>3. Bad \in SUBSET Nat
  BY <1>1
<1>4. PICK k \in Bad : \A j \in Bad : k <= j
  BY <1>3, LeastElement
<1>5. k \in 0..n /\ h[k] # g[k] /\ k # 0
  BY <1>2
<1>6. k \in 1..n /\ k \in 1..m /\ k - 1 \in 0..n /\ k - 1 < k
  BY <1>1, <1>5
<1>7. k - 1 \notin Bad
  BY <1>4, <1>5, <1>6
<1>8. h[k - 1] = g[k - 1]
  BY <1>6, <1>7
<1> QED BY <1>2, <1>5, <1>6, <1>8

\* The sum of one term more.
LEMMA SumAppend ==
  ASSUME NEW q \in Seq(Fraction), NEW x \in Fraction
  PROVE  Sum(Append(q, x)) = Plus(Sum(q), x)
<1> DEFINE r == Append(q, x)
           n == Len(q)
<1>1. n \in Nat /\ r \in Seq(Fraction) /\ Len(r) = n + 1 /\ r[n + 1] = x /\ \A k \in 1..n : r[k] = q[k]
  OBVIOUS
<1> HIDE DEF r
<1>2. PICK h : SumsBy(h, q) /\ Sum(q) = h[n]
  BY SumHas
<1>3. PICK g : SumsBy(g, r) /\ Sum(r) = g[n + 1]
  BY <1>1, SumHas
<1>4. n <= Len(r) /\ n \in 0..n /\ n + 1 \in 1..Len(r) /\ n + 1 - 1 = n
  BY <1>1
<1>5. Len(q) <= Len(r) /\ \A k \in 1..Len(q) : q[k] = r[k]
  BY <1>1, <1>4
<1>6. h[n] = g[n]
  BY <1>1, <1>2, <1>3, <1>4, <1>5, StepsAgree
<1>7. g[n + 1] = Plus(g[n + 1 - 1], r[n + 1])
  BY <1>3, <1>4 DEF SumsBy
<1>8. g[n + 1] = Plus(g[n], x)
  BY <1>1, <1>4, <1>7
<1>9. Sum(r) = Plus(Sum(q), x)
  BY <1>2, <1>3, <1>6, <1>8
<1> QED BY <1>9 DEF r

\* Sums of the same length are in the order of their terms.
LEMMA SumsInOrder ==
  ASSUME NEW q \in Seq(Fraction), NEW r \in Seq(Fraction), Len(q) = Len(r), \A k \in 1..Len(q) : AtMost(q[k], r[k])
  PROVE  AtMost(Sum(q), Sum(r))
<1> DEFINE n == Len(q)
<1>1. PICK h : SumsBy(h, q) /\ Sum(q) = h[n]
  BY SumHas
<1>2. PICK g : SumsBy(g, r) /\ Sum(r) = g[n]
  BY SumHas
<1>3. /\ n \in Nat /\ h \in [0..n -> Fraction] /\ g \in [0..n -> Fraction] /\ h[0] = Zero /\ g[0] = Zero
      /\ \A k \in 1..n : /\ h[k] = Plus(h[k - 1], q[k]) /\ g[k] = Plus(g[k - 1], r[k])
                         /\ q[k] \in Fraction /\ r[k] \in Fraction /\ AtMost(q[k], r[k])
  BY <1>1, <1>2 DEF SumsBy
<1> HIDE DEF n
<1> DEFINE Bad == {k \in 0..n : ~AtMost(h[k], g[k])}
<1>4. Bad = {}
  <2> SUFFICES ASSUME Bad # {} PROVE FALSE
    OBVIOUS
  <2>1. Bad \in SUBSET Nat
    BY <1>3
  <2>2. PICK k \in Bad : \A j \in Bad : k <= j
    BY <2>1, LeastElement
  <2>3. k \in 0..n /\ ~AtMost(h[k], g[k])
    OBVIOUS
  <2>4. k # 0
    BY <1>3, <2>3, AtMostItself DEF Zero, Whole, Fraction
  <2>5. k \in 1..n /\ k - 1 \in 0..n /\ k - 1 < k
    BY <1>3, <2>3, <2>4
  <2>6. k - 1 \notin Bad
    BY <2>2, <2>3, <2>5
  <2>7. AtMost(h[k - 1], g[k - 1]) /\ h[k - 1] \in Fraction /\ g[k - 1] \in Fraction
    BY <1>3, <2>5, <2>6
  <2>8. q[k] \in Fraction /\ r[k] \in Fraction /\ AtMost(q[k], r[k])
    BY <1>3, <2>5
  <2>9. AtMost(Plus(h[k - 1], q[k]), Plus(g[k - 1], r[k]))
    BY <2>7, <2>8, PlusInOrder
  <2> QED BY <1>3, <2>3, <2>5, <2>9
<1>5. n \in 0..n
  BY <1>3
<1>6. AtMost(h[n], g[n])
  BY <1>4, <1>5
<1> QED BY <1>1, <1>2, <1>6 DEF n

\* The steps of a sum of whole numbers.
CountsBy(t, n, c) ==
  /\ t \in [0..n -> Int] /\ t[0] = 0
  /\ \A k \in 1..n : t[k] = t[k - 1] + c[k]

\* Whole numbers add up to a whole number.
LEMMA SumOfWholes ==
  ASSUME NEW n \in Nat, NEW c \in [1..n -> Int], NEW t, CountsBy(t, n, c),
         NEW q \in Seq(Fraction), Len(q) = n, \A k \in 1..n : q[k] = Whole(c[k])
  PROVE  Sum(q) = Whole(t[n])
<1>1. PICK h : SumsBy(h, q) /\ Sum(q) = h[n]
  BY SumHas
<1>2. /\ h[0] = Zero /\ t \in [0..n -> Int] /\ t[0] = 0
      /\ \A k \in 1..n : h[k] = Plus(h[k - 1], Whole(c[k])) /\ t[k] = t[k - 1] + c[k]
  BY <1>1 DEF SumsBy, CountsBy
<1> DEFINE Bad == {k \in 0..n : h[k] # Whole(t[k])}
<1>3. Bad = {}
  <2> SUFFICES ASSUME Bad # {} PROVE FALSE
    OBVIOUS
  <2>1. Bad \in SUBSET Nat
    OBVIOUS
  <2>2. PICK k \in Bad : \A j \in Bad : k <= j
    BY <2>1, LeastElement
  <2>3. k \in 0..n /\ h[k] # Whole(t[k])
    OBVIOUS
  <2>4. k # 0
    BY <1>2, <2>3 DEF Zero
  <2>5. k \in 1..n /\ k - 1 \in 0..n /\ k - 1 < k
    BY <2>3, <2>4
  <2>6. k - 1 \notin Bad
    BY <2>2, <2>3, <2>5
  <2>7. h[k - 1] = Whole(t[k - 1]) /\ t[k - 1] \in Int /\ c[k] \in Int /\ t[k] = t[k - 1] + c[k]
    BY <1>2, <2>5, <2>6
  <2>8. h[k] = Plus(Whole(t[k - 1]), Whole(c[k]))
    BY <1>2, <2>5, <2>7
  <2>9. Plus(Whole(t[k - 1]), Whole(c[k])) = Whole(t[k - 1] + c[k])
    BY <2>7, WholePlusWhole
  <2> QED BY <2>3, <2>7, <2>8, <2>9
<1>4. n \in 0..n
  OBVIOUS
<1> QED BY <1>1, <1>3, <1>4

\* The rollouts of a group whose model is among some models.
WithModel(models, S) == {i \in DOMAIN models : models[i] \in S}

\* The rollouts with one model more.
LEMMA OneModelMore ==
  ASSUME NEW M, NEW models \in Seq(M), NEW S, NEW x, x \notin S
  PROVE  /\ Cardinality(WithModel(models, S)) \in Nat
         /\ Cardinality(WithModel(models, {x})) \in Nat
         /\ Cardinality(WithModel(models, S \cup {x}))
              = Cardinality(WithModel(models, S)) + Cardinality(WithModel(models, {x}))
<1> DEFINE n == Len(models)
           A == WithModel(models, S)
           B == WithModel(models, {x})
           C == WithModel(models, S \cup {x})
<1>1. n \in Nat /\ DOMAIN models = 1..n
  OBVIOUS
<1>2. IsFiniteSet(1..n)
  BY <1>1, FS_Interval
<1>3. A \in SUBSET (1..n) /\ B \in SUBSET (1..n) /\ C = A \cup B /\ A \cap B = {}
  BY <1>1 DEF WithModel
<1> HIDE DEF A, B, C
<1>4. IsFiniteSet(A) /\ IsFiniteSet(B)
  BY <1>2, <1>3, FS_Subset
<1>5. Cardinality(A) \in Nat /\ Cardinality(B) \in Nat /\ Cardinality({}) = 0
  BY <1>4, FS_CardinalityType, FS_EmptySet
<1>6. Cardinality(A \cup B) = Cardinality(A) + Cardinality(B) - Cardinality(A \cap B)
  BY <1>4, FS_Union
<1>7. Cardinality(C) = Cardinality(A) + Cardinality(B)
  <2>1. Cardinality(A \cap B) = 0
    BY <1>3, <1>5
  <2>2. Cardinality(C) = Cardinality(A \cup B)
    BY <1>3
  <2> DEFINE a == Cardinality(A)
             b == Cardinality(B)
  <2>3. a \in Nat /\ b \in Nat /\ Cardinality(C) = a + b - 0
    BY <1>5, <1>6, <2>1, <2>2
  <2> HIDE DEF a, b
  <2>4. Cardinality(C) = a + b
    BY <2>3
  <2> QED BY <2>4 DEF a, b
<1> QED BY <1>5, <1>7 DEF A, B, C

\* The rollouts of a group that have the value of a model's feature.
SameCount(models, model, f) ==
  Cardinality({i \in DOMAIN models : models[i] # NoModel /\ models[i][f] = model[f]})

\* What the rollouts of a group add to an agreement.
GroupVotes(models, model, f) ==
  LET counts == ModelCounts(models)
      same == SetToSeq({m \in DOMAIN counts : m[f] = model[f]})
  IN  Sum([n \in DOMAIN same |-> Whole(counts[same[n]])])

\* The models of a group are finitely many.
LEMMA ModelsFinite ==
  ASSUME NEW M, NEW models \in Seq(M)
  PROVE  /\ IsFiniteSet(ToSet(models) \ {NoModel})
         /\ DOMAIN ModelCounts(models) = ToSet(models) \ {NoModel}
         /\ Cardinality(DOMAIN ModelCounts(models)) \in Nat
<1> DEFINE n == Len(models)
           T == ToSet(models)
<1>1. n \in Nat /\ DOMAIN models = 1..n /\ models = [i \in 1..n |-> models[i]]
  OBVIOUS
<1>2. models \in Surjection(1..n, T)
  BY <1>1 DEF ToSet, Surjection
<1>3. IsFiniteSet(1..n)
  BY <1>1, FS_Interval
<1>4. IsFiniteSet(T)
  BY <1>2, <1>3, FS_Surjection
<1>5. IsFiniteSet(T \ {NoModel})
  BY <1>4, FS_Subset
<1>6. DOMAIN ModelCounts(models) = T \ {NoModel}
  BY DEF ModelCounts
<1> QED BY <1>5, <1>6, FS_CardinalityType

\* The rollouts of a group add as many as have the value, however the models
\* are listed.
LEMMA GroupVotesAre ==
  ASSUME NEW M, NEW models \in Seq(M), NEW model, NEW f
  PROVE  GroupVotes(models, model, f) = Whole(SameCount(models, model, f))
<1> DEFINE counts == ModelCounts(models)
           D == {m \in DOMAIN counts : m[f] = model[f]}
           q == SetToSeq(D)
           c == Cardinality(D)
           votes == [n \in DOMAIN q |-> Whole(counts[q[n]])]
<1>1. DOMAIN counts = ToSet(models) \ {NoModel} /\ IsFiniteSet(ToSet(models) \ {NoModel})
  BY ModelsFinite
<1>2. D \in SUBSET (ToSet(models) \ {NoModel}) /\ \A m \in D : counts[m] = Cardinality(WithModel(models, {m}))
  BY <1>1 DEF WithModel, ModelCounts
<1>3. SameCount(models, model, f) = Cardinality(WithModel(models, D))
  BY <1>1 DEF ToSet, WithModel, SameCount
<1>4. GroupVotes(models, model, f) = Sum(votes)
  BY DEF GroupVotes
<1> HIDE DEF D, counts
<1>5. IsFiniteSet(D)
  BY <1>1, <1>2, FS_Subset
<1>6. /\ c \in Nat /\ q \in [1..c -> D]
      /\ \A i, j \in 1..c : q[i] = q[j] => i = j
      /\ \A x \in D : \E i \in 1..c : q[i] = x
  BY <1>5, SetToSeqFacts
<1> HIDE DEF q, c
<1> DEFINE Until(k) == {q[j] : j \in 1..k}
           num == [k \in 1..c |-> Cardinality(WithModel(models, {q[k]}))]
           t == [k \in 0..c |-> Cardinality(WithModel(models, Until(k)))]
<1>7. Until(0) = {} /\ Until(c) = D
  BY <1>6
<1>8. ASSUME NEW k \in 1..c
      PROVE  Until(k) = Until(k - 1) \cup {q[k]} /\ q[k] \notin Until(k - 1)
  BY <1>6
<1>9. /\ Cardinality(WithModel(models, {})) = 0
      /\ \A k \in 0..c : Cardinality(WithModel(models, Until(k))) \in Nat
  <2>1. WithModel(models, {}) = {}
    BY DEF WithModel
  <2>2. ASSUME NEW k \in 0..c PROVE Cardinality(WithModel(models, Until(k))) \in Nat
    <3> DEFINE W == WithModel(models, Until(k))
    <3>1. W \in SUBSET (1..Len(models)) /\ Len(models) \in Int /\ 1 \in Int
      BY DEF WithModel
    <3> HIDE DEF W
    <3>2. IsFiniteSet(W)
      BY <3>1, FS_Interval, FS_Subset
    <3>3. Cardinality(W) \in Nat
      BY <3>2, FS_CardinalityType
    <3> QED BY <3>3 DEF W
  <2> QED BY <2>1, <2>2, FS_EmptySet
<1> HIDE DEF Until
<1>10. CountsBy(t, c, num)
  <2>1. t \in [0..c -> Int]
    BY <1>9
  <2>2. t[0] = 0
    <3>1. 0 \in 0..c
      BY <1>6
    <3>2. t[0] = Cardinality(WithModel(models, Until(0)))
      BY <3>1
    <3> HIDE DEF t
    <3> QED BY <1>7, <1>9, <3>2
  <2>3. ASSUME NEW k \in 1..c PROVE t[k] = t[k - 1] + num[k]
    <3>1. k \in 0..c /\ k - 1 \in 0..c
      BY <1>6
    <3> DEFINE U == Until(k - 1)
    <3>2. Until(k) = U \cup {q[k]} /\ q[k] \notin U
      BY <1>8
    <3> HIDE DEF U
    <3>3. Cardinality(WithModel(models, U \cup {q[k]}))
            = Cardinality(WithModel(models, U)) + Cardinality(WithModel(models, {q[k]}))
      BY <3>2, OneModelMore
    <3> QED BY <3>1, <3>2, <3>3 DEF U
  <2> HIDE DEF t, num
  <2> QED BY <2>1, <2>2, <2>3 DEF CountsBy
<1>11. num \in [1..c -> Int]
  <2>1. ASSUME NEW k \in 1..c PROVE Cardinality(WithModel(models, {q[k]})) \in Nat
    BY OneModelMore
  <2> QED BY <2>1
<1>12. votes \in Seq(Fraction) /\ Len(votes) = c /\ \A k \in 1..c : votes[k] = Whole(num[k])
  <2>1. DOMAIN q = 1..c
    BY <1>6
  <2>2. \A k \in 1..c : counts[q[k]] = num[k]
    BY <1>2, <1>6
  <2>3. \A k \in 1..c : votes[k] = Whole(num[k])
    BY <2>1, <2>2
  <2>4. \A k \in 1..c : Whole(num[k]) \in Fraction
    BY <1>11, WholeReduced DEF Reduced
  <2>5. votes \in [1..c -> Fraction]
    BY <2>1, <2>3, <2>4
  <2> HIDE DEF votes
  <2> QED BY <1>6, <2>3, <2>5
<1>13. Sum(votes) = Whole(t[c])
  <2> HIDE DEF votes, t, num
  <2>1. c \in Nat
    BY <1>6
  <2>2. Len(votes) = c /\ votes \in Seq(Fraction) /\ \A k \in 1..c : votes[k] = Whole(num[k])
    BY <1>12
  <2> QED BY <1>10, <1>11, <2>1, <2>2, SumOfWholes
<1>14. t[c] = Cardinality(WithModel(models, D))
  BY <1>6, <1>7
<1> QED BY <1>3, <1>4, <1>13, <1>14

\* What an earlier rollout adds is a share that does not grow.
LEMMA VoteFacts ==
  ASSUME NEW s, s.iter \in Int, NEW iter \in Int, NEW model, NEW f
  PROVE  /\ IsShare(Vote(s, iter, model, f)) /\ Vote(s, iter, model, f) \in Fraction
         /\ Vote(s, iter + 1, model, f) \in Fraction
         /\ AtMost(Vote(s, iter + 1, model, f), Vote(s, iter, model, f))
<1> DEFINE n == IF iter >= s.iter THEN iter - s.iter ELSE 0
           m == IF iter + 1 >= s.iter THEN iter + 1 - s.iter ELSE 0
<1>1. n \in Nat /\ m \in Nat /\ (m = n + 1 \/ m = n)
  OBVIOUS
<1>2. Weight(s, iter) = Decay[n] /\ Weight(s, iter + 1) = Decay[m]
  BY DEF Weight
<1> HIDE DEF n, m
<1>3. Decay[n] \in Shares /\ Decay[m] \in Shares
  BY <1>1, DecayIs
<1>4. IsShare(Decay[n]) /\ Decay[n] \in Fraction /\ Decay[m] \in Fraction
  BY <1>3 DEF Shares
<1>5. AtMost(Decay[m], Decay[n])
  BY <1>1, <1>4, AtMostItself, DecayIs, RateIsShare, TimesAtMost
<1>6. IsShare(Zero) /\ Zero \in Fraction
  BY EndsAreShares DEF IsShare
<1>7. AtMost(Zero, Zero)
  BY <1>6, AtMostItself
<1>8. CASE s.model[f] = model[f]
  BY <1>2, <1>4, <1>5, <1>8 DEF Vote
<1>9. CASE s.model[f] # model[f]
  BY <1>6, <1>7, <1>9 DEF Vote
<1> QED BY <1>8, <1>9

\* A rollout of the iteration counts as one.
LEMMA VoteOfNow ==
  ASSUME NEW x, NEW iter \in Int, NEW model, NEW f
  PROVE  Vote([model |-> x, iter |-> iter], iter, model, f) = Whole(IF x[f] = model[f] THEN 1 ELSE 0)
<1>1. iter >= iter /\ iter - iter = 0
  OBVIOUS
<1>2. Weight([model |-> x, iter |-> iter], iter) = Decay[0]
  BY <1>1 DEF Weight
<1>3. Decay[0] = Whole(1)
  BY DecayIs DEF One
<1> QED BY <1>2, <1>3 DEF Vote, Zero

SamplesOf(M) == [model : M, iter : Int]

\* What the repository of structures keeps.
Structures(M) == {s \in [samples : Seq(SamplesOf(M)), total : Nat] : Len(s.samples) <= s.total}

\* What the earlier rollouts add to an agreement.
OldVotes(structures, iter, model, f) ==
  Sum([n \in DOMAIN structures.samples |-> Vote(structures.samples[n], iter, model, f)])

\* The parts of an agreement.
LEMMA AgreementParts ==
  ASSUME NEW structures, NEW models, NEW iter, NEW model, NEW f
  PROVE  Agreement(structures, models, iter, model, f)
           = Plus(OldVotes(structures, iter, model, f), GroupVotes(models, model, f))
BY Zenon DEF Agreement, OldVotes, GroupVotes

\* The votes of samples.
VotesFor(samples, iter, model, f) == [n \in DOMAIN samples |-> Vote(samples[n], iter, model, f)]

\* Samples have the iteration they are from.
LEMMA SamplesHaveIter ==
  ASSUME NEW M, NEW samples \in Seq(SamplesOf(M))
  PROVE  \A n \in 1..Len(samples) : samples[n].iter \in Int
<1>1. \A n \in 1..Len(samples) : samples[n] \in SamplesOf(M)
  OBVIOUS
<1>2. \A s \in SamplesOf(M) : s.iter \in Int
  BY DEF SamplesOf
<1> QED BY <1>1, <1>2

\* Votes are fractions.
LEMMA VotesAre ==
  ASSUME NEW M, NEW samples \in Seq(SamplesOf(M)), NEW iter \in Int, NEW model, NEW f
  PROVE  /\ VotesFor(samples, iter, model, f) \in Seq(Fraction)
         /\ Len(VotesFor(samples, iter, model, f)) = Len(samples)
         /\ \A n \in 1..Len(samples) :
              VotesFor(samples, iter, model, f)[n] = Vote(samples[n], iter, model, f)
<1> DEFINE k == Len(samples)
           q == VotesFor(samples, iter, model, f)
<1>1. k \in Nat /\ DOMAIN samples = 1..k /\ \A n \in 1..k : samples[n].iter \in Int
  BY SamplesHaveIter
<1>2. \A n \in 1..k : Vote(samples[n], iter, model, f) \in Fraction
  BY <1>1, VoteFacts
<1>3. q = [n \in 1..k |-> Vote(samples[n], iter, model, f)]
  BY <1>1 DEF VotesFor
<1> HIDE DEF q, k
<1>4. q \in [1..k -> Fraction]
  BY <1>2, <1>3
<1>5. q \in Seq(Fraction) /\ Len(q) = k
  BY <1>1, <1>4
<1>6. \A n \in 1..k : q[n] = Vote(samples[n], iter, model, f)
  BY <1>3
<1> QED BY <1>5, <1>6 DEF q, k

\* The votes of the earlier rollouts are at most as many as they are, and do
\* not grow.
LEMMA OldVotesBounds ==
  ASSUME NEW M, NEW structures \in Structures(M), NEW iter \in Int, NEW model, NEW f
  PROVE  /\ OldVotes(structures, iter, model, f) \in Fraction
         /\ Reduced(OldVotes(structures, iter, model, f))
         /\ AtMost(Zero, OldVotes(structures, iter, model, f))
         /\ AtMost(OldVotes(structures, iter, model, f), Whole(Len(structures.samples)))
         /\ AtMost(OldVotes(structures, iter + 1, model, f), OldVotes(structures, iter, model, f))
<1> DEFINE samples == structures.samples
           k == Len(samples)
           q == VotesFor(samples, iter, model, f)
           r == VotesFor(samples, iter + 1, model, f)
<1>1. samples \in Seq(SamplesOf(M)) /\ k \in Nat /\ iter + 1 \in Int
  BY DEF Structures
<1>2. \A n \in 1..k : samples[n].iter \in Int
  BY <1>1, SamplesHaveIter
<1>3. OldVotes(structures, iter, model, f) = Sum(q) /\ OldVotes(structures, iter + 1, model, f) = Sum(r)
  BY DEF OldVotes, VotesFor
<1> HIDE DEF samples
<1>4. q \in Seq(Fraction) /\ Len(q) = k /\ \A n \in 1..k : q[n] = Vote(samples[n], iter, model, f)
  BY <1>1, VotesAre
<1>5. r \in Seq(Fraction) /\ Len(r) = k /\ \A n \in 1..k : r[n] = Vote(samples[n], iter + 1, model, f)
  BY <1>1, VotesAre
<1>6. \A n \in 1..k : /\ AtMost(r[n], q[n]) /\ AtMost(q[n], One) /\ AtMost(Zero, q[n])
  BY <1>2, <1>4, <1>5, VoteFacts, ShareBounds
<1> HIDE DEF q, r, k
<1> DEFINE ones == [n \in 1..k |-> One]
           zeros == [n \in 1..k |-> Zero]
<1>7. One \in Fraction /\ Zero \in Fraction
  BY DEF One, Zero, Whole, Fraction
<1>8. ones \in Seq(Fraction) /\ Len(ones) = k /\ zeros \in Seq(Fraction) /\ Len(zeros) = k
  BY <1>1, <1>7
<1>9. Sum(ones) = Whole(k)
  <2> DEFINE c == [n \in 1..k |-> 1]
             t == [n \in 0..k |-> n]
  <2>1. c \in [1..k -> Int]
    OBVIOUS
  <2>2. CountsBy(t, k, c)
    BY <1>1 DEF CountsBy
  <2>3. \A n \in 1..k : ones[n] = Whole(c[n])
    BY DEF One
  <2>4. t[k] = k
    BY <1>1
  <2> HIDE DEF t, c, ones
  <2>5. Sum(ones) = Whole(t[k])
    BY <1>1, <1>8, <2>1, <2>2, <2>3, SumOfWholes
  <2> QED BY <2>4, <2>5
<1>10. Sum(zeros) = Zero
  <2> DEFINE c == [n \in 1..k |-> 0]
             t == [n \in 0..k |-> 0]
  <2>1. c \in [1..k -> Int]
    OBVIOUS
  <2>2. CountsBy(t, k, c)
    BY <1>1 DEF CountsBy
  <2>3. \A n \in 1..k : zeros[n] = Whole(c[n])
    BY DEF Zero
  <2>4. t[k] = 0
    BY <1>1
  <2> HIDE DEF t, c, zeros
  <2>5. Sum(zeros) = Whole(t[k])
    BY <1>1, <1>8, <2>1, <2>2, <2>3, SumOfWholes
  <2> QED BY <2>4, <2>5 DEF Zero
<1>11. \A n \in 1..k : ones[n] = One /\ zeros[n] = Zero
  OBVIOUS
<1> HIDE DEF ones, zeros
<1>12. AtMost(Sum(q), Sum(ones))
  BY <1>11, <1>4, <1>6, <1>8, SumsInOrder
<1>13. AtMost(Sum(zeros), Sum(q))
  BY <1>11, <1>4, <1>6, <1>8, SumsInOrder
<1>14. AtMost(Sum(r), Sum(q))
  BY <1>4, <1>5, <1>6, SumsInOrder
<1>15. Sum(q) \in Fraction /\ Reduced(Sum(q))
  BY <1>4, SumReduced
<1> QED BY <1>3, <1>9, <1>10, <1>12, <1>13, <1>14, <1>15 DEF k, samples

\* A rollout that is committed in its iteration.
LEMMA VotesOfOneMore ==
  ASSUME NEW M, NEW s \in Structures(M), NEW x \in M, NEW iter \in Int, NEW model, NEW f
  PROVE  OldVotes(AddSample(s, x, iter), iter, model, f)
           = Plus(OldVotes(s, iter, model, f), Whole(IF x # NoModel /\ x[f] = model[f] THEN 1 ELSE 0))
<1> DEFINE new == AddSample(s, x, iter)
<1>1. OldVotes(s, iter, model, f) = Sum(VotesFor(s.samples, iter, model, f))
      /\ OldVotes(new, iter, model, f) = Sum(VotesFor(new.samples, iter, model, f))
  BY DEF OldVotes, VotesFor
<1>2. CASE x = NoModel
  BY <1>1, <1>2, OldVotesBounds, PlusNothing DEF AddSample, Zero, new
<1>3. CASE x # NoModel
  <2> DEFINE y == [model |-> x, iter |-> iter]
             old == s.samples
             k == Len(old)
             q == VotesFor(old, iter, model, f)
             v == Vote(y, iter, model, f)
  <2>1. new.samples = Append(old, y)
    BY <1>3 DEF AddSample
  <2>2. old \in Seq(SamplesOf(M)) /\ y \in SamplesOf(M)
    BY DEF Structures, SamplesOf
  <2>3. v = Whole(IF x # NoModel /\ x[f] = model[f] THEN 1 ELSE 0) /\ v \in Fraction
    BY <1>3, VoteOfNow, WholeReduced DEF Reduced
  <2> HIDE DEF y, old, new
  <2>4. VotesFor(Append(old, y), iter, model, f) = Append(q, v)
    <3> DEFINE r == VotesFor(Append(old, y), iter, model, f)
    <3>1. k \in Nat /\ Append(old, y) \in Seq(SamplesOf(M)) /\ Len(Append(old, y)) = k + 1
          /\ Append(old, y)[k + 1] = y /\ \A n \in 1..k : Append(old, y)[n] = old[n]
      BY <2>2
    <3>2. r \in Seq(Fraction) /\ Len(r) = k + 1 /\ \A n \in 1..(k + 1) : r[n] = Vote(Append(old, y)[n], iter, model, f)
      <4> DEFINE z == Append(old, y)
      <4>1. z \in Seq(SamplesOf(M)) /\ Len(z) = k + 1
        BY <3>1
      <4> HIDE DEF z, k
      <4>2. /\ VotesFor(z, iter, model, f) \in Seq(Fraction)
            /\ Len(VotesFor(z, iter, model, f)) = Len(z)
            /\ \A n \in 1..Len(z) : VotesFor(z, iter, model, f)[n] = Vote(z[n], iter, model, f)
        BY <4>1, VotesAre
      <4> QED BY <4>1, <4>2 DEF z
    <3>3. q \in Seq(Fraction) /\ Len(q) = k /\ \A n \in 1..k : q[n] = Vote(old[n], iter, model, f)
      BY <2>2, VotesAre
    <3> HIDE DEF r, q, v, k
    <3>4. Append(q, v) \in Seq(Fraction) /\ Len(Append(q, v)) = k + 1 /\ Append(q, v)[k + 1] = v
          /\ \A n \in 1..k : Append(q, v)[n] = q[n]
      BY <2>3, <3>1, <3>3
    <3>5. \A n \in 1..(k + 1) : r[n] = Append(q, v)[n]
      BY <3>1, <3>2, <3>3, <3>4 DEF v
    <3>6. r = Append(q, v)
      BY <3>2, <3>4, <3>5, SameSequence
    <3> QED BY <3>6 DEF r
  <2>5. q \in Seq(Fraction)
    BY <2>2, VotesAre
  <2> HIDE DEF q, v
  <2>6. Sum(Append(q, v)) = Plus(Sum(q), v)
    BY <2>3, <2>5, SumAppend
  <2>7. OldVotes(new, iter, model, f) = Plus(OldVotes(s, iter, model, f), v)
    BY <1>1, <2>1, <2>4, <2>6 DEF q, old
  <2> QED BY <2>3, <2>7 DEF new
<1> QED BY <1>2, <1>3

\* A repository of structures after one rollout more.
LEMMA AddedIsStructures ==
  ASSUME NEW M, NEW s \in Structures(M), NEW x \in M, NEW iter \in Int
  PROVE  AddSample(s, x, iter) \in Structures(M) /\ AddSample(s, x, iter).total = s.total + 1
<1> DEFINE new == AddSample(s, x, iter)
           y == [model |-> x, iter |-> iter]
<1>1. s.samples \in Seq(SamplesOf(M)) /\ s.total \in Nat /\ Len(s.samples) <= s.total /\ Len(s.samples) \in Nat
  BY DEF Structures
<1>2. y \in SamplesOf(M)
  BY DEF SamplesOf
<1>3. new = [samples |-> new.samples, total |-> s.total + 1]
      /\ (new.samples = s.samples \/ new.samples = Append(s.samples, y))
  BY DEF AddSample
<1> HIDE DEF new, y
<1>4. new.samples \in Seq(SamplesOf(M)) /\ Len(new.samples) <= s.total + 1
  <2>1. CASE new.samples = s.samples
    BY <1>1, <2>1
  <2>2. CASE new.samples = Append(s.samples, y)
    BY <1>1, <1>2, <2>2
  <2> QED BY <1>3, <2>1, <2>2
<1>5. new.total = s.total + 1 /\ s.total + 1 \in Nat
  BY <1>1, <1>3
<1>6. new \in [samples : Seq(SamplesOf(M)), total : Nat]
  BY <1>3, <1>4, <1>5
<1> QED BY <1>4, <1>5, <1>6 DEF Structures, new

\* h has the repository after each rollout of a group.
Commits(h, M, st, models, iter) ==
  /\ h \in [0..Len(models) -> Structures(M)] /\ h[0] = st
  /\ \A k \in 1..Len(models) : h[k] = AddSample(h[k - 1], models[k], iter)
  /\ AfterModels(st, models, iter) = h[Len(models)]

\* A scored group is committed one rollout after the other.
LEMMA CommitsOneByOne ==
  ASSUME NEW M, NEW st \in Structures(M), NEW models \in Seq(M), NEW iter \in Int
  PROVE  \E h : Commits(h, M, st, models, iter)
<1> DEFINE V == Structures(M)
           n == Len(models)
           F == [x \in V \X (1..n) |-> AddSample(x[1], models[x[2]], iter)]
<1>1. /\ n \in Nat /\ DOMAIN models = 1..n /\ st \in V
      /\ \A x \in V, k \in 1..n : AddSample(x, models[k], iter) \in V
  <2>1. ASSUME NEW x \in Structures(M), NEW k \in 1..n PROVE AddSample(x, models[k], iter) \in Structures(M)
    BY AddedIsStructures
  <2> QED BY <2>1
<1>2. F \in [V \X (1..n) -> V]
  BY <1>1
<1>3. \A x \in V, k \in 1..n : F[<<x, k>>] = AddSample(x, models[k], iter)
  OBVIOUS
<1> HIDE DEF n, F, V
<1> DEFINE Solves(it) ==
     it = [s \in SUBSET (1..n) |-> IF s = {} THEN st ELSE AddSample(it[s \ {Max(s)}], models[Max(s)], iter)]
<1>4. AfterModels(st, models, iter) = (CHOOSE it : Solves(it))[1..n]
  BY <1>1, Zenon DEF AfterModels, FoldLeft, MapThenFoldSet
<1>5. \E it : Solves(it)
  <2>1. PICK it \in [SUBSET (1..n) -> V] : FoldsOver(it, n, F, st)
    BY <1>1, <1>2, FoldExists
  <2>2. \A s \in SUBSET (1..n) :
          it[s] = IF s = {} THEN st ELSE AddSample(it[s \ {Max(s)}], models[Max(s)], iter)
    BY <1>1, <1>3, <2>1, MaxOfFirst DEF FoldsOver
  <2>3. it = [s \in SUBSET (1..n) |-> it[s]]
    OBVIOUS
  <2>4. Solves(it)
    BY <2>2, <2>3
  <2> HIDE DEF Solves
  <2> QED BY <2>4
<1> DEFINE fold == CHOOSE it : Solves(it)
<1>6. Solves(fold)
  BY <1>5
<1> HIDE DEF fold
<1>7. fold[{}] = st
  BY <1>6
<1>8. ASSUME NEW s \in SUBSET (1..n), s # {}, fold[s \ {Max(s)}] \in V
      PROVE  fold[s] = F[<<fold[s \ {Max(s)}], Max(s)>>]
  BY <1>1, <1>3, <1>6, <1>8, MaxOfFirst
<1> HIDE DEF Solves
<1>9. FoldsIn(fold, n, F, st, V)
  BY <1>7, <1>8 DEF FoldsIn
<1>10. PICK h \in [0..n -> V] : GoesThrough(h, n, F, st, V) /\ h[n] = fold[1..n]
  <2>1. HasHistory(fold, n, F, st, V)
    BY <1>1, <1>2, <1>9, FoldHistory
  <2> QED BY <2>1 DEF HasHistory
<1>11. \A k \in 1..n : h[k] = AddSample(h[k - 1], models[k], iter)
  <2>1. \A k \in 1..n : k - 1 \in 0..n
    BY <1>1
  <2>2. \A k \in 1..n : h[k - 1] \in V
    BY <2>1
  <2> QED BY <1>1, <1>3, <1>10, <2>2 DEF GoesThrough
<1>12. h[0] = st
  BY <1>10 DEF GoesThrough
<1> QED BY <1>4, <1>10, <1>11, <1>12 DEF Commits, fold, n, V

\* The rollouts up to the k-th that have the value of a model's feature.
SameUpTo(models, model, f, k) == {i \in 1..k : models[i] # NoModel /\ models[i][f] = model[f]}

\* A committed group counts as the rollouts that have the value do.
LEMMA AfterVotes ==
  ASSUME NEW M, NEW st \in Structures(M), NEW models \in Seq(M), NEW iter \in Int, NEW model, NEW f
  PROVE  LET after == AfterModels(st, models, iter) IN
         /\ after \in Structures(M) /\ after.total = st.total + Len(models)
         /\ OldVotes(after, iter, model, f)
              = Plus(OldVotes(st, iter, model, f), Whole(SameCount(models, model, f)))
<1> DEFINE n == Len(models)
           V == Structures(M)
           Same(k) == SameUpTo(models, model, f, k)
           start == OldVotes(st, iter, model, f)
           Good(s, k) == /\ s.total = st.total + k
                         /\ OldVotes(s, iter, model, f) = Plus(start, Whole(Cardinality(Same(k))))
<1>1. PICK h \in [0..n -> V] :
        /\ h[0] = st
        /\ \A k \in 1..n : h[k] = AddSample(h[k - 1], models[k], iter)
        /\ AfterModels(st, models, iter) = h[n]
  <2>1. PICK h : Commits(h, M, st, models, iter)
    BY CommitsOneByOne
  <2> HIDE DEF Good, Same, start
  <2> QED BY <2>1 DEF Commits
<1>2. n \in Nat /\ DOMAIN models = 1..n /\ \A k \in 1..n : models[k] \in M
  OBVIOUS
<1>3. st.total \in Nat
  BY DEF Structures
<1>4. start \in Fraction /\ Reduced(start)
  BY OldVotesBounds
<1> HIDE DEF start, n
<1>5. Good(st, 0)
  BY <1>3, <1>4, FS_EmptySet, PlusNothing DEF SameUpTo, Zero, start
<1>6. ASSUME NEW k \in 1..n, NEW s \in V, Good(s, k - 1)
      PROVE  Good(AddSample(s, models[k], iter), k)
  <2> DEFINE x == models[k]
             one == IF x # NoModel /\ x[f] = model[f] THEN 1 ELSE 0
             a == Cardinality(Same(k - 1))
             b == Cardinality(Same(k))
             new == AddSample(s, x, iter)
  <2>1. x \in M /\ k \in Nat /\ k > 0
    BY <1>2
  <2>2. new.total = s.total + 1
    BY <2>1, AddedIsStructures
  <2>3. OldVotes(new, iter, model, f) = Plus(OldVotes(s, iter, model, f), Whole(one))
    BY <2>1, VotesOfOneMore
  <2>4. a \in Nat /\ b = a + one
    <3>1. Same(k - 1) \in SUBSET (1..(k - 1))
      BY DEF SameUpTo
    <3>2. 1..k = (1..(k - 1)) \cup {k}
      BY <2>1
    <3>3. Cardinality(Same(k - 1)) \in Nat /\ Cardinality(Same(k - 1) \cup {k}) = Cardinality(Same(k - 1)) + 1
      BY <2>1, <3>1, OneRolloutMore
    <3>4. CASE one = 1
      <4>1. x # NoModel /\ x[f] = model[f]
        BY <3>4
      <4>2. Same(k) = Same(k - 1) \cup {k}
        BY <3>2, <4>1 DEF SameUpTo
      <4> QED BY <3>3, <3>4, <4>2
    <3>5. CASE one = 0
      <4>1. ~(x # NoModel /\ x[f] = model[f])
        BY <3>5
      <4>2. Same(k) = Same(k - 1)
        BY <3>2, <4>1 DEF SameUpTo
      <4> HIDE DEF Same, one
      <4> QED BY <3>3, <3>5, <4>2
    <3> QED BY <3>4, <3>5
  <2>5. s.total = st.total + (k - 1) /\ OldVotes(s, iter, model, f) = Plus(start, Whole(a))
    BY <1>6
  <2>6. one \in Int
    OBVIOUS
  <2> HIDE DEF a, b, one, new, x
  <2>7. new.total = st.total + k
    BY <1>3, <2>1, <2>2, <2>5
  <2>8. Plus(Plus(start, Whole(a)), Whole(one)) = Plus(start, Whole(a + one))
    BY <1>4, <2>4, <2>6, WholesAdd
  <2>9. OldVotes(new, iter, model, f) = Plus(start, Whole(b))
    BY <2>3, <2>4, <2>5, <2>8
  <2> QED BY <2>7, <2>9 DEF new, b, x
<1> HIDE DEF Good, V
<1> DEFINE Bad == {k \in 0..n : ~Good(h[k], k)}
<1>7. Bad = {}
  <2> SUFFICES ASSUME Bad # {} PROVE FALSE
    OBVIOUS
  <2>1. Bad \in SUBSET Nat
    BY <1>2
  <2>2. PICK k \in Bad : \A j \in Bad : k <= j
    BY <2>1, LeastElement
  <2>3. k \in 0..n /\ ~Good(h[k], k) /\ k # 0
    BY <1>1, <1>5
  <2>4. k \in 1..n /\ k - 1 \in 0..n /\ k - 1 < k
    BY <1>2, <2>3
  <2>5. k - 1 \notin Bad
    BY <2>2, <2>3, <2>4
  <2>6. Good(h[k - 1], k - 1) /\ h[k - 1] \in V
    BY <1>1, <2>4, <2>5
  <2>7. Good(AddSample(h[k - 1], models[k], iter), k)
    BY <1>6, <2>4, <2>6
  <2> QED BY <1>1, <2>3, <2>4, <2>7
<1>8. n \in 0..n
  BY <1>2
<1>9. Good(h[n], n) /\ h[n] \in V
  BY <1>1, <1>7, <1>8
<1>10. Same(n) = {i \in DOMAIN models : models[i] # NoModel /\ models[i][f] = model[f]}
  BY <1>2 DEF SameUpTo
<1>11. Cardinality(Same(n)) = SameCount(models, model, f)
  BY <1>10 DEF SameCount
<1> QED BY <1>1, <1>9, <1>11 DEF Good, V, n, start

\* A whole number of fractions in order.
LEMMA WholesInOrder ==
  ASSUME NEW m \in Int, NEW n \in Int, m <= n
  PROVE  Whole(m) \in Fraction /\ Whole(n) \in Fraction /\ AtMost(Whole(m), Whole(n))
<1>1. Whole(m) \in Fraction /\ Whole(m)[1] = m /\ Whole(m)[2] = 1 /\ Whole(n) \in Fraction /\ Whole(n)[1] = n /\ Whole(n)[2] = 1
  BY WholeReduced DEF Reduced
<1>2. m * 1 <= n * 1
  OBVIOUS
<1> QED BY <1>1, <1>2 DEF AtMost

\* As many rollouts have the value of a feature as there are, at most, and one
\* that has a model has its own value.
LEMMA SameCountBounds ==
  ASSUME NEW M, NEW models \in Seq(M), NEW model, NEW f
  PROVE  /\ SameCount(models, model, f) \in Nat /\ SameCount(models, model, f) <= Len(models)
         /\ \A i \in DOMAIN models : models[i] = model /\ model # NoModel => 1 <= SameCount(models, model, f)
<1> DEFINE n == Len(models)
           S == {i \in DOMAIN models : models[i] # NoModel /\ models[i][f] = model[f]}
<1>1. n \in Nat /\ DOMAIN models = 1..n
  OBVIOUS
<1>2. IsFiniteSet(1..n) /\ Cardinality(1..n) = n
  BY <1>1, FS_Interval
<1>3. S \in SUBSET (1..n)
  BY <1>1
<1>4. SameCount(models, model, f) = Cardinality(S)
  BY DEF SameCount
<1>5. \A i \in DOMAIN models : models[i] = model /\ model # NoModel => i \in S
  OBVIOUS
<1> HIDE DEF S, n
<1>6. IsFiniteSet(S) /\ Cardinality(S) <= n
  BY <1>2, <1>3, FS_Subset
<1>7. Cardinality(S) \in Nat /\ (Cardinality(S) = 0 => S = {})
  BY <1>6, FS_CardinalityType, FS_EmptySet
<1>8. \A i \in S : 1 <= Cardinality(S)
  BY <1>7
<1> QED BY <1>4, <1>5, <1>6, <1>7, <1>8 DEF n

\* Without a group the agreement is that of the earlier rollouts.
LEMMA AgreementAlone ==
  ASSUME NEW M, NEW s \in Structures(M), NEW iter \in Int, NEW model, NEW f
  PROVE  Agreement(s, << >>, iter, model, f) = OldVotes(s, iter, model, f)
<1>1. << >> \in Seq(M) /\ DOMAIN << >> = {}
  OBVIOUS
<1>2. SameCount(<< >>, model, f) = 0
  BY <1>1, FS_EmptySet DEF SameCount
<1>3. GroupVotes(<< >>, model, f) = Zero
  BY <1>1, <1>2, GroupVotesAre DEF Zero
<1>4. Plus(OldVotes(s, iter, model, f), Zero) = OldVotes(s, iter, model, f)
  BY OldVotesBounds, PlusNothing
<1> QED BY <1>3, <1>4, AgreementParts

\* No structures are structures, and have no votes.
LEMMA NoStructuresFacts ==
  ASSUME NEW M
  PROVE  /\ NoStructures \in Structures(M) /\ NoStructures.total = 0
         /\ \A iter, model, f : OldVotes(NoStructures, iter, model, f) = Zero
<1>1. << >> \in Seq(SamplesOf(M)) /\ Len(<< >>) = 0
  OBVIOUS
<1>2. NoStructures \in Structures(M)
  BY <1>1 DEF NoStructures, Structures
<1>3. ASSUME NEW iter, NEW model, NEW f PROVE OldVotes(NoStructures, iter, model, f) = Zero
  BY SumOfNothing DEF NoStructures, OldVotes
<1> QED BY <1>2, <1>3 DEF NoStructures

\* A capacity is all rollouts and something more.
LEMMA CapacityFacts ==
  ASSUME NEW M, NEW s, s.total \in Nat, NEW models \in Seq(M), NEW localScope \in BOOLEAN
  PROVE  /\ Capacity(s, models, localScope) \in Fraction
         /\ AtMost(Whole(s.total + Len(models)), Capacity(s, models, localScope))
<1> DEFINE different == Cardinality(DOMAIN ModelCounts(models))
           k == IF localScope /\ different > StructK THEN different ELSE StructK
           a == StructAlphaNum * k
           w == s.total + Len(models)
           x == Frac(a, StructAlphaDen)
<1>1. Capacity(s, models, localScope) = Plus(Whole(w), x)
  BY DEF Capacity
<1>2. different \in Nat /\ StructK \in Nat /\ StructAlphaNum \in Nat /\ StructAlphaDen \in Nat /\ StructAlphaDen > 0
  <2>1. different \in Nat
    BY ModelsFinite
  <2> QED BY <2>1, StructureAssumption
<1>3. k \in Nat
  BY <1>2
<1>4. a \in Nat /\ w \in Int
  BY <1>2, <1>3
<1> HIDE DEF a, w
<1>5. Stands(x, a, StructAlphaDen)
  BY <1>2, <1>4, FracStands
<1>6. Stands(Zero, 0, StructAlphaDen)
  BY <1>2 DEF Zero, Whole, Fraction, Stands
<1>7. x \in Fraction
  BY <1>5 DEF Stands
<1>8. AtMost(Zero, x)
  BY <1>2, <1>4, <1>5, <1>6, StandsInOrder
<1>9. Whole(w) \in Fraction /\ Reduced(Whole(w)) /\ Zero \in Fraction
  BY <1>4, WholeReduced DEF Reduced, Zero, Whole, Fraction
<1>10. AtMost(Whole(w), Whole(w))
  BY <1>9, AtMostItself
<1> HIDE DEF x
<1>11. AtMost(Plus(Whole(w), Zero), Plus(Whole(w), x))
  BY <1>7, <1>8, <1>9, <1>10, PlusInOrder
<1>12. Plus(Whole(w), x) \in Fraction
  BY <1>7, <1>9, PlusValue
<1>13. Plus(Whole(w), Zero) = Whole(w)
  BY <1>9, PlusNothing
<1>14. Capacity(s, models, localScope) \in Fraction /\ AtMost(Whole(w), Capacity(s, models, localScope))
  BY <1>1, <1>11, <1>12, <1>13
<1> QED BY <1>14 DEF w

\* The bounds of an agreement and of its parts.
InBounds(s, models, iter, localScope, i, f) ==
  LET model == models[i]
      psi == Agreement(s, models, iter, model, f)
      own == Whole(SameCount(models, model, f))
  IN  /\ psi = Plus(OldVotes(s, iter, model, f), own) /\ psi \in Fraction
      /\ AtMost(One, own) /\ AtMost(own, psi) /\ AtMost(psi, Capacity(s, models, localScope))
      /\ own = Agreement(NoStructures, models, iter, model, f) /\ own \in Fraction

\* An agreement is within its bounds.
LEMMA AgreementBounds ==
  ASSUME NEW M, NEW s \in Structures(M), NEW models \in Seq(M), NEW iter \in Int, NEW localScope \in BOOLEAN,
         NEW i \in DOMAIN models, models[i] # NoModel, NEW f
  PROVE  InBounds(s, models, iter, localScope, i, f)
<1> DEFINE model == models[i]
           psi == Agreement(s, models, iter, model, f)
           c == SameCount(models, model, f)
           n == Len(models)
           l == Len(s.samples)
           t == s.total
           old == OldVotes(s, iter, model, f)
           cap == Capacity(s, models, localScope)
<1>1. c \in Nat /\ c <= n /\ 1 <= c /\ n \in Nat
  BY SameCountBounds
<1>2. l \in Nat /\ t \in Nat /\ l <= t
  BY DEF Structures
<1>3. old \in Fraction /\ AtMost(Zero, old) /\ AtMost(old, Whole(l))
  BY OldVotesBounds
<1>4. psi = Plus(old, Whole(c))
  BY AgreementParts, GroupVotesAre
<1>5. cap \in Fraction /\ AtMost(Whole(t + n), cap)
  BY <1>2, CapacityFacts
<1>6. Agreement(NoStructures, models, iter, model, f) = Plus(Zero, Whole(c))
  BY AgreementParts, GroupVotesAre, NoStructuresFacts
<1> HIDE DEF psi, c, n, l, t, old, cap, model
<1>7. Whole(c) \in Fraction /\ Reduced(Whole(c)) /\ Whole(l) \in Fraction
  BY <1>1, <1>2, WholeReduced DEF Reduced
<1>8. AtMost(Whole(c), Whole(c))
  BY <1>7, AtMostItself
<1>9. Zero \in Fraction
  BY DEF Zero, Whole, Fraction
<1>10. Plus(Zero, Whole(c)) = Whole(c)
  BY <1>7, PlusNothing
<1>11. psi \in Fraction
  BY <1>3, <1>4, <1>7, PlusValue
<1>12. AtMost(One, Whole(c))
  BY <1>1, WholesInOrder DEF One
<1>13. AtMost(Whole(c), psi)
  BY <1>10, <1>3, <1>4, <1>7, <1>8, <1>9, PlusInOrder
<1>14. AtMost(psi, cap)
  <2>1. AtMost(Plus(old, Whole(c)), Plus(Whole(l), Whole(c)))
    BY <1>3, <1>7, <1>8, PlusInOrder
  <2>2. Plus(Whole(l), Whole(c)) = Whole(l + c)
    BY <1>1, <1>2, WholePlusWhole
  <2>3. l + c \in Int /\ t + n \in Int /\ l + c <= t + n
    BY <1>1, <1>2
  <2>4. Whole(l + c) \in Fraction /\ Whole(t + n) \in Fraction /\ AtMost(Whole(l + c), Whole(t + n))
    BY <2>3, WholesInOrder
  <2>5. AtMost(psi, Whole(l + c))
    BY <1>4, <2>1, <2>2
  <2>6. AtMost(Whole(l + c), cap)
    BY <1>5, <2>4, AtMostTransitive
  <2> QED BY <1>5, <1>11, <2>4, <2>5, <2>6, AtMostTransitive
<1>15. Whole(c) = Agreement(NoStructures, models, iter, model, f)
  BY <1>6, <1>10
<1> QED BY <1>4, <1>7, <1>11, <1>12, <1>13, <1>14, <1>15 DEF InBounds, psi, c, old, cap, model

\* The capacity of a committed group is that of its preview.
LEMMA CapacityAfter ==
  ASSUME NEW M, NEW st \in Structures(M), NEW models \in Seq(M), NEW s, s.total = st.total + Len(models)
  PROVE  Capacity(s, << >>, FALSE) = Capacity(st, models, FALSE)
<1>1. st.total \in Nat /\ Len(models) \in Nat /\ Len(<< >>) = 0
  BY DEF Structures
<1>2. s.total + Len(<< >>) = st.total + Len(models)
  BY <1>1
<1> QED BY <1>2 DEF Capacity

\* What StructureSound says of one rollout.
SoundFor(structures, models, iter, i) ==
  LET whole == Preview(structures, models, iter, models[i], FALSE)
      alone == Preview(structures, models, iter, models[i], TRUE)
      after == AfterModels(structures, models, iter)
      later == Preview(after, << >>, iter + 1, models[i], FALSE)
  IN  /\ Preview(after, << >>, iter, models[i], FALSE) = whole
      /\ later.capacity = whole.capacity
      /\ \A f \in DOMAIN models[i] :
           /\ AtMost(One, alone.agreement[f]) /\ AtMost(alone.agreement[f], alone.capacity)
           /\ AtMost(alone.agreement[f], whole.agreement[f]) /\ AtMost(whole.agreement[f], whole.capacity)
           /\ AtMost(later.agreement[f], whole.agreement[f])
      /\ structures = NoStructures => whole.agreement = alone.agreement

\* Structural rewards are sound for one rollout.
LEMMA StructureSoundFor ==
  ASSUME NEW M, NEW structures \in Structures(M), NEW models \in Seq(M), NEW iter \in Int,
         NEW i \in DOMAIN models, models[i] # NoModel
  PROVE  SoundFor(structures, models, iter, i)
<1> DEFINE model == models[i]
           F == DOMAIN model
           after == AfterModels(structures, models, iter)
           whole == Preview(structures, models, iter, model, FALSE)
           alone == Preview(structures, models, iter, model, TRUE)
           again == Preview(after, << >>, iter, model, FALSE)
           later == Preview(after, << >>, iter + 1, model, FALSE)
           Psi(f) == Agreement(structures, models, iter, model, f)
           Own(f) == Agreement(NoStructures, models, iter, model, f)
           cap == Capacity(structures, models, FALSE)
           less == Capacity(NoStructures, models, TRUE)
<1>1. after \in Structures(M) /\ after.total = structures.total + Len(models)
  BY AfterVotes
<1>2. ASSUME NEW f
      PROVE  /\ Agreement(after, << >>, iter, model, f) = Psi(f)
             /\ AtMost(Agreement(after, << >>, iter + 1, model, f), Psi(f))
  BY <1>1, AfterVotes, AgreementParts, GroupVotesAre, AgreementAlone, OldVotesBounds
<1>3. ASSUME NEW f
      PROVE  AtMost(One, Own(f)) /\ AtMost(Own(f), Psi(f)) /\ AtMost(Psi(f), cap)
  <2> DEFINE own == Whole(SameCount(models, models[i], f))
  <2>1. InBounds(structures, models, iter, FALSE, i, f)
    BY AgreementBounds
  <2>2. /\ AtMost(One, own) /\ AtMost(own, Psi(f)) /\ AtMost(Psi(f), cap)
        /\ own = Own(f)
    BY <2>1 DEF InBounds
  <2> HIDE DEF own, Psi, Own, cap
  <2> QED BY <2>2
<1>4. ASSUME NEW f PROVE AtMost(Own(f), less)
  BY NoStructuresFacts, AgreementBounds DEF InBounds
<1>5. Capacity(after, << >>, FALSE) = cap
  BY <1>1, CapacityAfter
<1>6. whole = [agreement |-> [f \in F |-> Psi(f)], capacity |-> cap]
  BY Zenon DEF Preview
<1>7. alone = [agreement |-> [f \in F |-> Own(f)], capacity |-> less]
  BY Zenon DEF Preview
<1>8. again = [agreement |-> [f \in F |-> Agreement(after, << >>, iter, model, f)], capacity |-> Capacity(after, << >>, FALSE)]
  BY Zenon DEF Preview
<1>9. later = [agreement |-> [f \in F |-> Agreement(after, << >>, iter + 1, model, f)], capacity |-> Capacity(after, << >>, FALSE)]
  BY Zenon DEF Preview
<1>10. structures = NoStructures => whole.agreement = alone.agreement
  <2> SUFFICES ASSUME structures = NoStructures PROVE whole.agreement = alone.agreement
    OBVIOUS
  <2>1. \A f : Psi(f) = Own(f)
    OBVIOUS
  <2> HIDE DEF Psi, Own, F, whole, alone, cap, less
  <2>2. [f \in F |-> Psi(f)] = [f \in F |-> Own(f)]
    BY <2>1
  <2> QED BY <1>6, <1>7, <2>2
<1> HIDE DEF whole, alone, again, later, after, Psi, Own, cap, less, F, model
<1>11. again = whole
  BY <1>2, <1>5, <1>6, <1>8
<1>12. later.capacity = whole.capacity
  BY <1>5, <1>6, <1>9
<1>13. ASSUME NEW f \in F
       PROVE  /\ AtMost(One, alone.agreement[f]) /\ AtMost(alone.agreement[f], alone.capacity)
              /\ AtMost(alone.agreement[f], whole.agreement[f]) /\ AtMost(whole.agreement[f], whole.capacity)
              /\ AtMost(later.agreement[f], whole.agreement[f])
  BY <1>2, <1>3, <1>4, <1>6, <1>7, <1>9
<1> QED BY <1>10, <1>11, <1>12, <1>13, Zenon DEF SoundFor, whole, alone, again, later, after, F, model

\* Of whatever rollouts, those of a group and the earlier ones, structural
\* rewards are shares of one whole, agree with what is committed and do not grow
\* with age (preview_r4, _compute_local_r4, add_sample).
THEOREM StructureAlwaysSound ==
  ASSUME NEW M, NEW structures \in Structures(M), NEW models \in Seq(M), NEW iter \in Int
  PROVE  StructureSound(structures, models, iter)
<1>1. ASSUME NEW i \in {n \in DOMAIN models : models[n] # NoModel} PROVE SoundFor(structures, models, iter, i)
  BY StructureSoundFor
<1> QED BY <1>1, Zenon DEF StructureSound, SoundFor

\* What AfterModels makes of structures are structures.
LEMMA CommittedAre ==
  ASSUME NEW M, NEW st \in Structures(M), NEW models \in Seq(M), NEW iter \in Int
  PROVE  AfterModels(st, models, iter) \in Structures(M)
<1>1. PICK h : Commits(h, M, st, models, iter)
  BY CommitsOneByOne
<1>2. Len(models) \in 0..Len(models)
  OBVIOUS
<1> QED BY <1>1, <1>2 DEF Commits
=============================================================================
