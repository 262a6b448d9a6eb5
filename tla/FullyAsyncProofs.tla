-------------------------- MODULE FullyAsyncProofs --------------------------
(***************************************************************************)
(* Theorems about FullyAsync: its types, that a sample is in one place,    *)
(* the bound on what is neither trained nor lost, and on what a finished   *)
(* run leaves behind.                                                      *)
(***************************************************************************)
EXTENDS FullyAsync, FiniteSetTheorems, SequenceTheorems, TLAPS

-----------------------------------------------------------------------------
(* Facts about the queue                                                   *)

Distinct(q) == \A i, j \in DOMAIN q : q[i] = q[j] => i = j

Messages == Samples \cup {None}

LEMMA Constants ==
  /\ Total \in Nat \ {0} /\ Required \in Nat \ {0} /\ Trigger \in Nat \ {0}
  /\ MaxRequired \in Nat \ {0} /\ PendingMax \in Nat /\ MaxCrashes \in Nat
  /\ None \notin Samples
<1>1. None \notin Samples
  BY AsyncAssumption DEF Samples
<1>2. Total \in Nat \ {0} /\ Required \in Nat \ {0} /\ Trigger \in Nat \ {0}
  BY AsyncAssumption
<1>3. Required * Trigger >= 1
  BY <1>2
<1> QED BY AsyncAssumption, <1>1, <1>2, <1>3

\* A message taken from a queue without repetitions is not in it any more.
LEMMA TailFacts ==
  ASSUME NEW S, NEW q \in Seq(S), q # << >>
  PROVE  /\ Tail(q) \in Seq(S) /\ Len(Tail(q)) = Len(q) - 1
         /\ Head(q) \in ToSet(q) /\ ToSet(Tail(q)) \subseteq ToSet(q)
         /\ Distinct(q) => Distinct(Tail(q)) /\ Head(q) \notin ToSet(Tail(q))
<1>1. /\ Tail(q) \in Seq(S) /\ Len(Tail(q)) = Len(q) - 1
      /\ \A i \in 1..Len(Tail(q)) : Tail(q)[i] = q[i + 1]
  BY HeadTailProperties
<1>2. /\ Len(q) \in Nat \ {0} /\ DOMAIN q = 1..Len(q)
      /\ DOMAIN Tail(q) = 1..(Len(q) - 1) /\ Head(q) = q[1]
  BY <1>1, EmptySeq, LenProperties
<1>3. Head(q) \in ToSet(q) /\ ToSet(Tail(q)) \subseteq ToSet(q)
  BY <1>1, <1>2 DEF ToSet
<1>4. ASSUME Distinct(q) PROVE Distinct(Tail(q)) /\ Head(q) \notin ToSet(Tail(q))
  BY <1>1, <1>2, <1>4 DEF Distinct, ToSet
<1> QED BY <1>1, <1>3, <1>4

LEMMA AppendFacts ==
  ASSUME NEW S, NEW q \in Seq(S), NEW m \in S
  PROVE  /\ Append(q, m) \in Seq(S) /\ Len(Append(q, m)) = Len(q) + 1
         /\ ToSet(Append(q, m)) = ToSet(q) \cup {m}
         /\ Distinct(q) /\ m \notin ToSet(q) => Distinct(Append(q, m))
<1>1. /\ Append(q, m) \in Seq(S) /\ Len(Append(q, m)) = Len(q) + 1
      /\ \A i \in 1..Len(q) : Append(q, m)[i] = q[i]
      /\ Append(q, m)[Len(q) + 1] = m
  BY AppendProperties
<1>2. Len(q) \in Nat /\ DOMAIN q = 1..Len(q) /\ DOMAIN Append(q, m) = 1..(Len(q) + 1)
  BY <1>1, LenProperties
<1>3. ToSet(Append(q, m)) = ToSet(q) \cup {m}
  BY <1>1, <1>2 DEF ToSet
<1>4. ASSUME Distinct(q), m \notin ToSet(q) PROVE Distinct(Append(q, m))
  BY <1>1, <1>2, <1>4 DEF Distinct, ToSet
<1> QED BY <1>1, <1>3, <1>4

\* put_sample loses at most the oldest message, and never the new one.
LEMMA PutFacts ==
  ASSUME queue \in Seq(Messages), Len(queue) <= MaxRequired, NEW m \in Messages, Put(m)
  PROVE  /\ queue' \in Seq(Messages) /\ Len(queue') <= MaxRequired
         /\ ToSet(queue') \subseteq ToSet(queue) \cup {m}
         /\ dropped \subseteq dropped' /\ dropped' \subseteq dropped \cup Queued
         /\ Distinct(queue) /\ m \notin ToSet(queue)
              => Distinct(queue') /\ ToSet(queue') \cap (dropped' \ dropped) = {}
<1> USE Constants
<1>1. CASE Len(queue) >= MaxRequired
  <2>1. queue # << >> /\ Len(queue) \in Nat
    BY <1>1, EmptySeq, LenProperties
  <2>2. /\ Tail(queue) \in Seq(Messages) /\ Len(Tail(queue)) = Len(queue) - 1
        /\ Head(queue) \in ToSet(queue) /\ ToSet(Tail(queue)) \subseteq ToSet(queue)
        /\ Distinct(queue) => Distinct(Tail(queue)) /\ Head(queue) \notin ToSet(Tail(queue))
    BY <2>1, TailFacts
  <2>3. queue' = Append(Tail(queue), m) /\ dropped' = dropped \cup ({Head(queue)} \ {None})
    BY <1>1 DEF Put
  <2>4. LET q == Append(Tail(queue), m) IN
        /\ q \in Seq(Messages) /\ Len(q) = Len(Tail(queue)) + 1
        /\ ToSet(q) = ToSet(Tail(queue)) \cup {m}
        /\ Distinct(Tail(queue)) /\ m \notin ToSet(Tail(queue)) => Distinct(q)
    BY <2>2, AppendFacts
  <2>5. /\ queue' \in Seq(Messages) /\ Len(queue') = Len(queue)
        /\ ToSet(queue') = ToSet(Tail(queue)) \cup {m}
        /\ Distinct(queue) /\ m \notin ToSet(queue) => Distinct(queue')
    BY <2>1, <2>2, <2>3, <2>4
  <2> QED BY <2>2, <2>3, <2>5 DEF Queued
<1>2. CASE ~(Len(queue) >= MaxRequired)
  <2>1. queue' = Append(queue, m) /\ dropped' = dropped
    BY <1>2 DEF Put
  <2> QED BY <1>2, <2>1, AppendFacts, LenProperties
<1> QED BY <1>1, <1>2
-----------------------------------------------------------------------------
(* Types                                                                   *)

SavedOK == saved \in [version : Nat, fed : 0..Total, trained : SUBSET Samples]

\* A sample that waits for a slot or is about to be submitted is there.
HeldOK == processor \in {"slot", "submit"} => held # None

TypeInv == TypeOK /\ SavedOK /\ HeldOK

LEMMA FedFacts == ASSUME TypeOK PROVE Fed \in taken..Total /\ Fed <= taken + PendingMax + 1
<1>1. taken \in 0..Total /\ Total \in Nat /\ PendingMax \in Nat
  BY Constants DEF TypeOK
<1>2. \E x \in {Total, taken + PendingMax + 1} : \A y \in {Total, taken + PendingMax + 1} : x <= y
  BY <1>1
<1>3. Fed \in {Total, taken + PendingMax + 1} /\ \A y \in {Total, taken + PendingMax + 1} : Fed <= y
  BY <1>2 DEF Fed, Min
<1> QED BY <1>1, <1>3

LEMMA CountFacts ==
  ASSUME TypeOK
  PROVE  /\ IsFiniteSet(active) /\ Cardinality(active) \in 0..Total
         /\ IsFiniteSet(running) /\ Cardinality(running) \in 0..Cardinality(active)
<1>1. IsFiniteSet(Samples) /\ Cardinality(Samples) = Total
  BY FS_Interval, Constants DEF Samples
<1>2. IsFiniteSet(active) /\ Cardinality(active) <= Total /\ Cardinality(active) \in Nat
  BY <1>1, FS_Subset, FS_CardinalityType DEF TypeOK
<1>3. IsFiniteSet(running) /\ Cardinality(running) <= Cardinality(active) /\ Cardinality(running) \in Nat
  BY <1>2, FS_Subset, FS_CardinalityType DEF TypeOK
<1> QED BY <1>2, <1>3, Constants

\* What the operations of the lock keep.
LEMMA LockFacts ==
  ASSUME lock \in Seq(Coroutines)
  PROVE  /\ \A c \in Coroutines : Append(lock, c) \in Seq(Coroutines)
         /\ lock # << >> => /\ Tail(lock) \in Seq(Coroutines)
                            /\ \A c \in Coroutines : Append(Tail(lock), c) \in Seq(Coroutines)
<1>1. \A c \in Coroutines : Append(lock, c) \in Seq(Coroutines)
  BY AppendProperties
<1>2. ASSUME lock # << >>
      PROVE  /\ Tail(lock) \in Seq(Coroutines)
             /\ \A c \in Coroutines : Append(Tail(lock), c) \in Seq(Coroutines)
  <2>1. Tail(lock) \in Seq(Coroutines)
    BY <1>2, HeadTailProperties
  <2> QED BY <2>1, AppendProperties
<1> QED BY <1>1, <1>2

LEMMA NotifyFacts ==
  ASSUME NEW p \in Seq(Coroutines), NEW q \in Seq(Coroutines), NotifyAll(p, q)
  PROVE  /\ lock' \in Seq(Coroutines)
         /\ p # << >> => lock' # << >> /\ Head(lock') = Head(p)
         /\ processor' \in {processor, "rest"}
<1> DEFINE s == <<"processor">>
<1>1. s \in Seq(Coroutines) /\ p \o s \in Seq(Coroutines)
  <2>1. s \in Seq(Coroutines)
    BY DEF Coroutines
  <2> QED BY <2>1, ConcatProperties
<1>2. \/ lock' = (p \o s) \o q
      \/ lock' = p \o q
  BY DEF NotifyAll
<1>3. lock' \in Seq(Coroutines)
  <2> HIDE DEF s
  <2> QED BY <1>1, <1>2, ConcatProperties
<1>4. ASSUME p # << >> PROVE lock' # << >> /\ Head(lock') = Head(p)
  <2> HIDE DEF s
  <2>1. Len(p) \in Nat \ {0} /\ Len(s) \in Nat /\ Len(q) \in Nat
    BY <1>1, <1>4, EmptySeq, LenProperties
  <2>2. (p \o s)[1] = p[1] /\ Len(p \o s) = Len(p) + Len(s)
    BY <1>1, <2>1, ConcatProperties
  <2>3. lock'[1] = p[1] /\ Len(lock') # 0
    <3>1. CASE lock' = (p \o s) \o q
      <4>1. /\ Len(lock') = Len(p \o s) + Len(q)
            /\ \A i \in 1..(Len(p \o s) + Len(q)) : lock'[i] = IF i <= Len(p \o s) THEN (p \o s)[i] ELSE q[i - Len(p \o s)]
        BY <1>1, <3>1, ConcatProperties
      <4> QED BY <2>1, <2>2, <4>1
    <3>2. CASE lock' = p \o q
      BY <2>1, <3>2, ConcatProperties
    <3> QED BY <1>2, <3>1, <3>2
  <2> QED BY <1>3, <2>3, EmptySeq
<1>5. processor' \in {processor, "rest"}
  BY DEF NotifyAll
<1> QED BY <1>3, <1>4, <1>5

LEMMA TypesKept == TypeInv /\ [Next]_vars => TypeInv'
<1> SUFFICES ASSUME TypeInv, [Next]_vars PROVE TypeInv'
  OBVIOUS
<1> USE Constants DEF TypeInv, TypeOK, SavedOK, HeldOK, Ask, AskAgain, Release, Holds,
                      rollouter, locking, messages, training
<1>1. /\ \A c \in Coroutines : Append(lock, c) \in Seq(Coroutines)
      /\ lock # << >> => /\ Tail(lock) \in Seq(Coroutines)
                         /\ \A c \in Coroutines : Append(Tail(lock), c) \in Seq(Coroutines)
  BY LockFacts
<1>2. {"processor", "reset", "look", "resume"} \subseteq Coroutines
  BY DEF Coroutines
<1>3. queue # << >> => /\ Tail(queue) \in Seq(Messages) /\ Len(Tail(queue)) <= MaxRequired
                       /\ Head(queue) \in Messages
  BY TailFacts, LenProperties, HeadTailProperties DEF Messages
<1>4. ASSUME NEW m \in Messages, Put(m)
      PROVE  /\ queue' \in Seq(Messages) /\ Len(queue') <= MaxRequired
             /\ dropped' \subseteq Samples
  <2>1. dropped' \subseteq dropped \cup Queued /\ queue' \in Seq(Messages) /\ Len(queue') <= MaxRequired
    BY <1>4, PutFacts DEF Messages
  <2>2. Queued \subseteq Samples
    BY LenProperties DEF Queued, ToSet, Messages
  <2> QED BY <2>1, <2>2
<1> USE DEF Messages
<1>5. CASE CheckPause
  BY <1>1, <1>2, <1>5 DEF CheckPause
<1>6. CASE CheckTake
  BY <1>1, <1>2, <1>6 DEF CheckTake, Samples
<1>7. CASE CheckEnd
  BY <1>1, <1>2, <1>7 DEF CheckEnd
<1>8. CASE Pause
  BY <1>1, <1>2, <1>8 DEF Pause
<1>9. CASE Drain
  BY <1>1, <1>2, <1>9 DEF Drain, Reap
<1>10. CASE Rest
  BY <1>1, <1>2, <1>10 DEF Rest
<1>11. CASE Slot
  BY <1>1, <1>2, <1>11 DEF Slot, Reap
<1>12. CASE Submit
  BY <1>1, <1>2, <1>12 DEF Submit
<1>13. CASE EndDrain
  BY <1>1, <1>2, <1>13 DEF EndDrain, Reap
<1>14. CASE End
  BY <1>1, <1>2, <1>4, <1>14 DEF End
<1>15. CASE MonitorWake
  BY <1>1, <1>2, <1>15 DEF MonitorWake
<1>16. CASE MonitorResume
  <2>1. Tail(lock) \in Seq(Coroutines) /\ <<"look">> \in Seq(Coroutines)
    BY <1>1, <1>2, <1>16 DEF MonitorResume
  <2>2. lock' \in Seq(Coroutines) /\ processor' \in {processor, "rest"}
    BY <1>16, <2>1, NotifyFacts DEF MonitorResume
  <2> QED BY <1>16, <2>2 DEF MonitorResume
<1>17. CASE MonitorLook
  BY <1>1, <1>2, <1>17 DEF MonitorLook
<1>18. CASE ResetStart
  <2>1. lock' \in Seq(Coroutines) /\ processor' \in {processor, "rest"}
    BY <1>18, NotifyFacts, EmptySeq DEF ResetStart
  <2>2. Cardinality(active) \in 0..Total
    BY CountFacts
  <2> QED BY <1>18, <2>1, <2>2 DEF ResetStart
<1>19. CASE ResetEnd
  <2>1. Len(queue) \in Nat
    BY LenProperties
  <2> QED BY <1>1, <1>2, <1>19, <2>1 DEF ResetEnd, StalenessNow
<1>20. CASE Collect
  BY <1>3, <1>20 DEF Collect
<1>21. CASE Stop
  BY <1>3, <1>21 DEF Stop
<1>22. CASE Train
  BY <1>22 DEF Train
<1>23. CASE Sync
  BY <1>1, <1>2, <1>23 DEF Sync
<1>24. CASE Save
  BY <1>24, FedFacts DEF Save, Checkpoint
<1>25. CASE LastSave
  BY <1>25, FedFacts DEF LastSave, Checkpoint
<1>26. CASE Crash
  <2>1. /\ queue' \in Seq(Messages) /\ Len(queue') <= MaxRequired /\ lock' \in Seq(Coroutines)
    BY <1>26, EmptySeq DEF Crash
  <2>2. dropped' \subseteq Samples /\ saved' = saved /\ trained' \subseteq Samples /\ version' \in Nat
        /\ taken' \in 0..Total /\ crashes' \in 0..MaxCrashes /\ localStep' \in 1..Trigger
    BY <1>26 DEF Crash, ResumeAt
  <2> QED BY <1>26, <2>1, <2>2 DEF Crash
<1>27. ASSUME NEW x \in running, Finish(x) PROVE TypeInv'
  BY <1>4, <1>27 DEF Finish
<1>28. CASE UNCHANGED vars
  BY <1>28 DEF vars
<1> QED BY <1>5, <1>6, <1>7, <1>8, <1>9, <1>10, <1>11, <1>12, <1>13, <1>14, <1>15, <1>16, <1>17, <1>18,
           <1>19, <1>20, <1>21, <1>22, <1>23, <1>24, <1>25, <1>26, <1>27, <1>28
        DEF Next, Processor, Monitor, Reset, Trainer

LEMMA TypesStart == Init => TypeInv
<1> SUFFICES ASSUME Init PROVE TypeInv
  OBVIOUS
<1>1. lock \in Seq(Coroutines) /\ queue \in Seq(Samples \cup {None}) /\ Len(queue) <= MaxRequired
  BY Constants, EmptySeq DEF Init
<1>2. SavedOK /\ HeldOK
  BY Constants DEF Init, SavedOK, HeldOK
<1>3. /\ held \in Samples \cup {None} /\ taken \in 0..Total
      /\ running \subseteq active /\ active \subseteq Samples
      /\ dropped \subseteq Samples /\ collected \subseteq Samples /\ trained \subseteq Samples
  BY Constants DEF Init
<1>4. /\ staleness \in Nat /\ version \in Nat /\ crashes \in 0..MaxCrashes
      /\ localStep \in 1..Trigger /\ counted \in 0..Total \cup {None}
  <2>1. 1 \in 1..Trigger /\ 0 \in 0..MaxCrashes
    BY Constants
  <2> QED BY <2>1 DEF Init
<1>5. paused \in BOOLEAN /\ closing \in BOOLEAN
  BY DEF Init
<1>6. /\ processor \in {"check", "pause", "drain", "rest", "waiting", "slot", "submit", "end", "done"}
      /\ trainer \in {"collect", "train", "sync", "reset", "save", "stopping", "stopped"}
  BY DEF Init
<1>7. TypeOK
  BY <1>1, <1>3, <1>4, <1>5, <1>6 DEF TypeOK
<1> QED BY <1>2, <1>7 DEF TypeInv

\* The variables keep their types: no sample beyond the data, no more messages
\* than the queue holds, a sample in hand whenever one is submitted
\* (_processor_worker, put_sample, fit_step).
THEOREM TypeCorrect == Spec => []TypeOK
<1>1. TypeInv => TypeOK
  BY DEF TypeInv
<1> QED BY <1>1, TypesStart, TypesKept, PTL DEF Spec
-----------------------------------------------------------------------------
(* A sample is in one place                                                *)

\* The finish signal is the last message.
FinishLast == None \in ToSet(queue) => processor = "done"

\* Nothing is further on than what has been taken from the data.
NothingAhead ==
  /\ running \cup Queued \cup collected \cup trained \cup dropped \subseteq 1..taken
  /\ held # None => held \in 1..taken

\* The checkpoint knows of nothing that its position does not cover.
SavedBehind == saved.trained \subseteq trained /\ saved.trained \subseteq 1..saved.fed

PlacesInv == OnePlace /\ FinishLast /\ NothingAhead /\ SavedBehind

LEMMA PlacesKept == TypeInv /\ PlacesInv /\ [Next]_vars => PlacesInv'
<1> SUFFICES ASSUME TypeInv, PlacesInv, [Next]_vars PROVE PlacesInv'
  OBVIOUS
<1> USE Constants
<1>1. /\ queue \in Seq(Messages) /\ Len(queue) <= MaxRequired /\ Distinct(queue)
      /\ None \notin Samples /\ taken \in 0..Total /\ held \in Samples \cup {None}
      /\ running \subseteq Samples /\ collected \subseteq Samples
      /\ trained \subseteq Samples /\ dropped \subseteq Samples
  BY DEF TypeInv, TypeOK, PlacesInv, OnePlace, Messages, Distinct
<1>2. ASSUME NEW m \in Messages, Put(m), m \notin ToSet(queue)
      PROVE  /\ Distinct(queue') /\ ToSet(queue') \subseteq ToSet(queue) \cup {m}
             /\ dropped' \subseteq dropped \cup Queued
             /\ ToSet(queue') \cap (dropped' \ dropped) = {}
  BY <1>1, <1>2, PutFacts
<1>3. ASSUME queue # << >>, queue' = Tail(queue)
      PROVE  /\ Distinct(queue') /\ ToSet(queue') \subseteq ToSet(queue) \ {Head(queue)}
             /\ Head(queue) \in ToSet(queue)
  BY <1>1, <1>3, TailFacts
<1> USE DEF PlacesInv, OnePlace, FinishLast, NothingAhead, SavedBehind
<1>4. ASSUME UNCHANGED <<held, taken, running, queue, dropped, collected, trained, saved>>,
             processor = "done" => processor' = "done"
      PROVE  PlacesInv'
  BY <1>4 DEF Queued
<1>5. CASE CheckPause \/ CheckEnd \/ Pause \/ Drain \/ Rest \/ Slot \/ EndDrain
  BY <1>4, <1>5 DEF CheckPause, CheckEnd, Pause, Drain, Rest, Slot, EndDrain, messages, training
<1>6. CASE CheckTake
  BY <1>1, <1>6 DEF CheckTake, Queued, messages, training
<1>7. CASE Submit
  <2>1. held # None
    BY <1>7 DEF TypeInv, HeldOK, Submit
  <2> QED BY <1>1, <1>7, <2>1 DEF Submit, Queued, messages, training
<1>8. CASE End
  <2>1. Put(None) /\ None \in Messages /\ None \notin ToSet(queue) /\ processor' = "done"
    BY <1>8 DEF End, Messages
  <2>2. UNCHANGED <<held, taken, running, collected, trained, saved>>
    BY <1>8 DEF End, training
  <2> QED BY <1>1, <1>2, <2>1, <2>2 DEF Queued, Distinct
<1>9. CASE MonitorWake \/ MonitorResume \/ MonitorLook \/ ResetStart \/ ResetEnd
  BY <1>4, <1>9
     DEF MonitorWake, MonitorResume, MonitorLook, ResetStart, ResetEnd, NotifyAll, rollouter, messages, training
<1>10. CASE Collect
  <2>1. /\ Distinct(queue') /\ ToSet(queue') \subseteq ToSet(queue) \ {Head(queue)}
        /\ Head(queue) \in Queued
    BY <1>3, <1>10 DEF Collect, Queued
  <2>2. /\ collected' = collected \cup {Head(queue)}
        /\ UNCHANGED <<held, taken, running, dropped, trained, saved, processor>>
    BY <1>10 DEF Collect, rollouter
  <2> QED BY <1>1, <2>1, <2>2 DEF Queued, Distinct
<1>11. CASE Stop
  <2>1. Distinct(queue') /\ ToSet(queue') \subseteq ToSet(queue)
    BY <1>3, <1>11 DEF Stop
  <2>2. collected' = {} /\ UNCHANGED <<held, taken, running, dropped, trained, saved, processor>>
    BY <1>11 DEF Stop, rollouter
  <2> QED BY <1>1, <2>1, <2>2 DEF Queued, Distinct
<1>12. CASE Train
  BY <1>1, <1>12 DEF Train, Queued, rollouter, messages
<1>13. CASE Sync
  BY <1>4, <1>13 DEF Sync, rollouter, messages
<1>14. CASE Save \/ LastSave
  <2>1. Fed \in taken..Total
    BY FedFacts DEF TypeInv
  <2>2. trained \subseteq 1..Fed
    BY <1>1, <2>1
  <2>3. /\ saved' = saved \/ (saved'.trained = trained /\ saved'.fed = Fed)
        /\ UNCHANGED <<held, taken, running, queue, dropped, collected, trained, processor>>
    BY <1>14 DEF Save, LastSave, Checkpoint, rollouter, messages
  <2>4. SavedBehind'
    BY <2>2, <2>3
  <2> QED BY <2>3, <2>4 DEF Queued
<1>15. CASE Crash
  <2>1. /\ queue' = << >> /\ held' = None /\ running' = {} /\ collected' = {}
        /\ trained' = saved.trained /\ taken' = saved.fed /\ saved' = saved
        /\ dropped' = {s \in dropped : s <= saved.fed}
    BY <1>15 DEF Crash, ResumeAt
  <2>2. ToSet(queue') = {} /\ Distinct(queue')
    BY <2>1 DEF ToSet, Distinct
  <2>3. dropped' \subseteq dropped /\ dropped' \subseteq 1..saved.fed
    BY <1>1, <2>1 DEF TypeInv, SavedOK, Samples
  <2> QED BY <1>1, <2>1, <2>2, <2>3 DEF Queued, Distinct
<1>16. ASSUME NEW x \in running, Finish(x) PROVE PlacesInv'
  <2>1. x \in Messages /\ x # None /\ x \notin ToSet(queue) /\ Put(x)
    BY <1>1, <1>16 DEF Finish, Queued, Messages
  <2>2. /\ running' = running \ {x}
        /\ UNCHANGED <<held, taken, collected, trained, saved, processor>>
    BY <1>16 DEF Finish, training
  <2> QED BY <1>1, <1>2, <2>1, <2>2 DEF Queued, Distinct
<1>17. CASE UNCHANGED vars
  BY <1>4, <1>17 DEF vars, rollouter, messages, training
<1> QED BY <1>5, <1>6, <1>7, <1>8, <1>9, <1>10, <1>11, <1>12, <1>13, <1>14, <1>15, <1>16, <1>17
        DEF Next, Processor, Monitor, Reset, Trainer

LEMMA PlacesHold == Spec => [](TypeInv /\ PlacesInv)
<1>1. ASSUME Init PROVE PlacesInv
  <2>1. ToSet(queue) = {} /\ Distinct(queue)
    BY <1>1 DEF Init, ToSet, Distinct
  <2>2. /\ held = None /\ running = {} /\ collected = {} /\ trained = {} /\ dropped = {}
        /\ saved.trained = {}
    BY <1>1 DEF Init
  <2> QED BY <2>1, <2>2 DEF PlacesInv, OnePlace, FinishLast, NothingAhead, SavedBehind, Queued, Distinct
<1> QED BY <1>1, TypesStart, TypesKept, PlacesKept, PTL DEF Spec

\* No sample is generated twice, trained twice or trained after the full queue
\* lost it, whatever the order of tasks, messages, pauses, resets and crashes
\* (_processor_worker, put_sample, _get_samples_from_queue, the resume).
THEOREM SamplesInOnePlace == Spec => []OnePlace
<1>1. PlacesInv => OnePlace
  BY DEF PlacesInv
<1> QED BY <1>1, PlacesHold, PTL
-----------------------------------------------------------------------------
(* The bound on what is neither trained nor lost                           *)

\* While the reset waits it holds the lock, so nothing is submitted, and what
\* it has counted covers what is still generated.
ResetCounts ==
  counted # None => lock # << >> /\ Head(lock) = "reset" /\ Cardinality(running) <= counted

FreshInv == FreshnessBound /\ Outstanding <= staleness + 1 /\ ResetCounts

LEMMA IntervalFacts == \A n \in Nat : IsFiniteSet(1..n) /\ Cardinality(1..n) = n
BY FS_Interval

\* The sizes that Outstanding adds up.
LEMMA SizeFacts ==
  ASSUME NEW r \in SUBSET Samples, NEW h, NEW q \in Seq(Messages)
  PROVE  /\ IsFiniteSet(r) /\ Cardinality(r) \in Nat
         /\ Cardinality({h} \ {None}) = IF h = None THEN 0 ELSE 1
         /\ IsFiniteSet(ToSet(q) \ {None})
         /\ Cardinality(ToSet(q) \ {None}) \in Nat /\ Cardinality(ToSet(q) \ {None}) <= Len(q)
<1>1. Len(q) \in Nat /\ DOMAIN q = 1..Len(q)
  BY LenProperties
<1>2. IsFiniteSet(1..Len(q)) /\ Cardinality(1..Len(q)) = Len(q)
  BY <1>1, IntervalFacts
<1>3. IsFiniteSet(ToSet(q)) /\ Cardinality(ToSet(q)) <= Len(q)
  <2> DEFINE f == [i \in 1..Len(q) |-> q[i]]
  <2>1. f \in Surjection(1..Len(q), ToSet(q))
    BY <1>1 DEF Surjection, ToSet
  <2> HIDE DEF f
  <2> QED BY <1>2, <2>1, FS_Surjection
<1>4. /\ IsFiniteSet(ToSet(q) \ {None}) /\ Cardinality(ToSet(q) \ {None}) \in Nat
      /\ Cardinality(ToSet(q) \ {None}) <= Len(q)
  <2>1. Cardinality(ToSet(q)) \in Nat
    BY <1>3, FS_CardinalityType
  <2>2. ToSet(q) \ {None} \in SUBSET ToSet(q)
    OBVIOUS
  <2>3. /\ IsFiniteSet(ToSet(q) \ {None})
        /\ Cardinality(ToSet(q) \ {None}) <= Cardinality(ToSet(q))
    BY <1>3, <2>2, FS_Subset
  <2>4. Cardinality(ToSet(q) \ {None}) \in Nat
    BY <2>3, FS_CardinalityType
  <2> QED BY <1>1, <1>3, <2>1, <2>3, <2>4
<1>5. Cardinality({h} \ {None}) = IF h = None THEN 0 ELSE 1
  <2>1. CASE h = None
    <3>1. {h} \ {None} = {}
      BY <2>1
    <3> QED BY <2>1, <3>1, FS_EmptySet
  <2>2. CASE h # None
    <3>1. {h} \ {None} = {h}
      BY <2>2
    <3> QED BY <2>2, <3>1, FS_Singleton
  <2> QED BY <2>1, <2>2
<1>6. IsFiniteSet(r) /\ Cardinality(r) \in Nat
  <2>1. IsFiniteSet(Samples)
    BY FS_Interval, Constants DEF Samples
  <2> QED BY <2>1, FS_Subset, FS_CardinalityType
<1> QED BY <1>4, <1>5, <1>6

\* No step but the taking of a sample adds to what is outstanding, and that
\* one adds a single sample.
LEMMA OutstandingGrows ==
  ASSUME TypeInv, TypeInv', PlacesInv, [Next]_vars
  PROVE  /\ Outstanding \in Nat /\ Outstanding' \in Nat
         /\ Outstanding' <= Outstanding \/ (CheckTake /\ Outstanding' <= Outstanding + 1)
         /\ Cardinality(running) \in Nat /\ Cardinality(running') \in Nat
         /\ Cardinality(running') <= Cardinality(running) \/ Submit
<1> DEFINE h  == Cardinality({held} \ {None})
           nh == Cardinality({held'} \ {None})
           r  == Cardinality(running)
           nr == Cardinality(running')
           q  == Cardinality(Queued)
           nq == Cardinality(Queued')
<1>1. /\ running \in SUBSET Samples /\ queue \in Seq(Messages) /\ Distinct(queue)
      /\ Len(queue) <= MaxRequired
  BY DEF TypeInv, TypeOK, Messages, PlacesInv, OnePlace, Distinct
<1>2. running' \in SUBSET Samples /\ queue' \in Seq(Messages)
  BY DEF TypeInv, TypeOK, Messages
<1>3. Queued = ToSet(queue) \ {None} /\ Queued' = ToSet(queue') \ {None}
  BY DEF Queued
<1>4. /\ r \in Nat /\ q \in Nat /\ h = IF held = None THEN 0 ELSE 1
      /\ IsFiniteSet(running) /\ IsFiniteSet(Queued)
  BY <1>1, <1>3, SizeFacts
<1>5. nr \in Nat /\ nq \in Nat /\ nh = IF held' = None THEN 0 ELSE 1
  BY <1>2, <1>3, SizeFacts
<1>6. Outstanding = r + h + q /\ Outstanding' = nr + nh + nq
  BY DEF Outstanding
<1>7. \A x : /\ Cardinality(running \cup {x}) = IF x \in running THEN r ELSE r + 1
             /\ Cardinality(running \ {x}) = IF x \in running THEN r - 1 ELSE r
             /\ Cardinality(Queued \cup {x}) = IF x \in Queued THEN q ELSE q + 1
             /\ IsFiniteSet(Queued \cup {x})
  BY <1>4, FS_AddElement, FS_RemoveElement
<1>8. ASSUME NEW x, Queued' \subseteq Queued \cup {x} PROVE nq <= q + 1
  <2>1. Cardinality(Queued') <= Cardinality(Queued \cup {x})
    BY <1>7, <1>8, FS_Subset
  <2> QED BY <1>4, <1>5, <1>7, <2>1
<1>9. ASSUME Queued' \subseteq Queued PROVE nq <= q
  BY <1>4, <1>9, FS_Subset
<1> SUFFICES /\ Outstanding' <= Outstanding \/ (CheckTake /\ Outstanding' <= Outstanding + 1)
             /\ nr <= r \/ Submit
  BY <1>4, <1>5, <1>6
<1> HIDE DEF h, nh, r, nr, q, nq
<1>10. ASSUME UNCHANGED <<held, running, queue>>
       PROVE  nr = r /\ nh = h /\ nq = q
  BY <1>10 DEF h, nh, r, nr, q, nq, Queued
<1>11. ASSUME UNCHANGED <<held, running>>
       PROVE  nr = r /\ nh = h
  BY <1>11 DEF h, nh, r, nr
<1>12. CASE CheckTake
  <2>1. UNCHANGED <<running, queue>>
    BY <1>12 DEF CheckTake, messages
  <2>2. nr = r /\ nq = q
    BY <2>1 DEF r, nr, q, nq, Queued
  <2> QED BY <1>4, <1>5, <1>6, <1>12, <2>2
<1>13. CASE Submit
  <2>1. held # None /\ held' = None /\ running' = running \cup {held} /\ queue' = queue
    BY <1>13 DEF Submit, TypeInv, HeldOK, messages
  <2>2. nq = q
    BY <2>1 DEF q, nq, Queued
  <2>3. nr <= r + 1
    BY <1>4, <1>7, <2>1 DEF nr
  <2> QED BY <1>4, <1>5, <1>6, <1>13, <2>1, <2>2, <2>3
<1>14. CASE End
  <2>1. UNCHANGED <<held, running>> /\ Put(None) /\ None \in Messages
    BY <1>14 DEF End, Messages
  <2>2. Queued' \subseteq Queued
    BY <1>1, <2>1, PutFacts DEF Queued
  <2> QED BY <1>4, <1>5, <1>6, <1>9, <1>11, <2>1, <2>2
<1>15. CASE Collect \/ Stop
  <2>1. UNCHANGED <<held, running>> /\ queue # << >> /\ queue' = Tail(queue)
    BY <1>15 DEF Collect, Stop, rollouter
  <2>2. Queued' \subseteq Queued
    BY <1>1, <2>1, TailFacts DEF Queued
  <2> QED BY <1>4, <1>5, <1>6, <1>9, <1>11, <2>1, <2>2
<1>16. CASE Crash
  <2>1. running' = {} /\ held' = None /\ queue' = << >>
    BY <1>16 DEF Crash
  <2>2. Queued' = {}
    BY <2>1 DEF Queued, ToSet
  <2>3. nr = 0 /\ nq = 0
    BY <2>1, <2>2, FS_EmptySet DEF nr, nq
  <2> QED BY <1>4, <1>5, <1>6, <2>1, <2>3
<1>17. ASSUME NEW x \in running, Finish(x)
       PROVE  nr = r - 1 /\ nh = h /\ nq <= q + 1
  <2>1. UNCHANGED held /\ running' = running \ {x} /\ Put(x) /\ x \in Messages
    BY <1>1, <1>17 DEF Finish, Messages
  <2>2. Queued' \subseteq Queued \cup {x}
    BY <1>1, <2>1, PutFacts DEF Queued
  <2>3. nr = r - 1
    BY <1>7, <1>17, <2>1 DEF nr
  <2>4. nh = h
    BY <2>1 DEF nh, h
  <2> QED BY <1>8, <2>2, <2>3, <2>4
<1>18. CASE \/ CheckPause \/ CheckEnd \/ Pause \/ Drain \/ Rest \/ Slot \/ EndDrain
            \/ MonitorWake \/ MonitorResume \/ MonitorLook \/ ResetStart \/ ResetEnd
            \/ Train \/ Sync \/ Save \/ LastSave \/ UNCHANGED vars
  <2>1. UNCHANGED <<held, running, queue>>
    BY <1>18 DEF CheckPause, CheckEnd, Pause, Drain, Rest, Slot, EndDrain, MonitorWake, MonitorResume,
                 MonitorLook, ResetStart, ResetEnd, Train, Sync, Save, LastSave, vars, rollouter, messages
  <2> QED BY <1>4, <1>5, <1>6, <1>10, <2>1
<1> QED BY <1>4, <1>5, <1>6, <1>12, <1>13, <1>14, <1>15, <1>16, <1>17, <1>18
        DEF Next, Processor, Monitor, Reset, Trainer

LEMMA ResetCountsKept ==
  ASSUME TypeInv, TypeInv', PlacesInv, FreshInv, [Next]_vars
  PROVE  ResetCounts'
<1>1. /\ lock \in Seq(Coroutines) /\ Cardinality(running) \in Nat /\ Cardinality(running') \in Nat
      /\ counted' \in 0..Total \cup {None} /\ ResetCounts
  BY OutstandingGrows DEF TypeInv, TypeOK, FreshInv
<1>2. lock # << >> => \A c \in Coroutines : /\ Append(lock, c) # << >>
                                            /\ Head(Append(lock, c)) = Head(lock)
  <2>1. SUFFICES ASSUME lock # << >>, NEW c \in Coroutines
                 PROVE  Append(lock, c) # << >> /\ Head(Append(lock, c)) = Head(lock)
    OBVIOUS
  <2>2. Len(lock) \in Nat \ {0}
    BY <1>1, <2>1, EmptySeq, LenProperties
  <2>3. Append(lock, c) \in Seq(Coroutines) /\ Len(Append(lock, c)) # 0 /\ Append(lock, c)[1] = lock[1]
    BY <1>1, <2>2, AppendProperties
  <2> QED BY <2>3, EmptySeq
<1>3. ASSUME counted' = counted, running' \subseteq running,
             \/ lock' = lock
             \/ \E c \in Coroutines : Ask(c)
             \/ \E c \in Coroutines \ {"reset"} : Holds(c)
      PROVE  ResetCounts'
  <2>1. SUFFICES ASSUME counted # None
                 PROVE  lock' # << >> /\ Head(lock') = "reset" /\ Cardinality(running') <= counted
    BY <1>3 DEF ResetCounts
  <2>2. counted \in Nat /\ lock # << >> /\ Head(lock) = "reset" /\ Cardinality(running) <= counted
    BY <1>1, <2>1 DEF ResetCounts, TypeInv, TypeOK
  <2>3. lock' # << >> /\ Head(lock') = "reset"
    BY <1>2, <1>3, <2>2 DEF Ask, Holds
  <2>4. Cardinality(running') <= Cardinality(running)
    BY <1>3, FS_Subset, CountFacts DEF TypeInv
  <2> QED BY <1>1, <2>2, <2>3, <2>4
<1>4. {"processor", "look", "resume"} \subseteq Coroutines \ {"reset"} /\ "reset" \in Coroutines
  BY DEF Coroutines
<1>5. CASE CheckPause \/ CheckTake \/ CheckEnd \/ MonitorWake \/ Sync
  <2>1. /\ counted' = counted /\ running' = running
        /\ \E c \in {"processor", "look", "resume", "reset"} : Ask(c)
    BY <1>5 DEF CheckPause, CheckTake, CheckEnd, MonitorWake, Sync, rollouter
  <2> QED BY <1>3, <1>4, <2>1
<1>6. CASE Pause \/ Drain \/ Rest \/ Slot \/ EndDrain \/ End \/ MonitorResume \/ MonitorLook
  <2>1. /\ counted' = counted /\ running' = running
        /\ \E c \in {"processor", "look", "resume"} : Holds(c)
    BY <1>6 DEF Pause, Drain, Rest, Slot, EndDrain, End, MonitorResume, MonitorLook, Reap, rollouter
  <2> QED BY <1>3, <1>4, <2>1
<1>7. CASE Submit
  BY <1>4, <1>7, <1>1 DEF Submit, Holds, ResetCounts, TypeInv, TypeOK
<1>8. CASE ResetStart
  <2>1. lock # << >> /\ Head(lock) = "reset" /\ counted' = Cardinality(active) /\ NotifyAll(lock, << >>)
        /\ running' = running
    BY <1>8 DEF ResetStart, Holds
  <2>2. lock' # << >> /\ Head(lock') = Head(lock)
    BY <1>1, <2>1, NotifyFacts, EmptySeq
  <2>3. Cardinality(running) <= Cardinality(active)
    BY CountFacts DEF TypeInv
  <2> QED BY <2>1, <2>2, <2>3 DEF ResetCounts
<1>9. CASE ResetEnd \/ Crash
  BY <1>9 DEF ResetEnd, Crash, ResetCounts
<1>10. CASE Collect \/ Stop \/ Train \/ Save \/ LastSave
  BY <1>3, <1>10 DEF Collect, Stop, Train, Save, LastSave, rollouter, locking
<1>11. ASSUME NEW x \in running, Finish(x) PROVE ResetCounts'
  BY <1>3, <1>11 DEF Finish, locking
<1>12. CASE UNCHANGED vars
  BY <1>1, <1>12 DEF vars, rollouter, locking, ResetCounts
<1> QED BY <1>5, <1>6, <1>7, <1>8, <1>9, <1>10, <1>11, <1>12
        DEF Next, Processor, Monitor, Reset, Trainer

LEMMA FreshKept == TypeInv /\ PlacesInv /\ FreshInv /\ [Next]_vars => FreshInv'
<1> SUFFICES ASSUME TypeInv, PlacesInv, FreshInv, [Next]_vars PROVE FreshInv'
  OBVIOUS
<1>1. TypeInv'
  BY TypesKept
<1>2. ResetCounts'
  BY <1>1, ResetCountsKept
<1> SUFFICES Outstanding' <= staleness' + 1 /\ Outstanding' <= MaxRequired + 1
  BY <1>2 DEF FreshInv, FreshnessBound
<1>3. /\ Outstanding \in Nat /\ Outstanding' \in Nat
      /\ Outstanding' <= Outstanding \/ (CheckTake /\ Outstanding' <= Outstanding + 1)
  BY <1>1, OutstandingGrows
<1>4. staleness \in Nat /\ staleness' \in Nat /\ MaxRequired \in Nat
  BY <1>1, Constants DEF TypeInv, TypeOK
<1>5. Outstanding <= MaxRequired + 1 /\ Outstanding <= staleness + 1
  BY DEF FreshInv, FreshnessBound
<1>6. CASE CheckTake
  <2>1. staleness < MaxRequired /\ staleness' = staleness + 1
    BY <1>4, <1>6 DEF CheckTake, ShouldPause
  <2> QED BY <1>3, <1>4, <1>5, <2>1
<1>7. CASE ResetEnd
  <2>1. staleness' = counted + Len(queue) /\ counted # None /\ UNCHANGED <<held, running, queue>>
    BY <1>7 DEF ResetEnd, StalenessNow, messages
  <2>2. Cardinality(running) <= counted
    BY <2>1 DEF FreshInv, ResetCounts
  <2>3. /\ Cardinality(running) \in Nat /\ Cardinality({held} \ {None}) \in {0, 1}
        /\ Cardinality(ToSet(queue) \ {None}) \in Nat /\ Cardinality(ToSet(queue) \ {None}) <= Len(queue)
    <3>1. running \in SUBSET Samples /\ queue \in Seq(Messages)
      BY DEF TypeInv, TypeOK, Messages
    <3> QED BY <3>1, SizeFacts
  <2>4. Len(queue) \in Nat /\ counted \in Nat
    BY <2>1, LenProperties DEF TypeInv, TypeOK
  <2>5. Outstanding <= staleness' + 1
    <3>1. Outstanding = Cardinality(running) + Cardinality({held} \ {None}) + Cardinality(ToSet(queue) \ {None})
      BY DEF Outstanding, Queued
    <3> QED BY <2>1, <2>2, <2>3, <2>4, <3>1
  <2>6. Outstanding' = Outstanding
    BY <2>1 DEF Outstanding, Queued
  <2> QED BY <1>5, <2>5, <2>6
<1>8. CASE Crash
  <2>1. running' = {} /\ held' = None /\ queue' = << >>
    BY <1>8 DEF Crash
  <2>2. Queued' = {} /\ {held'} \ {None} = {}
    BY <2>1 DEF Queued, ToSet
  <2>3. Outstanding' = 0
    BY <2>1, <2>2, FS_EmptySet DEF Outstanding
  <2>4. staleness' = 0
    BY <1>8 DEF Crash
  <2> QED BY <1>4, <2>3, <2>4
<1>9. CASE ~CheckTake /\ staleness' \in {staleness, staleness + 1}
  <2>1. Outstanding' <= Outstanding
    BY <1>3, <1>9
  <2>2. Outstanding' <= MaxRequired + 1
    BY <1>3, <1>4, <1>5, <2>1
  <2>3. Outstanding' <= staleness' + 1
    <3>1. CASE staleness' = staleness
      BY <1>3, <1>4, <1>5, <2>1, <3>1
    <3>2. CASE staleness' = staleness + 1
      BY <1>3, <1>4, <1>5, <2>1, <3>2
    <3> QED BY <1>9, <3>1, <3>2
  <2> QED BY <2>2, <2>3
<1>10. CheckTake \/ ResetEnd \/ Crash \/ (~CheckTake /\ staleness' \in {staleness, staleness + 1})
  <2>1. staleness' = staleness \/ staleness' = staleness + 1 \/ ResetEnd \/ Crash
    BY DEF Next, Processor, Monitor, Reset, Trainer, CheckPause, CheckTake, CheckEnd, Pause, Drain, Rest,
           Slot, Submit, EndDrain, End, MonitorWake, MonitorResume, MonitorLook, ResetStart, Collect, Stop,
           Train, Sync, Save, LastSave, Finish, vars, rollouter
  <2> QED BY <1>4, <2>1
<1> QED BY <1>6, <1>7, <1>8, <1>9, <1>10

LEMMA FreshHolds == Spec => []FreshInv
<1>1. ASSUME Init PROVE FreshInv
  <2>1. running = {} /\ held = None /\ queue = << >> /\ counted = None /\ staleness = 0
    BY <1>1 DEF Init
  <2>2. Queued = {} /\ {held} \ {None} = {}
    BY <2>1 DEF Queued, ToSet
  <2>3. Outstanding = 0
    BY <2>1, <2>2, FS_EmptySet DEF Outstanding
  <2> QED BY <2>1, <2>3, Constants DEF FreshInv, FreshnessBound, ResetCounts
<1> QED BY <1>1, PlacesHold, FreshKept, PTL DEF Spec

\* However pauses, resets and the waits for a slot interleave, at most
\* max_required_samples and one more are generated or queued and not trained
\* (_should_pause_generation, reset_staleness).
THEOREM StalenessBounds == Spec => []FreshnessBound
<1>1. FreshInv => FreshnessBound
  BY DEF FreshInv
<1> QED BY <1>1, FreshHolds, PTL
-----------------------------------------------------------------------------
(* What a finished run leaves behind: the reset and the lock               *)

\* At most one reset holds or waits for the lock.
OneReset(l) == \A i, j \in DOMAIN l : l[i] = "reset" /\ l[j] = "reset" => i = j

\* The trainer awaits reset_staleness (_fit_update_weights): while a reset is in
\* the lock the trainer does nothing else, so two resets never meet.
ResetInv == OneReset(lock) /\ ("reset" \in ToSet(lock) => trainer = "reset")

\* Joining a queue of coroutines without a reset adds none.
LEMMA OneResetConcat ==
  ASSUME NEW p \in Seq(Coroutines), NEW q \in Seq(Coroutines)
  PROVE  /\ ToSet(p \o q) = ToSet(p) \cup ToSet(q)
         /\ OneReset(p) /\ "reset" \notin ToSet(q) => OneReset(p \o q)
<1>1. /\ p \o q \in Seq(Coroutines) /\ Len(p \o q) = Len(p) + Len(q)
      /\ \A i \in 1..(Len(p) + Len(q)) : (p \o q)[i] = IF i <= Len(p) THEN p[i] ELSE q[i - Len(p)]
  BY ConcatProperties
<1>2. /\ Len(p) \in Nat /\ Len(q) \in Nat /\ DOMAIN p = 1..Len(p) /\ DOMAIN q = 1..Len(q)
      /\ DOMAIN (p \o q) = 1..(Len(p) + Len(q))
  BY <1>1, LenProperties
<1> DEFINE r == p \o q
<1> HIDE DEF r
<1>3. \A i \in 1..Len(q) : Len(p) + i \in 1..(Len(p) + Len(q)) /\ r[Len(p) + i] = q[i]
  BY <1>1, <1>2 DEF r
<1>4. \A i \in 1..Len(p) : i \in 1..(Len(p) + Len(q)) /\ r[i] = p[i]
  BY <1>1, <1>2 DEF r
<1>5. \A i \in 1..(Len(p) + Len(q)) :
        (i \in 1..Len(p) /\ r[i] = p[i]) \/ (i - Len(p) \in 1..Len(q) /\ r[i] = q[i - Len(p)])
  BY <1>1, <1>2 DEF r
<1>6. ToSet(r) = ToSet(p) \cup ToSet(q)
  <2>0. DOMAIN r = 1..(Len(p) + Len(q))
    BY <1>2 DEF r
  <2>1. \A i \in DOMAIN r : r[i] \in ToSet(p) \cup ToSet(q)
    BY <1>2, <1>5, <2>0 DEF ToSet
  <2>2. \A i \in DOMAIN p : p[i] \in ToSet(r)
    BY <1>2, <1>4, <2>0 DEF ToSet
  <2>3. \A i \in DOMAIN q : q[i] \in ToSet(r)
    BY <1>2, <1>3, <2>0 DEF ToSet
  <2> QED BY <2>1, <2>2, <2>3 DEF ToSet
<1>7. ASSUME OneReset(p), "reset" \notin ToSet(q) PROVE OneReset(r)
  <2>1. \A k \in 1..Len(q) : q[k] # "reset"
    BY <1>2, <1>7 DEF ToSet
  <2>2. DOMAIN r = 1..(Len(p) + Len(q))
    BY <1>2 DEF r
  <2>3. \A i \in DOMAIN r : r[i] = "reset" => i \in DOMAIN p /\ p[i] = "reset"
    BY <1>2, <1>5, <2>1, <2>2
  <2> QED BY <1>7, <2>3 DEF OneReset
<1> QED BY <1>6, <1>7 DEF r

\* When the holder of the lock leaves, the others keep their places, and no
\* second reset is among them.
LEMMA OneResetTail ==
  ASSUME NEW l \in Seq(Coroutines), l # << >>, OneReset(l)
  PROVE  /\ Tail(l) \in Seq(Coroutines) /\ OneReset(Tail(l)) /\ ToSet(Tail(l)) \subseteq ToSet(l)
         /\ Head(l) \in ToSet(l)
         /\ Head(l) = "reset" => "reset" \notin ToSet(Tail(l))
<1>1. /\ Tail(l) \in Seq(Coroutines) /\ Len(Tail(l)) = Len(l) - 1
      /\ \A i \in 1..Len(Tail(l)) : Tail(l)[i] = l[i + 1]
  BY HeadTailProperties
<1>2. /\ Len(l) \in Nat \ {0} /\ DOMAIN l = 1..Len(l)
      /\ DOMAIN Tail(l) = 1..(Len(l) - 1) /\ Head(l) = l[1]
  BY <1>1, EmptySeq, LenProperties
<1> QED BY <1>1, <1>2 DEF ToSet, OneReset

\* A coroutine that asks for the lock does not bring a second reset.
LEMMA OneResetAppend ==
  ASSUME NEW l \in Seq(Coroutines), OneReset(l), NEW c \in Coroutines, c # "reset" \/ "reset" \notin ToSet(l)
  PROVE  /\ OneReset(Append(l, c)) /\ ToSet(Append(l, c)) = ToSet(l) \cup {c}
<1>1. /\ Append(l, c) \in Seq(Coroutines) /\ Len(Append(l, c)) = Len(l) + 1
      /\ \A i \in 1..Len(l) : Append(l, c)[i] = l[i]
      /\ Append(l, c)[Len(l) + 1] = c
  BY AppendProperties
<1>2. Len(l) \in Nat /\ DOMAIN l = 1..Len(l) /\ DOMAIN Append(l, c) = 1..(Len(l) + 1)
  BY <1>1, LenProperties
<1> QED BY <1>1, <1>2 DEF ToSet, OneReset

\* Nor does condition.notify_all, which only lets the processor ask again.
LEMMA OneResetNotify ==
  ASSUME NEW p \in Seq(Coroutines), NEW q \in Seq(Coroutines), OneReset(p), "reset" \notin ToSet(q),
         NotifyAll(p, q)
  PROVE  OneReset(lock') /\ ("reset" \in ToSet(lock') => "reset" \in ToSet(p))
<1> DEFINE s == <<"processor">>
<1>1. s \in Seq(Coroutines) /\ "reset" \notin ToSet(s)
  BY DEF Coroutines, ToSet
<1>2. lock' = (p \o s) \o q \/ lock' = p \o q
  BY DEF NotifyAll
<1> HIDE DEF s
<1>3. p \o s \in Seq(Coroutines) /\ OneReset(p \o s) /\ ToSet(p \o s) = ToSet(p) \cup ToSet(s)
  BY <1>1, OneResetConcat, ConcatProperties
<1>4. /\ OneReset((p \o s) \o q) /\ ToSet((p \o s) \o q) = ToSet(p \o s) \cup ToSet(q)
      /\ OneReset(p \o q) /\ ToSet(p \o q) = ToSet(p) \cup ToSet(q)
  BY <1>3, OneResetConcat
<1> QED BY <1>1, <1>2, <1>3, <1>4

\* Every step keeps the one reset and the trainer waiting for it.
LEMMA ResetKept == TypeInv /\ ResetInv /\ [Next]_vars => ResetInv'
<1> SUFFICES ASSUME TypeInv, ResetInv, [Next]_vars PROVE ResetInv'
  OBVIOUS
<1> USE DEF ResetInv
<1>1. lock \in Seq(Coroutines) /\ OneReset(lock) /\ {"processor", "reset", "look", "resume"} \subseteq Coroutines
  BY DEF TypeInv, TypeOK, Coroutines
<1>2. ASSUME NEW c \in Coroutines \ {"reset"}, Ask(c), UNCHANGED trainer PROVE ResetInv'
  BY <1>1, <1>2, OneResetAppend DEF Ask
<1>3. ASSUME NEW c \in Coroutines \ {"reset"}, Holds(c), UNCHANGED trainer, AskAgain("processor") \/ Release
      PROVE  ResetInv'
  <2>1. lock # << >>
    BY <1>3 DEF Holds
  <2>2. Tail(lock) \in Seq(Coroutines) /\ OneReset(Tail(lock)) /\ ToSet(Tail(lock)) \subseteq ToSet(lock)
    BY <1>1, <2>1, OneResetTail
  <2>3. /\ OneReset(Append(Tail(lock), "processor"))
        /\ ToSet(Append(Tail(lock), "processor")) = ToSet(Tail(lock)) \cup {"processor"}
    BY <1>1, <2>2, OneResetAppend
  <2> QED BY <1>3, <2>2, <2>3 DEF AskAgain, Release
<1>4. CASE CheckPause \/ CheckTake \/ CheckEnd \/ MonitorWake
  <2>1. Ask("processor") \/ Ask("look") \/ Ask("resume")
    BY <1>4 DEF CheckPause, CheckTake, CheckEnd, MonitorWake, training
  <2>2. UNCHANGED trainer
    BY <1>4 DEF CheckPause, CheckTake, CheckEnd, MonitorWake, training
  <2> QED BY <1>1, <1>2, <2>1, <2>2
<1>5. CASE Pause \/ Drain \/ Rest \/ Slot \/ Submit \/ EndDrain \/ End \/ MonitorLook
  <2>1. /\ UNCHANGED trainer
        /\ Holds("processor") \/ Holds("look")
        /\ AskAgain("processor") \/ Release
    BY <1>5 DEF Pause, Drain, Rest, Slot, Submit, EndDrain, End, MonitorLook, Reap, training
  <2> QED BY <1>1, <1>3, <2>1
<1>6. CASE MonitorResume
  <2>1. lock # << >> /\ UNCHANGED trainer /\ NotifyAll(Tail(lock), <<"look">>)
    BY <1>6 DEF MonitorResume, Holds, training
  <2>2. Tail(lock) \in Seq(Coroutines) /\ OneReset(Tail(lock)) /\ ToSet(Tail(lock)) \subseteq ToSet(lock)
    BY <1>1, <2>1, OneResetTail
  <2>3. <<"look">> \in Seq(Coroutines) /\ "reset" \notin ToSet(<<"look">>)
    BY DEF Coroutines, ToSet
  <2> QED BY <2>1, <2>2, <2>3, OneResetNotify
<1>7. CASE ResetStart
  <2>1. UNCHANGED trainer /\ NotifyAll(lock, << >>)
    BY <1>7 DEF ResetStart, training
  <2>2. << >> \in Seq(Coroutines) /\ "reset" \notin ToSet(<< >>)
    BY EmptySeq DEF ToSet
  <2> QED BY <1>1, <2>1, <2>2, OneResetNotify
<1>8. CASE ResetEnd
  <2>1. lock # << >> /\ Head(lock) = "reset" /\ lock' = Tail(lock)
    BY <1>8 DEF ResetEnd, Holds, Release
  <2> QED BY <1>1, <2>1, OneResetTail
<1>9. CASE Sync
  <2>1. trainer = "sync" /\ trainer' = "reset" /\ Ask("reset")
    BY <1>9 DEF Sync
  <2> QED BY <1>1, <2>1, OneResetAppend DEF Ask
<1>10. CASE Collect \/ Stop \/ Train \/ Save \/ LastSave
  BY <1>10 DEF Collect, Stop, Train, Save, LastSave, locking
<1>11. CASE Crash
  BY <1>11 DEF Crash, OneReset, ToSet
<1>12. CASE UNCHANGED vars
  BY <1>12 DEF vars, locking, training
<1>13. ASSUME NEW x \in running, Finish(x) PROVE ResetInv'
  BY <1>13 DEF Finish, locking, training
<1> QED BY <1>4, <1>5, <1>6, <1>7, <1>8, <1>9, <1>10, <1>11, <1>12, <1>13
        DEF Next, Processor, Monitor, Reset, Trainer

\* No reset is under way at the start.
LEMMA ResetStarts == Init => ResetInv
  BY DEF Init, ResetInv, OneReset, ToSet
-----------------------------------------------------------------------------
(* What a finished run leaves behind: the end of the data                  *)

\* The processor holds a sample only while it waits for a slot or is about to
\* create its task (_processor_worker).
HeldWhen == held # None => processor \in {"slot", "submit"}

\* Every step keeps that.
LEMMA HeldWhenKept == TypeInv /\ HeldWhen /\ [Next]_vars => HeldWhen'
<1> SUFFICES ASSUME TypeInv, HeldWhen, [Next]_vars PROVE HeldWhen'
  OBVIOUS
<1> USE DEF HeldWhen
<1>1. CASE CheckPause \/ CheckTake \/ CheckEnd \/ Pause \/ Drain \/ Rest \/ Slot \/ Submit \/ EndDrain \/ End
  BY <1>1 DEF CheckPause, CheckTake, CheckEnd, Pause, Drain, Rest, Slot, Submit, EndDrain, End
<1>2. CASE MonitorWake \/ MonitorResume \/ MonitorLook \/ ResetStart \/ ResetEnd
  BY <1>2 DEF MonitorWake, MonitorResume, MonitorLook, ResetStart, ResetEnd, NotifyAll, rollouter
<1>3. CASE Collect \/ Stop \/ Train \/ Sync \/ Save \/ LastSave \/ Crash \/ UNCHANGED vars
  BY <1>3 DEF Collect, Stop, Train, Sync, Save, LastSave, Crash, vars, rollouter
<1>4. ASSUME NEW x \in running, Finish(x) PROVE HeldWhen'
  BY <1>4 DEF Finish
<1> QED BY <1>1, <1>2, <1>3, <1>4 DEF Next, Processor, Monitor, Reset, Trainer

\* Sets of samples are finite and no larger than the data.
LEMMA FiniteSamples ==
  ASSUME NEW S \in SUBSET Samples
  PROVE  IsFiniteSet(S) /\ Cardinality(S) \in Nat /\ Cardinality(S) <= Total
<1>1. IsFiniteSet(Samples) /\ Cardinality(Samples) = Total
  BY FS_Interval, Constants DEF Samples
<1> QED BY <1>1, FS_Subset, FS_CardinalityType

\* The finish signal is the last message of a queue.
FinishAtEnd(q) == \A i \in DOMAIN q : q[i] = None => i = Len(q)

\* Taking the oldest message (get_sample) leaves the signal last; when it is the
\* signal that is taken the queue is empty.
LEMMA FinishAtEndTail ==
  ASSUME NEW q \in Seq(Messages), q # << >>, FinishAtEnd(q)
  PROVE  FinishAtEnd(Tail(q)) /\ (Head(q) = None => Tail(q) = << >>)
<1>1. /\ Tail(q) \in Seq(Messages) /\ Len(Tail(q)) = Len(q) - 1
      /\ \A i \in 1..Len(Tail(q)) : Tail(q)[i] = q[i + 1]
  BY HeadTailProperties
<1>2. /\ Len(q) \in Nat \ {0} /\ DOMAIN q = 1..Len(q)
      /\ DOMAIN Tail(q) = 1..(Len(q) - 1) /\ Head(q) = q[1]
  BY <1>1, EmptySeq, LenProperties
<1>3. FinishAtEnd(Tail(q))
  BY <1>1, <1>2 DEF FinishAtEnd
<1>4. ASSUME Head(q) = None PROVE Tail(q) = << >>
  <2>1. Len(Tail(q)) = 0
    BY <1>1, <1>2, <1>4 DEF FinishAtEnd
  <2> QED BY <1>1, <2>1, EmptySeq
<1> QED BY <1>3, <1>4

\* put_sample of any message into a queue without the signal, full or not.
LEMMA FinishAtEndPut ==
  ASSUME queue \in Seq(Messages), Len(queue) <= MaxRequired, NEW m \in Messages, Put(m), None \notin ToSet(queue)
  PROVE  FinishAtEnd(queue')
<1>1. ASSUME NEW q \in Seq(Messages), None \notin ToSet(q) PROVE FinishAtEnd(Append(q, m))
  <2>1. /\ Append(q, m) \in Seq(Messages) /\ Len(Append(q, m)) = Len(q) + 1
        /\ \A i \in 1..Len(q) : Append(q, m)[i] = q[i]
    BY AppendProperties
  <2>2. Len(q) \in Nat /\ DOMAIN q = 1..Len(q) /\ DOMAIN Append(q, m) = 1..(Len(q) + 1)
    BY <2>1, LenProperties
  <2> QED BY <1>1, <2>1, <2>2 DEF FinishAtEnd, ToSet
<1>2. CASE Len(queue) >= MaxRequired
  <2>1. queue # << >>
    BY <1>2, Constants, EmptySeq
  <2>2. Tail(queue) \in Seq(Messages) /\ None \notin ToSet(Tail(queue))
    BY <2>1, TailFacts
  <2> QED BY <1>1, <1>2, <2>2 DEF Put
<1>3. CASE ~(Len(queue) >= MaxRequired)
  BY <1>1, <1>3 DEF Put
<1> QED BY <1>2, <1>3

\* The order of the end: the processor ends after the last sample was taken and
\* its tasks were reaped, the signal comes after every sample, and when the
\* trainer has seen it nothing is queued or generated any more; what it had
\* collected is less than a step.
EndInv ==
  /\ processor \in {"end", "done"} => taken = Total
  /\ processor = "done" => active = {}
  /\ FinishAtEnd(queue)
  /\ closing => /\ processor = "done" /\ queue = << >>
                /\ trainer \in {"sync", "reset", "stopping", "stopped"}
  /\ trainer \in {"stopping", "stopped"} => closing
  /\ trainer = "collect" => Cardinality(collected) < Required
  /\ trainer \notin {"collect", "train"} => collected = {}

\* Every step keeps the order of the end.
LEMMA EndKept ==
  ASSUME TypeInv, PlacesInv, ResetInv, EndInv, [Next]_vars
  PROVE  EndInv'
<1>0. /\ queue \in Seq(Messages) /\ Len(queue) <= MaxRequired /\ running \subseteq active
      /\ None \in ToSet(queue) => processor = "done"
  BY DEF TypeInv, TypeOK, Messages, PlacesInv, FinishLast
<1> USE DEF EndInv
<1>1. ASSUME UNCHANGED <<queue, trainer, collected, closing, taken>>,
             processor # "done", processor' # "done", processor' = "end" => processor = "end" \/ taken = Total
      PROVE  EndInv'
  BY <1>1
<1>2. ASSUME UNCHANGED <<queue, trainer, collected, closing, taken, active>>,
             processor' = processor \/ (processor = "waiting" /\ processor' = "rest")
      PROVE  EndInv'
  BY <1>2
<1>3. CASE CheckPause \/ CheckEnd \/ Pause \/ Drain \/ Rest \/ Slot \/ Submit \/ EndDrain
  BY <1>1, <1>3 DEF CheckPause, CheckEnd, Pause, Drain, Rest, Slot, Submit, EndDrain, messages, training
<1>4. CASE CheckTake
  BY <1>4 DEF CheckTake, messages, training
<1>5. CASE End
  <2>1. Put(None) /\ None \in Messages /\ None \notin ToSet(queue)
    BY <1>0, <1>5 DEF End, Messages
  <2>2. FinishAtEnd(queue')
    BY <1>0, <2>1, FinishAtEndPut
  <2> QED BY <1>5, <2>2 DEF End, MayEnd, training
<1>6. CASE MonitorWake \/ MonitorResume \/ MonitorLook \/ ResetStart
  BY <1>2, <1>6 DEF MonitorWake, MonitorResume, MonitorLook, ResetStart, NotifyAll, rollouter, messages, training
<1>7. CASE ResetEnd
  <2>1. /\ Holds("reset") /\ trainer' = (IF closing THEN "stopping" ELSE "save")
        /\ UNCHANGED <<queue, collected, closing, taken, active, processor>>
    BY <1>7 DEF ResetEnd, messages
  <2>2. trainer = "reset"
    <3>1. "reset" \in ToSet(lock)
      <4>1. lock \in Seq(Coroutines) /\ lock # << >> /\ OneReset(lock) /\ Head(lock) = "reset"
        BY <2>1 DEF Holds, ResetInv, TypeInv, TypeOK
      <4> QED BY <4>1, OneResetTail
    <3> QED BY <3>1 DEF ResetInv
  <2> QED BY <2>1, <2>2
<1>8. CASE Collect
  <2>1. /\ queue # << >> /\ queue' = Tail(queue) /\ trainer = "collect"
        /\ collected' = collected \cup {Head(queue)}
        /\ trainer' = IF Cardinality(collected) + 1 = Required THEN "train" ELSE "collect"
        /\ UNCHANGED <<taken, active, processor, closing>>
    BY <1>8 DEF Collect, rollouter
  <2>2. FinishAtEnd(queue')
    BY <1>0, <2>1, FinishAtEndTail
  <2>3. trainer' = "collect" => Cardinality(collected') < Required
    <3>1. IsFiniteSet(collected) /\ Cardinality(collected) \in Nat /\ Required \in Nat
      BY FiniteSamples, Constants DEF TypeInv, TypeOK
    <3>2. Cardinality(collected') <= Cardinality(collected) + 1 /\ Cardinality(collected') \in Nat
      <4>1. \A x : /\ Cardinality(collected \cup {x}) <= Cardinality(collected) + 1
                   /\ Cardinality(collected \cup {x}) \in Nat
        <5>1. \A x : Cardinality(collected \cup {x}) =
                      IF x \in collected THEN Cardinality(collected) ELSE Cardinality(collected) + 1
          BY <3>1, FS_AddElement
        <5> QED BY <3>1, <5>1
      <4> QED BY <2>1, <4>1
    <3> QED BY <2>1, <3>1, <3>2
  <2> QED BY <2>1, <2>2, <2>3
<1>9. CASE Stop
  <2>1. /\ queue # << >> /\ Head(queue) = None /\ queue' = Tail(queue) /\ collected' = {}
        /\ trainer' \in {"sync", "stopping"} /\ closing'
        /\ UNCHANGED <<taken, active, processor>>
    BY <1>9 DEF Stop, rollouter
  <2>2. FinishAtEnd(queue') /\ queue' = << >>
    BY <1>0, <2>1, FinishAtEndTail
  <2>3. processor = "done"
    BY <1>0, <2>1, TailFacts
  <2> QED BY <2>1, <2>2, <2>3
<1>10. CASE Train
  <2>1. trainer' \in {"save", "sync"} /\ collected' = {} /\ trainer = "train"
    BY <1>10 DEF Train
  <2> QED BY <1>10, <2>1 DEF Train, rollouter, messages
<1>11. CASE Sync \/ LastSave
  BY <1>11 DEF Sync, LastSave, rollouter, messages
<1>12. CASE Save
  <2>1. Cardinality(collected) < Required
    BY <1>12, FS_EmptySet, Constants DEF Save
  <2> QED BY <1>12, <2>1 DEF Save, rollouter, messages
<1>13. CASE Crash
  <2>1. FinishAtEnd(<< >>) /\ Cardinality({}) = 0
    BY FS_EmptySet DEF FinishAtEnd
  <2> QED BY <1>13, <2>1, Constants DEF Crash
<1>14. CASE UNCHANGED vars
  BY <1>2, <1>14 DEF vars, rollouter, messages, training
<1>15. ASSUME NEW x \in running, Finish(x) PROVE EndInv'
  <2>1. processor # "done" /\ ~closing /\ None \notin ToSet(queue)
    BY <1>0, <1>15
  <2>2. Put(x) /\ x \in Messages /\ UNCHANGED <<taken, active, processor, trainer, closing, collected>>
    BY <1>0, <1>15 DEF Finish, training, TypeInv, TypeOK, Messages
  <2>3. FinishAtEnd(queue')
    BY <1>0, <2>1, <2>2, FinishAtEndPut
  <2> QED BY <2>1, <2>2, <2>3
<1> QED BY <1>3, <1>4, <1>5, <1>6, <1>7, <1>8, <1>9, <1>10, <1>11, <1>12, <1>13, <1>14, <1>15
        DEF Next, Processor, Monitor, Reset, Trainer
-----------------------------------------------------------------------------
(* What a finished run leaves behind: the account of losses                *)

\* What one crash can cost: what was generated or queued, and what was pending.
Loss == MaxRequired + 1 + PendingMax + 1
\* Where a sample is that has been taken from the data.
Places == ({held} \ {None}) \cup running \cup Queued \cup collected \cup trained \cup dropped
\* Samples taken from the data that are nowhere: a crash or the end gave them up.
Missing == (1..taken) \ Places
\* Samples that would be missing after a resume from the last checkpoint: the
\* data loader is past them and they were not trained.
SavedMissing == (1..saved.fed) \ (saved.trained \cup dropped)

\* Each crash costs at most Loss samples, those a resume would cost now counted
\* as one crash more, and the finish signal costs less than one step.
LossInv ==
  /\ Cardinality(Missing) <= crashes * Loss + (IF closing THEN Required - 1 ELSE 0)
  /\ trainer # "stopped" => Cardinality(SavedMissing) <= (crashes + 1) * Loss

\* Arithmetic of the bound.
LEMMA LossFacts ==
  /\ Loss \in Nat
  /\ \A c \in Nat : c * Loss \in Nat /\ (c + 1) * Loss = c * Loss + Loss
  BY Constants DEF Loss

\* The missing samples can be counted.
LEMMA MissingFacts ==
  ASSUME TypeInv
  PROVE  /\ IsFiniteSet(Missing) /\ Cardinality(Missing) \in Nat
         /\ IsFiniteSet(SavedMissing) /\ Cardinality(SavedMissing) \in Nat
<1>1. Missing \in SUBSET Samples /\ SavedMissing \in SUBSET Samples
  BY Constants DEF TypeInv, TypeOK, SavedOK, Missing, SavedMissing, Samples
<1> QED BY <1>1, FiniteSamples

\* A union is no larger than its parts together.
LEMMA UnionBound ==
  ASSUME NEW S, NEW T, IsFiniteSet(S), IsFiniteSet(T)
  PROVE  /\ IsFiniteSet(S \cup T) /\ Cardinality(S \cup T) \in Nat
         /\ Cardinality(S \cup T) <= Cardinality(S) + Cardinality(T)
<1>1. /\ IsFiniteSet(S \cup T)
      /\ Cardinality(S \cup T) = Cardinality(S) + Cardinality(T) - Cardinality(S \cap T)
  BY FS_Union
<1>2. /\ Cardinality(S) \in Nat /\ Cardinality(T) \in Nat
      /\ Cardinality(S \cap T) \in Nat /\ Cardinality(S \cup T) \in Nat
  <2>1. IsFiniteSet(S \cap T)
    <3>1. S \cap T \in SUBSET S
      OBVIOUS
    <3> QED BY <3>1, FS_Subset
  <2> QED BY <1>1, <2>1, FS_CardinalityType
<1> QED BY <1>1, <1>2

\* The messages of a queue are its oldest and the rest.
LEMMA HeadAndTail ==
  ASSUME NEW q \in Seq(Messages), q # << >>
  PROVE  Tail(q) \in Seq(Messages) /\ ToSet(q) = {Head(q)} \cup ToSet(Tail(q))
<1>1. /\ Tail(q) \in Seq(Messages) /\ Len(Tail(q)) = Len(q) - 1
      /\ \A i \in 1..Len(Tail(q)) : Tail(q)[i] = q[i + 1]
  BY HeadTailProperties
<1>2. /\ Len(q) \in Nat \ {0} /\ DOMAIN q = 1..Len(q)
      /\ DOMAIN Tail(q) = 1..(Len(q) - 1) /\ Head(q) = q[1]
  BY <1>1, EmptySeq, LenProperties
<1>3. ASSUME NEW i \in DOMAIN q PROVE q[i] \in {Head(q)} \cup ToSet(Tail(q))
  <2>1. CASE i = 1
    BY <1>2, <2>1
  <2>2. CASE i # 1
    <3>1. i - 1 \in DOMAIN Tail(q) /\ Tail(q)[i - 1] = q[i]
      BY <1>1, <1>2, <2>2
    <3> QED BY <3>1 DEF ToSet
  <2> QED BY <2>1, <2>2
<1>4. {Head(q)} \cup ToSet(Tail(q)) \subseteq ToSet(q)
  BY TailFacts
<1> QED BY <1>1, <1>3, <1>4 DEF ToSet

\* put_sample loses nothing: what leaves a full queue is counted as dropped.
LEMMA PutKeeps ==
  ASSUME queue \in Seq(Messages), NEW m \in Messages, Put(m)
  PROVE  (Queued \cup {m}) \ {None} \subseteq Queued' \cup dropped'
<1>1. \A q \in Seq(Messages) : ToSet(Append(q, m)) = ToSet(q) \cup {m}
  BY AppendFacts
<1>2. CASE Len(queue) >= MaxRequired
  <2>1. queue # << >>
    BY <1>2, Constants, EmptySeq
  <2>2. Tail(queue) \in Seq(Messages) /\ ToSet(queue) = {Head(queue)} \cup ToSet(Tail(queue))
    BY <2>1, HeadAndTail
  <2> QED BY <1>1, <1>2, <2>2 DEF Put, Queued
<1>3. CASE ~(Len(queue) >= MaxRequired)
  BY <1>1, <1>3 DEF Put, Queued
<1> QED BY <1>2, <1>3

\* No step but the finish signal and a crash gives a sample up.
LEMMA MissingShrinks ==
  ASSUME TypeInv, HeldWhen, [Next]_vars, ~Stop, ~Crash
  PROVE  Missing' \subseteq Missing /\ UNCHANGED <<crashes, closing>> /\ dropped \subseteq dropped'
<1>1. /\ queue \in Seq(Messages) /\ Len(queue) <= MaxRequired /\ None \in Messages
      /\ running \subseteq Samples /\ None \notin Samples
  BY Constants DEF TypeInv, TypeOK, Messages
<1>2. ASSUME NEW m \in Messages, Put(m)
      PROVE  (Queued \cup {m}) \ {None} \subseteq Queued' \cup dropped' /\ dropped \subseteq dropped'
  BY <1>1, <1>2, PutKeeps, PutFacts
<1>3. ASSUME UNCHANGED <<crashes, closing, dropped, queue>>, taken' = taken,
             ({held} \ {None}) \cup running \cup collected \cup trained \subseteq
               ({held'} \ {None}) \cup running' \cup collected' \cup trained'
      PROVE  Missing' \subseteq Missing /\ UNCHANGED <<crashes, closing>> /\ dropped \subseteq dropped'
  BY <1>3 DEF Missing, Places, Queued
<1>4. CASE CheckPause \/ CheckEnd \/ Pause \/ Drain \/ Rest \/ Slot \/ EndDrain \/ Submit
  BY <1>3, <1>4 DEF CheckPause, CheckEnd, Pause, Drain, Rest, Slot, EndDrain, Submit, messages, training
<1>5. CASE MonitorWake \/ MonitorResume \/ MonitorLook \/ ResetStart \/ ResetEnd
  BY <1>3, <1>5 DEF MonitorWake, MonitorResume, MonitorLook, ResetStart, ResetEnd, rollouter, messages, training
<1>6. CASE Train \/ Sync \/ Save \/ LastSave \/ UNCHANGED vars
  BY <1>3, <1>6 DEF Train, Sync, Save, LastSave, vars, rollouter, messages, training
<1>7. CASE CheckTake
  <2>1. /\ held = None /\ taken' = taken + 1 /\ held' = taken + 1 /\ held' # None /\ taken \in Nat
        /\ UNCHANGED <<running, queue, dropped, collected, trained, crashes, closing>>
    BY <1>7, Constants DEF CheckTake, HeldWhen, messages, training, TypeInv, TypeOK, Samples
  <2>2. 1..(taken + 1) = (1..taken) \cup {taken + 1}
    BY <2>1
  <2> QED BY <2>1, <2>2 DEF Missing, Places, Queued
<1>8. CASE End
  <2>1. Put(None) /\ UNCHANGED <<held, taken, running, collected, trained, crashes, closing>>
    BY <1>8 DEF End, training
  <2>2. Queued \subseteq Queued' \cup dropped' /\ dropped \subseteq dropped'
    BY <1>1, <1>2, <2>1 DEF Queued
  <2> QED BY <2>1, <2>2 DEF Missing, Places
<1>9. CASE Collect
  <2>1. /\ queue # << >> /\ queue' = Tail(queue) /\ collected' = collected \cup {Head(queue)}
        /\ UNCHANGED <<held, taken, running, trained, dropped, crashes, closing>>
    BY <1>9 DEF Collect, rollouter
  <2>2. ToSet(queue) = {Head(queue)} \cup ToSet(Tail(queue))
    BY <1>1, <2>1, HeadAndTail
  <2> QED BY <2>1, <2>2 DEF Missing, Places, Queued
<1>10. ASSUME NEW x \in running, Finish(x)
       PROVE  Missing' \subseteq Missing /\ UNCHANGED <<crashes, closing>> /\ dropped \subseteq dropped'
  <2>1. Put(x) /\ x \in Messages /\ x # None /\ running' = running \ {x}
        /\ UNCHANGED <<held, taken, collected, trained, crashes, closing>>
    BY <1>1, <1>10 DEF Finish, training, Messages
  <2>2. Queued \cup {x} \subseteq Queued' \cup dropped' /\ dropped \subseteq dropped'
    BY <1>2, <2>1 DEF Queued
  <2> QED BY <2>1, <2>2 DEF Missing, Places
<1> QED BY <1>4, <1>5, <1>6, <1>7, <1>8, <1>9, <1>10
        DEF Next, Processor, Monitor, Reset, Trainer

\* A checkpoint saves the data loader's position but neither the pending queue,
\* the tasks nor the messages (_fit_save_checkpoint): that much would be lost.
LEMMA SaveLoses ==
  ASSUME TypeInv, collected = {}
  PROVE  LET S == (1..Fed) \ (trained \cup dropped) IN
         IsFiniteSet(S) /\ Cardinality(S) \in Nat
         /\ Cardinality(S) <= Cardinality(Missing) + Outstanding + PendingMax + 1
<1> DEFINE S == (1..Fed) \ (trained \cup dropped)
           H == {held} \ {None}
           P == (taken + 1)..Fed
           A == Missing \cup running
           B == A \cup H
           C == B \cup Queued
           D == C \cup P
<1>1. /\ taken \in Nat /\ Fed \in Nat /\ taken <= Fed /\ Fed <= taken + PendingMax + 1 /\ PendingMax \in Nat
      /\ Fed <= Total /\ Total \in Nat /\ held \in Samples \cup {None} /\ running \in SUBSET Samples
  BY FedFacts, Constants DEF TypeInv, TypeOK
<1>2. IsFiniteSet(P) /\ Cardinality(P) \in Nat /\ Cardinality(P) <= PendingMax + 1
  <2>1. \A a, b \in Int : IsFiniteSet(a..b) /\ Cardinality(a..b) = IF a > b THEN 0 ELSE b - a + 1
    BY FS_Interval
  <2>2. taken + 1 \in Int /\ Fed \in Int
    BY <1>1
  <2>3. IsFiniteSet(P) /\ Cardinality(P) = IF taken + 1 > Fed THEN 0 ELSE Fed - (taken + 1) + 1
    BY <2>1, <2>2
  <2> HIDE DEF P
  <2> QED BY <1>1, <2>3
<1>3. /\ IsFiniteSet(running) /\ Cardinality(running) \in Nat
      /\ IsFiniteSet(Queued) /\ Cardinality(Queued) \in Nat
      /\ IsFiniteSet(Missing) /\ Cardinality(Missing) \in Nat
      /\ IsFiniteSet(H) /\ Cardinality(H) \in Nat
  <2>1. queue \in Seq(Messages)
    BY DEF TypeInv, TypeOK, Messages
  <2>2. H \in SUBSET Samples
    BY <1>1
  <2> QED BY <1>1, <2>1, <2>2, SizeFacts, FiniteSamples, MissingFacts DEF Queued
<1>4. 1..Fed = (1..taken) \cup P
  BY <1>1
<1>5. S \subseteq D
  <2> HIDE DEF P
  <2> QED BY <1>4 DEF Missing, Places
<1> HIDE DEF S, H, P
<1>6. IsFiniteSet(A) /\ Cardinality(A) <= Cardinality(Missing) + Cardinality(running) /\ Cardinality(A) \in Nat
  BY <1>3, UnionBound
<1> HIDE DEF A
<1>7. IsFiniteSet(B) /\ Cardinality(B) <= Cardinality(A) + Cardinality(H) /\ Cardinality(B) \in Nat
  BY <1>3, <1>6, UnionBound
<1> HIDE DEF B
<1>8. IsFiniteSet(C) /\ Cardinality(C) <= Cardinality(B) + Cardinality(Queued) /\ Cardinality(C) \in Nat
  BY <1>3, <1>7, UnionBound
<1> HIDE DEF C
<1>9. IsFiniteSet(D) /\ Cardinality(D) <= Cardinality(C) + Cardinality(P) /\ Cardinality(D) \in Nat
  BY <1>2, <1>8, UnionBound
<1> HIDE DEF D
<1>10. IsFiniteSet(S) /\ Cardinality(S) <= Cardinality(D) /\ Cardinality(S) \in Nat
  BY <1>5, <1>9, FS_Subset, FS_CardinalityType
<1>11. Outstanding = Cardinality(running) + Cardinality(H) + Cardinality(Queued)
  BY DEF Outstanding, H
<1>12. Cardinality(S) <= Cardinality(Missing) + Outstanding + PendingMax + 1
  BY <1>1, <1>2, <1>3, <1>6, <1>7, <1>8, <1>9, <1>10, <1>11
<1> QED BY <1>10, <1>12 DEF S

\* The same after a step.
LEMMA MissingFactsNext ==
  ASSUME TypeInv'
  PROVE  /\ IsFiniteSet(Missing') /\ Cardinality(Missing') \in Nat
         /\ IsFiniteSet(SavedMissing') /\ Cardinality(SavedMissing') \in Nat
<1>1. Missing' \in SUBSET Samples /\ SavedMissing' \in SUBSET Samples
  BY Constants DEF TypeInv, TypeOK, SavedOK, Missing, SavedMissing, Samples
<1> QED BY <1>1, FiniteSamples

\* Only saves write the checkpoint, and a stopped trainer stays stopped.
LEMMA StoppedStays ==
  ASSUME ResetInv, TypeInv, [Next]_vars, ~Save, ~LastSave, ~Crash
  PROVE  saved' = saved /\ (trainer = "stopped" => trainer' = "stopped")
<1>1. saved' = saved
  BY DEF Next, Processor, Monitor, Reset, Trainer, CheckPause, CheckTake, CheckEnd, Pause, Drain, Rest,
         Slot, Submit, EndDrain, End, MonitorWake, MonitorResume, MonitorLook, ResetStart, ResetEnd, Collect, Stop,
         Train, Sync, Finish, vars
<1>2. ASSUME trainer = "stopped" PROVE trainer' = "stopped"
  <2>1. ~ResetEnd
    <3>1. ASSUME ResetEnd PROVE FALSE
      <4>1. lock \in Seq(Coroutines) /\ lock # << >> /\ OneReset(lock) /\ Head(lock) = "reset"
        BY <3>1 DEF ResetEnd, Holds, ResetInv, TypeInv, TypeOK
      <4> QED BY <1>2, <4>1, OneResetTail DEF ResetInv
    <3> QED BY <3>1
  <2> QED BY <1>2, <2>1 DEF Next, Processor, Monitor, Reset, Trainer, CheckPause, CheckTake, CheckEnd, Pause,
         Drain, Rest, Slot, Submit, EndDrain, End, MonitorWake, MonitorResume, MonitorLook, ResetStart, Collect, Stop,
         Train, Sync, Finish, vars, training
<1> QED BY <1>1, <1>2

\* Every step keeps the account of what is lost.
LEMMA LossKept ==
  ASSUME TypeInv, PlacesInv, FreshInv, HeldWhen, EndInv, ResetInv, LossInv, [Next]_vars
  PROVE  LossInv'
<1> DEFINE m == Cardinality(Missing)
           nm == Cardinality(Missing')
           s == Cardinality(SavedMissing)
           ns == Cardinality(SavedMissing')
           l == crashes * Loss
<1>1. TypeInv' /\ Required \in Nat \ {0}
  BY TypesKept, Constants
<1>2. /\ m \in Nat /\ s \in Nat /\ IsFiniteSet(Missing) /\ IsFiniteSet(SavedMissing)
      /\ nm \in Nat /\ ns \in Nat /\ IsFiniteSet(Missing') /\ IsFiniteSet(SavedMissing')
  BY <1>1, MissingFacts, MissingFactsNext
<1>3. /\ crashes \in Nat /\ l \in Nat /\ Loss \in Nat /\ (crashes + 1) * Loss = l + Loss
  BY LossFacts, Constants DEF TypeInv, TypeOK
<1>4. /\ m <= l + (IF closing THEN Required - 1 ELSE 0)
      /\ trainer # "stopped" => s <= l + Loss
  BY <1>3 DEF LossInv
<1>5. Loss' = Loss
  BY DEF Loss
<1>6. ASSUME crashes' = crashes, closing' = closing, Missing' \subseteq Missing,
             trainer' # "stopped" => ns <= l + Loss
      PROVE  LossInv'
  <2>1. nm <= m
    BY <1>2, <1>6, FS_Subset
  <2>2. crashes' * Loss' = l /\ (crashes' + 1) * Loss' = l + Loss
    BY <1>3, <1>5, <1>6
  <2>3. nm <= l + (IF closing THEN Required - 1 ELSE 0)
    BY <1>1, <1>2, <1>3, <1>4, <2>1
  <2> HIDE DEF m, s, l, nm, ns
  <2> QED BY <1>6, <2>2, <2>3 DEF LossInv, nm, ns
<1>7. ASSUME saved' = saved, dropped \subseteq dropped' PROVE ns <= s
  <2>1. SavedMissing' \subseteq SavedMissing
    BY <1>7 DEF SavedMissing
  <2> QED BY <1>2, <2>1, FS_Subset
<1>8. CASE ~Stop /\ ~Crash /\ ~Save /\ ~LastSave
  <2>1. Missing' \subseteq Missing /\ UNCHANGED <<crashes, closing>> /\ dropped \subseteq dropped'
    BY <1>8, MissingShrinks
  <2>2. saved' = saved /\ (trainer = "stopped" => trainer' = "stopped")
    BY <1>8, StoppedStays
  <2>3. ns <= s
    BY <2>1, <2>2, <1>7
  <2>4. trainer' # "stopped" => ns <= l + Loss
    BY <1>2, <1>3, <1>4, <2>2, <2>3
  <2> QED BY <1>6, <2>1, <2>4
<1>9. CASE Save
  <2>1. ~Stop /\ ~Crash /\ trainer = "save" /\ collected = {} /\ ~closing
    <3>1. crashes + 1 # crashes
      BY <1>3
    <3> QED BY <1>9, <3>1 DEF Save, Stop, Crash, EndInv, rollouter
  <2>2. Missing' \subseteq Missing /\ UNCHANGED <<crashes, closing>> /\ dropped \subseteq dropped'
    BY <2>1, MissingShrinks
  <2>3. CASE saved' = saved
    <3>1. ns <= l + Loss
      BY <1>2, <1>3, <1>4, <1>7, <2>1, <2>2, <2>3
    <3> QED BY <1>6, <2>2, <3>1
  <2>4. CASE saved' = Checkpoint
    <3>1. SavedMissing' = (1..Fed) \ (trained \cup dropped)
      <4>1. saved'.fed = Fed /\ saved'.trained = trained /\ dropped' = dropped
        BY <1>9, <2>4 DEF Checkpoint, Save, messages
      <4> QED BY <4>1 DEF SavedMissing
    <3>2. ns <= m + Outstanding + PendingMax + 1
      BY <2>1, <3>1, SaveLoses
    <3>3. Outstanding <= MaxRequired + 1 /\ Outstanding \in Nat
      BY <1>1, OutstandingGrows DEF FreshInv, FreshnessBound
    <3>4. ns <= l + Loss
      BY <1>2, <1>3, <1>4, <2>1, <3>2, <3>3, Constants DEF Loss
    <3> QED BY <1>6, <2>2, <3>4
  <2> QED BY <1>9, <2>3, <2>4 DEF Save
<1>10. CASE LastSave
  <2>1. ~Stop /\ ~Crash /\ trainer' = "stopped"
    BY <1>10 DEF LastSave, Stop, Crash, rollouter
  <2>2. Missing' \subseteq Missing /\ UNCHANGED <<crashes, closing>>
    BY <2>1, MissingShrinks
  <2> QED BY <1>6, <2>1, <2>2
<1>11. CASE Stop
  <2>1. /\ queue # << >> /\ Head(queue) = None /\ queue' = Tail(queue) /\ collected' = {} /\ trainer = "collect"
        /\ trainer' \in {"sync", "stopping"} /\ closing' = TRUE /\ ~closing /\ crashes' = crashes /\ saved' = saved
        /\ UNCHANGED <<held, taken, running, trained, dropped>>
    BY <1>11 DEF Stop, rollouter, EndInv
  <2>2. ToSet(queue) = {None} \cup ToSet(Tail(queue))
    <3>1. queue \in Seq(Messages)
      BY DEF TypeInv, TypeOK, Messages
    <3> QED BY <2>1, <3>1, HeadAndTail
  <2>3. Missing' \subseteq Missing \cup collected
    BY <2>1, <2>2 DEF Missing, Places, Queued
  <2>4. IsFiniteSet(collected) /\ Cardinality(collected) < Required /\ Cardinality(collected) \in Nat
    BY <2>1, FiniteSamples DEF EndInv, TypeInv, TypeOK
  <2>5. nm <= m + Cardinality(collected)
    <3>1. /\ IsFiniteSet(Missing \cup collected) /\ Cardinality(Missing \cup collected) \in Nat
          /\ Cardinality(Missing \cup collected) <= m + Cardinality(collected)
      BY <1>2, <2>4, UnionBound
    <3>2. nm <= Cardinality(Missing \cup collected)
      BY <2>3, <3>1, FS_Subset
    <3> QED BY <1>2, <2>4, <3>1, <3>2
  <2>6. ns <= s
    BY <1>7, <2>1
  <2>7. crashes' * Loss' = l /\ (crashes' + 1) * Loss' = l + Loss
    BY <1>3, <1>5, <2>1
  <2>8. nm <= l + (Required - 1) /\ ns <= l + Loss
    BY <1>1, <1>2, <1>3, <1>4, <2>1, <2>4, <2>5, <2>6
  <2> HIDE DEF m, s, l, nm, ns
  <2> QED BY <2>1, <2>7, <2>8 DEF LossInv, nm, ns
<1>12. CASE Crash
  <2>1. /\ held' = None /\ running' = {} /\ queue' = << >> /\ collected' = {} /\ taken' = saved.fed
        /\ trained' = saved.trained /\ dropped' = {x \in dropped : x <= saved.fed} /\ saved' = saved
        /\ crashes' = crashes + 1 /\ closing' = FALSE /\ trainer # "stopped"
    BY <1>12 DEF Crash, ResumeAt
  <2>2. saved.fed \in Nat /\ \A x \in 1..saved.fed : x <= saved.fed
    BY DEF TypeInv, SavedOK
  <2>3. Missing' = SavedMissing /\ SavedMissing' = SavedMissing
    BY <2>1, <2>2 DEF Missing, SavedMissing, Places, Queued, ToSet
  <2>4. nm = s /\ ns = s
    BY <2>3
  <2>5. crashes' * Loss' = l + Loss /\ (crashes' + 1) * Loss' = l + Loss + Loss
    <3>1. crashes + 1 \in Nat
      BY <1>3
    <3> QED BY <1>3, <1>5, <2>1, <3>1, LossFacts
  <2>6. nm <= l + Loss /\ ns <= l + Loss + Loss
    BY <1>2, <1>3, <1>4, <2>1, <2>4
  <2> HIDE DEF m, s, l, nm, ns
  <2>7. nm <= crashes' * Loss' + 0 /\ ns <= (crashes' + 1) * Loss'
    BY <1>2, <1>3, <2>5, <2>6
  <2> QED BY <2>1, <2>7 DEF LossInv, nm, ns
<1> QED BY <1>8, <1>9, <1>10, <1>11, <1>12

\* The end and the account at the start.
LEMMA LeftStarts == Init => HeldWhen /\ EndInv /\ LossInv
<1> SUFFICES ASSUME Init PROVE HeldWhen /\ EndInv /\ LossInv
  OBVIOUS
<1>1. HeldWhen
  BY DEF Init, HeldWhen
<1>2. Cardinality({}) = 0
  BY FS_EmptySet
<1>3. EndInv
  BY <1>2, Constants DEF Init, EndInv, FinishAtEnd
<1>4. Missing = {} /\ SavedMissing = {}
  BY DEF Init, Missing, SavedMissing
<1>5. crashes * Loss = 0 /\ (crashes + 1) * Loss \in Nat /\ (crashes + 1) * Loss >= 0
  <2>1. crashes = 0 /\ Loss \in Nat
    BY LossFacts DEF Init
  <2> QED BY <2>1
<1> QED BY <1>1, <1>2, <1>3, <1>4, <1>5 DEF Init, LossInv

\* When the trainer has stopped the processor has taken every sample and nothing
\* is held, generated, queued or collected: what is neither trained nor dropped
\* is missing, and the account bounds it.
LEMMA StoppedMeansLittleLeft ==
  ASSUME TypeInv, HeldWhen, EndInv, LossInv PROVE NothingLeftBehind
<1> SUFFICES ASSUME trainer = "stopped"
             PROVE  Total - Cardinality(trained \cup dropped) < Required + crashes * Loss
  BY DEF NothingLeftBehind, Loss
<1>1. closing /\ processor = "done" /\ taken = Total /\ active = {} /\ queue = << >> /\ collected = {}
  BY DEF EndInv
<1>2. running = {} /\ held = None /\ trained \cup dropped \subseteq Samples
  BY <1>1 DEF TypeInv, TypeOK, HeldWhen
<1>3. Missing = Samples \ (trained \cup dropped)
  BY <1>1, <1>2 DEF Missing, Places, Queued, ToSet, Samples
<1>4. IsFiniteSet(Samples) /\ Cardinality(Samples) = Total /\ Total \in Nat /\ Required \in Nat \ {0}
  BY FS_Interval, Constants DEF Samples
<1>5. Samples \cap (trained \cup dropped) = trained \cup dropped
  BY <1>2
<1>6. Cardinality(Missing) = Total - Cardinality(trained \cup dropped)
  <2>1. \A T : Cardinality(Samples \ T) = Cardinality(Samples) - Cardinality(Samples \cap T)
    BY <1>4, FS_Difference
  <2>2. Cardinality(Samples \ (trained \cup dropped)) = Total - Cardinality(trained \cup dropped)
    BY <1>4, <1>5, <2>1
  <2> QED BY <1>3, <2>2
<1>7. /\ Cardinality(Missing) \in Nat /\ Cardinality(trained \cup dropped) \in Nat
      /\ Cardinality(Missing) <= crashes * Loss + (Required - 1) /\ crashes * Loss \in Nat
  <2>1. crashes \in Nat
    BY Constants DEF TypeInv, TypeOK
  <2> QED BY <1>1, <1>2, <2>1, MissingFacts, FiniteSamples, LossFacts DEF LossInv
<1> QED BY <1>4, <1>6, <1>7

\* A finished run has trained on, or knowingly dropped from the full queue, all
\* samples but fewer than one training step's, and for each crash what was between
\* the data and the trainer when the checkpoint was written (the finish signal of
\* _processor_worker, _get_samples_from_queue, _fit_save_checkpoint, the resume).
THEOREM LittleIsLeftBehind == Spec => []NothingLeftBehind
<1> DEFINE Before == TypeInv /\ PlacesInv /\ FreshInv
           After == HeldWhen /\ EndInv /\ ResetInv /\ LossInv
<1>1. Init => After
  BY ResetStarts, LeftStarts
<1>2. Before /\ After /\ [Next]_vars => After'
  BY HeldWhenKept, EndKept, ResetKept, LossKept
<1>3. Before /\ After => NothingLeftBehind
  BY StoppedMeansLittleLeft
<1>4. Spec => []Before
  BY PlacesHold, FreshHolds, PTL
<1> QED BY <1>1, <1>2, <1>3, <1>4, PTL DEF Spec
=============================================================================
