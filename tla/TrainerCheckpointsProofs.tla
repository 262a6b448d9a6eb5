---------------------- MODULE TrainerCheckpointsProofs ----------------------
(***************************************************************************)
(* Theorems about TrainerCheckpoints, for any lengths of epochs, limits    *)
(* and crashes: its types, that the tracked checkpoint can be resumed,     *)
(* that batches are trained in their order, and the bound on the steps.    *)
(***************************************************************************)
EXTENDS TrainerCheckpoints, SequenceTheorems, TLAPS

-----------------------------------------------------------------------------
(* Lists of paths and files                                                *)

LEMMA Constants ==
  /\ StepsPerEpoch \in Nat \ {0} /\ TotalEpochs \in Nat \ {0} /\ TotalSteps \in Nat \ {0}
  /\ MaxCrashes \in Nat /\ \A l \in Limits : l = NoLimit \/ l \in Nat \ {0}
  /\ NoTracker \notin Steps /\ EmptyTracker \notin Steps
BY CheckpointsAssumption DEF Steps

Increasing(p) == \A i, j \in DOMAIN p : i < j => p[i] < p[j]

\* What is left of a list of paths keeps its order and its newest path.
LEMMA NewestFacts ==
  ASSUME NEW p \in Seq(Steps), NEW n \in Nat
  PROVE  /\ Newest(p, n) \in Seq(Steps)
         /\ Increasing(p) => Increasing(Newest(p, n))
         /\ n > 0 /\ p # << >> => /\ Newest(p, n) # << >>
                                  /\ Newest(p, n)[Len(Newest(p, n))] = p[Len(p)]
<1>1. /\ Len(p) \in Nat /\ DOMAIN p = 1..Len(p) /\ \A i \in 1..Len(p) : p[i] \in Steps
      /\ p # << >> => Len(p) > 0
  BY LenProperties, ElementOfSeq, EmptySeq
<1>2. CASE ~(Len(p) > n)
  BY <1>1, <1>2 DEF Newest
<1>3. CASE Len(p) > n
  <2> DEFINE q == SubSeq(p, Len(p) - n + 1, Len(p))
  <2>1. /\ q \in Seq(Steps) /\ Len(q) = n
        /\ \A i \in 1..n : q[i] = p[Len(p) - n + i]
    BY <1>1, <1>3, SubSeqProperties
  <2>2. DOMAIN q = 1..n
    BY <2>1, LenProperties
  <2>3. Newest(p, n) = q
    BY <1>3 DEF Newest
  <2> HIDE DEF q
  <2>4. Increasing(p) => Increasing(q)
    <3> SUFFICES ASSUME Increasing(p), NEW i \in 1..n, NEW j \in 1..n, i < j PROVE q[i] < q[j]
      BY <2>2 DEF Increasing
    <3>1. Len(p) - n + i \in DOMAIN p /\ Len(p) - n + j \in DOMAIN p
      BY <1>1, <1>3
    <3>2. p[Len(p) - n + i] < p[Len(p) - n + j]
      BY <1>1, <3>1 DEF Increasing
    <3> QED BY <2>1, <3>2
  <2>5. n > 0 => q # << >> /\ q[Len(q)] = p[Len(p)]
    BY <1>1, <1>3, <2>1, <2>2, EmptySeq
  <2> QED BY <2>1, <2>3, <2>4, <2>5
<1> QED BY <1>2, <1>3

\* The newest path is never surplus.
LEMMA SurplusFacts ==
  ASSUME NEW p \in Seq(Steps), NEW n \in Nat \ {0}, Increasing(p)
  PROVE  \A s \in Surplus(p, n) : p # << >> /\ s < p[Len(p)]
<1>1. /\ Len(p) \in Nat /\ DOMAIN p = 1..Len(p) /\ \A i \in 1..Len(p) : p[i] \in Steps
  BY LenProperties, ElementOfSeq
<1> SUFFICES ASSUME NEW i \in 1..(Len(p) - n) PROVE p # << >> /\ p[i] < p[Len(p)]
  BY DEF Surplus
<1>2. i \in DOMAIN p /\ Len(p) \in DOMAIN p /\ i < Len(p)
  BY <1>1
<1> QED BY <1>1, <1>2 DEF Increasing

\* ... and of two paths that are kept neither is.
LEMMA AppendFacts ==
  ASSUME NEW p \in Seq(Steps), NEW x \in Steps, Increasing(p), p # << >> => p[Len(p)] < x
  PROVE  LET q == Append(p, x) IN
         /\ q \in Seq(Steps) /\ q # << >> /\ Increasing(q) /\ q[Len(q)] = x
         /\ \A n \in Nat : n >= 2 => \A s \in Surplus(q, n) : p # << >> /\ s < p[Len(p)]
<1> DEFINE q == Append(p, x)
<1>1. /\ Len(p) \in Nat /\ DOMAIN p = 1..Len(p) /\ \A i \in 1..Len(p) : p[i] \in Steps
      /\ p # << >> <=> Len(p) > 0
  BY LenProperties, ElementOfSeq, EmptySeq
<1>2. /\ q \in Seq(Steps) /\ Len(q) = Len(p) + 1
      /\ \A i \in 1..Len(p) : q[i] = p[i]
      /\ q[Len(p) + 1] = x
  BY AppendProperties
<1>3. DOMAIN q = 1..(Len(p) + 1)
  BY <1>2, LenProperties
<1> HIDE DEF q
<1>4. \A i \in 1..Len(p) : p[i] < x
  BY <1>1 DEF Increasing, Steps
<1>5. Increasing(q)
  BY <1>1, <1>2, <1>3, <1>4 DEF Increasing
<1>6. ASSUME NEW n \in Nat, n >= 2, NEW i \in 1..(Len(q) - n) PROVE p # << >> /\ q[i] < p[Len(p)]
  BY <1>1, <1>2, <1>6 DEF Increasing
<1>7. q # << >>
  BY <1>1, <1>3, <1>2, EmptySeq
<1>8. \A n \in Nat : n >= 2 => \A s \in Surplus(q, n) : p # << >> /\ s < p[Len(p)]
  BY <1>6 DEF Surplus
<1> QED BY <1>2, <1>5, <1>7, <1>8 DEF q

LEMMA FileFacts ==
  ASSUME NEW f, NEW S, FilesOK(f, S)
  PROVE  /\ \A s \in Steps, x \in S : FilesOK(With(f, s, Whole(x)), S)
         /\ << >> \in S => \A s \in Steps : FilesOK(With(f, s, Partial), S)
         /\ \A T : FilesOK(Without(f, T), S)
BY DEF FilesOK, With, Without, Whole, Partial
-----------------------------------------------------------------------------
(* The order of a save                                                     *)

Pos(r) == IF r = "actor" THEN 1 ELSE 2
DataPos == IF UseCritic THEN 3 ELSE 2
TrackerPos == DataPos + 1

LEMMA Order ==
  ASSUME saving \in 1..Len(SaveOrder)
  PROVE  /\ Len(SaveOrder) = TrackerPos /\ DataPos \in Nat
         /\ \A r \in Roles : /\ Target = r => saving = Pos(r)
                             /\ Pos(r) \in Nat /\ Pos(r) < DataPos /\ r \notin {"data", "tracker"}
         /\ \A r, q \in Roles : Pos(r) = Pos(q) => r = q
         /\ Target = "data" => saving = DataPos
         /\ Target = "tracker" => saving = TrackerPos
<1>1. CASE UseCritic
  <2>1. SaveOrder = <<"actor", "critic", "data", "tracker">> /\ Roles = {"actor", "critic"}
        /\ DataPos = 3 /\ TrackerPos = 4
    BY <1>1 DEF SaveOrder, Roles, DataPos, TrackerPos
  <2>2. Len(SaveOrder) = 4 /\ saving \in {1, 2, 3, 4}
    BY <2>1
  <2> QED BY <2>1, <2>2 DEF Target, Pos
<1>2. CASE ~UseCritic
  <2>1. SaveOrder = <<"actor", "data", "tracker">> /\ Roles = {"actor"}
        /\ DataPos = 2 /\ TrackerPos = 3
    BY <1>2 DEF SaveOrder, Roles, DataPos, TrackerPos
  <2>2. Len(SaveOrder) = 3 /\ saving \in {1, 2, 3}
    BY <2>1
  <2> QED BY <2>1, <2>2 DEF Target, Pos
<1> QED BY <1>1, <1>2
-----------------------------------------------------------------------------
(* Types                                                                   *)

Active == pc \in {"train", "open", "write", "end"}

\* A whole data.pt holds one position.
DataOK == \A s \in DOMAIN data : data[s].whole => \E a \in 1..StepsPerEpoch : data[s].holds = <<a>>

\* A loader that a checkpoint is taken of has given a batch.
TypeInv ==
  /\ TypeOK /\ DataOK
  /\ Active => step >= 1
  /\ pc \in {"open", "write", "end"} => at >= 1

LEMMA DivisionType == ASSUME NEW n \in Nat PROVE n \div StepsPerEpoch \in Nat
BY Constants

LEMMA ProductType == ASSUME NEW m \in Nat, NEW n \in Nat PROVE m * n \in Nat
OBVIOUS

LEMMA InitTypes == Init => TypeInv
<1> SUFFICES ASSUME Init PROVE TypeInv
  OBVIOUS
<1>1. << >> \in Seq(Steps) /\ << >> \in Batches
  BY DEF Batches
<1>2. /\ FilesOK(NoFiles, Batches) /\ FilesOK(NoFiles, Seq(0..StepsPerEpoch))
      /\ DOMAIN NoFiles = {}
  BY DEF FilesOK, NoFiles, Partial
<1>3. saving \in 1..Len(SaveOrder)
  BY DEF Init, SaveOrder
<1> QED BY <1>1, <1>2, <1>3, Constants DEF Init, TypeInv, TypeOK, DataOK, Active

\* The actions that leave the files alone.
LEMMA LoopTypes ==
  TypeInv /\ (Launch \/ Train \/ Crash) => TypeInv'
<1> SUFFICES ASSUME TypeInv, Launch \/ Train \/ Crash PROVE TypeInv'
  OBVIOUS
<1> USE Constants DEF TypeInv, TypeOK, DataOK, Active
<1>1. CASE FromScratch
  <2>1. 1 \in 1..Len(SaveOrder) /\ << >> \in Batches /\ << >> \in Seq(Steps)
    BY DEF SaveOrder, Batches
  <2> QED BY <1>1, <2>1 DEF FromScratch, files
<1>2. CASE Resume
  <2>1. tracker \in Steps /\ tracker + 1 \in Nat /\ tracker + 1 >= 1
    BY <1>2 DEF Resume, Tracked, Steps
  <2>2. Position(tracker) \in 0..StepsPerEpoch
    BY <1>2, <2>1 DEF Resume, Loadable, Position
  <2>3. \A r \in Roles : shards[r][tracker].holds \in Batches
    BY <1>2, <2>1 DEF Resume, Loadable, FilesOK
  <2>4. 1 \in 1..Len(SaveOrder) /\ << >> \in Seq(Steps)
    BY DEF SaveOrder
  <2>5. tracker \div StepsPerEpoch \in Nat
    BY <2>1, DivisionType DEF Steps
  <2> QED BY <1>2, <2>1, <2>2, <2>3, <2>4, <2>5 DEF Resume, files
<1>3. CASE Refuse
  BY <1>3 DEF Refuse, memory, files
<1>4. CASE Update
  <2>1. <<epoch * StepsPerEpoch + at, crashes>> \in Nat \X (0..MaxCrashes)
    <3> DEFINE m == epoch * StepsPerEpoch
    <3>1. m \in Nat
      BY ProductType
    <3> HIDE DEF m
    <3>2. m + at \in Nat
      BY <3>1
    <3> QED BY <3>2 DEF m
  <2>2. \A r \in Roles : Append(trained[r], <<epoch * StepsPerEpoch + at, crashes>>) \in Batches
    BY <2>1, AppendProperties DEF Batches
  <2>3. at' = at + 1 /\ at < StepsPerEpoch
    BY <1>4 DEF Update
  <2>4. trained' \in [Roles -> Batches]
    BY <1>4, <2>2 DEF Update
  <2>5. /\ pc' \in {"open", "end"} /\ pc = "train"
        /\ UNCHANGED <<keep, step, epoch, saving, paths, shards, data, tracker, crashes>>
    BY <1>4 DEF Update, files
  <2>6. at' \in 0..StepsPerEpoch /\ at' >= 1
    BY <2>3
  <2> HIDE <1>4
  <2> QED BY <2>4, <2>5, <2>6
<1>5. CASE EndStep
  BY <1>5 DEF EndStep, files
<1>6. CASE NextEpoch
  BY <1>6 DEF NextEpoch, files
<1>7. CASE EpochsOver
  BY <1>7 DEF EpochsOver, memory, files
<1>8. CASE Crash
  BY <1>8 DEF Crash, memory, files
<1> QED BY <1>1, <1>2, <1>3, <1>4, <1>5, <1>6, <1>7, <1>8 DEF Launch, Train

LEMMA SaveTypes == TypeInv /\ Save => TypeInv'
<1> SUFFICES ASSUME TypeInv, Save PROVE TypeInv'
  OBVIOUS
<1> USE Constants DEF TypeInv, TypeOK, DataOK, Active
<1>0. << >> \in Batches /\ << >> \in Seq(0..StepsPerEpoch) /\ (pc \in {"open", "write"} => step \in Steps)
  BY DEF Batches, Steps
<1>1. ASSUME NEW r \in Roles, OpenShards(r) PROVE TypeInv'
  <2>1. paths[r] \in Seq(Steps) /\ Len(paths[r]) \in Nat
    BY LenProperties
  <2>2. Room(r) \in Nat
    BY <2>1 DEF Room
  <2>3. Newest(paths[r], Room(r)) \in Seq(Steps)
    BY <2>1, <2>2, NewestFacts
  <2>4. FilesOK(With(Without(shards[r], Surplus(paths[r], Room(r))), step, Partial), Batches)
    BY <1>0, <1>1, FileFacts DEF OpenShards
  <2>5. DOMAIN shards' = Roles /\ \A q \in Roles : FilesOK(shards'[q], Batches)
    BY <1>1, <2>4 DEF OpenShards
  <2>6. paths' \in [Roles -> Seq(Steps)]
    BY <1>1, <2>3 DEF OpenShards
  <2> QED BY <1>1, <2>5, <2>6 DEF OpenShards
<1>2. ASSUME NEW r \in Roles, WriteShards(r) PROVE TypeInv'
  <2>1. Append(paths[r], step) \in Seq(Steps) /\ Len(paths[r]) \in Nat
    BY <1>0, <1>2, AppendProperties, LenProperties DEF WriteShards
  <2>2. Kept(r) \in Nat
    BY <2>1 DEF Kept
  <2>3. Newest(Append(paths[r], step), Kept(r)) \in Seq(Steps)
    BY <2>1, <2>2, NewestFacts
  <2>4. FilesOK(Without(With(shards[r], step, Whole(trained[r])),
                        Surplus(Append(paths[r], step), Kept(r))), Batches)
    BY <1>0, <1>2, FileFacts DEF WriteShards
  <2>5. DOMAIN shards' = Roles /\ \A q \in Roles : FilesOK(shards'[q], Batches)
    BY <1>2, <2>4 DEF WriteShards
  <2>6. paths' \in [Roles -> Seq(Steps)]
    BY <1>2, <2>3 DEF WriteShards
  <2>7. saving' \in 1..Len(SaveOrder) /\ pc' \in {"open", "end"}
    BY <1>2, Order DEF WriteShards, GoOn
  <2> QED BY <1>2, <2>5, <2>6, <2>7 DEF WriteShards
<1>3. CASE OpenData
  <2>1. FilesOK(data', Seq(0..StepsPerEpoch))
    BY <1>0, <1>3, FileFacts DEF OpenData
  <2>2. DataOK'
    BY <1>3 DEF OpenData, With, Partial
  <2> QED BY <1>3, <2>1, <2>2 DEF OpenData, memory
<1>4. CASE WriteData
  <2>1. <<at>> \in Seq(0..StepsPerEpoch) /\ at \in 1..StepsPerEpoch
    BY <1>4 DEF WriteData
  <2>2. FilesOK(data', Seq(0..StepsPerEpoch))
    BY <1>0, <1>4, <2>1, FileFacts DEF WriteData
  <2>3. DataOK'
    BY <1>4, <2>1 DEF WriteData, With, Whole
  <2>4. saving' \in 1..Len(SaveOrder) /\ pc' \in {"open", "end"}
    BY <1>4, Order DEF WriteData, GoOn
  <2> QED BY <1>4, <2>2, <2>3, <2>4 DEF WriteData
<1>5. CASE OpenTracker
  BY <1>5 DEF OpenTracker, memory
<1>6. CASE WriteTracker
  <2>1. saving' \in 1..Len(SaveOrder) /\ pc' \in {"open", "end"}
    BY <1>6, Order DEF WriteTracker, GoOn
  <2> QED BY <1>0, <1>6, <2>1 DEF WriteTracker
<1> QED BY <1>1, <1>2, <1>3, <1>4, <1>5, <1>6 DEF Save

\* No save is without a step, no position beyond the epoch, no list of paths
\* but of steps, whatever the lengths, the limits and the crashes.
LEMMA TypesInvariant == Spec => []TypeInv
<1>1. TypeInv /\ UNCHANGED vars => TypeInv'
  BY DEF TypeInv, TypeOK, DataOK, Active, vars, memory, files
<1>2. TypeInv /\ [Next]_vars => TypeInv'
  BY <1>1, LoopTypes, SaveTypes DEF Next
<1> QED BY <1>2, InitTypes, PTL DEF Spec

\* Types of RayPPOTrainer's loop, of its checkpoint managers' lists and of the
\* files in a checkpoint directory.
THEOREM TypeCorrect == Spec => []TypeOK
BY TypesInvariant, PTL DEF TypeInv
-----------------------------------------------------------------------------
(* The tracked checkpoint                                                  *)

\* The save at hand has written the folder of r.
Registered(r) == pc \in {"open", "write"} /\ Pos(r) < saving

\* A manager's newest path is the tracked checkpoint, until it registers the
\* one that is being saved.
PathsOK(r) ==
  /\ Increasing(paths[r])
  /\ Registered(r) => paths[r] # << >>
  /\ paths[r] # << >> =>
       paths[r][Len(paths[r])] = IF Registered(r) THEN step ELSE tracker

Progress ==
  /\ pc \in {"train", "end"} => saving = 1
  /\ \A r \in Roles : Len(trained[r]) = IF pc = "train" THEN step - 1 ELSE step
  /\ \A r, q \in Roles : trained[r] = trained[q]
  /\ Tracked => tracker <= step /\ (pc # "end" => tracker < step)

WholeLengths ==
  \A r \in Roles : \A s \in DOMAIN shards[r] :
    shards[r][s].whole => Len(shards[r][s].holds) = s

\* What the save at hand has written is there.
Written ==
  /\ \A r \in Roles : Registered(r) => step \in DOMAIN shards[r] /\ shards[r][step] = Whole(trained[r])
  /\ pc \in {"open", "write"} /\ DataPos < saving => step \in DOMAIN data /\ data[step].whole

SaveInv ==
  /\ Active => Progress /\ \A r \in Roles : PathsOK(r)
  /\ WholeLengths /\ Written /\ TrackedRestores

LEMMA EmptyPaths == Increasing(<< >>)
BY DEF Increasing

LEMMA InitSave == Init => SaveInv
BY DEF Init, SaveInv, Active, WholeLengths, Written, Registered, TrackedRestores, Tracked, NoFiles

LEMMA LoopSave ==
  TypeInv /\ SaveInv /\ (Launch \/ Train \/ Crash) => SaveInv'
<1> SUFFICES ASSUME TypeInv, SaveInv, Launch \/ Train \/ Crash PROVE SaveInv'
  OBVIOUS
<1> USE Constants DEF SaveInv, Active
<1>1. CASE FromScratch
  <2>1. \A r \in Roles : trained'[r] = << >> /\ paths'[r] = << >>
    BY <1>1 DEF FromScratch
  <2>2. Progress'
    BY <1>1, <2>1 DEF FromScratch, Progress, Tracked, files
  <2>3. \A r \in Roles : PathsOK(r)'
    BY <1>1, <2>1, EmptyPaths DEF FromScratch, PathsOK, Registered
  <2>4. (WholeLengths /\ Written /\ TrackedRestores)'
    BY <1>1 DEF FromScratch, WholeLengths, Written, Registered, TrackedRestores, Tracked, OnDisk, files
  <2> QED BY <2>2, <2>3, <2>4
<1>2. CASE Resume
  <2>1. tracker \in Steps /\ Tracked
    BY <1>2 DEF Resume, Tracked, TypeInv, TypeOK
  <2>2. \A r \in Roles : /\ trained'[r] = shards[r][tracker].holds /\ paths'[r] = << >>
                         /\ OnDisk(r, tracker)
    BY <1>2 DEF Resume, Loadable, OnDisk
  <2>3. /\ \A r \in Roles : Len(trained'[r]) = tracker
        /\ \A r, q \in Roles : trained'[r] = trained'[q]
    BY <2>1, <2>2 DEF TrackedRestores
  <2>4. Progress'
    BY <1>2, <2>1, <2>3 DEF Resume, Progress, Tracked, files, Steps
  <2>5. \A r \in Roles : PathsOK(r)'
    BY <1>2, <2>2, EmptyPaths DEF Resume, PathsOK, Registered
  <2>6. (WholeLengths /\ Written /\ TrackedRestores)'
    BY <1>2 DEF Resume, WholeLengths, Written, Registered, TrackedRestores, Tracked, OnDisk, files
  <2> QED BY <2>4, <2>5, <2>6
<1>3. CASE Refuse
  BY <1>3 DEF Refuse, memory, files, WholeLengths, Written, Registered, TrackedRestores, Tracked, OnDisk
<1>4. CASE Update
  <2>1. /\ pc = "train" /\ pc' \in {"open", "end"} /\ saving = 1
        /\ UNCHANGED <<keep, step, saving, paths, shards, data, tracker>>
    BY <1>4 DEF Update, files, Progress
  <2>2. \A r \in Roles : trained'[r] = Append(trained[r], <<epoch * StepsPerEpoch + at, crashes>>)
    BY <1>4 DEF Update
  <2>3. \A r \in Roles : Len(trained'[r]) = Len(trained[r]) + 1
    BY <2>2, AppendProperties DEF TypeInv, TypeOK, Batches
  <2>4. \A r, q \in Roles : trained'[r] = trained'[q]
    BY <2>1, <2>2 DEF Progress
  <2>5. Progress'
    BY <2>1, <2>3, <2>4 DEF Progress, Tracked, TypeInv, TypeOK
  <2>6. \A r \in Roles : Pos(r) \in Nat /\ ~(Pos(r) < 1)
    BY DEF Pos
  <2>7. \A r \in Roles : PathsOK(r)'
    BY <2>1, <2>6 DEF PathsOK, Registered
  <2>8. ~(DataPos < 1)
    BY DEF DataPos
  <2>9. (WholeLengths /\ Written /\ TrackedRestores)'
    BY <2>1, <2>6, <2>8 DEF WholeLengths, Written, Registered, TrackedRestores, Tracked, OnDisk
  <2> QED BY <2>5, <2>7, <2>9
<1>5. CASE EndStep
  <2>1. Progress' \/ pc' = "done"
    BY <1>5 DEF EndStep, files, Progress, Tracked, TypeInv, TypeOK, Steps
  <2>2. \A r \in Roles : PathsOK(r)'
    BY <1>5 DEF EndStep, PathsOK, Registered, files
  <2>3. (WholeLengths /\ Written /\ TrackedRestores)'
    BY <1>5 DEF EndStep, WholeLengths, Written, Registered, TrackedRestores, Tracked, OnDisk, files
  <2> QED BY <2>1, <2>2, <2>3
<1>6. CASE NextEpoch
  <2>1. Progress'
    BY <1>6 DEF NextEpoch, files, Progress, Tracked
  <2>2. \A r \in Roles : PathsOK(r)'
    BY <1>6 DEF NextEpoch, PathsOK, Registered, files
  <2>3. (WholeLengths /\ Written /\ TrackedRestores)'
    BY <1>6 DEF NextEpoch, WholeLengths, Written, Registered, TrackedRestores, Tracked, OnDisk, files
  <2> QED BY <2>1, <2>2, <2>3
<1>7. CASE EpochsOver
  BY <1>7 DEF EpochsOver, memory, files, WholeLengths, Written, Registered, TrackedRestores, Tracked, OnDisk
<1>8. CASE Crash
  BY <1>8 DEF Crash, memory, files, WholeLengths, Written, Registered, TrackedRestores, Tracked, OnDisk
<1> QED BY <1>1, <1>2, <1>3, <1>4, <1>5, <1>6, <1>7, <1>8 DEF Launch, Train

\* A manager that has not registered the step at hand has older paths only,
\* the tracked one last.
LEMMA NewestIsTracked ==
  ASSUME TypeInv, SaveInv, pc \in {"open", "write"}, NEW r \in Roles, ~Registered(r)
  PROVE  /\ paths[r] \in Seq(Steps) /\ Increasing(paths[r])
         /\ paths[r] # << >> => /\ paths[r][Len(paths[r])] = tracker
                               /\ tracker \in Steps /\ tracker < step
<1>1. paths[r] \in Seq(Steps) /\ PathsOK(r) /\ Progress
  BY DEF TypeInv, TypeOK, SaveInv, Active
<1>2. ASSUME paths[r] # << >> PROVE paths[r][Len(paths[r])] = tracker /\ tracker \in Steps
  <2>1. Len(paths[r]) \in 1..Len(paths[r])
    BY <1>1, <1>2, LenProperties, EmptySeq
  <2> QED BY <1>1, <1>2, <2>1, ElementOfSeq DEF PathsOK
<1>3. tracker \in Steps => Tracked
  BY Constants DEF Tracked
<1> QED BY <1>1, <1>2, <1>3 DEF Progress, PathsOK

LEMMA OpenShardsSave ==
  ASSUME TypeInv, SaveInv, NEW r \in Roles, OpenShards(r) PROVE SaveInv'
<1> USE Constants DEF SaveInv, Active
<1>1. pc = "open" /\ pc' = "write" /\ saving = Pos(r) /\ step \in Steps /\ Pos(r) \in Nat
  BY Order DEF OpenShards, TypeInv, TypeOK, Steps
<1>2. UNCHANGED <<keep, step, saving, trained, data, tracker>>
  BY DEF OpenShards
<1>3. \A q \in Roles : Registered(q)' = Registered(q)
  BY <1>1, <1>2 DEF Registered
<1>4. ~Registered(r)
  BY <1>1 DEF Registered
<1>5. /\ paths[r] \in Seq(Steps) /\ Increasing(paths[r])
      /\ paths[r] # << >> => /\ paths[r][Len(paths[r])] = tracker
                            /\ tracker \in Steps /\ tracker < step
  BY <1>1, <1>4, NewestIsTracked
<1>6. Len(paths[r]) \in Nat /\ Room(r) \in Nat /\ (paths[r] # << >> => Room(r) > 0)
  BY <1>5, LenProperties, EmptySeq DEF Room, TypeInv, TypeOK
<1>7. Progress'
  BY <1>1, <1>2 DEF Progress, Tracked
<1>8. \A q \in Roles : PathsOK(q)'
  <2>1. PathsOK(r)'
    <3>1. paths'[r] = Newest(paths[r], Room(r))
      BY DEF OpenShards, TypeInv, TypeOK
    <3>2. paths[r] = << >> => paths'[r] = << >>
      BY <1>6, <3>1, EmptySeq DEF Newest
    <3> QED BY <1>2, <1>3, <1>4, <1>5, <1>6, <3>1, <3>2, NewestFacts DEF PathsOK
  <2>2. ASSUME NEW q \in Roles, q # r PROVE PathsOK(q)'
    <3>1. paths'[q] = paths[q]
      BY <2>2 DEF OpenShards, TypeInv, TypeOK
    <3> QED BY <1>1, <1>2, <1>3, <3>1 DEF PathsOK
  <2> QED BY <2>1, <2>2
<1>9. /\ shards'[r] = With(Without(shards[r], Surplus(paths[r], Room(r))), step, Partial)
      /\ \A q \in Roles : q # r => shards'[q] = shards[q]
  BY DEF OpenShards, TypeInv, TypeOK
<1>10. \A s : OnDisk(r, s)' => OnDisk(r, s) /\ s # step /\ shards'[r][s] = shards[r][s]
  BY <1>9 DEF OnDisk, With, Without, Partial
<1>11. WholeLengths'
  <2>1. ASSUME NEW s \in DOMAIN shards'[r], shards'[r][s].whole
        PROVE  Len(shards'[r][s].holds) = s
    BY <1>10, <2>1 DEF OnDisk, WholeLengths
  <2> QED BY <1>9, <2>1 DEF WholeLengths
<1>12. Written'
  <2>1. \A q \in Roles : Registered(q) => q # r
    BY <1>4
  <2> QED BY <1>1, <1>2, <1>3, <1>9, <2>1 DEF Written
<1>13. TrackedRestores'
  <2> SUFFICES ASSUME Tracked PROVE TrackedRestores'
    BY <1>2 DEF TrackedRestores, Tracked
  <2>1. tracker < step /\ tracker \in Steps
    BY <1>1 DEF Progress, Tracked, TypeInv, TypeOK
  <2>2. ASSUME keep[r] # 1, OnDisk(r, tracker) PROVE OnDisk(r, tracker)'
    <3>1. tracker \notin Surplus(paths[r], Room(r))
      <4>1. CASE Room(r) = 0
        BY <1>6, <4>1, EmptySeq DEF Surplus
      <4>2. CASE Room(r) > 0
        BY <1>5, <1>6, <2>1, <4>2, SurplusFacts DEF Steps
      <4> QED BY <1>6, <4>1, <4>2
    <3> QED BY <1>2, <1>9, <2>1, <2>2, <3>1 DEF OnDisk, With, Without, Steps
  <2>3. \A q \in Roles : OnDisk(q, tracker)' => OnDisk(q, tracker) /\ shards'[q][tracker] = shards[q][tracker]
    BY <1>2, <1>9, <1>10 DEF OnDisk
  <2>4. \A q \in Roles : keep[q] # 1 => OnDisk(q, tracker)'
    BY <1>2, <1>9, <2>2 DEF TrackedRestores, OnDisk
  <2> QED BY <1>2, <2>3, <2>4 DEF TrackedRestores
<1> QED BY <1>7, <1>8, <1>11, <1>12, <1>13

LEMMA WriteShardsSave ==
  ASSUME TypeInv, SaveInv, NEW r \in Roles, WriteShards(r) PROVE SaveInv'
<1> DEFINE all == Append(paths[r], step)
<1> USE Constants DEF SaveInv, Active
<1>1. pc = "write" /\ saving = Pos(r) /\ step \in Steps /\ Pos(r) \in Nat /\ Pos(r) < Len(SaveOrder)
  BY Order DEF WriteShards, TypeInv, TypeOK, Steps, TrackerPos
<1>2. pc' = "open" /\ saving' = saving + 1 /\ UNCHANGED <<keep, step, trained, data, tracker>>
  BY <1>1 DEF WriteShards, GoOn
<1>3. /\ ~Registered(r) /\ Registered(r)'
      /\ \A q \in Roles : q # r => Registered(q)' = Registered(q)
  BY <1>1, <1>2, Order DEF Registered, TypeInv, TypeOK
<1>4. /\ paths[r] \in Seq(Steps) /\ Increasing(paths[r])
      /\ paths[r] # << >> => /\ paths[r][Len(paths[r])] = tracker
                            /\ tracker \in Steps /\ tracker < step
  BY <1>1, <1>3, NewestIsTracked
<1>5. /\ all \in Seq(Steps) /\ all # << >> /\ Increasing(all) /\ all[Len(all)] = step
      /\ \A n \in Nat : n >= 2 => \A s \in Surplus(all, n) : paths[r] # << >> /\ s < paths[r][Len(paths[r])]
  BY <1>1, <1>4, AppendFacts
<1>6. /\ Len(paths[r]) \in Nat /\ Len(all) = Len(paths[r]) + 1 /\ Kept(r) \in Nat \ {0}
      /\ keep[r] # 1 => Kept(r) = Len(all) \/ Kept(r) >= 2
  BY <1>1, <1>4, LenProperties, AppendProperties DEF Kept, TypeInv, TypeOK
<1>7. /\ paths'[r] = Newest(all, Kept(r))
      /\ shards'[r] = Without(With(shards[r], step, Whole(trained[r])), Surplus(all, Kept(r)))
      /\ \A q \in Roles : q # r => paths'[q] = paths[q] /\ shards'[q] = shards[q]
  BY DEF WriteShards, TypeInv, TypeOK
<1> HIDE DEF all
<1>8. step \notin Surplus(all, Kept(r))
  BY <1>1, <1>5, <1>6, SurplusFacts DEF Steps
<1>9. Progress'
  BY <1>1, <1>2 DEF Progress, Tracked
<1>10. \A q \in Roles : PathsOK(q)'
  <2>1. PathsOK(r)'
    BY <1>2, <1>3, <1>5, <1>6, <1>7, NewestFacts DEF PathsOK
  <2>2. ASSUME NEW q \in Roles, q # r PROVE PathsOK(q)'
    BY <1>1, <1>2, <1>3, <1>7, <2>2 DEF PathsOK
  <2> QED BY <2>1, <2>2
<1>11. OnDisk(r, step)' /\ shards'[r][step] = Whole(trained[r])
  BY <1>2, <1>7, <1>8 DEF OnDisk, With, Without, Whole
<1>12. \A s : OnDisk(r, s)' /\ s # step => OnDisk(r, s) /\ shards'[r][s] = shards[r][s]
  BY <1>7 DEF OnDisk, With, Without
<1>13. WholeLengths'
  <2>1. Len(trained[r]) = step
    BY <1>1 DEF Progress
  <2>2. ASSUME NEW s \in DOMAIN shards'[r], shards'[r][s].whole
        PROVE  Len(shards'[r][s].holds) = s
    BY <1>11, <1>12, <2>1, <2>2 DEF OnDisk, WholeLengths, Whole
  <2> QED BY <1>7, <2>2 DEF WholeLengths
<1>14. Written'
  <2>1. \A q \in Roles : Registered(q)' => step' \in DOMAIN shards'[q] /\ shards'[q][step'] = Whole(trained'[q])
    BY <1>1, <1>2, <1>3, <1>7, <1>11 DEF Written, OnDisk
  <2>2. ~(DataPos < saving')
    BY <1>1, <1>2, Order DEF TypeInv, TypeOK
  <2> QED BY <2>1, <2>2 DEF Written
<1>15. TrackedRestores'
  <2> SUFFICES ASSUME Tracked PROVE TrackedRestores'
    BY <1>2 DEF TrackedRestores, Tracked
  <2>1. tracker < step /\ tracker \in Steps
    BY <1>1 DEF Progress, Tracked, TypeInv, TypeOK
  <2>2. ASSUME keep[r] # 1, OnDisk(r, tracker) PROVE OnDisk(r, tracker)'
    <3>1. tracker \notin Surplus(all, Kept(r))
      <4>1. CASE Kept(r) = Len(all)
        BY <1>6, <4>1 DEF Surplus
      <4>2. CASE Kept(r) >= 2
        BY <1>4, <1>5, <1>6, <2>1, <4>2 DEF Steps
      <4> QED BY <1>6, <2>2, <4>1, <4>2
    <3> QED BY <1>2, <1>7, <2>1, <2>2, <3>1 DEF OnDisk, With, Without, Steps
  <2>3. \A q \in Roles : OnDisk(q, tracker)' => OnDisk(q, tracker) /\ shards'[q][tracker] = shards[q][tracker]
    BY <1>2, <1>7, <1>12, <2>1 DEF OnDisk, Steps
  <2>4. \A q \in Roles : keep[q] # 1 => OnDisk(q, tracker)'
    BY <1>2, <1>7, <2>2 DEF TrackedRestores, OnDisk
  <2> QED BY <1>2, <2>3, <2>4 DEF TrackedRestores
<1> QED BY <1>9, <1>10, <1>13, <1>14, <1>15

\* The writes of data.pt and of the tracker.
LEMMA RestSave ==
  TypeInv /\ SaveInv /\ (OpenData \/ WriteData \/ OpenTracker \/ WriteTracker) => SaveInv'
<1> SUFFICES ASSUME TypeInv, SaveInv, OpenData \/ WriteData \/ OpenTracker \/ WriteTracker
             PROVE  SaveInv'
  OBVIOUS
<1> USE Constants DEF SaveInv, Active
<1>1. /\ saving \in Nat /\ Len(SaveOrder) = TrackerPos /\ DataPos \in Nat /\ TrackerPos = DataPos + 1
      /\ \A r \in Roles : Pos(r) \in Nat /\ Pos(r) < DataPos
  BY Order DEF TypeInv, TypeOK, TrackerPos
<1>2. pc \in {"open", "write"} /\ step \in Steps /\ UNCHANGED <<keep, step, trained, paths, shards>>
  BY DEF OpenData, WriteData, OpenTracker, WriteTracker, memory, TypeInv, TypeOK, Steps
<1>3. \A r \in Roles : Registered(r)
  BY <1>1, <1>2, Order DEF Registered, OpenData, WriteData, OpenTracker, WriteTracker, TypeInv, TypeOK
<1>4. Tracked => tracker < step /\ tracker \in Steps
  BY <1>2 DEF Progress, Tracked, TypeInv, TypeOK
<1>5. WholeLengths'
  BY <1>2 DEF WholeLengths
<1>6. CASE OpenData
  <2>1. pc' = "write" /\ saving = DataPos /\ UNCHANGED <<saving, tracker>> /\ data' = With(data, step, Partial)
    BY <1>6, Order DEF OpenData, memory, TypeInv, TypeOK
  <2>2. \A r \in Roles : Registered(r)'
    BY <1>2, <1>3, <2>1 DEF Registered
  <2>3. Progress' /\ \A r \in Roles : PathsOK(r)'
    BY <1>2, <1>3, <2>1, <2>2 DEF Progress, Tracked, PathsOK
  <2>4. Written'
    BY <1>1, <1>2, <1>3, <2>1, <2>2 DEF Written
  <2>5. TrackedRestores'
    BY <1>2, <1>4, <2>1 DEF TrackedRestores, Tracked, OnDisk, With, Steps
  <2> QED BY <1>5, <2>3, <2>4, <2>5
<1>7. CASE WriteData
  <2>1. /\ saving = DataPos /\ pc' = "open" /\ saving' = saving + 1
        /\ UNCHANGED tracker /\ data' = With(data, step, Whole(<<at>>))
    BY <1>1, <1>7, Order DEF WriteData, GoOn, TypeInv, TypeOK
  <2>2. \A r \in Roles : Registered(r)'
    BY <1>1, <2>1 DEF Registered
  <2>3. Progress' /\ \A r \in Roles : PathsOK(r)'
    BY <1>2, <1>3, <2>1, <2>2 DEF Progress, Tracked, PathsOK
  <2>4. Written'
    BY <1>2, <1>3, <2>1, <2>2 DEF Written, With, Whole
  <2>5. TrackedRestores'
    BY <1>2, <1>4, <2>1 DEF TrackedRestores, Tracked, OnDisk, With, Steps
  <2> QED BY <1>5, <2>3, <2>4, <2>5
<1>8. CASE OpenTracker
  <2>1. pc' = "write" /\ saving = TrackerPos /\ UNCHANGED <<saving, data>> /\ tracker' = EmptyTracker
    BY <1>8, Order DEF OpenTracker, memory, TypeInv, TypeOK
  <2>2. \A r \in Roles : Registered(r)'
    BY <1>2, <1>3, <2>1 DEF Registered
  <2>3. Progress' /\ \A r \in Roles : PathsOK(r)'
    BY <1>2, <1>3, <2>1, <2>2 DEF Progress, Tracked, PathsOK
  <2>4. Written' /\ TrackedRestores'
    BY <1>2, <1>3, <2>1, <2>2 DEF Written, TrackedRestores, Tracked
  <2> QED BY <1>5, <2>3, <2>4
<1>9. CASE WriteTracker
  <2>1. saving = TrackerPos /\ pc' = "end" /\ saving' = 1 /\ UNCHANGED data /\ tracker' = step
    BY <1>1, <1>9, Order DEF WriteTracker, GoOn, TypeInv, TypeOK
  <2>2. Progress' /\ \A r \in Roles : PathsOK(r)'
    BY <1>2, <1>3, <2>1 DEF Progress, Tracked, PathsOK, Registered, Steps
  <2>3. step \in DOMAIN data /\ data[step].whole
    BY <1>1, <1>2, <2>1 DEF Written
  <2>4. /\ \A r \in Roles : /\ step \in DOMAIN shards[r] /\ shards[r][step] = Whole(trained[r])
                             /\ Len(trained[r]) = step
        /\ \A r, q \in Roles : trained[r] = trained[q]
    BY <1>2, <1>3 DEF Written, Progress
  <2>5. TrackedRestores'
    <3>1. ASSUME NEW r \in Roles PROVE OnDisk(r, step) /\ Len(shards[r][step].holds) = step
      <4>0. shards[r][step] = Whole(trained[r])
        BY <2>4
      <4>1. shards[r][step].whole /\ shards[r][step].holds = trained[r]
        BY <4>0 DEF Whole
      <4> QED BY <2>4, <4>1 DEF OnDisk
    <3>2. \A r, q \in Roles : shards[r][step] = shards[q][step]
      BY <2>4
    <3> QED BY <1>2, <2>1, <2>3, <3>1, <3>2 DEF TrackedRestores, OnDisk
  <2>6. Written'
    BY <2>1 DEF Written, Registered
  <2> QED BY <1>5, <2>2, <2>5, <2>6
<1> QED BY <1>6, <1>7, <1>8, <1>9

LEMMA SaveInvariant == Spec => []SaveInv
<1>1. TypeInv /\ SaveInv /\ UNCHANGED vars => SaveInv'
  BY DEF SaveInv, Active, Progress, PathsOK, Registered, WholeLengths, Written, TrackedRestores,
         Tracked, OnDisk, vars, memory, files
<1>2. TypeInv /\ SaveInv /\ Next => SaveInv'
  BY LoopSave, OpenShardsSave, WriteShardsSave, RestSave DEF Next, Save
<1>3. TypeInv /\ SaveInv /\ [Next]_vars => SaveInv'
  BY <1>1, <1>2
<1> QED BY <1>3, InitSave, TypesInvariant, PTL DEF Spec

\* A tracked checkpoint of which another is kept beside it is complete and of
\* one launch: no crash leaves a run that cannot go on from it.
THEOREM TrackedCheckpointRestores == Spec => []TrackedRestores
BY SaveInvariant, PTL DEF SaveInv
-----------------------------------------------------------------------------
(* The bound on the steps                                                  *)

StopInv ==
  /\ StopsInTime
  /\ Active => step <= TotalSteps + crashes
  /\ pc = "down" /\ Tracked => tracker < TotalSteps + crashes

LEMMA InitStop == Init => StopInv
<1> SUFFICES ASSUME Init PROVE StopInv
  OBVIOUS
<1>1. \A r \in Roles : Len(trained[r]) = 0
  BY DEF Init
<1> QED BY <1>1, Constants DEF Init, StopInv, StopsInTime, Active, Tracked

LEMMA NextStop ==
  ASSUME TypeInv, SaveInv, StopInv, Next, TypeInv', SaveInv' PROVE StopInv'
<1> USE Constants DEF StopInv
<1>0. crashes \in Nat /\ step \in Nat /\ \A r \in Roles : trained[r] \in Batches
  BY DEF TypeInv, TypeOK
<1>1. CASE FromScratch
  <2>1. \A r \in Roles : Len(trained'[r]) = 0
    BY <1>1 DEF FromScratch
  <2> QED BY <1>0, <1>1, <2>1 DEF FromScratch, StopsInTime, Active
<1>2. CASE Resume
  <2>1. tracker \in Nat /\ tracker < TotalSteps + crashes
    BY <1>2 DEF Resume, Tracked, TypeInv, TypeOK, Steps
  <2>2. step' = tracker + 1 /\ pc' = "train" /\ crashes' = crashes
    BY <1>2 DEF Resume
  <2>3. \A r \in Roles : Len(trained'[r]) = step' - 1
    BY <2>2 DEF SaveInv, Active, Progress
  <2> QED BY <1>0, <2>1, <2>2, <2>3 DEF StopsInTime, Active
<1>3. CASE Update
  <2>1. /\ pc = "train" /\ pc' \in {"open", "end"} /\ step' = step /\ crashes' = crashes
    BY <1>3 DEF Update
  <2>2. \A r \in Roles : Len(trained'[r]) = step
    BY <2>1 DEF SaveInv, Active, Progress
  <2> QED BY <2>1, <2>2 DEF StopsInTime, Active
<1>4. CASE EndStep
  BY <1>0, <1>4 DEF EndStep, IsLastStep, StopsInTime, Active
<1>5. CASE Refuse \/ NextEpoch \/ EpochsOver
  BY <1>5 DEF Refuse, NextEpoch, EpochsOver, memory, StopsInTime, Active
<1>6. CASE Save
  <2>1. pc \in {"open", "write"} /\ pc' \in {"open", "write", "end"} /\ UNCHANGED <<step, trained, crashes>>
    BY <1>6 DEF Save, OpenShards, WriteShards, OpenData, WriteData, OpenTracker, WriteTracker, GoOn, memory
  <2> QED BY <2>1 DEF StopsInTime, Active
<1>7. CASE Crash
  <2>1. /\ Active /\ pc' = "down" /\ crashes' = crashes + 1
        /\ UNCHANGED <<step, trained, tracker>>
    BY <1>7 DEF Crash, Active, memory, files
  <2>2. Tracked => tracker \in Nat /\ tracker <= step
    BY <2>1 DEF SaveInv, Progress, Tracked, TypeInv, TypeOK, Steps
  <2>3. \A r \in Roles : Len(trained[r]) \in Nat
    BY <1>0, LenProperties DEF Batches
  <2> QED BY <1>0, <2>1, <2>2, <2>3 DEF StopsInTime, Tracked, Active
<1> QED BY <1>1, <1>2, <1>3, <1>4, <1>5, <1>6, <1>7 DEF Next, Launch, Train

\* total_training_steps is exceeded by no more than one step for each crash.
THEOREM StepsBounded == Spec => []StopsInTime
<1>1. StopInv /\ UNCHANGED vars => StopInv'
  BY DEF StopInv, StopsInTime, Active, Tracked, vars, memory, files
<1>2. TypeInv /\ SaveInv /\ StopInv /\ [Next]_vars /\ TypeInv' /\ SaveInv' => StopInv'
  BY <1>1, NextStop
<1>3. StopInv => StopsInTime
  BY DEF StopInv
<1> QED BY <1>2, <1>3, InitStop, TypesInvariant, SaveInvariant, PTL DEF Spec
-----------------------------------------------------------------------------
(* The order of the batches                                                *)

LEMMA Division ==
  ASSUME NEW l \in Nat \ {0}, NEW n \in Nat
  PROVE  /\ n \div l \in Nat /\ n % l \in 0..(l - 1)
         /\ n = (n \div l) * l + (n % l)
<1>1. n \div l \in Nat
  OBVIOUS
<1>2. n % l \in 0..(l - 1)
  OBVIOUS
<1>3. n = l * (n \div l) + (n % l)
  OBVIOUS
<1>4. l * (n \div l) = (n \div l) * l
  BY <1>1
<1> QED BY <1>1, <1>2, <1>3, <1>4

\* An epoch and a batch of it are what division makes of a step.
LEMMA Unique ==
  ASSUME NEW l \in Nat \ {0}, NEW d \in Nat, NEW e \in Nat, NEW a \in 0..(l - 1), NEW b \in 0..(l - 1),
         d * l + a = e * l + b
  PROVE  d = e /\ a = b
<1>1. ASSUME NEW f \in Nat, NEW g \in Nat, f < g PROVE f * l + l <= g * l
  <2>1. g = f + 1 + (g - f - 1) /\ g - f - 1 \in Nat
    BY <1>1
  <2>2. \A k \in Nat : (f + 1 + k) * l = f * l + l + k * l /\ k * l >= 0
    OBVIOUS
  <2> QED BY <2>1, <2>2
<1>2. d * l \in Nat /\ e * l \in Nat
  BY ProductType
<1>3. ~(d < e)
  BY <1>1, <1>2
<1>4. ~(e < d)
  BY <1>1, <1>2
<1> QED BY <1>2, <1>3, <1>4

\* The number of a batch.
Number(e, a) == e * StepsPerEpoch + a

LEMMA NumberFacts ==
  ASSUME NEW e \in Nat, NEW a \in 0..StepsPerEpoch
  PROVE  /\ Number(e, a) \in Nat
         /\ Number(e, a + 1) = Number(e, a) + 1
         /\ Number(e, StepsPerEpoch) = Number(e + 1, 0)
<1> DEFINE m == e * StepsPerEpoch
<1>1. m \in Nat /\ (e + 1) * StepsPerEpoch = m + StepsPerEpoch
  BY Constants, ProductType
<1> HIDE DEF m
<1>2. m + (a + 1) = (m + a) + 1 /\ m + a \in Nat /\ m + StepsPerEpoch = (m + StepsPerEpoch) + 0
  BY <1>1, Constants
<1> QED BY <1>1, <1>2 DEF Number, m

\* The position that is saved within an epoch is what division makes of its step.
LEMMA NumberUnique ==
  ASSUME NEW s \in Nat, NEW e \in Nat, NEW a \in 1..StepsPerEpoch, s = Number(e, a),
         ~AtEpochBoundary(s)
  PROVE  e = s \div StepsPerEpoch
<1> DEFINE d == s \div StepsPerEpoch
<1> DEFINE b == s % StepsPerEpoch
<1>1. StepsPerEpoch \in Nat \ {0}
  BY Constants
<1>2. d \in Nat /\ b \in 0..(StepsPerEpoch - 1) /\ s = d * StepsPerEpoch + b
  BY <1>1, Division
<1>3. b # 0
  BY DEF AtEpochBoundary
<1> HIDE DEF d, b
<1>4. CASE a = StepsPerEpoch
  <2>1. s = (e + 1) * StepsPerEpoch + 0
    BY <1>1, <1>4, NumberFacts DEF Number
  <2>2. 0 \in 0..(StepsPerEpoch - 1) /\ e + 1 \in Nat
    BY <1>1
  <2>3. d * StepsPerEpoch + b = (e + 1) * StepsPerEpoch + 0
    BY <1>2, <2>1
  <2>4. b = 0
    BY <1>1, <1>2, <2>2, <2>3, Unique, ZenonT(60)
  <2> QED BY <1>3, <2>4
<1>5. CASE a # StepsPerEpoch
  <2>1. a \in 0..(StepsPerEpoch - 1)
    BY <1>1, <1>5
  <2>2. d * StepsPerEpoch + b = e * StepsPerEpoch + a
    BY <1>2 DEF Number
  <2>3. d = e
    BY <1>1, <1>2, <2>1, <2>2, Unique
  <2> QED BY <2>3 DEF d
<1> QED BY <1>4, <1>5

LEMMA BoundaryNumber ==
  ASSUME NEW s \in Nat, AtEpochBoundary(s) PROVE s = Number(s \div StepsPerEpoch, 0)
<1>1. s = (s \div StepsPerEpoch) * StepsPerEpoch + 0
  BY Constants, Division DEF AtEpochBoundary
<1> QED BY <1>1 DEF Number

InOrder(b) == \A i \in DOMAIN b : b[i][1] = i - 1

\* The loop's counters say which batch is next, and a saved position which one
\* was last.
OrderInv ==
  /\ \A r \in Roles : InOrder(trained[r])
  /\ \A r \in Roles : \A s \in DOMAIN shards[r] : shards[r][s].whole => InOrder(shards[r][s].holds)
  /\ Active => IF pc = "train" THEN step = Number(epoch, at) + 1 ELSE step = Number(epoch, at)
  /\ \A s \in DOMAIN data : data[s].whole =>
       \E e \in Nat, a \in 1..StepsPerEpoch : data[s].holds = <<a>> /\ s = Number(e, a)

LEMMA InitOrder == Init => OrderInv
BY DEF Init, OrderInv, InOrder, Active, NoFiles

LEMMA LoopOrder ==
  ASSUME TypeInv, SaveInv, OrderInv, Launch \/ Train \/ Crash PROVE OrderInv'
<1> USE Constants DEF OrderInv
<1>0. /\ step \in Nat /\ epoch \in Nat /\ at \in 0..StepsPerEpoch /\ 0 \in 0..StepsPerEpoch
      /\ \A r \in Roles : trained[r] \in Batches
  BY DEF TypeInv, TypeOK
<1>1. CASE FromScratch
  <2>1. Number(0, 0) = 0
    BY DEF Number
  <2> QED BY <1>1, <2>1 DEF FromScratch, InOrder, Active, files
<1>2. CASE Resume
  <2>1. /\ tracker \in Nat /\ Loadable(tracker) /\ tracker \in DOMAIN data /\ data[tracker].whole
    BY <1>2 DEF Resume, Tracked, TypeInv, TypeOK, SaveInv, TrackedRestores, Steps
  <2>2. tracker = Number(tracker \div StepsPerEpoch, Position(tracker))
    <3>1. CASE AtEpochBoundary(tracker)
      BY <2>1, <3>1, BoundaryNumber DEF Position
    <3>2. CASE ~AtEpochBoundary(tracker)
      <4>1. PICK e \in Nat, a \in 1..StepsPerEpoch : data[tracker].holds = <<a>> /\ tracker = Number(e, a)
        BY <2>1
      <4>2. e = tracker \div StepsPerEpoch
        BY <2>1, <3>2, <4>1, NumberUnique
      <4>3. Position(tracker) = a
        BY <2>1, <3>2, <4>1 DEF Position
      <4> QED BY <4>1, <4>2, <4>3
    <3> QED BY <3>1, <3>2
  <2>3. /\ pc' = "train" /\ step' = tracker + 1 /\ epoch' = tracker \div StepsPerEpoch
        /\ at' = Position(tracker) /\ UNCHANGED <<shards, data>>
    BY <1>2 DEF Resume, files
  <2>4. \A r \in Roles : InOrder(trained'[r])
    BY <1>2 DEF Resume, Loadable
  <2> HIDE <1>2
  <2> QED BY <2>2, <2>3, <2>4
<1>3. CASE Refuse \/ Crash \/ EpochsOver
  BY <1>3 DEF Refuse, Crash, EpochsOver, memory, files, Active
<1>4. CASE Update
  <2>1. /\ pc = "train" /\ pc' \in {"open", "end"} /\ at' = at + 1
        /\ UNCHANGED <<step, epoch, shards, data>>
    BY <1>4 DEF Update, files
  <2>2. step = Number(epoch, at) + 1
    BY <2>1 DEF Active
  <2>3. step' = Number(epoch', at')
    BY <1>0, <2>1, <2>2, NumberFacts
  <2>4. ASSUME NEW r \in Roles PROVE InOrder(trained'[r])
    <3> DEFINE b == <<Number(epoch, at), crashes>>
    <3>1. trained'[r] = Append(trained[r], b)
      BY <1>4 DEF Update, Number, TypeInv, TypeOK
    <3>2. b \in Nat \X (0..MaxCrashes) /\ b[1] = step - 1
      <4>1. Number(epoch, at) \in Nat /\ crashes \in 0..MaxCrashes
        BY <1>0, NumberFacts DEF TypeInv, TypeOK
      <4>2. Number(epoch, at) = step - 1
        BY <1>0, <2>2, <4>1
      <4> QED BY <4>1, <4>2
    <3>3. trained[r] \in Seq(Nat \X (0..MaxCrashes)) /\ Len(trained[r]) = step - 1
      BY <1>0, <2>1 DEF Batches, SaveInv, Active, Progress
    <3> HIDE DEF b
    <3>4. /\ Append(trained[r], b) \in Seq(Nat \X (0..MaxCrashes))
          /\ Len(Append(trained[r], b)) = step
          /\ \A i \in 1..(step - 1) : Append(trained[r], b)[i] = trained[r][i]
          /\ Append(trained[r], b)[step] = b
      BY <1>0, <3>2, <3>3, AppendProperties
    <3>5. DOMAIN trained'[r] = 1..step /\ DOMAIN trained[r] = 1..(step - 1)
      BY <3>1, <3>3, <3>4, LenProperties
    <3> SUFFICES ASSUME NEW i \in 1..step PROVE trained'[r][i][1] = i - 1
      BY <3>5 DEF InOrder
    <3>6. CASE i = step
      BY <3>1, <3>2, <3>4, <3>6
    <3>7. CASE i # step
      <4>1. i \in 1..(step - 1)
        BY <1>0, <3>7
      <4>2. trained'[r][i] = trained[r][i]
        BY <3>1, <3>4, <4>1
      <4> QED BY <3>5, <4>1, <4>2 DEF InOrder
    <3> QED BY <3>6, <3>7
  <2> HIDE <1>4
  <2> QED BY <2>1, <2>3, <2>4
<1>5. CASE EndStep
  <2>1. /\ pc = "end" /\ step' = step + 1 /\ pc' \in {"done", "train"}
        /\ UNCHANGED <<epoch, at, trained, shards, data>>
    BY <1>5 DEF EndStep, files
  <2>2. step = Number(epoch, at)
    BY <2>1 DEF Active
  <2>3. step' = Number(epoch', at') + 1
    BY <2>1, <2>2
  <2> HIDE <1>5
  <2> QED BY <2>1, <2>3 DEF Active
<1>6. CASE NextEpoch
  <2>1. at = StepsPerEpoch /\ pc = "train" /\ step = Number(epoch, at) + 1
    BY <1>0, <1>6 DEF NextEpoch, Active
  <2>2. step = Number(epoch + 1, 0) + 1
    BY <1>0, <2>1, NumberFacts
  <2> QED BY <1>6, <2>1, <2>2 DEF NextEpoch, files
<1> QED BY <1>1, <1>2, <1>3, <1>4, <1>5, <1>6 DEF Launch, Train

LEMMA SaveOrderKept ==
  ASSUME TypeInv, SaveInv, OrderInv, Save PROVE OrderInv'
<1> USE DEF OrderInv
<1>1. /\ pc \in {"open", "write"} /\ pc' \in {"open", "write", "end"}
      /\ UNCHANGED <<step, epoch, at, trained>>
  BY DEF Save, OpenShards, WriteShards, OpenData, WriteData, OpenTracker, WriteTracker, GoOn, memory
<1>2. IF pc' = "train" THEN step' = Number(epoch', at') + 1 ELSE step' = Number(epoch', at')
  BY <1>1 DEF Active
<1>3. ASSUME NEW r \in Roles, NEW s \in DOMAIN shards'[r], shards'[r][s].whole
      PROVE  InOrder(shards'[r][s].holds)
  <2>1. \/ s \in DOMAIN shards[r] /\ shards'[r][s] = shards[r][s]
        \/ shards'[r][s] \in {Partial, Whole(trained[r])}
    <3>1. ASSUME NEW q \in Roles, OpenShards(q) \/ WriteShards(q)
          PROVE  \/ s \in DOMAIN shards[r] /\ shards'[r][s] = shards[r][s]
                 \/ shards'[r][s] \in {Partial, Whole(trained[r])}
      <4>1. CASE q = r
        <5>1. CASE OpenShards(r)
          BY <1>3, <5>1 DEF OpenShards, With, Without, TypeInv, TypeOK
        <5>2. CASE WriteShards(r)
          BY <1>3, <5>2 DEF WriteShards, With, Without, TypeInv, TypeOK
        <5> QED BY <3>1, <4>1, <5>1, <5>2
      <4>2. CASE q # r
        BY <1>3, <3>1, <4>2 DEF OpenShards, WriteShards, TypeInv, TypeOK
      <4> QED BY <4>1, <4>2
    <3>2. CASE OpenData \/ WriteData \/ OpenTracker \/ WriteTracker
      BY <1>3, <3>2 DEF OpenData, WriteData, OpenTracker, WriteTracker
    <3> QED BY <3>1, <3>2 DEF Save
  <2>2. ~Partial.whole /\ Whole(trained[r]).holds = trained[r]
    BY DEF Partial, Whole
  <2> QED BY <1>3, <2>1, <2>2
<1>4. ASSUME NEW s \in DOMAIN data', data'[s].whole
      PROVE  \E e \in Nat, a \in 1..StepsPerEpoch : data'[s].holds = <<a>> /\ s = Number(e, a)
  <2>1. CASE s \in DOMAIN data /\ data'[s] = data[s]
    BY <1>4, <2>1
  <2>2. CASE ~(s \in DOMAIN data /\ data'[s] = data[s])
    <3>1. data'[s] \in {Partial, Whole(<<at>>)} /\ s = step
      <4>1. OpenData \/ WriteData
        BY <1>4, <2>2 DEF Save, OpenShards, WriteShards, OpenTracker, WriteTracker, memory
      <4> QED BY <1>4, <2>2, <4>1 DEF OpenData, WriteData, With
    <3>2. data'[s].holds = <<at>>
      BY <1>4, <3>1 DEF Partial, Whole
    <3>3. epoch \in Nat /\ at \in 1..StepsPerEpoch /\ step = Number(epoch, at)
      BY <1>1, Constants DEF TypeInv, TypeOK, Active
    <3> QED BY <3>1, <3>2, <3>3
  <2> QED BY <2>1, <2>2
<1> QED BY <1>1, <1>2, <1>3, <1>4

\* The loader and the weights go on from the same batch after every crash and
\* resume: none is left out, none is trained twice.
THEOREM BatchesOrdered == Spec => []BatchesInOrder
<1>1. OrderInv /\ UNCHANGED vars => OrderInv'
  BY DEF OrderInv, Active, vars, memory, files
<1>2. TypeInv /\ SaveInv /\ OrderInv /\ [Next]_vars => OrderInv'
  BY <1>1, LoopOrder, SaveOrderKept DEF Next
<1>3. OrderInv => BatchesInOrder
  BY DEF OrderInv, InOrder, BatchesInOrder
<1> QED BY <1>2, <1>3, InitOrder, TypesInvariant, SaveInvariant, PTL DEF Spec
=============================================================================
