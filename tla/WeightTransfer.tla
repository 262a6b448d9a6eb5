--------------------------- MODULE WeightTransfer ---------------------------
(***************************************************************************)
(* CheckpointEngineManager.update_weights with the nixl checkpoint engine: *)
(* rank 0 of the trainer packs its tensors into buckets, the rollout ranks *)
(* 1..NumRanks pass the buckets on, each reading from the one before it,   *)
(* and hand the tensors through a shared buffer to the inference worker    *)
(* on the same device, which loads them.                                   *)
(*                                                                         *)
(* Every agent has two buckets.  The engine runs on the host; copies on    *)
(* the device (pend) and reads of another agent's bucket (xfer) happen on  *)
(* their own, at any time until the host waits for them.                   *)
(***************************************************************************)
EXTENDS Naturals, Sequences, SequencesExt, FiniteSetsExt

CONSTANTS
  Sizes,        \* the sizes of the tensors, in the order they are sent
  BucketSize,   \* update_weights_bucket_megabytes, of both kinds of buckets
  ReplicaOf,    \* the replica of each rollout rank
  MaxUpdates,   \* bound: pushes of new weights
  MaxFailures   \* bound: requests that could not be aborted

Tensors == DOMAIN Sizes
Ranks == DOMAIN ReplicaOf
NumRanks == Len(ReplicaOf)
Agents == 0..NumRanks
MembersOf(p) == {r \in Ranks : ReplicaOf[r] = p}
ReplicaNames == {ReplicaOf[r] : r \in Ranks}

\* A tensor that is too large fails an assertion; with one rollout rank the
\* lists of build_topology have the wrong length and fail one as well.
ASSUME TensorsFit == \A t \in Tensors : Sizes[t] \in 1..BucketSize
ASSUME SeveralRanks == NumRanks >= 2

\* What the constants are: numbers, and lists of sizes and of replicas.
ASSUME Parameters ==
  /\ Sizes \in Seq(Nat) /\ ReplicaOf \in Seq(ReplicaNames)
  /\ BucketSize \in Nat /\ MaxUpdates \in Nat /\ MaxFailures \in Nat

VARIABLES
  manager,   \* [pc, round, left (replicas to visit), failed, failures]
  open,      \* the replicas that generate
  agent,     \* [agent -> [send (bucket), op, sent, notes, buf, pend]]
  master,    \* [pc, next (tensor), at (offset), meta]
  chain,     \* [rank -> [pc, cur, nxt, todo, inbox, xfer]]
  ipc,       \* [rank -> [at, meta, buf, msg, answered]]
  worker,    \* [rank -> [pc, clones, last]]
  model,     \* [rank -> [tensor -> version]], of the inference worker
  label      \* [replica -> global_steps of its server]

vars == <<manager, open, agent, master, chain, ipc, worker, model, label>>
-----------------------------------------------------------------------------
(* Buckets: each byte holds the tensor and the version it is of.           *)

Nothing == <<0, 0>>
Blank == [o \in 1..BucketSize |-> Nothing]
Bytes(t, at) == (at + 1)..(at + Sizes[t])
Torn == MaxUpdates + 1

\* The version of tensor t that stands at an offset.
VersionAt(bucket, t, at) ==
  IF \E v \in 1..MaxUpdates : \A o \in Bytes(t, at) : bucket[o] = <<t, v>>
  THEN bucket[at + 1][2] ELSE Torn

Fits(at, t) == at + Sizes[t] <= BucketSize
Other(side) == 3 - side
Place(t, at) == [name |-> t, at |-> at]
NoXfer == [on |-> FALSE, done |-> FALSE]
NoMessage == [meta |-> << >>, last |-> FALSE]

\* prepare, init_process_group and the entry of send_weights and receive_weights:
\* new buckets.  What an agent was notified of and has been sent outlives a push.
Prepared(x) == [x EXCEPT !.send = 1, !.op = 0, !.buf = [s \in {1, 2} |-> Blank]]

FreshAgent ==
  [send |-> 1, op |-> 0, sent |-> 0, notes |-> << >>, buf |-> [s \in {1, 2} |-> Blank], pend |-> << >>]

\* Mutation: the last rank gets no bucket.
MutantHasNext(a) == a < NumRanks - 1

HasNext(a) == a < NumRanks
Leader(r) == r = Min(MembersOf(ReplicaOf[r]))

IdleChain == [pc |-> "done", cur |-> NoMessage, nxt |-> NoMessage, todo |-> << >>,
              inbox |-> << >>, xfer |-> NoXfer]

Init ==
  /\ manager = [pc |-> "idle", round |-> 0, left |-> {}, failed |-> {}, failures |-> 0]
  /\ open = ReplicaNames
  /\ agent = [a \in Agents |-> FreshAgent]
  /\ master = [pc |-> "done", next |-> 1, at |-> 0, meta |-> << >>]
  /\ chain = [r \in Ranks |-> IdleChain]
  /\ ipc = [r \in Ranks |-> [at |-> 0, meta |-> << >>, buf |-> Blank, msg |-> << >>, answered |-> FALSE]]
  /\ worker = [r \in Ranks |-> [pc |-> "done", clones |-> {}, last |-> FALSE]]
  /\ model = [r \in Ranks |-> [t \in Tensors |-> 0]]
  /\ label = [p \in ReplicaNames |-> 0]
-----------------------------------------------------------------------------
(* The manager                                                             *)

StartUpdate ==
  /\ manager.pc = "idle" /\ manager.round < MaxUpdates
  /\ manager' = [manager EXCEPT !.pc = "abort", !.round = @ + 1, !.left = ReplicaNames, !.failed = {}]
  /\ UNCHANGED <<open, agent, master, chain, ipc, worker, model, label>>

\* abort_all_requests pauses the engines of a replica.
AbortRequests(p) ==
  /\ manager.pc = "abort" /\ p \in manager.left
  /\ manager' = [manager EXCEPT !.left = @ \ {p}]
  /\ open' = open \ {p}
  /\ UNCHANGED <<agent, master, chain, ipc, worker, model, label>>

\* Its exceptions are logged and returned, and nobody looks at what it returns.
AbortFails(p) ==
  /\ manager.pc = "abort" /\ p \in manager.left /\ manager.failures < MaxFailures
  /\ manager' = [manager EXCEPT !.left = @ \ {p}, !.failed = @ \cup {p}, !.failures = @ + 1]
  /\ UNCHANGED <<open, agent, master, chain, ipc, worker, model, label>>

\* build_process_group; the memory behind a shared buffer keeps what it held.
Connect ==
  /\ manager.pc = "abort" /\ manager.left = {}
  /\ manager' = [manager EXCEPT !.pc = "transfer"]
  /\ agent' = [a \in Agents |-> Prepared(agent[a])]
  /\ master' = [pc |-> "fill", next |-> 1, at |-> 0, meta |-> << >>]
  /\ chain' = [r \in Ranks |-> [IdleChain EXCEPT !.pc = IF Leader(r) THEN "call" ELSE "setup",
                                              !.inbox = chain[r].inbox]]
  /\ ipc' = [r \in Ranks |-> [ipc[r] EXCEPT !.at = 0, !.meta = << >>]]
  /\ worker' = [r \in Ranks |-> [pc |-> "idle", clones |-> {}, last |-> FALSE]]
  /\ UNCHANGED <<open, model, label>>

\* All calls have returned; finalize releases the buckets.
Finalize ==
  /\ manager.pc = "transfer"
  /\ master.pc = "done" /\ \A r \in Ranks : chain[r].pc = "done"
  /\ manager' = [manager EXCEPT !.pc = "resume", !.left = ReplicaNames]
  /\ UNCHANGED <<open, agent, master, chain, ipc, worker, model, label>>

ResumeGeneration(p) ==
  /\ manager.pc = "resume" /\ p \in manager.left
  /\ manager' = [manager EXCEPT !.left = @ \ {p}, !.pc = IF manager.left = {p} THEN "idle" ELSE @]
  /\ open' = open \cup {p}
  /\ UNCHANGED <<agent, master, chain, ipc, worker, model, label>>
-----------------------------------------------------------------------------
(* Buckets that another agent may read                                     *)

\* ReadableOperation.wait_for_complete, with its assertion
WaitOver(a) == agent[a].op = 0 \/ (agent[a].notes # << >> /\ Head(agent[a].notes) = agent[a].op)

Waited(x) == [x EXCEPT !.op = 0, !.notes = IF x.op = 0 THEN @ ELSE Tail(@)]

\* Mutation: a swap does not wait for the copies out of the bucket.
MutantSynchronized(a) == a > 0 \/ agent[a].pend = << >>

\* synchronize: all copies of the device are done.
Synchronized(a) == agent[a].pend = << >>

\* A new ReadableOperation on the send bucket.
Announced(x) == [x EXCEPT !.op = x.sent + 1, !.sent = @ + 1]

MessageOf(a, meta, last) ==
  [meta |-> meta, last |-> last, key |-> agent[a].sent + 1, side |-> agent[a].send]

Post(a, meta, last) ==
  chain' = [chain EXCEPT ![a + 1].inbox = Append(@, MessageOf(a, meta, last))]

Swapped(x) == [x EXCEPT !.send = Other(@)]
-----------------------------------------------------------------------------
(* send_weights of rank 0                                                  *)

Fill ==
  LET t == master.next IN
  /\ master.pc = "fill" /\ t \in Tensors /\ Fits(master.at, t)
  /\ agent' = [agent EXCEPT ![0].pend = Append(@, [name |-> t, side |-> agent[0].send, at |-> master.at])]
  /\ master' = [master EXCEPT !.next = t + 1, !.at = @ + Sizes[t], !.meta = Append(@, Place(t, master.at))]
  /\ UNCHANGED <<manager, open, chain, ipc, worker, model, label>>

\* The bucket is full: the one before it must have been read.
Flush ==
  /\ master.pc = "fill" /\ master.next \in Tensors /\ ~Fits(master.at, master.next)
  /\ Synchronized(0) /\ WaitOver(0)
  /\ Post(0, master.meta, FALSE)
  /\ agent' = [agent EXCEPT ![0] = Swapped(Announced(Waited(@)))]
  /\ master' = [master EXCEPT !.at = 0, !.meta = << >>]
  /\ UNCHANGED <<manager, open, ipc, worker, model, label>>

FlushLast ==
  /\ master.pc = "fill" /\ master.next \notin Tensors
  /\ Synchronized(0) /\ WaitOver(0)
  /\ Post(0, master.meta, TRUE)
  /\ agent' = [agent EXCEPT ![0] = Announced(Waited(@))]
  /\ master' = [master EXCEPT !.pc = "sent"]
  /\ UNCHANGED <<manager, open, ipc, worker, model, label>>

SendDone ==
  /\ master.pc = "sent" /\ WaitOver(0)
  /\ agent' = [agent EXCEPT ![0] = Waited(@)]
  /\ master' = [master EXCEPT !.pc = "done"]
  /\ UNCHANGED <<manager, open, chain, ipc, worker, model, label>>
-----------------------------------------------------------------------------
(* Copies of the device and reads of buckets                               *)

\* The bytes of tensor t as they are written behind an offset.
Written(bucket, at, t, bytes) ==
  [o \in DOMAIN bucket |-> IF o \in Bytes(t, at) THEN bytes[o - at] ELSE bucket[o]]

\* The trainer's copies come from its weights and go into the send bucket,
\* those of a rank come from its bucket and go into the shared buffer.
DeviceCopy(a) ==
  LET c == Head(agent[a].pend)
      n == Sizes[c.name]
  IN  /\ agent[a].pend # << >>
      /\ IF a = 0
         THEN /\ agent' = [agent EXCEPT ![a].pend = Tail(@),
                             ![a].buf[c.side] = Written(@, c.at, c.name, [o \in 1..n |-> <<c.name, manager.round>>])]
              /\ UNCHANGED ipc
         ELSE /\ agent' = [agent EXCEPT ![a].pend = Tail(@)]
              /\ ipc' = [ipc EXCEPT ![a].buf =
                           Written(@, c.to, c.name, [o \in 1..n |-> agent[a].buf[c.side][c.at + o]])]
      /\ UNCHANGED <<manager, open, master, chain, worker, model, label>>

\* begin_read: the whole bucket of the agent before r, into the receive bucket.
BeginRead(r) == [on |-> TRUE, done |-> FALSE, key |-> Head(chain[r].inbox).key,
                 from |-> Head(chain[r].inbox).side, to |-> Other(agent[r].send)]

\* The read takes place, and the other agent is notified of it.
ReadBucket(r) ==
  LET x == chain[r].xfer IN
  /\ x.on /\ ~x.done
  /\ agent' = [agent EXCEPT ![r].buf[x.to] = agent[r - 1].buf[x.from], ![r - 1].notes = Append(@, x.key)]
  /\ chain' = [chain EXCEPT ![r].xfer.done = TRUE]
  /\ UNCHANGED <<manager, open, master, ipc, worker, model, label>>
-----------------------------------------------------------------------------
(* update_weights of a rollout rank                                        *)

\* The first rank of a replica has all its workers receive.
CallWorkers(r) ==
  /\ chain[r].pc = "call"
  /\ chain' = [chain EXCEPT ![r].pc = "setup"]
  /\ worker' = [w \in Ranks |-> IF ReplicaOf[w] = ReplicaOf[r] THEN [worker[w] EXCEPT !.pc = "attach"]
                                                             ELSE worker[w]]
  /\ UNCHANGED <<manager, open, agent, master, ipc, model, label>>

\* _init_buffer on both sides
Attach(r) ==
  /\ chain[r].pc = "setup" /\ worker[r].pc = "attach"
  /\ chain' = [chain EXCEPT ![r].pc = "first"]
  /\ worker' = [worker EXCEPT ![r].pc = "receive"]
  /\ UNCHANGED <<manager, open, agent, master, ipc, model, label>>

ReadFirst(r) ==
  /\ chain[r].pc = "first" /\ chain[r].inbox # << >>
  /\ chain' = [chain EXCEPT ![r].pc = "reading", ![r].nxt = Head(chain[r].inbox),
                            ![r].inbox = Tail(@), ![r].xfer = BeginRead(r)]
  /\ UNCHANGED <<manager, open, agent, master, ipc, worker, model, label>>

\* The bucket just read becomes the one to send and to yield from.
Advanced(x) == [x EXCEPT !.pc = "announce", !.cur = x.nxt, !.xfer = NoXfer]

FirstRead(r) ==
  /\ chain[r].pc = "reading" /\ chain[r].xfer.done
  /\ chain' = [chain EXCEPT ![r] = Advanced(@)]
  /\ agent' = [agent EXCEPT ![r] = Swapped(@)]
  /\ UNCHANGED <<manager, open, master, ipc, worker, model, label>>

\* A bucket is offered to the next rank before its tensors are yielded.
AnnounceBucket(r) ==
  LET x == chain[r]
      going == [x EXCEPT !.pc = IF x.cur.last THEN "yield" ELSE "read", !.todo = x.cur.meta]
  IN  /\ x.pc = "announce"
      /\ IF HasNext(r)
         THEN /\ agent' = [agent EXCEPT ![r] = Announced(@)]
              /\ chain' = [chain EXCEPT ![r] = going,
                             ![r + 1].inbox = Append(@, MessageOf(r, x.cur.meta, x.cur.last))]
         ELSE /\ chain' = [chain EXCEPT ![r] = going]
              /\ UNCHANGED agent
      /\ UNCHANGED <<manager, open, master, ipc, worker, model, label>>

ReadNext(r) ==
  /\ chain[r].pc = "read" /\ chain[r].inbox # << >>
  /\ chain' = [chain EXCEPT ![r].pc = "yield", ![r].nxt = Head(chain[r].inbox),
                            ![r].inbox = Tail(@), ![r].xfer = BeginRead(r)]
  /\ UNCHANGED <<manager, open, agent, master, ipc, worker, model, label>>

\* A tensor is yielded and copied into the shared buffer.
Yield(r) ==
  LET p == Head(chain[r].todo) IN
  /\ chain[r].pc = "yield" /\ chain[r].todo # << >> /\ Fits(ipc[r].at, p.name)
  /\ agent' = [agent EXCEPT ![r].pend =
                 Append(@, [name |-> p.name, side |-> agent[r].send, at |-> p.at, to |-> ipc[r].at])]
  /\ ipc' = [ipc EXCEPT ![r].at = @ + Sizes[p.name], ![r].meta = Append(@, Place(p.name, ipc[r].at))]
  /\ chain' = [chain EXCEPT ![r].todo = Tail(@)]
  /\ UNCHANGED <<manager, open, master, worker, model, label>>

\* The shared buffer is handed to the worker, whose answer is waited for.
Handed(r, last) ==
  ipc' = [ipc EXCEPT ![r].msg = <<[meta |-> ipc[r].meta, last |-> last]>>, ![r].answered = FALSE]

HandOver(r) ==
  /\ chain[r].pc = "yield" /\ chain[r].todo # << >> /\ ~Fits(ipc[r].at, Head(chain[r].todo).name)
  /\ Synchronized(r)
  /\ Handed(r, FALSE)
  /\ chain' = [chain EXCEPT ![r].pc = "handed"]
  /\ UNCHANGED <<manager, open, agent, master, worker, model, label>>

Answered(r) ==
  /\ chain[r].pc = "handed" /\ ipc[r].answered
  /\ ipc' = [ipc EXCEPT ![r].at = 0, ![r].meta = << >>, ![r].answered = FALSE]
  /\ chain' = [chain EXCEPT ![r].pc = "yield"]
  /\ UNCHANGED <<manager, open, agent, master, worker, model, label>>

\* Both neighbours are done with their buckets, and so is the device.
Turn(r) ==
  /\ chain[r].pc = "yield" /\ chain[r].todo = << >> /\ ~chain[r].cur.last
  /\ WaitOver(r) /\ chain[r].xfer.done /\ Synchronized(r)
  /\ chain' = [chain EXCEPT ![r] = Advanced(@)]
  /\ agent' = [agent EXCEPT ![r] = Swapped(Waited(@))]
  /\ UNCHANGED <<manager, open, master, ipc, worker, model, label>>

\* The generator ends when the next rank has read; then the rest is handed over.
HandOverLast(r) ==
  /\ chain[r].pc = "yield" /\ chain[r].todo = << >> /\ chain[r].cur.last
  /\ WaitOver(r) /\ Synchronized(r)
  /\ Handed(r, TRUE)
  /\ agent' = [agent EXCEPT ![r] = Waited(@)]
  /\ chain' = [chain EXCEPT ![r].pc = "handedLast"]
  /\ UNCHANGED <<manager, open, master, worker, model, label>>

AnsweredLast(r) ==
  /\ chain[r].pc = "handedLast" /\ ipc[r].answered
  /\ ipc' = [ipc EXCEPT ![r].answered = FALSE]
  /\ chain' = [chain EXCEPT ![r].pc = IF Leader(r) THEN "await" ELSE "done"]
  /\ UNCHANGED <<manager, open, agent, master, worker, model, label>>

\* The workers of the replica have returned: set_global_steps.
SetGlobalSteps(r) ==
  /\ chain[r].pc = "await" /\ \A w \in MembersOf(ReplicaOf[r]) : worker[w].pc = "done"
  /\ label' = [label EXCEPT ![ReplicaOf[r]] = manager.round]
  /\ chain' = [chain EXCEPT ![r].pc = "done"]
  /\ UNCHANGED <<manager, open, agent, master, ipc, worker, model>>
-----------------------------------------------------------------------------
(* receive_weights of an inference worker                                  *)

\* The tensors are cloned before the answer and loaded after it.
CloneBucket(w) ==
  LET msg == Head(ipc[w].msg) IN
  /\ worker[w].pc = "receive" /\ ipc[w].msg # << >>
  /\ worker' = [worker EXCEPT ![w] = [pc |-> "load", last |-> msg.last, clones |->
                   {<<p.name, VersionAt(ipc[w].buf, p.name, p.at)>> : p \in ToSet(msg.meta)}]]
  /\ ipc' = [ipc EXCEPT ![w].msg = << >>, ![w].answered = TRUE]
  /\ UNCHANGED <<manager, open, agent, master, chain, model, label>>

LoadWeights(w) ==
  /\ worker[w].pc = "load"
  /\ model' = [model EXCEPT ![w] = [t \in Tensors |->
                  IF \E c \in worker[w].clones : c[1] = t
                  THEN (CHOOSE c \in worker[w].clones : c[1] = t)[2] ELSE @[t]]]
  /\ worker' = [worker EXCEPT ![w].pc = IF worker[w].last THEN "done" ELSE "receive", ![w].clones = {}]
  /\ UNCHANGED <<manager, open, agent, master, chain, ipc, label>>
-----------------------------------------------------------------------------
RankStep(r) ==
  \/ CallWorkers(r) \/ Attach(r) \/ ReadFirst(r) \/ FirstRead(r) \/ AnnounceBucket(r) \/ ReadNext(r)
  \/ Yield(r) \/ HandOver(r) \/ Answered(r) \/ Turn(r) \/ HandOverLast(r) \/ AnsweredLast(r)
  \/ SetGlobalSteps(r)

Progress ==
  \/ Connect \/ Finalize
  \/ \E p \in ReplicaNames : AbortRequests(p) \/ ResumeGeneration(p)
  \/ Fill \/ Flush \/ FlushLast \/ SendDone
  \/ \E a \in Agents : DeviceCopy(a)
  \/ \E r \in Ranks : RankStep(r) \/ ReadBucket(r) \/ CloneBucket(r) \/ LoadWeights(r)

Next == StartUpdate \/ (\E p \in ReplicaNames : AbortFails(p)) \/ Progress

\* Hosts, devices and workers all go on.
Spec == Init /\ [][Next]_vars /\ WF_vars(Progress)
-----------------------------------------------------------------------------
Delivery == INSTANCE WeightDelivery
  WITH Replicas <- {MembersOf(p) : p \in ReplicaNames}, latest <- manager.round,
       label <- [S \in {MembersOf(p) : p \in ReplicaNames} |-> label[CHOOSE p \in ReplicaNames : S = MembersOf(p)]],
       open <- {MembersOf(p) : p \in open}, excused <- {MembersOf(p) : p \in manager.failed}

\* The transfer keeps what WeightDelivery promises: every replica that serves has
\* one version of all tensors on all its workers, the one it reports, whatever
\* the order of copies, reads and answers; only a replica whose abort failed
\* serves while it is loaded (update_weights of the manager, receive_weights of
\* the engine and of the worker).
ImplementsDelivery == Delivery!Spec

\* A push that has begun ends with all replicas serving again, which
\* ImplementsDelivery allows them with all tensors of the new version only, and
\* leaves no message and no notification behind that the next push would take
\* for its own (update_weights of the manager, NixlAgent).
EveryPushEnds ==
  manager.pc = "abort" ~>
    /\ manager.pc = "idle" /\ open = ReplicaNames
    /\ \A a \in Agents : agent[a].notes = << >>
    /\ \A r \in Ranks : chain[r].inbox = << >>
=============================================================================
