------------------------ MODULE WeightTransferProofs ------------------------
(***************************************************************************)
(* Theorems about WeightTransfer, for any sizes of tensors and buckets,    *)
(* any chain of ranks and replicas, and any number of pushes: no tensor is *)
(* torn, mixed up or lost on its way, so the transfer implements           *)
(* WeightDelivery, and a replica that serves has one version of all its    *)
(* tensors on all its workers, the one it reports.                         *)
(***************************************************************************)
EXTENDS WeightTransfer, SequenceTheorems, NaturalsInduction, WellFoundedInduction, TLAPS

-----------------------------------------------------------------------------
(* Sequences, types and buckets                                            *)

\* What a sequence of members of S is made of.
LEMMA SequenceFacts ==
  ASSUME NEW S, NEW s \in Seq(S)
  PROVE  /\ ToSet(s) \subseteq S /\ ToSet(<< >>) = {} /\ Len(s) \in Nat
         /\ s = << >> <=> Len(s) = 0
         /\ s # << >> => /\ Head(s) \in ToSet(s) /\ Head(s) \in S /\ Tail(s) \in Seq(S)
                         /\ ToSet(s) = {Head(s)} \cup ToSet(Tail(s)) /\ Len(Tail(s)) = Len(s) - 1
                         /\ Head(s) = s[1]
<1>1. DOMAIN s = 1..Len(s) /\ Len(s) \in Nat /\ \A n \in 1..Len(s) : s[n] \in S
  BY LenProperties, ElementOfSeq
<1>2. ToSet(s) \subseteq S /\ ToSet(<< >>) = {}
  BY <1>1 DEF ToSet
<1>3. s = << >> <=> Len(s) = 0
  BY EmptySeq
<1>4. ASSUME s # << >>
      PROVE  /\ Head(s) \in ToSet(s) /\ Head(s) \in S /\ Tail(s) \in Seq(S)
             /\ ToSet(s) = {Head(s)} \cup ToSet(Tail(s)) /\ Len(Tail(s)) = Len(s) - 1
             /\ Head(s) = s[1]
  <2>1. Head(s) = s[1] /\ Len(s) >= 1
    BY <1>1, <1>3, <1>4
  <2>2. /\ Tail(s) \in Seq(S) /\ Len(Tail(s)) = Len(s) - 1
        /\ \A n \in 1..(Len(s) - 1) : Tail(s)[n] = s[n + 1]
    BY <1>4, HeadTailProperties
  <2>3. DOMAIN Tail(s) = 1..(Len(s) - 1)
    BY <2>2, LenProperties
  <2>4. ToSet(s) = {s[1]} \cup ToSet(Tail(s))
    <3>1. ASSUME NEW n \in 1..Len(s) PROVE s[n] \in {s[1]} \cup ToSet(Tail(s))
      <4>1. CASE n = 1
        BY <4>1
      <4>2. CASE n # 1
        <5>1. n - 1 \in 1..(Len(s) - 1) /\ s[n] = Tail(s)[n - 1]
          BY <4>2, <1>1, <2>2
        <5> QED BY <5>1, <2>3 DEF ToSet
      <4> QED BY <4>1, <4>2
    <3>2. ASSUME NEW n \in 1..(Len(s) - 1) PROVE Tail(s)[n] \in ToSet(s)
      <4>1. n + 1 \in 1..Len(s) /\ Tail(s)[n] = s[n + 1]
        BY <1>1, <2>2
      <4> QED BY <4>1, <1>1 DEF ToSet
    <3>3. s[1] \in ToSet(s)
      BY <1>1, <2>1 DEF ToSet
    <3>4. ToSet(s) \subseteq {s[1]} \cup ToSet(Tail(s))
      BY <3>1, <1>1 DEF ToSet
    <3>5. ToSet(Tail(s)) \subseteq ToSet(s)
      BY <3>2, <2>3 DEF ToSet
    <3> QED BY <3>3, <3>4, <3>5
  <2>5. Head(s) \in S
    BY <2>1, <1>1
  <2> QED BY <2>1, <2>2, <2>4, <2>5
<1> QED BY <1>1, <1>2, <1>3, <1>4

\* What a sequence is with one more member.
LEMMA AppendFacts ==
  ASSUME NEW S, NEW s \in Seq(S), NEW e \in S
  PROVE  /\ Append(s, e) \in Seq(S) /\ ToSet(Append(s, e)) = ToSet(s) \cup {e}
         /\ Append(s, e) # << >> /\ Len(Append(s, e)) = Len(s) + 1
         /\ Append(<< >>, e) = <<e>>
<1>1. /\ Append(s, e) \in Seq(S) /\ Append(s, e) # << >> /\ Len(Append(s, e)) = Len(s) + 1
      /\ \A n \in 1..Len(s) : Append(s, e)[n] = s[n]
      /\ Append(s, e)[Len(s) + 1] = e /\ Len(s) \in Nat
  BY AppendProperties, LenProperties
<1>2. DOMAIN s = 1..Len(s) /\ DOMAIN Append(s, e) = 1..(Len(s) + 1)
  BY <1>1, LenProperties
<1>3. ToSet(Append(s, e)) = ToSet(s) \cup {e}
  BY <1>1, <1>2 DEF ToSet
<1> QED BY <1>1, <1>3

\* The only member of a sequence of one.
LEMMA OneFacts ==
  ASSUME NEW e
  PROVE  /\ ToSet(<<e>>) = {e} /\ <<e>> # << >> /\ Head(<<e>>) = e /\ Tail(<<e>>) = << >>
         /\ ToSet(<< >>) = {} /\ \A S : << >> \in Seq(S) /\ (e \in S => <<e>> \in Seq(S))
<1>1. DOMAIN <<e>> = {1} /\ <<e>>[1] = e
  OBVIOUS
<1>2. ToSet(<<e>>) = {e}
  BY <1>1 DEF ToSet
<1>3. ToSet(<< >>) = {}
  BY DEF ToSet
<1>4. ASSUME NEW S PROVE << >> \in Seq(S) /\ (e \in S => <<e>> \in Seq(S))
  OBVIOUS
<1> QED BY <1>2, <1>3, <1>4
-----------------------------------------------------------------------------
\* What the variables hold: bytes, tensors at their places, copies and messages.
Values == Nat \X Nat
Buckets == [1..BucketSize -> Values]
Sides == {1, 2}
Places == [name : Tensors, at : Nat]
Spots == {p \in Places : Fits(p.at, p.name)}
Copies == [name : Tensors, side : Sides, at : Nat]
Moves == [name : Tensors, side : Sides, at : Nat, to : Nat]
Metas == Seq(Spots)
Messages == [meta : Metas, last : BOOLEAN, key : Nat, side : Sides]
Xfers == [on : {TRUE}, done : BOOLEAN, key : Nat, from : Sides, to : Sides]
ChainPcs == {"call", "setup", "first", "reading", "announce", "read", "yield", "handed", "handedLast", "await", "done"}

\* The states of a variable, part by part.
AgentStates(C) == [send : Sides, op : Nat, sent : Nat, notes : Seq(Nat), buf : [Sides -> Buckets], pend : Seq(C)]
MasterStates == [pc : {"fill", "sent", "done"}, next : Nat \ {0}, at : Nat, meta : Metas]
ChainStates ==
  [pc : ChainPcs, cur : {NoMessage} \cup Messages, nxt : {NoMessage} \cup Messages, todo : Metas,
   inbox : Seq(Messages), xfer : {NoXfer} \cup Xfers]
IpcStates ==
  [at : Nat, meta : Metas, buf : Buckets, msg : Seq([meta : Metas, last : BOOLEAN]), answered : BOOLEAN]
WorkerStates ==
  [pc : {"idle", "attach", "receive", "load", "done"}, clones : SUBSET (Tensors \X Nat), last : BOOLEAN]
ManagerStates ==
  [pc : {"idle", "abort", "transfer", "resume"}, round : 0..MaxUpdates, left : SUBSET ReplicaNames,
   failed : SUBSET ReplicaNames, failures : Nat]

\* The types of the variables; the trainer copies from its weights, a rank to a place.
TypeInv ==
  /\ manager \in ManagerStates
  /\ open \subseteq ReplicaNames
  /\ agent = [a \in Agents |-> agent[a]] /\ agent[0] \in AgentStates(Copies)
  /\ \A r \in Ranks : agent[r] \in AgentStates(Moves)
  /\ master \in MasterStates
  /\ chain \in [Ranks -> ChainStates]
  /\ ipc \in [Ranks -> IpcStates]
  /\ worker \in [Ranks -> WorkerStates]
  /\ model \in [Ranks -> [Tensors -> Nat]]
  /\ label \in [ReplicaNames -> Nat]

\* What the assumptions say of the ranks and of the tensors.
LEMMA Constants ==
  /\ Ranks = 1..NumRanks /\ NumRanks \in Nat /\ NumRanks >= 2 /\ Agents = 0..NumRanks
  /\ Tensors = 1..Len(Sizes) /\ Len(Sizes) \in Nat
  /\ BucketSize \in Nat /\ MaxUpdates \in Nat
  /\ \A t \in Tensors : t \in Nat /\ Sizes[t] \in Nat /\ Sizes[t] >= 1 /\ Sizes[t] <= BucketSize
  /\ \A r \in Ranks : ReplicaOf[r] \in ReplicaNames
<1>1. Ranks = 1..NumRanks /\ NumRanks \in Nat
  BY Parameters, LenProperties DEF Ranks, NumRanks
<1>2. Tensors = 1..Len(Sizes) /\ Len(Sizes) \in Nat
  BY Parameters, LenProperties DEF Tensors
<1>3. BucketSize \in Nat /\ MaxUpdates \in Nat
  BY Parameters
<1>4. \A t \in Tensors : Sizes[t] \in Nat /\ Sizes[t] >= 1 /\ Sizes[t] <= BucketSize
  BY TensorsFit, <1>3
<1>5. \A r \in Ranks : ReplicaOf[r] \in ReplicaNames
  BY DEF ReplicaNames
<1> QED BY <1>1, <1>2, <1>3, <1>4, <1>5, SeveralRanks DEF Agents
-----------------------------------------------------------------------------
\* A tensor of version v stands at its place; so do all of a list.
HeldAt(bucket, p, v) == \A o \in Bytes(p.name, p.at) : bucket[o] = <<p.name, v>>
Holds(bucket, meta, v) == \A p \in ToSet(meta) : HeldAt(bucket, p, v)

\* Places that do not overlap, and that lie before an offset.
Apart(S) == \A p, q \in S : p # q => \A o \in Bytes(p.name, p.at) : o \notin Bytes(q.name, q.at)
Before(S, at) == \A p \in S : p.at + Sizes[p.name] <= at

\* A tensor that fits lies inside the bucket.
LEMMA SpotBytes ==
  ASSUME NEW t \in Tensors, NEW at \in Nat, Fits(at, t)
  PROVE  /\ Bytes(t, at) \subseteq 1..BucketSize /\ at + 1 \in Bytes(t, at)
         /\ \A o \in Bytes(t, at) : o \in Nat /\ o - at \in 1..Sizes[t]
  BY Constants DEF Fits, Bytes

\* The version of a tensor that stands in a bucket is the one that is found there.
LEMMA VersionOfHeld ==
  ASSUME NEW bucket, NEW p \in Spots, NEW v \in 1..MaxUpdates, HeldAt(bucket, p, v)
  PROVE  VersionAt(bucket, p.name, p.at) = v
<1>1. p.name \in Tensors /\ p.at \in Nat /\ Fits(p.at, p.name)
  BY DEF Spots, Places
<1>2. \A o \in Bytes(p.name, p.at) : bucket[o] = <<p.name, v>>
  BY DEF HeldAt
<1>3. bucket[p.at + 1][2] = v
  BY <1>1, <1>2, SpotBytes
<1> QED BY <1>2, <1>3 DEF VersionAt

\* Writing a tensor leaves the rest of a bucket as it was.
LEMMA WrittenFacts ==
  ASSUME NEW bucket \in Buckets, NEW t \in Tensors, NEW at \in Nat, Fits(at, t),
         NEW bytes \in [1..Sizes[t] -> Values]
  PROVE  /\ Written(bucket, at, t, bytes) \in Buckets
         /\ \A o \in Bytes(t, at) : Written(bucket, at, t, bytes)[o] = bytes[o - at]
         /\ \A o \in 1..BucketSize : o \notin Bytes(t, at) => Written(bucket, at, t, bytes)[o] = bucket[o]
<1>1. DOMAIN bucket = 1..BucketSize
  BY DEF Buckets
<1>2. \A o \in Bytes(t, at) : o \in 1..BucketSize /\ o - at \in 1..Sizes[t]
  BY SpotBytes
<1>3. \A o \in 1..BucketSize : bucket[o] \in Values
  BY DEF Buckets
<1> DEFINE W == Written(bucket, at, t, bytes)
<1>4. W = [o \in 1..BucketSize |-> IF o \in Bytes(t, at) THEN bytes[o - at] ELSE bucket[o]]
  BY <1>1 DEF Written
<1>5. \A o \in 1..BucketSize : W[o] = IF o \in Bytes(t, at) THEN bytes[o - at] ELSE bucket[o]
  BY <1>4
<1>6. W \in Buckets
  BY <1>2, <1>3, <1>4 DEF Buckets
<1> HIDE DEF W
<1> QED BY <1>2, <1>5, <1>6 DEF W

\* A tensor that is copied stands there, and what stands apart from it is left alone.
LEMMA WrittenHolds ==
  ASSUME NEW bucket \in Buckets, NEW p \in Spots, NEW v, NEW bytes \in [1..Sizes[p.name] -> Values],
         \A o \in 1..Sizes[p.name] : bytes[o] = <<p.name, v>>
  PROVE  /\ HeldAt(Written(bucket, p.at, p.name, bytes), p, v)
         /\ \A q \in Spots :
              HeldAt(bucket, q, v) /\ (q # p => \A o \in Bytes(q.name, q.at) : o \notin Bytes(p.name, p.at))
                => HeldAt(Written(bucket, p.at, p.name, bytes), q, v)
<1> DEFINE W == Written(bucket, p.at, p.name, bytes)
<1>1. p.name \in Tensors /\ p.at \in Nat /\ Fits(p.at, p.name)
  BY DEF Spots, Places
<1>2. /\ \A o \in Bytes(p.name, p.at) : W[o] = bytes[o - p.at]
      /\ \A o \in 1..BucketSize : o \notin Bytes(p.name, p.at) => W[o] = bucket[o]
  BY <1>1, WrittenFacts
<1>3. \A o \in Bytes(p.name, p.at) : o - p.at \in 1..Sizes[p.name]
  BY <1>1, SpotBytes
<1> HIDE DEF W
<1>4. HeldAt(W, p, v)
  BY <1>2, <1>3 DEF HeldAt
<1>5. ASSUME NEW q \in Spots, HeldAt(bucket, q, v), q # p,
             \A o \in Bytes(q.name, q.at) : o \notin Bytes(p.name, p.at)
      PROVE  HeldAt(W, q, v)
  <2>1. q.name \in Tensors /\ q.at \in Nat /\ Fits(q.at, q.name)
    BY DEF Spots, Places
  <2>2. \A o \in Bytes(q.name, q.at) : o \in 1..BucketSize
    BY <2>1, SpotBytes
  <2> QED BY <1>2, <1>5, <2>2 DEF HeldAt
<1> QED BY <1>4, <1>5 DEF W
-----------------------------------------------------------------------------
(* The invariant                                                           *)

\* A read that has not taken place, and the program points of a rank in three groups.
Reading(c) == c.xfer.on /\ ~c.xfer.done
Closed == {"handedLast", "await", "done"}
Opening == {"call", "setup", "first", "reading"}
Sending == {"read", "yield", "handed"}

\* A read under way goes into the bucket that is not sent from; once it is done,
\* the bucket holds what was announced.
XferOK(c, x, v) ==
  /\ c.xfer.on <=> c.pc = "reading" \/ (c.pc \in {"yield", "handed"} /\ ~c.cur.last)
  /\ c.xfer.on => c.xfer.to = Other(x.send)
  /\ c.xfer.on /\ c.xfer.done => Holds(x.buf[Other(x.send)], c.nxt.meta, v)

\* The bucket a rank sends and yields from holds what its message lists, until
\* everything of it has been yielded.
BucketOK(c, x, v) ==
  /\ c.pc \in Sending \cup {"announce"} => Holds(x.buf[x.send], c.cur.meta, v)
  /\ IF c.pc \in Sending THEN ToSet(c.todo) \subseteq ToSet(c.cur.meta) ELSE c.todo = << >>
  /\ c.pc \in Opening \cup {"read"} => ~c.cur.last
  /\ c.pc = "handedLast" => c.cur.last
  /\ x.op # 0 => c.pc \in Sending

\* Copies into the shared buffer come from the bucket in use, each for a listed tensor.
DeviceOK(c, x, i) ==
  /\ x.pend # << >> => c.pc = "yield"
  /\ \A e \in ToSet(x.pend) :
       /\ e.side = x.send /\ Place(e.name, e.at) \in ToSet(c.cur.meta)
       /\ Place(e.name, e.to) \in ToSet(i.meta)

\* A tensor listed for the worker stands in the shared buffer or is being copied there.
SharedOK(c, x, i, v) ==
  /\ c.pc \notin {"await", "done"} =>
       /\ Apart(ToSet(i.meta)) /\ Before(ToSet(i.meta), i.at)
       /\ \A p \in ToSet(i.meta) :
            HeldAt(i.buf, p, v) \/ \E e \in ToSet(x.pend) : e.name = p.name /\ e.to = p.at
  /\ c.pc \in Opening => i.meta = << >>

\* The host and the worker hand over in turn; what the worker cloned is of this push.
HandOK(c, i, w, v) ==
  /\ i.msg # << >> <=> c.pc \in {"handed", "handedLast"} /\ ~i.answered
  /\ i.msg # << >> => i.msg = <<[meta |-> i.meta, last |-> c.pc = "handedLast"]>>
  /\ i.answered => c.pc \in {"handed", "handedLast"}
  /\ (w.pc = "done" \/ (w.pc = "load" /\ w.last)) <=>
       (c.pc = "handedLast" /\ i.answered) \/ c.pc \in {"await", "done"}
  /\ w.pc # "load" => w.clones = {}
  /\ \A k \in w.clones : k[2] = v
  /\ w.pc \in {"idle", "attach"} <=> c.pc \in {"call", "setup"}

\* What holds of one rank, while version v is pushed.
RankOK(c, x, i, w, v) ==
  XferOK(c, x, v) /\ BucketOK(c, x, v) /\ DeviceOK(c, x, i) /\ SharedOK(c, x, i, v) /\ HandOK(c, i, w, v)

RanksOK == \A r \in Ranks : RankOK(chain[r], agent[r], ipc[r], worker[r], manager.round)

\* The bucket an agent has announced: the trainer fills the other one meanwhile.
SendSide(a) == IF a = 0 /\ master.pc = "fill" THEN Other(agent[a].send) ELSE agent[a].send

\* Between an agent and the next rank there is nothing; or a message not read yet,
\* whose bucket still holds what it lists; or a read of that bucket; or the
\* notification that it was read.  There is never more than one of these.
LinkOK(x, side, c, v) ==
  \/ x.op = 0 /\ x.notes = << >> /\ c.inbox = << >> /\ ~Reading(c)
  \/ /\ x.op # 0 /\ x.notes = << >> /\ ~Reading(c)
     /\ c.inbox # << >> /\ Tail(c.inbox) = << >>
     /\ Head(c.inbox).key = x.op /\ Head(c.inbox).side = side /\ Holds(x.buf[side], Head(c.inbox).meta, v)
  \/ /\ x.op # 0 /\ x.notes = << >> /\ c.inbox = << >> /\ Reading(c)
     /\ c.xfer.key = x.op /\ c.xfer.from = side /\ Holds(x.buf[side], c.nxt.meta, v)
  \/ x.op # 0 /\ x.notes = <<x.op>> /\ c.inbox = << >> /\ ~Reading(c)

\* All links, and the last agent, which announces nothing.
LinksOK == \A r \in Ranks : LinkOK(agent[r - 1], SendSide(r - 1), chain[r], manager.round)
LastAgent == agent[NumRanks].op = 0 /\ agent[NumRanks].notes = << >>

\* What rank 0 has listed stands in its bucket or is being copied there.
MasterGood(x, m, v) ==
  /\ IF m.pc = "fill"
     THEN /\ Apart(ToSet(m.meta)) /\ Before(ToSet(m.meta), m.at)
          /\ \A e \in ToSet(x.pend) : e.side = x.send /\ Place(e.name, e.at) \in ToSet(m.meta)
          /\ \A p \in ToSet(m.meta) :
               HeldAt(x.buf[x.send], p, v) \/ \E e \in ToSet(x.pend) : e.name = p.name /\ e.at = p.at
     ELSE x.pend = << >>
  /\ m.pc = "done" => x.op = 0

MasterOK == MasterGood(agent[0], master, manager.round)

\* An agent has announced its last bucket.
Posts(c) == c.cur.last /\ c.pc # "announce"
Posted(a) == IF a = 0 THEN master.pc # "fill" ELSE Posts(chain[a])

\* A rank has, or is about to have, the last bucket.
HasLast(c) == c.cur.last \/ (c.xfer.on /\ c.nxt.last)
SeesLast(c) == HasLast(c) \/ \E m \in ToSet(c.inbox) : m.last

\* The last bucket is announced only by those who had it, and nothing follows it.
LastInv ==
  \A q \in Ranks :
    /\ SeesLast(chain[q]) => \A a \in 0..(q - 1) : Posted(a)
    /\ HasLast(chain[q]) => chain[q].inbox = << >>

\* The tensors that a rank or the trainer has not passed on yet.
Names(meta) == {p.name : p \in ToSet(meta)}
Held(c) == (IF c.pc = "announce" THEN Names(c.cur.meta) ELSE {})
           \cup (IF c.xfer.on THEN Names(c.nxt.meta) ELSE {})
           \cup UNION {Names(m.meta) : m \in ToSet(c.inbox)}
Unsent(m) == IF m.pc = "fill" THEN {t \in Tensors : t >= m.next} \cup Names(m.meta) ELSE {}
Local(a) == IF a = 0 THEN Unsent(master) ELSE Held(chain[a])

\* Tensors that are on their way from a rank to its worker.
Owned(c, i, w, t) ==
  \/ \E k \in w.clones : k[1] = t
  \/ \E m \in ToSet(i.msg) : t \in Names(m.meta)
  \/ c.pc \notin {"handed", "handedLast", "await", "done"} /\ t \in Names(i.meta)
  \/ t \in Names(c.todo)

\* A tensor is loaded, on its way inside the rank, or still before it in the chain.
Covered(r, t) ==
  \/ model[r][t] = manager.round
  \/ Owned(chain[r], ipc[r], worker[r], t)
  \/ \E a \in 0..r : t \in Local(a)

\* No tensor gets lost.
Coverage == manager.pc = "transfer" => \A r \in Ranks, t \in Tensors : Covered(r, t)

\* A rank ends after its last bucket only.
ClosedLast == manager.pc = "transfer" => \A r \in Ranks : chain[r].pc \in Closed => chain[r].cur.last

\* The first rank of a replica calls its workers when they are idle, and reports the
\* version when they are done.
LeaderInv ==
  \A r \in Ranks :
    /\ chain[r].pc = "call" => Leader(r) /\ \A q \in MembersOf(ReplicaOf[r]) : worker[q].pc = "idle"
    /\ manager.pc = "transfer" /\ Leader(r) /\ chain[r].pc = "done" =>
         /\ label[ReplicaOf[r]] = manager.round
         /\ \A q \in MembersOf(ReplicaOf[r]) : worker[q].pc = "done"

\* What the manager relies on between its steps: nothing is under way but during a
\* transfer, a replica serves during one only when its abort failed, and afterwards
\* all workers have all tensors of the round.
ManagerInv ==
  /\ manager.pc # "idle" => manager.round >= 1
  /\ manager.pc # "transfer" =>
       master.pc = "done" /\ \A r \in Ranks : chain[r].pc = "done" /\ worker[r].pc = "done"
  /\ manager.pc = "idle" => open = ReplicaNames
  /\ manager.pc \in {"resume", "idle"} =>
       (\A r \in Ranks, t \in Tensors : model[r][t] = manager.round) /\ \A p \in ReplicaNames : label[p] = manager.round
  /\ manager.pc = "resume" => ReplicaNames \ manager.left \subseteq open
  /\ manager.pc = "abort" => \A p \in ReplicaNames \ manager.left : p \notin open \/ p \in manager.failed
  /\ manager.pc = "transfer" => \A p \in ReplicaNames : p \notin open \/ p \in manager.failed

\* What RankOK looks at.
HostView(c) == <<c.pc, c.cur, c.nxt, c.todo, c.xfer>>
AgentView(x) == <<x.send, x.op, x.buf, x.pend>>

\* RankOK depends on nothing else.
LEMMA RankFrame ==
  ASSUME NEW c, NEW c2, NEW x, NEW x2, NEW i, NEW w, NEW v, RankOK(c, x, i, w, v),
         HostView(c2) = HostView(c), AgentView(x2) = AgentView(x)
  PROVE  RankOK(c2, x2, i, w, v)
<1>1. c2.pc = c.pc /\ c2.cur = c.cur /\ c2.nxt = c.nxt /\ c2.todo = c.todo /\ c2.xfer = c.xfer
  BY DEF HostView
<1>2. x2.send = x.send /\ x2.op = x.op /\ x2.buf = x.buf /\ x2.pend = x.pend
  BY DEF AgentView
<1> QED BY <1>1, <1>2 DEF RankOK, XferOK, BucketOK, DeviceOK, SharedOK, HandOK

\* A step of rank r touches of another rank only what it is sent and notified of.
LEMMA OtherRanks ==
  ASSUME RanksOK, NEW r, manager'.round = manager.round,
         r \in Ranks => RankOK(chain[r], agent[r], ipc[r], worker[r], manager.round)',
         \A q \in Ranks : q # r => /\ HostView(chain[q])' = HostView(chain[q])
                                   /\ AgentView(agent[q])' = AgentView(agent[q])
                                   /\ ipc'[q] = ipc[q] /\ worker'[q] = worker[q]
  PROVE  RanksOK'
<1> SUFFICES ASSUME NEW q \in Ranks PROVE RankOK(chain[q], agent[q], ipc[q], worker[q], manager.round)'
  BY DEF RanksOK
<1>1. CASE q = r
  BY <1>1
<1>2. CASE q # r
  BY <1>2, RankFrame DEF RanksOK
<1> QED BY <1>1, <1>2

\* What LinkOK looks at.
LinkView(x, side) == <<x.op, x.notes, x.buf[side]>>
InView(c) == <<c.inbox, c.nxt, c.xfer>>

\* LinkOK depends on nothing else.
LEMMA LinkFrame ==
  ASSUME NEW c, NEW c2, NEW x, NEW x2, NEW side, NEW v, LinkOK(x, side, c, v),
         InView(c2) = InView(c), LinkView(x2, side) = LinkView(x, side)
  PROVE  LinkOK(x2, side, c2, v)
  BY DEF LinkOK, InView, LinkView, Reading

\* The inductive invariant.
IInv ==
  /\ TypeInv /\ ManagerInv
  /\ RanksOK /\ LinksOK /\ LastAgent /\ MasterOK
  /\ LastInv /\ Coverage /\ ClosedLast /\ LeaderInv

\* The variables of one rank change.
RankChange(r, c2, x2, i2, w2) ==
  /\ chain' = [chain EXCEPT ![r] = c2] /\ agent' = [agent EXCEPT ![r] = x2]
  /\ ipc' = [ipc EXCEPT ![r] = i2] /\ worker' = [worker EXCEPT ![r] = w2]
  /\ UNCHANGED <<manager, open, master, model, label>>

\* What such a step changes, and what it does not.
LEMMA RankChangeFacts ==
  ASSUME TypeInv, NEW r \in Ranks, NEW c2 \in ChainStates, NEW x2 \in AgentStates(Moves),
         NEW i2 \in IpcStates, NEW w2 \in WorkerStates, RankChange(r, c2, x2, i2, w2)
  PROVE  /\ TypeInv'
         /\ chain'[r] = c2 /\ agent'[r] = x2 /\ ipc'[r] = i2 /\ worker'[r] = w2
         /\ \A q \in Ranks : q # r => chain'[q] = chain[q] /\ ipc'[q] = ipc[q] /\ worker'[q] = worker[q]
         /\ \A a \in Agents : a # r => agent'[a] = agent[a]
         /\ manager' = manager /\ open' = open /\ master' = master /\ model' = model /\ label' = label
<1>1. Ranks \subseteq Agents /\ r # 0 /\ 0 \in Agents
  BY Constants
<1>2. /\ chain'[r] = c2 /\ ipc'[r] = i2 /\ worker'[r] = w2
      /\ \A q \in Ranks : q # r => chain'[q] = chain[q] /\ ipc'[q] = ipc[q] /\ worker'[q] = worker[q]
      /\ chain' \in [Ranks -> ChainStates] /\ ipc' \in [Ranks -> IpcStates] /\ worker' \in [Ranks -> WorkerStates]
  BY DEF RankChange, TypeInv
<1>3. DOMAIN agent = Agents
  BY DEF TypeInv
<1>4. agent'[r] = x2 /\ \A a \in Agents : a # r => agent'[a] = agent[a]
  BY <1>1, <1>3 DEF RankChange
<1>5. agent' = [a \in Agents |-> agent'[a]]
  BY <1>3 DEF RankChange
<1>6. manager' = manager /\ open' = open /\ master' = master /\ model' = model /\ label' = label
  BY DEF RankChange
<1>7. agent'[0] \in AgentStates(Copies) /\ \A q \in Ranks : agent'[q] \in AgentStates(Moves)
  BY <1>1, <1>4 DEF TypeInv
<1>8. TypeInv'
  BY <1>2, <1>5, <1>6, <1>7 DEF TypeInv
<1> QED BY <1>2, <1>4, <1>6, <1>8

\* What a step that is a rank's own keeps of what is tracked about all of them.
LEMMA LocalStep ==
  ASSUME IInv, NEW r \in Ranks, manager.pc = "transfer",
         NEW c2 \in ChainStates, NEW x2 \in AgentStates(Moves), NEW i2 \in IpcStates, NEW w2 \in WorkerStates,
         RankChange(r, c2, x2, i2, w2),
         RankOK(c2, x2, i2, w2, manager.round),
         LinkOK(agent[r - 1], SendSide(r - 1), c2, manager.round),
         r < NumRanks => LinkOK(x2, x2.send, chain[r + 1], manager.round),
         r = NumRanks => x2.op = 0 /\ x2.notes = << >>,
         SeesLast(c2) => SeesLast(chain[r]), HasLast(c2) => c2.inbox = << >>, Posts(chain[r]) => Posts(c2),
         Held(chain[r]) \subseteq Held(c2),
         \A t \in Tensors : Owned(chain[r], ipc[r], worker[r], t) => Owned(c2, i2, w2, t) \/ t \in Held(c2),
         c2.pc \in Closed => c2.cur.last,
         c2.pc # "call",
         c2.pc = "done" /\ Leader(r) => chain[r].pc = "done",
         w2.pc = worker[r].pc \/ worker[r].pc \notin {"idle", "done"}
  PROVE  IInv'
<1>1. /\ TypeInv'
      /\ chain'[r] = c2 /\ agent'[r] = x2 /\ ipc'[r] = i2 /\ worker'[r] = w2
      /\ \A q \in Ranks : q # r => chain'[q] = chain[q] /\ ipc'[q] = ipc[q] /\ worker'[q] = worker[q]
      /\ \A a \in Agents : a # r => agent'[a] = agent[a]
      /\ manager' = manager /\ open' = open /\ master' = master /\ model' = model /\ label' = label
  BY RankChangeFacts DEF IInv
<1>2. r \in Nat /\ r >= 1 /\ r <= NumRanks /\ NumRanks \in Nat /\ Ranks = 1..NumRanks /\ Agents = 0..NumRanks
  BY Constants
<1>3. RanksOK'
  <2>1. RankOK(chain'[r], agent'[r], ipc'[r], worker'[r], manager'.round)
    BY <1>1
  <2>2. \A q \in Ranks : q # r => /\ HostView(chain'[q]) = HostView(chain[q])
                                  /\ AgentView(agent'[q]) = AgentView(agent[q])
                                  /\ ipc'[q] = ipc[q] /\ worker'[q] = worker[q]
    BY <1>1, <1>2
  <2> QED BY <1>1, <2>1, <2>2, OtherRanks DEF IInv
<1>4. LinksOK'
  <2> SUFFICES ASSUME NEW q \in Ranks PROVE LinkOK(agent[q - 1], SendSide(q - 1), chain[q], manager.round)'
    BY DEF LinksOK
  <2>1. CASE q = r
    BY <2>1, <1>1, <1>2 DEF SendSide
  <2>2. CASE q = r + 1
    BY <2>2, <1>1, <1>2 DEF SendSide
  <2>3. CASE q # r /\ q # r + 1
    <3>1. q - 1 \in Agents /\ q - 1 # r
      BY <2>3, <1>2
    <3>2. LinkOK(agent[q - 1], SendSide(q - 1), chain[q], manager.round)
      BY DEF IInv, LinksOK
    <3> QED BY <2>3, <3>1, <3>2, <1>1 DEF SendSide
  <2> QED BY <2>1, <2>2, <2>3
<1>5. LastAgent'
  BY <1>1, <1>2 DEF LastAgent, IInv
<1>6. MasterOK'
  BY <1>1, <1>2 DEF MasterOK, IInv
<1>7. LastInv'
  <2>1. \A a \in Agents : Posted(a) => Posted(a)'
    BY <1>1, <1>2 DEF Posted
  <2> SUFFICES ASSUME NEW q \in Ranks
               PROVE  /\ SeesLast(chain'[q]) => \A a \in 0..(q - 1) : Posted(a)'
                      /\ HasLast(chain'[q]) => chain'[q].inbox = << >>
    BY DEF LastInv
  <2>2. /\ SeesLast(chain'[q]) => SeesLast(chain[q])
        /\ HasLast(chain'[q]) => chain'[q].inbox = << >>
    BY <1>1 DEF IInv, LastInv
  <2> QED BY <2>1, <2>2, <1>2 DEF IInv, LastInv
<1>8. Coverage'
  <2> SUFFICES ASSUME NEW q \in Ranks, NEW t \in Tensors PROVE Covered(q, t)'
    BY DEF Coverage
  <2>1. Covered(q, t)
    BY DEF IInv, Coverage
  <2>2. \A a \in Agents : t \in Local(a) => t \in Local(a)'
    BY <1>1, <1>2 DEF Local
  <2>3. q \in Nat /\ q <= NumRanks
    BY <1>2
  <2>4. CASE q = r /\ t \in Held(c2)
    <3>1. t \in Local(r)'
      BY <2>4, <1>1, <1>2 DEF Local
    <3> QED BY <3>1, <2>4, <1>2 DEF Covered
  <2>5. CASE ~(q = r /\ t \in Held(c2))
    <3>1. Owned(chain[q], ipc[q], worker[q], t) => Owned(chain'[q], ipc'[q], worker'[q], t)
      BY <2>5, <1>1
    <3>2. (\E a \in 0..q : t \in Local(a)) => (\E a \in 0..q : t \in Local(a)')
      BY <2>2, <2>3, <1>2
    <3> QED BY <2>1, <3>1, <3>2, <1>1 DEF Covered
  <2> QED BY <2>4, <2>5
<1>9. ClosedLast'
  BY <1>1 DEF ClosedLast, IInv
<1>10. LeaderInv'
  <2> SUFFICES ASSUME NEW q \in Ranks
               PROVE  /\ chain'[q].pc = "call" => Leader(q) /\ \A u \in MembersOf(ReplicaOf[q]) : worker'[u].pc = "idle"
                      /\ Leader(q) /\ chain'[q].pc = "done" =>
                           /\ label[ReplicaOf[q]] = manager.round
                           /\ \A u \in MembersOf(ReplicaOf[q]) : worker'[u].pc = "done"
    BY <1>1 DEF LeaderInv
  <2>1. \A u \in MembersOf(ReplicaOf[q]) : u \in Ranks
    BY DEF MembersOf
  <2>2. \A u \in Ranks : worker[u].pc \in {"idle", "done"} => worker'[u].pc = worker[u].pc
    BY <1>1
  <2>3. /\ chain'[q].pc = "call" => chain[q].pc = "call"
        /\ Leader(q) /\ chain'[q].pc = "done" => chain[q].pc = "done"
    BY <1>1
  <2> QED BY <2>1, <2>2, <2>3 DEF IInv, LeaderInv
<1>11. ManagerInv'
  BY <1>1 DEF ManagerInv, IInv
<1> QED BY <1>1, <1>3, <1>4, <1>5, <1>6, <1>7, <1>8, <1>9, <1>10, <1>11 DEF IInv
-----------------------------------------------------------------------------
(* Steps of one rank                                                       *)

\* What the invariant says of one rank.
LEMMA RankFacts ==
  ASSUME IInv, NEW r \in Ranks
  PROVE  /\ r \in Nat /\ r >= 1 /\ r <= NumRanks /\ r \in Agents /\ r - 1 \in Agents /\ r # 0
         /\ chain[r] \in ChainStates /\ agent[r] \in AgentStates(Moves)
         /\ ipc[r] \in IpcStates /\ worker[r] \in WorkerStates
         /\ chain = [chain EXCEPT ![r] = chain[r]] /\ agent = [agent EXCEPT ![r] = agent[r]]
         /\ ipc = [ipc EXCEPT ![r] = ipc[r]] /\ worker = [worker EXCEPT ![r] = worker[r]]
         /\ RankOK(chain[r], agent[r], ipc[r], worker[r], manager.round)
         /\ LinkOK(agent[r - 1], SendSide(r - 1), chain[r], manager.round)
         /\ r < NumRanks => LinkOK(agent[r], agent[r].send, chain[r + 1], manager.round)
         /\ r = NumRanks => agent[r].op = 0 /\ agent[r].notes = << >>
         /\ HasLast(chain[r]) => chain[r].inbox = << >>
         /\ chain[r].pc # "done" \/ worker[r].pc # "done" =>
              manager.pc = "transfer" /\ manager.round \in 1..MaxUpdates
         /\ manager.pc = "transfer" /\ chain[r].pc \in Closed => chain[r].cur.last
<1>1. r \in Nat /\ r >= 1 /\ r <= NumRanks /\ NumRanks \in Nat /\ Ranks = 1..NumRanks /\ Agents = 0..NumRanks
  BY Constants
<1>2. /\ chain[r] \in ChainStates /\ agent[r] \in AgentStates(Moves)
      /\ ipc[r] \in IpcStates /\ worker[r] \in WorkerStates
  BY DEF IInv, TypeInv
<1>3. /\ chain = [chain EXCEPT ![r] = chain[r]] /\ ipc = [ipc EXCEPT ![r] = ipc[r]]
      /\ worker = [worker EXCEPT ![r] = worker[r]]
  BY DEF IInv, TypeInv
<1>4. agent = [agent EXCEPT ![r] = agent[r]]
  BY DEF IInv, TypeInv
<1>5. RankOK(chain[r], agent[r], ipc[r], worker[r], manager.round)
  BY DEF IInv, RanksOK
<1>6. LinkOK(agent[r - 1], SendSide(r - 1), chain[r], manager.round)
  BY DEF IInv, LinksOK
<1>7. ASSUME r < NumRanks PROVE LinkOK(agent[r], agent[r].send, chain[r + 1], manager.round)
  <2>1. r + 1 \in Ranks /\ (r + 1) - 1 = r /\ r # 0
    BY <1>1, <1>7
  <2>2. LinkOK(agent[(r + 1) - 1], SendSide((r + 1) - 1), chain[r + 1], manager.round)
    BY <2>1 DEF IInv, LinksOK
  <2> QED BY <2>1, <2>2 DEF SendSide
<1>8. r = NumRanks => agent[r].op = 0 /\ agent[r].notes = << >>
  BY DEF IInv, LastAgent
<1>9. HasLast(chain[r]) => chain[r].inbox = << >>
  BY DEF IInv, LastInv
<1>10. ASSUME chain[r].pc # "done" \/ worker[r].pc # "done"
       PROVE  manager.pc = "transfer" /\ manager.round \in 1..MaxUpdates
  <2>1. manager.pc = "transfer" /\ manager.round >= 1
    BY <1>10 DEF IInv, ManagerInv
  <2>2. manager.round \in 0..MaxUpdates /\ MaxUpdates \in Nat
    BY Constants DEF IInv, TypeInv, ManagerStates
  <2> QED BY <2>1, <2>2
<1>11. manager.pc = "transfer" /\ chain[r].pc \in Closed => chain[r].cur.last
  BY DEF IInv, ClosedLast
<1> QED BY <1>1, <1>2, <1>3, <1>4, <1>5, <1>6, <1>7, <1>8, <1>9, <1>10, <1>11

\* A step that neither receives nor announces a bucket.
LEMMA QuietStep ==
  ASSUME IInv, NEW r \in Ranks, manager.pc = "transfer",
         NEW c2 \in ChainStates, NEW x2 \in AgentStates(Moves), NEW i2 \in IpcStates, NEW w2 \in WorkerStates,
         RankChange(r, c2, x2, i2, w2),
         RankOK(c2, x2, i2, w2, manager.round),
         c2.cur = chain[r].cur, c2.nxt = chain[r].nxt, c2.xfer = chain[r].xfer, c2.inbox = chain[r].inbox,
         x2.send = agent[r].send, x2.op = agent[r].op, x2.notes = agent[r].notes, x2.buf = agent[r].buf,
         chain[r].pc # "announce", c2.pc # "announce",
         \A t \in Tensors : Owned(chain[r], ipc[r], worker[r], t) => Owned(c2, i2, w2, t),
         c2.pc \in Closed => chain[r].pc \in Closed \/ chain[r].cur.last,
         c2.pc # "call",
         c2.pc = "done" /\ Leader(r) => chain[r].pc = "done",
         w2.pc = worker[r].pc \/ worker[r].pc \notin {"idle", "done"}
  PROVE  IInv'
<1>1. /\ LinkOK(agent[r - 1], SendSide(r - 1), chain[r], manager.round)
      /\ r < NumRanks => LinkOK(agent[r], agent[r].send, chain[r + 1], manager.round)
      /\ r = NumRanks => agent[r].op = 0 /\ agent[r].notes = << >>
      /\ HasLast(chain[r]) => chain[r].inbox = << >>
      /\ manager.pc = "transfer" /\ chain[r].pc \in Closed => chain[r].cur.last
  BY RankFacts
<1>2. LinkOK(agent[r - 1], SendSide(r - 1), c2, manager.round)
  <2>1. InView(c2) = InView(chain[r])
    BY DEF InView
  <2> QED BY <1>1, <2>1, LinkFrame
<1>3. r < NumRanks => LinkOK(x2, x2.send, chain[r + 1], manager.round)
  <2>1. LinkView(x2, agent[r].send) = LinkView(agent[r], agent[r].send)
    BY DEF LinkView
  <2> QED BY <1>1, <2>1, LinkFrame
<1>4. SeesLast(c2) => SeesLast(chain[r])
  BY DEF SeesLast, HasLast
<1>5. HasLast(c2) => c2.inbox = << >>
  BY <1>1 DEF HasLast
<1>6. Posts(chain[r]) => Posts(c2)
  BY DEF Posts
<1>7. Held(chain[r]) \subseteq Held(c2)
  BY DEF Held
<1> QED BY <1>1, <1>2, <1>3, <1>4, <1>5, <1>6, <1>7, LocalStep

\* A place behind all others stands apart from them.
LEMMA NextToOthers ==
  ASSUME NEW S, S \subseteq Spots, NEW n \in Spots, Apart(S), Before(S, n.at)
  PROVE  Apart(S \cup {n}) /\ Before(S \cup {n}, n.at + Sizes[n.name])
<1>1. \A q \in S \cup {n} : q.name \in Tensors /\ q.at \in Nat /\ Sizes[q.name] \in Nat
  BY Constants DEF Spots, Places
<1>2. \A q \in S : q.at + Sizes[q.name] <= n.at
  BY DEF Before
<1>3. \A q \in S : \A o \in Bytes(q.name, q.at) : o \notin Bytes(n.name, n.at)
  BY <1>1, <1>2 DEF Bytes
<1>4. \A q \in S : \A o \in Bytes(n.name, n.at) : o \notin Bytes(q.name, q.at)
  BY <1>3
<1>5. \A p, q \in S : p # q => \A o \in Bytes(p.name, p.at) : o \notin Bytes(q.name, q.at)
  BY DEF Apart
<1>6. Apart(S \cup {n})
  BY <1>3, <1>4, <1>5 DEF Apart
<1>7. Before(S \cup {n}, n.at + Sizes[n.name])
  BY <1>1, <1>2 DEF Before
<1> QED BY <1>6, <1>7

\* Attaching the shared buffer.
LEMMA KeepsAttach == ASSUME IInv, NEW r \in Ranks, Attach(r) PROVE IInv'
<1> DEFINE c == chain[r]  x == agent[r]  i == ipc[r]  w == worker[r]
           c2 == [c EXCEPT !.pc = "first"]
           w2 == [w EXCEPT !.pc = "receive"]
<1>1. /\ c \in ChainStates /\ x \in AgentStates(Moves) /\ i \in IpcStates /\ w \in WorkerStates
      /\ c.pc = "setup" /\ w.pc = "attach" /\ manager.pc = "transfer"
      /\ RankOK(c, x, i, w, manager.round)
  BY RankFacts DEF Attach
<1>2. RankChange(r, c2, x, i, w2)
  BY RankFacts DEF Attach, RankChange
<1>3. /\ c2 \in ChainStates /\ c2.pc = "first" /\ c2.cur = c.cur /\ c2.nxt = c.nxt /\ c2.todo = c.todo
      /\ c2.xfer = c.xfer /\ c2.inbox = c.inbox
  BY <1>1 DEF ChainStates, ChainPcs
<1>4. w2 \in WorkerStates /\ w2.pc = "receive" /\ w2.clones = w.clones /\ w2.last = w.last
  BY <1>1 DEF WorkerStates
<1> HIDE DEF c, x, i, w, c2, w2
<1>5. RankOK(c2, x, i, w2, manager.round)
  BY <1>1, <1>3, <1>4 DEF RankOK, XferOK, BucketOK, DeviceOK, SharedOK, HandOK, Opening, Sending
<1>6. \A t \in Tensors : Owned(c, i, w, t) => Owned(c2, i, w2, t)
  BY <1>1, <1>3, <1>4 DEF Owned
<1> QED BY <1>1, <1>2, <1>3, <1>4, <1>5, <1>6, QuietStep DEF c, x, i, w, Closed

\* Yielding a tensor: it is listed and its copy starts.
LEMMA KeepsYield == ASSUME IInv, NEW r \in Ranks, Yield(r) PROVE IInv'
<1> DEFINE c == chain[r]  x == agent[r]  i == ipc[r]  w == worker[r]
           p == Head(c.todo)
           e == [name |-> p.name, side |-> x.send, at |-> p.at, to |-> i.at]
           n == Place(p.name, i.at)
           c2 == [c EXCEPT !.todo = Tail(@)]
           x2 == [x EXCEPT !.pend = Append(@, e)]
           i2 == [i EXCEPT !.at = @ + Sizes[p.name], !.meta = Append(@, n)]
<1>1. /\ c \in ChainStates /\ x \in AgentStates(Moves) /\ i \in IpcStates /\ w \in WorkerStates
      /\ c.pc = "yield" /\ c.todo # << >> /\ Fits(i.at, p.name) /\ manager.pc = "transfer"
      /\ RankOK(c, x, i, w, manager.round)
  BY RankFacts DEF Yield
<1>2. RankChange(r, c2, x2, i2, w)
  BY RankFacts DEF Yield, RankChange
<1>3. /\ c.todo \in Seq(Spots) /\ x.pend \in Seq(Moves) /\ i.meta \in Seq(Spots) /\ i.at \in Nat
      /\ x.send \in Sides
  BY <1>1 DEF ChainStates, AgentStates, IpcStates, Metas
<1>4. p \in ToSet(c.todo) /\ p \in Spots /\ Tail(c.todo) \in Seq(Spots)
      /\ ToSet(c.todo) = {p} \cup ToSet(Tail(c.todo))
  BY <1>1, <1>3, SequenceFacts
<1>5. p.name \in Tensors /\ p.at \in Nat /\ Fits(p.at, p.name) /\ p = Place(p.name, p.at) /\ Sizes[p.name] \in Nat
  BY <1>4, Constants DEF Spots, Places, Place
<1>6. n \in Spots /\ e \in Moves /\ n.name = p.name /\ n.at = i.at
  BY <1>1, <1>3, <1>5 DEF Spots, Places, Place, Moves
<1>7. /\ Append(x.pend, e) \in Seq(Moves) /\ ToSet(Append(x.pend, e)) = ToSet(x.pend) \cup {e}
      /\ Append(i.meta, n) \in Seq(Spots) /\ ToSet(Append(i.meta, n)) = ToSet(i.meta) \cup {n}
  BY <1>3, <1>6, AppendFacts
<1>11. e.name = p.name /\ e.side = x.send /\ e.at = p.at /\ e.to = i.at /\ n = Place(e.name, e.to)
  OBVIOUS
<1> HIDE DEF c, x, i, w, p, e, n
<1>8. /\ c2 \in ChainStates /\ c2.pc = c.pc /\ c2.cur = c.cur /\ c2.nxt = c.nxt /\ c2.todo = Tail(c.todo)
      /\ c2.xfer = c.xfer /\ c2.inbox = c.inbox
  BY <1>1, <1>4 DEF ChainStates, Metas
<1>9. /\ x2 \in AgentStates(Moves) /\ x2.send = x.send /\ x2.op = x.op /\ x2.notes = x.notes /\ x2.buf = x.buf
      /\ x2.pend = Append(x.pend, e)
  BY <1>1, <1>7 DEF AgentStates
<1>10. /\ i2 \in IpcStates /\ i2.at = i.at + Sizes[p.name] /\ i2.meta = Append(i.meta, n) /\ i2.buf = i.buf
       /\ i2.msg = i.msg /\ i2.answered = i.answered
  <2>1. i.at + Sizes[p.name] \in Nat
    BY <1>3, <1>5
  <2> QED BY <1>1, <1>7, <2>1 DEF IpcStates, Metas
<1> HIDE DEF c2, x2, i2
<1>12. XferOK(c2, x2, manager.round) /\ BucketOK(c2, x2, manager.round)
  BY <1>1, <1>4, <1>8, <1>9 DEF RankOK, XferOK, BucketOK, Opening, Sending
<1>13. p \in ToSet(c.cur.meta)
  BY <1>1, <1>4 DEF RankOK, BucketOK, Sending
<1>14. DeviceOK(c2, x2, i2)
  BY <1>1, <1>5, <1>7, <1>8, <1>9, <1>10, <1>11, <1>13 DEF RankOK, DeviceOK
<1>15. SharedOK(c2, x2, i2, manager.round)
  <2>1. /\ Apart(ToSet(i.meta)) /\ Before(ToSet(i.meta), i.at)
        /\ \A q \in ToSet(i.meta) :
             HeldAt(i.buf, q, manager.round) \/ \E f \in ToSet(x.pend) : f.name = q.name /\ f.to = q.at
    BY <1>1 DEF RankOK, SharedOK
  <2>2. ToSet(i.meta) \subseteq Spots
    BY <1>3, SequenceFacts
  <2>3. Apart(ToSet(i2.meta)) /\ Before(ToSet(i2.meta), i2.at)
    <3>1. Before(ToSet(i.meta), n.at)
      BY <2>1, <1>6
    <3>2. Apart(ToSet(i.meta) \cup {n}) /\ Before(ToSet(i.meta) \cup {n}, n.at + Sizes[n.name])
      BY <2>1, <2>2, <3>1, <1>6, NextToOthers
    <3> QED BY <3>2, <1>6, <1>7, <1>10
  <2>5. ASSUME NEW q \in ToSet(i2.meta)
        PROVE  HeldAt(i2.buf, q, manager.round) \/ \E f \in ToSet(x2.pend) : f.name = q.name /\ f.to = q.at
    BY <2>1, <1>6, <1>7, <1>9, <1>10, <1>11
  <2> QED BY <2>3, <2>5, <1>1, <1>8 DEF SharedOK, Opening
<1>16. HandOK(c2, i2, w, manager.round)
  BY <1>1, <1>8, <1>10 DEF RankOK, HandOK
<1>17. \A t \in Tensors : Owned(c, i, w, t) => Owned(c2, i2, w, t)
  BY <1>1, <1>4, <1>6, <1>7, <1>8, <1>10 DEF Owned, Names
<1> QED BY <1>1, <1>2, <1>8, <1>9, <1>10, <1>12, <1>14, <1>15, <1>16, <1>17, QuietStep DEF c, x, i, w, Closed, RankOK

\* Handing a full shared buffer over, when all copies are done.
LEMMA KeepsHandOver == ASSUME IInv, NEW r \in Ranks, HandOver(r) PROVE IInv'
<1> DEFINE c == chain[r]  x == agent[r]  i == ipc[r]  w == worker[r]
           m == [meta |-> i.meta, last |-> FALSE]
<1>1. /\ c \in ChainStates /\ x \in AgentStates(Moves) /\ i \in IpcStates /\ w \in WorkerStates
      /\ c.pc = "yield" /\ x.pend = << >> /\ manager.pc = "transfer"
      /\ RankOK(c, x, i, w, manager.round)
  BY RankFacts DEF HandOver, Synchronized
<1> DEFINE c2 == [c EXCEPT !.pc = "handed"]
           i2 == [i EXCEPT !.msg = <<m>>, !.answered = FALSE]
<1>2. RankChange(r, c2, x, i2, w)
  BY RankFacts DEF HandOver, Handed, RankChange
<1>3. i.meta \in Metas /\ m \in [meta : Metas, last : BOOLEAN] /\ m.meta = i.meta /\ m.last = FALSE
  BY <1>1 DEF IpcStates
<1>4. <<m>> \in Seq([meta : Metas, last : BOOLEAN]) /\ ToSet(<<m>>) = {m} /\ <<m>> # << >>
  BY <1>3, OneFacts
<1> HIDE DEF c, x, i, w, m
<1>5. /\ c2 \in ChainStates /\ c2.pc = "handed" /\ c2.cur = c.cur /\ c2.nxt = c.nxt /\ c2.todo = c.todo
      /\ c2.xfer = c.xfer /\ c2.inbox = c.inbox
  BY <1>1 DEF ChainStates, ChainPcs
<1>6. /\ i2 \in IpcStates /\ i2.at = i.at /\ i2.meta = i.meta /\ i2.buf = i.buf
      /\ i2.msg = <<m>> /\ i2.answered = FALSE
  BY <1>1, <1>4 DEF IpcStates
<1> HIDE DEF c2, i2
<1>7. XferOK(c2, x, manager.round) /\ BucketOK(c2, x, manager.round)
  BY <1>1, <1>5 DEF RankOK, XferOK, BucketOK, Opening, Sending
<1>8. DeviceOK(c2, x, i2) /\ SharedOK(c2, x, i2, manager.round)
  BY <1>1, <1>5, <1>6 DEF RankOK, DeviceOK, SharedOK, Opening
<1>9. HandOK(c2, i2, w, manager.round)
  <2>1. <<m>> = <<[meta |-> i2.meta, last |-> c2.pc = "handedLast"]>>
    BY <1>5, <1>6 DEF m
  <2> QED BY <1>1, <1>4, <1>5, <1>6, <2>1 DEF RankOK, HandOK
<1>10. \A t \in Tensors : Owned(c, i, w, t) => Owned(c2, i2, w, t)
  <2>1. i.msg = << >>
    BY <1>1 DEF RankOK, HandOK
  <2>2. ToSet(i.msg) = {}
    BY <2>1, OneFacts, SequenceFacts, <1>4
  <2> QED BY <2>2, <1>3, <1>4, <1>5, <1>6 DEF Owned
<1> QED BY <1>1, <1>2, <1>5, <1>6, <1>7, <1>8, <1>9, <1>10, QuietStep DEF c, x, i, w, Closed, RankOK

\* Starting over when the worker has cloned everything.
LEMMA KeepsAnswered == ASSUME IInv, NEW r \in Ranks, Answered(r) PROVE IInv'
<1> DEFINE c == chain[r]  x == agent[r]  i == ipc[r]  w == worker[r]
<1>1. /\ c \in ChainStates /\ x \in AgentStates(Moves) /\ i \in IpcStates /\ w \in WorkerStates
      /\ c.pc = "handed" /\ i.answered /\ manager.pc = "transfer"
      /\ RankOK(c, x, i, w, manager.round)
  BY RankFacts DEF Answered
<1> DEFINE c2 == [c EXCEPT !.pc = "yield"]
           i2 == [i EXCEPT !.at = 0, !.meta = << >>, !.answered = FALSE]
<1>2. RankChange(r, c2, x, i2, w)
  BY RankFacts DEF Answered, RankChange
<1> HIDE DEF c, x, i, w
<1>3. << >> \in Metas /\ ToSet(<< >>) = {}
  <2>1. << >> \in Seq(Spots)
    OBVIOUS
  <2> QED BY <2>1, SequenceFacts DEF Metas
<1>5. /\ c2 \in ChainStates /\ c2.pc = "yield" /\ c2.cur = c.cur /\ c2.nxt = c.nxt /\ c2.todo = c.todo
      /\ c2.xfer = c.xfer /\ c2.inbox = c.inbox
  BY <1>1 DEF ChainStates, ChainPcs
<1>6. /\ i2 \in IpcStates /\ i2.at = 0 /\ i2.meta = << >> /\ i2.buf = i.buf
      /\ i2.msg = i.msg /\ i2.answered = FALSE
  BY <1>1, <1>3 DEF IpcStates
<1> HIDE DEF c2, i2
<1>7. XferOK(c2, x, manager.round) /\ BucketOK(c2, x, manager.round)
  BY <1>1, <1>5 DEF RankOK, XferOK, BucketOK, Opening, Sending
<1>8. DeviceOK(c2, x, i2) /\ SharedOK(c2, x, i2, manager.round)
  <2>1. x.pend = << >> /\ ToSet(x.pend) = {}
    BY <1>1, <1>3 DEF RankOK, DeviceOK
  <2> QED BY <1>1, <1>3, <1>5, <1>6, <2>1 DEF RankOK, DeviceOK, SharedOK, Opening, Apart, Before
<1>9. HandOK(c2, i2, w, manager.round)
  BY <1>1, <1>5, <1>6 DEF RankOK, HandOK
<1>10. \A t \in Tensors : Owned(c, i, w, t) => Owned(c2, i2, w, t)
  BY <1>1, <1>5, <1>6 DEF Owned
<1> QED BY <1>1, <1>2, <1>5, <1>6, <1>7, <1>8, <1>9, <1>10, QuietStep DEF c, x, i, w, Closed, RankOK

\* Ending when the worker has cloned the rest.
LEMMA KeepsAnsweredLast == ASSUME IInv, NEW r \in Ranks, AnsweredLast(r) PROVE IInv'
<1> DEFINE c == chain[r]  x == agent[r]  i == ipc[r]  w == worker[r]
<1>1. /\ c \in ChainStates /\ x \in AgentStates(Moves) /\ i \in IpcStates /\ w \in WorkerStates
      /\ c.pc = "handedLast" /\ i.answered /\ manager.pc = "transfer"
      /\ RankOK(c, x, i, w, manager.round)
  BY RankFacts DEF AnsweredLast
<1> DEFINE c2 == [c EXCEPT !.pc = IF Leader(r) THEN "await" ELSE "done"]
           i2 == [i EXCEPT !.answered = FALSE]
<1>2. RankChange(r, c2, x, i2, w)
  BY RankFacts DEF AnsweredLast, RankChange
<1> HIDE DEF c, x, i, w
<1>5. /\ c2 \in ChainStates /\ c2.pc \in {"await", "done"} /\ c2.cur = c.cur /\ c2.nxt = c.nxt /\ c2.todo = c.todo
      /\ c2.xfer = c.xfer /\ c2.inbox = c.inbox /\ (c2.pc = "done" => ~Leader(r))
  BY <1>1 DEF ChainStates, ChainPcs
<1>6. /\ i2 \in IpcStates /\ i2.at = i.at /\ i2.meta = i.meta /\ i2.buf = i.buf
      /\ i2.msg = i.msg /\ i2.answered = FALSE
  BY <1>1 DEF IpcStates
<1> HIDE DEF c2, i2
<1>7. XferOK(c2, x, manager.round) /\ BucketOK(c2, x, manager.round)
  BY <1>1, <1>5 DEF RankOK, XferOK, BucketOK, Opening, Sending
<1>8. DeviceOK(c2, x, i2) /\ SharedOK(c2, x, i2, manager.round)
  BY <1>1, <1>5, <1>6 DEF RankOK, DeviceOK, SharedOK, Opening
<1>9. HandOK(c2, i2, w, manager.round)
  BY <1>1, <1>5, <1>6 DEF RankOK, HandOK
<1>10. \A t \in Tensors : Owned(c, i, w, t) => Owned(c2, i2, w, t)
  BY <1>1, <1>5, <1>6 DEF Owned
<1> QED BY <1>1, <1>2, <1>5, <1>6, <1>7, <1>8, <1>9, <1>10, QuietStep DEF c, x, i, w, Closed, RankOK

\* Cloning: what is listed stands in the shared buffer, so it is of this push.
LEMMA KeepsCloneBucket == ASSUME IInv, NEW r \in Ranks, CloneBucket(r) PROVE IInv'
<1> DEFINE c == chain[r]  x == agent[r]  i == ipc[r]  w == worker[r]  v == manager.round
           m == Head(i.msg)
           w2 == [pc |-> "load", last |-> m.last, clones |->
                   {<<p.name, VersionAt(i.buf, p.name, p.at)>> : p \in ToSet(m.meta)}]
           i2 == [i EXCEPT !.msg = << >>, !.answered = TRUE]
<1>1. /\ c \in ChainStates /\ x \in AgentStates(Moves) /\ i \in IpcStates /\ w \in WorkerStates
      /\ w.pc = "receive" /\ i.msg # << >> /\ manager.pc = "transfer" /\ v \in 1..MaxUpdates
      /\ RankOK(c, x, i, w, v)
  BY RankFacts DEF CloneBucket
<1>2. RankChange(r, c, x, i2, w2)
  BY RankFacts DEF CloneBucket, RankChange
<1>3. /\ c.pc \in {"handed", "handedLast"} /\ ~i.answered
      /\ i.msg = <<[meta |-> i.meta, last |-> c.pc = "handedLast"]>> /\ w.clones = {}
  BY <1>1 DEF RankOK, HandOK
<1>4. m.meta = i.meta /\ m.last = (c.pc = "handedLast") /\ ToSet(i.msg) = {m}
  BY <1>3, OneFacts
<1>5. i.meta \in Metas /\ ToSet(i.meta) \subseteq Spots
  BY <1>1, SequenceFacts DEF IpcStates, Metas
<1>6. x.pend = << >> /\ ToSet(x.pend) = {}
  <2>1. x.pend = << >>
    BY <1>1, <1>3 DEF RankOK, DeviceOK
  <2> QED BY <2>1, <1>5, SequenceFacts DEF Metas
<1>7. \A p \in ToSet(i.meta) : VersionAt(i.buf, p.name, p.at) = v
  BY <1>1, <1>3, <1>5, <1>6, VersionOfHeld DEF RankOK, SharedOK
<1>8. \A p \in ToSet(i.meta) : p.name \in Tensors
  BY <1>5 DEF Spots, Places
<1> HIDE DEF c, x, i, w, v, m
<1>9. w2.clones = {<<p.name, v>> : p \in ToSet(i.meta)} /\ w2.pc = "load" /\ w2.last = (c.pc = "handedLast")
  BY <1>4, <1>7
<1>10. w2.clones \subseteq Tensors \X Nat
  BY <1>1, <1>8, <1>9
<1>11. w2 \in WorkerStates
  BY <1>4, <1>10 DEF WorkerStates
<1>12. /\ i2 \in IpcStates /\ i2.at = i.at /\ i2.meta = i.meta /\ i2.buf = i.buf
       /\ i2.msg = << >> /\ i2.answered = TRUE
  BY <1>1, OneFacts DEF IpcStates
<1> HIDE DEF w2, i2
<1>13. DeviceOK(c, x, i2) /\ SharedOK(c, x, i2, v)
  BY <1>1, <1>12 DEF RankOK, DeviceOK, SharedOK
<1>14. HandOK(c, i2, w2, v)
  <2>1. \A k \in w2.clones : k[2] = v
    BY <1>9
  <2> QED BY <1>1, <1>3, <1>9, <1>12, <2>1 DEF RankOK, HandOK
<1>15. \A t \in Tensors : Owned(c, i, w, t) => Owned(c, i2, w2, t)
  <2> SUFFICES ASSUME NEW t \in Tensors, t \in Names(i.meta) PROVE \E k \in w2.clones : k[1] = t
    BY <1>3, <1>4, <1>12 DEF Owned
  <2>1. PICK p \in ToSet(i.meta) : t = p.name
    BY DEF Names
  <2>2. <<p.name, v>> \in w2.clones /\ <<p.name, v>>[1] = t
    BY <2>1, <1>9
  <2> QED BY <2>2
<1>16. c.pc # "announce" /\ c.pc # "call" /\ (c.pc = "done" => FALSE)
  BY <1>3
<1> QED BY <1>1, <1>2, <1>11, <1>12, <1>13, <1>14, <1>15, <1>16, QuietStep DEF c, x, i, w, v, Closed, RankOK

\* A copy into the shared buffer takes place: it does not touch other tensors.
LEMMA KeepsDeviceCopy == ASSUME IInv, NEW r \in Ranks, DeviceCopy(r) PROVE IInv'
<1> DEFINE c == chain[r]  x == agent[r]  i == ipc[r]  w == worker[r]  v == manager.round
           e == Head(x.pend)
           b == [o \in 1..Sizes[e.name] |-> x.buf[e.side][e.at + o]]
           n == Place(e.name, e.to)
           x2 == [x EXCEPT !.pend = Tail(@)]
           i2 == [i EXCEPT !.buf = Written(@, e.to, e.name, b)]
<1>1. /\ c \in ChainStates /\ x \in AgentStates(Moves) /\ i \in IpcStates /\ w \in WorkerStates
      /\ r # 0 /\ x.pend # << >> /\ RankOK(c, x, i, w, v)
  BY RankFacts DEF DeviceCopy
<1>2. c.pc = "yield" /\ manager.pc = "transfer"
  <2>1. c.pc = "yield"
    BY <1>1 DEF RankOK, DeviceOK
  <2> QED BY <2>1, RankFacts
<1>3. RankChange(r, c, x2, i2, w)
  BY <1>1, RankFacts DEF DeviceCopy, RankChange
<1>4. x.pend \in Seq(Moves) /\ i.meta \in Seq(Spots) /\ c.cur.meta \in Seq(Spots)
  <2>1. c.cur \in Messages \/ c.cur = NoMessage
    BY <1>1 DEF ChainStates
  <2>2. c.cur.meta \in Seq(Spots)
    <3>1. << >> \in Seq(Spots)
      OBVIOUS
    <3>2. CASE c.cur = NoMessage
      BY <3>1, <3>2 DEF NoMessage
    <3>3. CASE c.cur \in Messages
      BY <3>3 DEF Messages, Metas
    <3> QED BY <2>1, <3>2, <3>3
  <2> QED BY <1>1, <2>2 DEF AgentStates, IpcStates, Metas
<1>5. /\ e \in ToSet(x.pend) /\ e \in Moves /\ Tail(x.pend) \in Seq(Moves)
      /\ ToSet(x.pend) = {e} \cup ToSet(Tail(x.pend)) /\ ToSet(x.pend) \subseteq Moves
  BY <1>1, <1>4, SequenceFacts
<1>6. e.side = x.send /\ Place(e.name, e.at) \in ToSet(c.cur.meta) /\ n \in ToSet(i.meta)
  BY <1>1, <1>5 DEF RankOK, DeviceOK
<1>7. ToSet(i.meta) \subseteq Spots /\ ToSet(c.cur.meta) \subseteq Spots
  BY <1>4, SequenceFacts
<1>8. e.name \in Tensors /\ e.at \in Nat /\ e.to \in Nat /\ n.name = e.name /\ n.at = e.to /\ n \in Spots /\ Fits(e.at, e.name)
      /\ Fits(e.to, e.name)
  BY <1>5, <1>6, <1>7 DEF Moves, Spots, Places, Place
<1>9. HeldAt(x.buf[x.send], Place(e.name, e.at), v)
  BY <1>1, <1>2, <1>6 DEF RankOK, BucketOK, Sending, Holds
<1>10. x.buf[x.send] \in Buckets /\ i.buf \in Buckets
  BY <1>1 DEF AgentStates, IpcStates
<1>11. Sizes[e.name] \in Nat
  BY <1>8, Constants
<1> HIDE DEF c, x, i, w, v, e, n
<1>12. \A o \in 1..Sizes[e.name] : b[o] = <<e.name, v>> /\ b[o] \in Values
  <2> SUFFICES ASSUME NEW o \in 1..Sizes[e.name] PROVE b[o] = <<e.name, v>> /\ b[o] \in Values
    OBVIOUS
  <2>1. e.at + o \in Bytes(e.name, e.at)
    BY <1>8, <1>11 DEF Bytes
  <2>2. x.buf[x.send][e.at + o] = <<e.name, v>>
    BY <2>1, <1>9 DEF HeldAt, Place
  <2>3. e.at + o \in 1..BucketSize
    BY <2>1, <1>8, SpotBytes
  <2>4. x.buf[x.send][e.at + o] \in Values
    BY <2>3, <1>10 DEF Buckets
  <2> QED BY <2>2, <2>4, <1>6
<1>13. b \in [1..Sizes[e.name] -> Values]
  BY <1>12
<1> HIDE DEF b
<1>14. /\ Written(i.buf, e.to, e.name, b) \in Buckets
       /\ HeldAt(Written(i.buf, e.to, e.name, b), n, v)
       /\ \A q \in Spots : HeldAt(i.buf, q, v) /\ (q # n => \A o \in Bytes(q.name, q.at) : o \notin Bytes(n.name, n.at))
            => HeldAt(Written(i.buf, e.to, e.name, b), q, v)
  <2>1. Written(i.buf, e.to, e.name, b) \in Buckets
    BY <1>8, <1>10, <1>13, WrittenFacts
  <2>2. i.buf \in Buckets /\ n \in Spots /\ b \in [1..Sizes[n.name] -> Values]
        /\ \A o \in 1..Sizes[n.name] : b[o] = <<n.name, v>>
    BY <1>8, <1>10, <1>12, <1>13
  <2>3. /\ HeldAt(Written(i.buf, n.at, n.name, b), n, v)
       /\ \A q \in Spots : HeldAt(i.buf, q, v) /\ (q # n => \A o \in Bytes(q.name, q.at) : o \notin Bytes(n.name, n.at))
            => HeldAt(Written(i.buf, n.at, n.name, b), q, v)
    BY <2>2, WrittenHolds
  <2> QED BY <2>1, <2>3, <1>8
<1>15. /\ x2 \in AgentStates(Moves) /\ x2.send = x.send /\ x2.op = x.op /\ x2.notes = x.notes /\ x2.buf = x.buf
       /\ x2.pend = Tail(x.pend)
  BY <1>1, <1>5 DEF AgentStates
<1>16. /\ i2 \in IpcStates /\ i2.at = i.at /\ i2.meta = i.meta
       /\ i2.buf = Written(i.buf, e.to, e.name, b) /\ i2.msg = i.msg /\ i2.answered = i.answered
  BY <1>1, <1>14 DEF IpcStates
<1> HIDE DEF x2, i2
<1>17. XferOK(c, x2, v) /\ BucketOK(c, x2, v)
  BY <1>1, <1>15 DEF RankOK, XferOK, BucketOK
<1>18. DeviceOK(c, x2, i2)
  BY <1>1, <1>2, <1>5, <1>15, <1>16 DEF RankOK, DeviceOK
<1>19. SharedOK(c, x2, i2, v)
  <2>1. /\ Apart(ToSet(i.meta)) /\ Before(ToSet(i.meta), i.at)
        /\ \A q \in ToSet(i.meta) : HeldAt(i.buf, q, v) \/ \E f \in ToSet(x.pend) : f.name = q.name /\ f.to = q.at
    BY <1>1, <1>2 DEF RankOK, SharedOK
  <2>2. ASSUME NEW q \in ToSet(i.meta)
        PROVE  HeldAt(i2.buf, q, v) \/ \E f \in ToSet(x2.pend) : f.name = q.name /\ f.to = q.at
    <3>1. CASE HeldAt(i.buf, q, v)
      <4>1. q # n => \A o \in Bytes(q.name, q.at) : o \notin Bytes(n.name, n.at)
        BY <2>1, <1>6 DEF Apart
      <4> QED BY <3>1, <4>1, <1>7, <1>14, <1>16
    <3>2. CASE e.name = q.name /\ e.to = q.at
      <4>1. q = n
        BY <3>2, <1>7, <1>8 DEF Spots, Places, n, Place
      <4> QED BY <4>1, <1>14, <1>16
    <3> QED BY <2>1, <3>1, <3>2, <1>5, <1>15
  <2> QED BY <2>1, <2>2, <1>2, <1>16 DEF SharedOK, Opening
<1>20. HandOK(c, i2, w, v)
  BY <1>1, <1>16 DEF RankOK, HandOK
<1>21. \A t \in Tensors : Owned(c, i, w, t) => Owned(c, i2, w, t)
  BY <1>16 DEF Owned
<1> QED BY <1>1, <1>2, <1>3, <1>15, <1>16, <1>17, <1>18, <1>19, <1>20, <1>21, QuietStep DEF c, x, i, w, v, Closed, RankOK
-----------------------------------------------------------------------------
(* Reading and turning to the next bucket                                  *)

\* Waiting takes the notification, and leaves nothing under way.
LEMMA WaitedFacts ==
  ASSUME NEW S, NEW x \in AgentStates(S), NEW side, NEW c, NEW v, LinkOK(x, side, c, v),
         x.op = 0 \/ (x.notes # << >> /\ Head(x.notes) = x.op)
  PROVE  /\ Waited(x) \in AgentStates(S) /\ Waited(x).op = 0 /\ Waited(x).notes = << >>
         /\ Waited(x).send = x.send /\ Waited(x).sent = x.sent /\ Waited(x).buf = x.buf /\ Waited(x).pend = x.pend
         /\ c.inbox = << >> /\ ~Reading(c)
<1>1. /\ x.notes = IF x.op = 0 THEN << >> ELSE <<x.op>>
      /\ c.inbox = << >> /\ ~Reading(c)
  BY DEF LinkOK
<1>2. (IF x.op = 0 THEN x.notes ELSE Tail(x.notes)) = << >> /\ << >> \in Seq(Nat)
  BY <1>1, OneFacts
<1>3. Waited(x) = [x EXCEPT !.op = 0, !.notes = << >>]
  BY <1>2 DEF Waited
<1> DEFINE y == [x EXCEPT !.op = 0, !.notes = << >>]
<1>4. /\ y \in AgentStates(S) /\ y.op = 0 /\ y.notes = << >>
      /\ y.send = x.send /\ y.sent = x.sent /\ y.buf = x.buf /\ y.pend = x.pend
  BY <1>2 DEF AgentStates
<1> HIDE DEF y
<1>5. Waited(x) = y
  BY <1>3 DEF y
<1> QED BY <1>1, <1>4, <1>5

\* A wait that is over leaves nothing between a rank and the next one.
LEMMA WaitOverFacts ==
  ASSUME IInv, NEW r \in Ranks, WaitOver(r)
  PROVE  LET x == agent[r]  y == Waited(agent[r])
         IN  /\ y \in AgentStates(Moves) /\ y.op = 0 /\ y.notes = << >>
             /\ y.send = x.send /\ y.buf = x.buf /\ y.pend = x.pend
             /\ r < NumRanks => chain[r + 1].inbox = << >> /\ ~Reading(chain[r + 1])
<1> DEFINE x == agent[r]  y == Waited(agent[r])  c == chain[r + 1]
<1>1. /\ x \in AgentStates(Moves) /\ NumRanks \in Nat /\ r \in Nat /\ r <= NumRanks
      /\ r < NumRanks => LinkOK(x, x.send, c, manager.round)
      /\ r = NumRanks => x.op = 0 /\ x.notes = << >>
      /\ x.op = 0 \/ (x.notes # << >> /\ Head(x.notes) = x.op)
  BY RankFacts, Constants DEF WaitOver
<1>2. \E side, d, u : LinkOK(x, side, d, u) /\ (r < NumRanks => d = c)
  <2>1. CASE r < NumRanks
    BY <1>1, <2>1
  <2>2. CASE r = NumRanks
    <3> DEFINE d == [IdleChain EXCEPT !.inbox = << >>]
    <3>1. d.inbox = << >> /\ ~Reading(d)
      BY DEF IdleChain, Reading, NoXfer
    <3> HIDE DEF d
    <3>2. LinkOK(x, 1, d, 0)
      BY <1>1, <2>2, <3>1 DEF LinkOK
    <3> QED BY <2>2, <3>2, <1>1
  <2> QED BY <1>1, <2>1, <2>2
<1> HIDE DEF x, c
<1>3. PICK side, d, u : LinkOK(x, side, d, u) /\ (r < NumRanks => d = c)
  BY <1>2
<1>4. /\ Waited(x) \in AgentStates(Moves) /\ Waited(x).op = 0 /\ Waited(x).notes = << >>
      /\ Waited(x).send = x.send /\ Waited(x).buf = x.buf /\ Waited(x).pend = x.pend
      /\ d.inbox = << >> /\ ~Reading(d)
  BY <1>1, <1>3, WaitedFacts
<1> QED BY <1>3, <1>4 DEF x, c

\* Starting to read: the message is taken, and the link is a read now.
LEMMA KeepsBeginRead ==
  ASSUME IInv, NEW r \in Ranks, NEW pc2,
         (ReadFirst(r) /\ pc2 = "reading") \/ (ReadNext(r) /\ pc2 = "yield")
  PROVE  IInv'
<1> DEFINE c == chain[r]  x == agent[r]  i == ipc[r]  w == worker[r]  v == manager.round
           m == Head(c.inbox)
           f == [on |-> TRUE, done |-> FALSE, key |-> m.key, from |-> m.side, to |-> Other(x.send)]
           c2 == [c EXCEPT !.pc = pc2, !.nxt = m, !.inbox = Tail(@), !.xfer = f]
<1>1. /\ c \in ChainStates /\ x \in AgentStates(Moves) /\ i \in IpcStates /\ w \in WorkerStates
      /\ (c.pc = "first" /\ pc2 = "reading") \/ (c.pc = "read" /\ pc2 = "yield")
      /\ c.inbox # << >> /\ manager.pc = "transfer"
      /\ RankOK(c, x, i, w, v)
      /\ LinkOK(agent[r - 1], SendSide(r - 1), c, v)
      /\ r < NumRanks => LinkOK(x, x.send, chain[r + 1], v)
      /\ r = NumRanks => x.op = 0 /\ x.notes = << >>
  BY RankFacts DEF ReadFirst, ReadNext
<1>2. RankChange(r, c2, x, i, w)
  <2>1. BeginRead(r) = f
    BY DEF BeginRead
  <2>2. chain' = [chain EXCEPT ![r] = c2] /\ UNCHANGED <<manager, open, agent, master, ipc, worker, model, label>>
    BY <1>1, <2>1 DEF ReadFirst, ReadNext
  <2> QED BY <2>2, RankFacts DEF RankChange
<1>3. c.inbox \in Seq(Messages) /\ x.send \in Sides
  BY <1>1 DEF ChainStates, AgentStates
<1>4. m \in ToSet(c.inbox) /\ m \in Messages /\ ToSet(c.inbox) = {m} \cup ToSet(Tail(c.inbox))
  BY <1>1, <1>3, SequenceFacts
<1>5. /\ agent[r - 1].op # 0 /\ agent[r - 1].notes = << >> /\ Tail(c.inbox) = << >>
      /\ m.key = agent[r - 1].op /\ m.side = SendSide(r - 1)
      /\ Holds(agent[r - 1].buf[SendSide(r - 1)], m.meta, v)
  BY <1>1 DEF LinkOK
<1>6. f \in Xfers
  BY <1>3, <1>4 DEF Xfers, Messages, Other, Sides
<1> HIDE DEF m, f
<1>7. c2 \in ChainStates /\ c2.pc = pc2 /\ c2.cur = c.cur /\ c2.nxt = m /\ c2.todo = c.todo /\ c2.inbox = << >> /\ c2.xfer = f
  <2>1. << >> \in Seq(Messages)
    OBVIOUS
  <2> QED BY <1>1, <1>4, <1>5, <1>6, <2>1 DEF ChainStates, ChainPcs
<1>8. f.on /\ ~f.done /\ f.key = m.key /\ f.from = m.side /\ f.to = Other(x.send)
  BY DEF f
<1>9. ToSet(c2.inbox) = {}
  BY <1>7, OneFacts
<1> HIDE DEF c2, c, x, i, w, v
<1>10. XferOK(c2, x, v) /\ BucketOK(c2, x, v)
  BY <1>1, <1>7, <1>8 DEF RankOK, XferOK, BucketOK, Opening, Sending
<1>11. DeviceOK(c2, x, i) /\ SharedOK(c2, x, i, v)
  BY <1>1, <1>7 DEF RankOK, DeviceOK, SharedOK, Opening
<1>12. HandOK(c2, i, w, v)
  BY <1>1, <1>7 DEF RankOK, HandOK
<1>13. LinkOK(agent[r - 1], SendSide(r - 1), c2, v)
  BY <1>5, <1>7, <1>8 DEF LinkOK, Reading
<1>14. SeesLast(c2) => SeesLast(c)
  BY <1>4, <1>7, <1>9 DEF SeesLast, HasLast
<1>15. HasLast(c2) => c2.inbox = << >>
  BY <1>7
<1>16. Posts(c) => Posts(c2)
  BY <1>1, <1>7 DEF Posts, RankOK, BucketOK
<1>17. Held(c) \subseteq Held(c2)
  <2>0. Tail(c.inbox) = << >>
    BY <1>5
  <2>1. ToSet(c.inbox) = {m}
    BY <1>4, <2>0, <1>7, <1>9
  <2>2. ~c.xfer.on /\ c.pc # "announce"
    BY <1>1 DEF RankOK, XferOK
  <2>3. UNION {Names(k.meta) : k \in ToSet(c.inbox)} = Names(m.meta)
    BY <2>1
  <2> QED BY <2>2, <2>3, <1>7, <1>8 DEF Held
<1>18. \A t \in Tensors : Owned(c, i, w, t) => Owned(c2, i, w, t) \/ t \in Held(c2)
  BY <1>1, <1>7 DEF Owned
<1>19. c2.pc \in {"reading", "yield"}
  BY <1>1, <1>7
<1> QED BY <1>1, <1>2, <1>7, <1>10, <1>11, <1>12, <1>13, <1>14, <1>15, <1>16, <1>17, <1>18, <1>19, LocalStep
           DEF c, x, i, w, v, Closed, RankOK

\* A bucket that has been read becomes the one to send.
LEMMA KeepsAdvance ==
  ASSUME IInv, NEW r \in Ranks, FirstRead(r) \/ Turn(r)
  PROVE  IInv'
<1> DEFINE c == chain[r]  x == agent[r]  i == ipc[r]  w == worker[r]  v == manager.round
           c2 == Advanced(c)
           y == Waited(x)
           x2 == Swapped(y)
<1>1. /\ c \in ChainStates /\ x \in AgentStates(Moves) /\ i \in IpcStates /\ w \in WorkerStates
      /\ c.pc = "reading" \/ (c.pc = "yield" /\ c.todo = << >> /\ ~c.cur.last)
      /\ c.xfer.done /\ manager.pc = "transfer"
      /\ RankOK(c, x, i, w, v)
      /\ LinkOK(agent[r - 1], SendSide(r - 1), c, v)
      /\ HasLast(c) => c.inbox = << >>
  BY RankFacts DEF FirstRead, Turn
<1>2. c.todo = << >> /\ ~c.cur.last /\ c.xfer.on /\ x.pend = << >>
  <2>1. c.todo = << >> /\ ~c.cur.last
    BY <1>1 DEF RankOK, BucketOK, Opening, Sending
  <2>2. c.xfer.on
    BY <1>1, <2>1 DEF RankOK, XferOK
  <2>3. x.pend = << >>
    <3>1. CASE c.pc = "reading"
      BY <3>1, <1>1 DEF RankOK, DeviceOK
    <3>2. CASE c.pc = "yield"
      BY <3>2 DEF FirstRead, Turn, Synchronized
    <3> QED BY <3>1, <3>2, <1>1
  <2> QED BY <2>1, <2>2, <2>3
<1>3. WaitOver(r)
  <2>1. CASE FirstRead(r)
    <3>1. x.op = 0
      BY <2>1, <1>1 DEF FirstRead, RankOK, BucketOK, Sending
    <3> QED BY <3>1 DEF WaitOver
  <2>2. CASE Turn(r)
    BY <2>2 DEF Turn
  <2> QED BY <2>1, <2>2
<1>4. /\ y \in AgentStates(Moves) /\ y.op = 0 /\ y.notes = << >> /\ y.send = x.send /\ y.buf = x.buf /\ y.pend = x.pend
      /\ r < NumRanks => chain[r + 1].inbox = << >> /\ ~Reading(chain[r + 1])
  BY <1>3, WaitOverFacts
<1>5. RankChange(r, c2, x2, i, w)
  <2>1. CASE FirstRead(r)
    <3>1. x.op = 0
      BY <2>1, <1>1 DEF FirstRead, RankOK, BucketOK, Sending
    <3>2. y = x
      BY <3>1, <1>1 DEF Waited, AgentStates
    <3>3. agent' = [agent EXCEPT ![r] = Swapped(x)]
      BY <2>1 DEF FirstRead
    <3>4. /\ chain' = [chain EXCEPT ![r] = c2]
          /\ UNCHANGED <<manager, open, master, ipc, worker, model, label>>
      BY <2>1 DEF FirstRead
    <3> QED BY <3>2, <3>3, <3>4, RankFacts DEF RankChange
  <2>2. CASE Turn(r)
    BY <2>2, RankFacts DEF Turn, RankChange
  <2> QED BY <2>1, <2>2
<1>6. Other(x.send) \in Sides
  BY <1>1 DEF AgentStates, Sides, Other
<1> HIDE DEF y, c, x, i, w, v
<1>7. /\ x2 \in AgentStates(Moves) /\ x2.op = 0 /\ x2.notes = << >> /\ x2.send = Other(x.send) /\ x2.buf = x.buf
      /\ x2.pend = << >>
  BY <1>2, <1>4, <1>6 DEF Swapped, AgentStates
<1>8. /\ c2 \in ChainStates /\ c2.pc = "announce" /\ c2.cur = c.nxt /\ c2.nxt = c.nxt /\ c2.todo = << >>
      /\ c2.inbox = c.inbox /\ c2.xfer = NoXfer /\ ~NoXfer.on
  BY <1>1, <1>2 DEF Advanced, ChainStates, ChainPcs, NoXfer
<1> HIDE DEF c2, x2
<1>9. XferOK(c2, x2, v)
  BY <1>8 DEF XferOK
<1>10. BucketOK(c2, x2, v)
  <2>1. Holds(x.buf[Other(x.send)], c.nxt.meta, v)
    BY <1>1, <1>2 DEF RankOK, XferOK
  <2> QED BY <2>1, <1>7, <1>8 DEF BucketOK, Opening, Sending
<1>11. DeviceOK(c2, x2, i) /\ SharedOK(c2, x2, i, v)
  <2>1. ToSet(x2.pend) = {} /\ ToSet(x.pend) = {}
    BY <1>2, <1>7, OneFacts
  <2> QED BY <1>1, <1>7, <1>8, <2>1 DEF RankOK, DeviceOK, SharedOK, Opening
<1>12. HandOK(c2, i, w, v)
  BY <1>1, <1>8 DEF RankOK, HandOK
<1>13. LinkOK(agent[r - 1], SendSide(r - 1), c2, v)
  BY <1>1, <1>8 DEF LinkOK, Reading
<1>14. r < NumRanks => LinkOK(x2, x2.send, chain[r + 1], v)
  BY <1>4, <1>7 DEF LinkOK
<1>15. SeesLast(c2) => SeesLast(c)
  BY <1>2, <1>8 DEF SeesLast, HasLast
<1>16. HasLast(c2) => c2.inbox = << >>
  BY <1>1, <1>2, <1>8 DEF HasLast
<1>17. Posts(c) => Posts(c2)
  BY <1>2 DEF Posts
<1>18. Held(c) \subseteq Held(c2)
  <2>1. c.pc # "announce"
    BY <1>1
  <2> QED BY <2>1, <1>2, <1>8 DEF Held
<1>19. \A t \in Tensors : Owned(c, i, w, t) => Owned(c2, i, w, t) \/ t \in Held(c2)
  BY <1>1, <1>2, <1>8 DEF Owned
<1> QED BY <1>1, <1>5, <1>7, <1>8, <1>9, <1>10, <1>11, <1>12, <1>13, <1>14, <1>15, <1>16, <1>17, <1>18, <1>19, LocalStep
           DEF c, x, i, w, v, Closed, RankOK

\* Handing over the rest.
LEMMA KeepsHandOverLast == ASSUME IInv, NEW r \in Ranks, HandOverLast(r) PROVE IInv'
<1> DEFINE c == chain[r]  x == agent[r]  i == ipc[r]  w == worker[r]  v == manager.round
           m == [meta |-> i.meta, last |-> TRUE]
           x2 == Waited(x)
           c2 == [c EXCEPT !.pc = "handedLast"]
           i2 == [i EXCEPT !.msg = <<m>>, !.answered = FALSE]
<1>1. /\ c \in ChainStates /\ x \in AgentStates(Moves) /\ i \in IpcStates /\ w \in WorkerStates
      /\ c.pc = "yield" /\ c.todo = << >> /\ c.cur.last /\ x.pend = << >> /\ manager.pc = "transfer"
      /\ RankOK(c, x, i, w, v)
      /\ LinkOK(agent[r - 1], SendSide(r - 1), c, v)
      /\ HasLast(c) => c.inbox = << >>
  BY RankFacts DEF HandOverLast, Synchronized
<1>2. RankChange(r, c2, x2, i2, w)
  BY RankFacts DEF HandOverLast, Handed, RankChange
<1>3. i.meta \in Metas /\ m \in [meta : Metas, last : BOOLEAN] /\ m.meta = i.meta /\ m.last = TRUE
  BY <1>1 DEF IpcStates
<1>4. /\ <<m>> \in Seq([meta : Metas, last : BOOLEAN]) /\ ToSet(<<m>>) = {m} /\ <<m>> # << >>
      /\ ToSet(<< >>) = {}
  BY <1>3, OneFacts
<1>5. /\ x2 \in AgentStates(Moves) /\ x2.op = 0 /\ x2.notes = << >> /\ x2.send = x.send /\ x2.buf = x.buf
      /\ x2.pend = << >>
      /\ r < NumRanks => chain[r + 1].inbox = << >> /\ ~Reading(chain[r + 1])
  BY <1>1, WaitOverFacts DEF HandOverLast
<1> HIDE DEF c, x, i, w, v, m, x2
<1>6. /\ c2 \in ChainStates /\ c2.pc = "handedLast" /\ c2.cur = c.cur /\ c2.nxt = c.nxt /\ c2.todo = << >>
      /\ c2.xfer = c.xfer /\ c2.inbox = c.inbox
  BY <1>1 DEF ChainStates, ChainPcs
<1>7. /\ i2 \in IpcStates /\ i2.at = i.at /\ i2.meta = i.meta /\ i2.buf = i.buf
      /\ i2.msg = <<m>> /\ i2.answered = FALSE
  BY <1>1, <1>4 DEF IpcStates
<1> HIDE DEF c2, i2
<1>8. XferOK(c2, x2, v) /\ BucketOK(c2, x2, v)
  BY <1>1, <1>5, <1>6 DEF RankOK, XferOK, BucketOK, Opening, Sending
<1>9. DeviceOK(c2, x2, i2) /\ SharedOK(c2, x2, i2, v)
  BY <1>1, <1>4, <1>5, <1>6, <1>7 DEF RankOK, DeviceOK, SharedOK, Opening
<1>10. HandOK(c2, i2, w, v)
  <2>1. <<m>> = <<[meta |-> i2.meta, last |-> c2.pc = "handedLast"]>>
    BY <1>6, <1>7 DEF m
  <2> QED BY <1>1, <1>4, <1>6, <1>7, <2>1 DEF RankOK, HandOK
<1>11. LinkOK(agent[r - 1], SendSide(r - 1), c2, v)
  <2>1. InView(c2) = InView(c)
    BY <1>6 DEF InView
  <2> QED BY <1>1, <2>1, LinkFrame
<1>12. r < NumRanks => LinkOK(x2, x2.send, chain[r + 1], v)
  BY <1>5 DEF LinkOK
<1>13. /\ SeesLast(c2) => SeesLast(c)
       /\ HasLast(c2) => c2.inbox = << >>
       /\ Posts(c) => Posts(c2)
  BY <1>1, <1>6 DEF SeesLast, HasLast, Posts
<1>14. Held(c) \subseteq Held(c2)
  BY <1>1, <1>6 DEF Held
<1>15. \A t \in Tensors : Owned(c, i, w, t) => Owned(c2, i2, w, t) \/ t \in Held(c2)
  <2>1. i.msg = << >>
    BY <1>1 DEF RankOK, HandOK
  <2>2. ToSet(i.msg) = {}
    BY <2>1, <1>4
  <2> QED BY <2>2, <1>1, <1>3, <1>4, <1>6, <1>7 DEF Owned
<1> QED BY <1>1, <1>2, <1>5, <1>6, <1>7, <1>8, <1>9, <1>10, <1>11, <1>12, <1>13, <1>14, <1>15, LocalStep
           DEF c, x, i, w, v, Closed, RankOK
-----------------------------------------------------------------------------
(* Workers                                                                 *)

\* Links that are looked at no differently hold on.
LEMMA OtherLinks ==
  ASSUME LinksOK, manager'.round = manager.round,
         \A q \in Ranks :
           \/ LinkOK(agent[q - 1], SendSide(q - 1), chain[q], manager.round)'
           \/ /\ InView(chain[q])' = InView(chain[q]) /\ SendSide(q - 1)' = SendSide(q - 1)
              /\ LinkView(agent[q - 1], SendSide(q - 1))' = LinkView(agent[q - 1], SendSide(q - 1))
  PROVE  LinksOK'
<1> SUFFICES ASSUME NEW q \in Ranks PROVE LinkOK(agent[q - 1], SendSide(q - 1), chain[q], manager.round)'
  BY DEF LinksOK
<1>1. CASE LinkOK(agent[q - 1], SendSide(q - 1), chain[q], manager.round)'
  BY <1>1
<1>2. CASE /\ InView(chain[q])' = InView(chain[q]) /\ SendSide(q - 1)' = SendSide(q - 1)
           /\ LinkView(agent[q - 1], SendSide(q - 1))' = LinkView(agent[q - 1], SendSide(q - 1))
  <2>1. LinkOK(agent[q - 1], SendSide(q - 1), chain[q], manager.round)
    BY DEF LinksOK
  <2>2. /\ InView(chain'[q]) = InView(chain[q]) /\ SendSide(q - 1)' = SendSide(q - 1)
        /\ LinkView(agent'[q - 1], SendSide(q - 1)) = LinkView(agent[q - 1], SendSide(q - 1))
    BY <1>2 DEF LinkView
  <2>3. LinkOK(agent'[q - 1], SendSide(q - 1), chain'[q], manager.round)
    BY <2>1, <2>2, LinkFrame
  <2> QED BY <2>2, <2>3
<1> QED BY <1>1, <1>2

\* What keeps LastInv.
LEMMA LastFrame ==
  ASSUME LastInv, \A a \in Agents : Posted(a) => Posted(a)',
         \A q \in Ranks : SeesLast(chain'[q]) => SeesLast(chain[q]) \/ \A a \in 0..(q - 1) : Posted(a)',
         \A q \in Ranks : HasLast(chain'[q]) => chain'[q].inbox = << >>
  PROVE  LastInv'
<1> SUFFICES ASSUME NEW q \in Ranks PROVE SeesLast(chain'[q]) => \A a \in 0..(q - 1) : Posted(a)'
  BY DEF LastInv
<1>1. SeesLast(chain[q]) => \A a \in 0..(q - 1) : Posted(a)
  BY DEF LastInv
<1>2. \A a \in 0..(q - 1) : a \in Agents
  BY Constants
<1> QED BY <1>1, <1>2

\* Loading: what was cloned is loaded with the version of the round.
LEMMA KeepsLoadWeights == ASSUME IInv, NEW r \in Ranks, LoadWeights(r) PROVE IInv'
<1> DEFINE c == chain[r]  x == agent[r]  i == ipc[r]  w == worker[r]  v == manager.round
           w2 == [w EXCEPT !.pc = IF w.last THEN "done" ELSE "receive", !.clones = {}]
           m2 == [t \in Tensors |-> IF \E k \in w.clones : k[1] = t
                                    THEN (CHOOSE k \in w.clones : k[1] = t)[2] ELSE model[r][t]]
<1>1. /\ w \in WorkerStates /\ w.pc = "load" /\ manager.pc = "transfer" /\ v \in Nat
      /\ RankOK(c, x, i, w, v) /\ model[r] \in [Tensors -> Nat]
  <2>1. w.pc = "load"
    BY DEF LoadWeights
  <2>2. manager.pc = "transfer" /\ w \in WorkerStates /\ RankOK(c, x, i, w, v)
    BY <2>1, RankFacts
  <2>3. v \in Nat
    BY Constants DEF IInv, TypeInv, ManagerStates
  <2>4. model[r] \in [Tensors -> Nat]
    BY DEF IInv, TypeInv
  <2> QED BY <2>1, <2>2, <2>3, <2>4
<1>2. /\ model' = [model EXCEPT ![r] = m2] /\ worker' = [worker EXCEPT ![r] = w2]
      /\ UNCHANGED <<manager, open, agent, master, chain, ipc, label>>
  BY DEF LoadWeights
<1>3. \A k \in w.clones : k[2] = v
  BY <1>1 DEF RankOK, HandOK
<1>4. \A t \in Tensors : m2[t] = IF \E k \in w.clones : k[1] = t THEN v ELSE model[r][t]
  BY <1>3
<1>5. m2 \in [Tensors -> Nat]
  BY <1>1, <1>4
<1>6. w2 \in WorkerStates /\ w2.pc = (IF w.last THEN "done" ELSE "receive") /\ w2.clones = {} /\ w2.last = w.last
  BY <1>1 DEF WorkerStates
<1> HIDE DEF m2, w2
<1>7. /\ worker'[r] = w2 /\ model'[r] = m2
      /\ \A q \in Ranks : q # r => worker'[q] = worker[q] /\ model'[q] = model[q]
      /\ worker' \in [Ranks -> WorkerStates] /\ model' \in [Ranks -> [Tensors -> Nat]]
  BY <1>2, <1>5, <1>6 DEF IInv, TypeInv
<1>8. TypeInv'
  BY <1>2, <1>7 DEF IInv, TypeInv
<1>9. RanksOK'
  <2>1. RankOK(c, x, i, w2, v)
    BY <1>1, <1>6 DEF RankOK, HandOK
  <2> QED BY <1>2, <1>7, <2>1, OtherRanks DEF IInv
<1>10. LinksOK' /\ LastAgent' /\ MasterOK' /\ LastInv' /\ ClosedLast'
  BY <1>2 DEF IInv, LinksOK, SendSide, LastAgent, MasterOK, LastInv, Posted, ClosedLast
<1>11. Coverage'
  <2> SUFFICES ASSUME NEW q \in Ranks, NEW t \in Tensors PROVE Covered(q, t)'
    BY DEF Coverage
  <2>1. Covered(q, t)
    BY <1>1 DEF IInv, Coverage
  <2>2. \A a : Local(a)' = Local(a)
    BY <1>2 DEF Local
  <2>3. CASE q = r /\ \E k \in w.clones : k[1] = t
    BY <2>3, <1>2, <1>4, <1>7 DEF Covered
  <2>4. CASE ~(q = r /\ \E k \in w.clones : k[1] = t)
    <3>1. Owned(chain[q], ipc[q], worker[q], t) => Owned(chain[q], ipc[q], worker'[q], t)
      BY <2>4, <1>6, <1>7 DEF Owned
    <3>2. model'[q][t] = model[q][t]
      BY <2>4, <1>4, <1>7
    <3> QED BY <2>1, <2>2, <3>1, <3>2, <1>2 DEF Covered
  <2> QED BY <2>3, <2>4
<1>12. LeaderInv'
  <2>1. \A u \in Ranks : worker[u].pc \in {"idle", "done"} => worker'[u].pc = worker[u].pc
    BY <1>1, <1>7
  <2>2. \A q \in Ranks : \A u \in MembersOf(ReplicaOf[q]) : u \in Ranks
    BY DEF MembersOf
  <2> QED BY <2>1, <2>2, <1>2 DEF IInv, LeaderInv
<1>13. ManagerInv'
  BY <1>1, <1>2 DEF IInv, ManagerInv
<1> QED BY <1>8, <1>9, <1>10, <1>11, <1>12, <1>13 DEF IInv

\* Reporting the version, when all workers of the replica are done.
LEMMA KeepsSetGlobalSteps == ASSUME IInv, NEW r \in Ranks, SetGlobalSteps(r) PROVE IInv'
<1> DEFINE c == chain[r]  x == agent[r]  i == ipc[r]  w == worker[r]  v == manager.round
           c2 == [c EXCEPT !.pc = "done"]
<1>1. /\ c \in ChainStates /\ c.pc = "await" /\ manager.pc = "transfer" /\ v \in Nat
      /\ RankOK(c, x, i, w, v) /\ ReplicaOf[r] \in ReplicaNames
      /\ \A u \in MembersOf(ReplicaOf[r]) : worker[u].pc = "done"
  <2>1. c.pc = "await" /\ \A u \in MembersOf(ReplicaOf[r]) : worker[u].pc = "done"
    BY DEF SetGlobalSteps
  <2>2. manager.pc = "transfer" /\ c \in ChainStates /\ RankOK(c, x, i, w, v)
    BY <2>1, RankFacts
  <2>3. v \in Nat
    BY Constants DEF IInv, TypeInv, ManagerStates
  <2> QED BY <2>1, <2>2, <2>3, Constants
<1>2. /\ chain' = [chain EXCEPT ![r] = c2] /\ label' = [label EXCEPT ![ReplicaOf[r]] = v]
      /\ UNCHANGED <<manager, open, agent, master, ipc, worker, model>>
  BY DEF SetGlobalSteps
<1>3. /\ c2 \in ChainStates /\ c2.pc = "done" /\ c2.cur = c.cur /\ c2.nxt = c.nxt /\ c2.todo = c.todo
      /\ c2.inbox = c.inbox /\ c2.xfer = c.xfer
  BY <1>1 DEF ChainStates, ChainPcs
<1> HIDE DEF c2
<1>4. /\ chain'[r] = c2 /\ \A q \in Ranks : q # r => chain'[q] = chain[q]
      /\ chain' \in [Ranks -> ChainStates]
      /\ \A q \in Ranks : label'[ReplicaOf[q]] = v \/ label'[ReplicaOf[q]] = label[ReplicaOf[q]]
      /\ label'[ReplicaOf[r]] = v /\ label' \in [ReplicaNames -> Nat]
  BY <1>1, <1>2, <1>3, Constants DEF IInv, TypeInv
<1>5. TypeInv'
  BY <1>2, <1>4 DEF IInv, TypeInv
<1>6. RanksOK'
  <2>1. RankOK(c2, x, i, w, v)
    BY <1>1, <1>3 DEF RankOK, XferOK, BucketOK, DeviceOK, SharedOK, HandOK, Opening, Sending
  <2> QED BY <1>2, <1>4, <2>1, OtherRanks DEF IInv
<1>7. \A q \in Ranks : /\ InView(chain'[q]) = InView(chain[q]) /\ Held(chain'[q]) = Held(chain[q])
                       /\ SeesLast(chain'[q]) = SeesLast(chain[q]) /\ HasLast(chain'[q]) = HasLast(chain[q])
                       /\ chain'[q].inbox = chain[q].inbox /\ Posts(chain'[q]) = Posts(chain[q])
                       /\ chain'[q].cur = chain[q].cur
  BY <1>1, <1>3, <1>4 DEF InView, Held, SeesLast, HasLast, Posts
<1>8. LinksOK'
  <2>1. \A q \in Ranks : SendSide(q - 1)' = SendSide(q - 1)
    BY <1>2 DEF SendSide
  <2>2. \A q \in Ranks :
           /\ InView(chain[q])' = InView(chain[q]) /\ SendSide(q - 1)' = SendSide(q - 1)
           /\ LinkView(agent[q - 1], SendSide(q - 1))' = LinkView(agent[q - 1], SendSide(q - 1))
    BY <1>2, <1>7, <2>1
  <2> QED BY <1>2, <2>2, OtherLinks DEF IInv
<1>9. LastAgent' /\ MasterOK'
  BY <1>2 DEF IInv, LastAgent, MasterOK
<1>10. LastInv'
  <2>1. \A a \in Agents : Posted(a) => Posted(a)'
    BY <1>2, <1>7, Constants DEF Posted
  <2> QED BY <1>7, <2>1, LastFrame DEF IInv, LastInv
<1>11. Coverage'
  <2> SUFFICES ASSUME NEW q \in Ranks, NEW t \in Tensors PROVE Covered(q, t)'
    BY DEF Coverage
  <2>1. Covered(q, t)
    BY <1>1 DEF IInv, Coverage
  <2>2. \A a \in 0..q : Local(a)' = Local(a)
    BY <1>2, <1>7, Constants DEF Local
  <2>3. Owned(chain[q], ipc[q], worker[q], t) => Owned(chain'[q], ipc[q], worker[q], t)
    BY <1>1, <1>3, <1>4 DEF Owned
  <2> QED BY <2>1, <2>2, <2>3, <1>2 DEF Covered
<1>12. ClosedLast'
  BY <1>1, <1>2, <1>3, <1>4, RankFacts DEF IInv, ClosedLast, Closed
<1>13. LeaderInv'
  <2> SUFFICES ASSUME NEW q \in Ranks
               PROVE  /\ chain'[q].pc = "call" => Leader(q) /\ \A u \in MembersOf(ReplicaOf[q]) : worker[u].pc = "idle"
                      /\ Leader(q) /\ chain'[q].pc = "done" =>
                           /\ label'[ReplicaOf[q]] = v
                           /\ \A u \in MembersOf(ReplicaOf[q]) : worker[u].pc = "done"
    BY <1>1, <1>2 DEF LeaderInv
  <2>1. CASE q = r
    BY <2>1, <1>1, <1>3, <1>4
  <2>2. CASE q # r
    BY <2>2, <1>1, <1>4 DEF IInv, LeaderInv
  <2> QED BY <2>1, <2>2
<1>14. ManagerInv'
  BY <1>1, <1>2 DEF IInv, ManagerInv
<1> QED BY <1>5, <1>6, <1>8, <1>9, <1>10, <1>11, <1>12, <1>13, <1>14 DEF IInv
-----------------------------------------------------------------------------
(* Steps of two ranks                                                      *)

\* Having all workers of a replica receive.
LEMMA KeepsCallWorkers == ASSUME IInv, NEW r \in Ranks, CallWorkers(r) PROVE IInv'
<1> DEFINE c == chain[r]  v == manager.round
           c2 == [c EXCEPT !.pc = "setup"]
           Mine(q) == ReplicaOf[q] = ReplicaOf[r]
<1>1. /\ c \in ChainStates /\ c.pc = "call" /\ manager.pc = "transfer"
      /\ RankOK(c, agent[r], ipc[r], worker[r], v)
  <2>1. c.pc = "call"
    BY DEF CallWorkers
  <2> QED BY <2>1, RankFacts
<1>2. Leader(r) /\ \A q \in Ranks : Mine(q) => worker[q].pc = "idle"
  BY <1>1 DEF IInv, LeaderInv, MembersOf
<1>3. /\ chain' = [chain EXCEPT ![r] = c2]
      /\ worker' = [q \in Ranks |-> IF Mine(q) THEN [worker[q] EXCEPT !.pc = "attach"] ELSE worker[q]]
      /\ UNCHANGED <<manager, open, agent, master, ipc, model, label>>
  BY DEF CallWorkers
<1>4. /\ c2 \in ChainStates /\ c2.pc = "setup" /\ c2.cur = c.cur /\ c2.nxt = c.nxt /\ c2.todo = c.todo
      /\ c2.inbox = c.inbox /\ c2.xfer = c.xfer
  BY <1>1 DEF ChainStates, ChainPcs
<1> HIDE DEF c2
<1>5. /\ chain'[r] = c2 /\ \A q \in Ranks : q # r => chain'[q] = chain[q]
      /\ chain' \in [Ranks -> ChainStates]
  BY <1>1, <1>3, <1>4 DEF IInv, TypeInv
<1>6. \A q \in Ranks : /\ worker[q] \in WorkerStates /\ worker'[q] \in WorkerStates
                       /\ worker'[q].clones = worker[q].clones /\ worker'[q].last = worker[q].last
                       /\ Mine(q) => worker'[q].pc = "attach"
                       /\ ~Mine(q) => worker'[q] = worker[q]
  BY <1>3 DEF IInv, TypeInv, WorkerStates
<1>7. TypeInv'
  <2>1. worker' \in [Ranks -> WorkerStates]
    BY <1>3, <1>6
  <2> QED BY <1>3, <1>5, <2>1 DEF IInv, TypeInv
<1>8. RanksOK'
  <2> SUFFICES ASSUME NEW q \in Ranks PROVE RankOK(chain'[q], agent[q], ipc[q], worker'[q], v)
    BY <1>3 DEF RanksOK
  <2>1. RankOK(chain[q], agent[q], ipc[q], worker[q], v)
    BY DEF IInv, RanksOK
  <2>2. RankOK(chain[q], agent[q], ipc[q], worker'[q], v)
    <3>1. CASE Mine(q)
      <4>1. HandOK(chain[q], ipc[q], worker'[q], v)
        BY <3>1, <2>1, <1>2, <1>6 DEF RankOK, HandOK
      <4> QED BY <2>1, <4>1 DEF RankOK
    <3>2. CASE ~Mine(q)
      BY <3>2, <2>1, <1>6
    <3> QED BY <3>1, <3>2
  <2>3. CASE q = r
    BY <2>2, <2>3, <1>1, <1>4, <1>5
       DEF RankOK, XferOK, BucketOK, DeviceOK, SharedOK, HandOK, Opening, Sending
  <2> QED BY <2>2, <2>3, <1>5
<1>9. \A q \in Ranks : /\ InView(chain'[q]) = InView(chain[q]) /\ Held(chain'[q]) = Held(chain[q])
                       /\ SeesLast(chain'[q]) = SeesLast(chain[q]) /\ HasLast(chain'[q]) = HasLast(chain[q])
                       /\ chain'[q].inbox = chain[q].inbox /\ Posts(chain'[q]) = Posts(chain[q])
  BY <1>1, <1>4, <1>5 DEF InView, Held, SeesLast, HasLast, Posts
<1>10. LinksOK'
  <2>1. \A q \in Ranks : SendSide(q - 1)' = SendSide(q - 1)
    BY <1>3 DEF SendSide
  <2>2. \A q \in Ranks :
           /\ InView(chain[q])' = InView(chain[q]) /\ SendSide(q - 1)' = SendSide(q - 1)
           /\ LinkView(agent[q - 1], SendSide(q - 1))' = LinkView(agent[q - 1], SendSide(q - 1))
    BY <1>3, <1>9, <2>1
  <2> QED BY <1>3, <2>2, OtherLinks DEF IInv
<1>11. LastAgent' /\ MasterOK'
  BY <1>3 DEF IInv, LastAgent, MasterOK
<1>12. LastInv'
  <2>1. \A a \in Agents : Posted(a) => Posted(a)'
    BY <1>3, <1>9, Constants DEF Posted
  <2> QED BY <1>9, <2>1, LastFrame DEF IInv, LastInv
<1>13. Coverage'
  <2> SUFFICES ASSUME NEW q \in Ranks, NEW t \in Tensors PROVE Covered(q, t)'
    BY DEF Coverage
  <2>1. Covered(q, t)
    BY <1>1 DEF IInv, Coverage
  <2>2. \A a \in 0..q : Local(a)' = Local(a)
    BY <1>3, <1>9, Constants DEF Local
  <2>3. Owned(chain[q], ipc[q], worker[q], t) => Owned(chain'[q], ipc[q], worker'[q], t)
    BY <1>1, <1>4, <1>5, <1>6 DEF Owned
  <2> QED BY <2>1, <2>2, <2>3, <1>3 DEF Covered
<1>14. ClosedLast'
  BY <1>1, <1>3, <1>4, <1>5 DEF IInv, ClosedLast, Closed
<1>15. LeaderInv'
  <2> SUFFICES ASSUME NEW q \in Ranks
               PROVE  /\ chain'[q].pc = "call" => Leader(q) /\ \A u \in MembersOf(ReplicaOf[q]) : worker'[u].pc = "idle"
                      /\ Leader(q) /\ chain'[q].pc = "done" =>
                           /\ label[ReplicaOf[q]] = v
                           /\ \A u \in MembersOf(ReplicaOf[q]) : worker'[u].pc = "done"
    BY <1>1, <1>3 DEF LeaderInv
  <2>1. CASE q = r
    BY <2>1, <1>4, <1>5
  <2>2. CASE q # r
    <3>1. \A u \in MembersOf(ReplicaOf[q]) : u \in Ranks /\ (ReplicaOf[q] # ReplicaOf[r] => ~Mine(u))
      BY DEF MembersOf
    <3>2. ASSUME chain[q].pc = "call" PROVE ReplicaOf[q] # ReplicaOf[r]
      BY <2>2, <3>2, <1>2 DEF IInv, LeaderInv, Leader
    <3>3. ASSUME Leader(q) PROVE ReplicaOf[q] # ReplicaOf[r]
      BY <2>2, <3>3, <1>2 DEF Leader
    <3> QED BY <2>2, <3>1, <3>2, <3>3, <1>1, <1>5, <1>6 DEF IInv, LeaderInv
  <2> QED BY <2>1, <2>2
<1>16. ManagerInv'
  BY <1>1, <1>3 DEF IInv, ManagerInv
<1> QED BY <1>7, <1>8, <1>10, <1>11, <1>12, <1>13, <1>14, <1>15, <1>16 DEF IInv

\* A read takes place: what is read is what was announced, and the agent is notified.
LEMMA KeepsReadBucket == ASSUME IInv, NEW r \in Ranks, ReadBucket(r) PROVE IInv'
<1> DEFINE c == chain[r]  x == agent[r]  z == agent[r - 1]  i == ipc[r]  w == worker[r]  v == manager.round
           side == SendSide(r - 1)
           x2 == [x EXCEPT !.buf = [x.buf EXCEPT ![Other(x.send)] = z.buf[side]]]
           z2 == [z EXCEPT !.notes = Append(@, z.op)]
           c2 == [c EXCEPT !.xfer = [c.xfer EXCEPT !.done = TRUE]]
<1>1. /\ r \in Nat /\ r >= 1 /\ r <= NumRanks /\ r \in Agents /\ r - 1 \in Agents /\ NumRanks \in Nat
      /\ Agents = 0..NumRanks /\ Ranks = 1..NumRanks
      /\ c \in ChainStates /\ x \in AgentStates(Moves)
      /\ c.xfer.on /\ ~c.xfer.done /\ RankOK(c, x, i, w, v)
      /\ LinkOK(z, side, c, v)
  BY RankFacts, Constants DEF ReadBucket
<1>2. /\ z.op # 0 /\ z.notes = << >> /\ c.inbox = << >> /\ c.xfer.key = z.op /\ c.xfer.from = side
      /\ Holds(z.buf[side], c.nxt.meta, v)
  BY <1>1 DEF LinkOK, Reading
<1>3. c.xfer.to = Other(x.send) /\ c.pc \in {"reading", "yield", "handed"} /\ manager.pc = "transfer"
  <2>1. c.xfer.to = Other(x.send) /\ c.pc \in {"reading", "yield", "handed"}
    BY <1>1 DEF RankOK, XferOK
  <2> QED BY <2>1, RankFacts
<1>4. DOMAIN agent = Agents
  BY DEF IInv, TypeInv
<1>5. /\ \E C : z \in AgentStates(C) /\ (r - 1 = 0 => C = Copies) /\ (r - 1 # 0 => C = Moves)
      /\ side \in Sides /\ x.send \in Sides /\ Other(x.send) \in Sides /\ Other(x.send) # x.send
  <2>1. \E C : z \in AgentStates(C) /\ (r - 1 = 0 => C = Copies) /\ (r - 1 # 0 => C = Moves)
    <3>1. CASE r - 1 = 0
      BY <3>1 DEF IInv, TypeInv
    <3>2. CASE r - 1 # 0
      <4>1. r - 1 \in Ranks
        BY <3>2, <1>1
      <4>2. agent[r - 1] \in AgentStates(Moves)
        BY <4>1 DEF IInv, TypeInv
      <4> QED BY <3>2, <4>2
    <3> QED BY <3>1, <3>2
  <2>2. z.send \in Sides /\ x.send \in Sides
    BY <2>1, <1>1 DEF AgentStates
  <2> QED BY <2>1, <2>2 DEF SendSide, Sides, Other
<1>6. PICK C : z \in AgentStates(C) /\ (r - 1 = 0 => C = Copies) /\ (r - 1 # 0 => C = Moves)
  BY <1>5
<1>7. /\ chain' = [chain EXCEPT ![r] = c2]
      /\ agent' = [agent EXCEPT ![r] = x2, ![r - 1] = z2]
      /\ UNCHANGED <<manager, open, master, ipc, worker, model, label>>
  <2>1. agent' = [agent EXCEPT ![r].buf[Other(x.send)] = z.buf[side], ![r - 1].notes = Append(@, z.op)]
    BY <1>2, <1>3 DEF ReadBucket
  <2>2. r # r - 1
    BY <1>1
  <2>3. agent' = [agent EXCEPT ![r] = x2, ![r - 1] = z2]
    BY <2>1, <2>2, <1>1, <1>4, Zenon
  <2> QED BY <2>3 DEF ReadBucket
<1> HIDE DEF c, x, z, i, w, v, side
<1>8. /\ x2 \in AgentStates(Moves) /\ x2.send = x.send /\ x2.op = x.op /\ x2.notes = x.notes /\ x2.pend = x.pend
      /\ x2.buf = [x.buf EXCEPT ![Other(x.send)] = z.buf[side]]
  <2>1. z.buf[side] \in Buckets /\ x.buf \in [Sides -> Buckets]
    BY <1>1, <1>5, <1>6 DEF AgentStates
  <2>2. [x.buf EXCEPT ![Other(x.send)] = z.buf[side]] \in [Sides -> Buckets]
    BY <2>1
  <2> QED BY <1>1, <2>2 DEF AgentStates
<1>9. x2.buf[Other(x.send)] = z.buf[side] /\ x2.buf[x.send] = x.buf[x.send]
  BY <1>1, <1>5, <1>8 DEF AgentStates
<1>10. /\ z2 \in AgentStates(C) /\ z2.send = z.send /\ z2.op = z.op /\ z2.notes = <<z.op>> /\ z2.pend = z.pend
       /\ z2.buf = z.buf
  <2>1. z.op \in Nat /\ z.notes \in Seq(Nat)
    BY <1>6 DEF AgentStates
  <2>2. Append(z.notes, z.op) = <<z.op>> /\ <<z.op>> \in Seq(Nat)
    BY <2>1, <1>2
  <2> QED BY <1>6, <2>2 DEF AgentStates
<1>11. /\ c2 \in ChainStates /\ c2.pc = c.pc /\ c2.cur = c.cur /\ c2.nxt = c.nxt /\ c2.todo = c.todo
       /\ c2.inbox = c.inbox /\ c2.xfer.on /\ c2.xfer.done /\ c2.xfer.to = c.xfer.to
  <2>1. c.xfer \in Xfers
    BY <1>1 DEF ChainStates, NoXfer
  <2>2. [c.xfer EXCEPT !.done = TRUE] \in Xfers
    BY <2>1 DEF Xfers
  <2> QED BY <1>1, <2>1, <2>2 DEF ChainStates, Xfers
<1> HIDE DEF x2, z2, c2
<1>12. /\ chain'[r] = c2 /\ \A q \in Ranks : q # r => chain'[q] = chain[q]
       /\ agent'[r] = x2 /\ agent'[r - 1] = z2 /\ \A a \in Agents : a # r /\ a # r - 1 => agent'[a] = agent[a]
       /\ chain' \in [Ranks -> ChainStates] /\ agent' = [a \in Agents |-> agent'[a]]
  <2>1. r # r - 1
    BY <1>1
  <2> QED BY <1>1, <1>4, <1>7, <1>11, <2>1 DEF IInv, TypeInv
<1>13. TypeInv'
  <2>1. agent'[0] \in AgentStates(Copies)
    BY <1>1, <1>6, <1>10, <1>12 DEF IInv, TypeInv
  <2>2. ASSUME NEW q \in Ranks PROVE agent'[q] \in AgentStates(Moves)
    <3>1. CASE q = r - 1
      BY <3>1, <1>1, <1>6, <1>10, <1>12
    <3>2. CASE q = r
      BY <3>2, <1>8, <1>12
    <3>3. CASE q # r - 1 /\ q # r
      <4>1. agent'[q] = agent[q]
        BY <3>3, <1>1, <1>12
      <4> QED BY <4>1 DEF IInv, TypeInv
    <3> QED BY <3>1, <3>2, <3>3
  <2> QED BY <2>1, <2>2, <1>7, <1>12 DEF IInv, TypeInv
<1>14. RanksOK'
  <2>1. RankOK(c2, x2, i, w, v)
    <3>1. XferOK(c2, x2, v)
      BY <1>1, <1>2, <1>3, <1>8, <1>9, <1>11 DEF RankOK, XferOK
    <3>2. BucketOK(c2, x2, v)
      BY <1>1, <1>8, <1>9, <1>11 DEF RankOK, BucketOK
    <3>3. DeviceOK(c2, x2, i) /\ SharedOK(c2, x2, i, v)
      BY <1>1, <1>8, <1>11 DEF RankOK, DeviceOK, SharedOK
    <3>4. HandOK(c2, i, w, v)
      BY <1>1, <1>11 DEF RankOK, HandOK
    <3> QED BY <3>1, <3>2, <3>3, <3>4 DEF RankOK
  <2>2. \A q \in Ranks : q # r => HostView(chain'[q]) = HostView(chain[q])
    BY <1>12
  <2>3. \A q \in Ranks : q # r => AgentView(agent'[q]) = AgentView(agent[q])
    <3> SUFFICES ASSUME NEW q \in Ranks, q # r PROVE AgentView(agent'[q]) = AgentView(agent[q])
      OBVIOUS
    <3>1. CASE q = r - 1
      BY <3>1, <1>10, <1>12 DEF AgentView, z
    <3>2. CASE q # r - 1
      BY <3>2, <1>1, <1>12
    <3> QED BY <3>1, <3>2
  <2> QED BY <1>7, <1>12, <2>1, <2>2, <2>3, OtherRanks DEF IInv, i, w, v
<1>15. \A a \in Agents : agent'[a].send = agent[a].send /\ agent'[a].op = agent[a].op /\ agent'[a].pend = agent[a].pend
  BY <1>8, <1>10, <1>12 DEF x, z
<1>16. LinksOK'
  <2>1. \A a \in Agents : SendSide(a)' = SendSide(a)
    <3>1. master' = master
      BY <1>7
    <3> QED BY <3>1, <1>15 DEF SendSide
  <2>2. LinkOK(z2, side, c2, v)
    BY <1>2, <1>10, <1>11 DEF LinkOK, Reading
  <2>3. ASSUME NEW q \in Ranks, q # r
        PROVE  /\ InView(chain'[q]) = InView(chain[q]) /\ SendSide(q - 1)' = SendSide(q - 1)
               /\ LinkView(agent'[q - 1], SendSide(q - 1)') = LinkView(agent[q - 1], SendSide(q - 1))
    <3>1. q - 1 \in Agents /\ q - 1 # r - 1
      BY <2>3, <1>1
    <3>2. CASE q - 1 = r
      <4>1. SendSide(r) = x.send
        BY <1>1 DEF SendSide, x
      <4>2. LinkView(x2, x.send) = LinkView(x, x.send)
        BY <1>8, <1>9 DEF LinkView
      <4> QED BY <2>1, <2>3, <3>1, <3>2, <4>1, <4>2, <1>12 DEF x
    <3>3. CASE q - 1 # r
      BY <2>1, <2>3, <3>1, <3>3, <1>12
    <3> QED BY <3>2, <3>3
  <2>4. LinkOK(agent[r - 1], SendSide(r - 1), chain[r], manager.round)'
    BY <1>1, <1>7, <1>12, <2>1, <2>2 DEF side, v
  <2> QED BY <1>7, <2>3, <2>4, OtherLinks DEF IInv
<1>17. LastAgent'
  <2>1. agent'[NumRanks].notes = agent[NumRanks].notes
    BY <1>1, <1>8, <1>12 DEF x
  <2> QED BY <2>1, <1>1, <1>15 DEF IInv, LastAgent
<1>18. MasterOK'
  <2>1. agent'[0].buf = agent[0].buf
    BY <1>1, <1>10, <1>12 DEF z
  <2>2. 0 \in Agents
    BY <1>1
  <2> QED BY <2>1, <2>2, <1>7, <1>15 DEF IInv, MasterOK, MasterGood
<1>19. \A q \in Ranks : /\ Held(chain'[q]) = Held(chain[q])
                        /\ SeesLast(chain'[q]) = SeesLast(chain[q]) /\ HasLast(chain'[q]) = HasLast(chain[q])
                        /\ chain'[q].inbox = chain[q].inbox /\ Posts(chain'[q]) = Posts(chain[q])
                        /\ chain'[q].pc = chain[q].pc /\ chain'[q].cur = chain[q].cur /\ chain'[q].todo = chain[q].todo
  BY <1>1, <1>11, <1>12 DEF Held, SeesLast, HasLast, Posts, c
<1>20. LastInv'
  <2>1. \A a \in Agents : Posted(a) => Posted(a)'
    BY <1>7, <1>19, Constants DEF Posted
  <2> QED BY <1>19, <2>1, LastFrame DEF IInv, LastInv
<1>21. Coverage'
  <2> SUFFICES ASSUME NEW q \in Ranks, NEW t \in Tensors PROVE Covered(q, t)'
    BY DEF Coverage
  <2>1. Covered(q, t)
    BY <1>3 DEF IInv, Coverage
  <2>2. \A a \in 0..q : Local(a)' = Local(a)
    BY <1>7, <1>19, Constants DEF Local
  <2>3. Owned(chain[q], ipc[q], worker[q], t) => Owned(chain'[q], ipc[q], worker[q], t)
    BY <1>19 DEF Owned
  <2> QED BY <2>1, <2>2, <2>3, <1>7 DEF Covered
<1>22. ClosedLast' /\ LeaderInv'
  BY <1>7, <1>19 DEF IInv, ClosedLast, LeaderInv
<1>23. ManagerInv'
  BY <1>3, <1>7 DEF IInv, ManagerInv
<1> QED BY <1>13, <1>14, <1>16, <1>17, <1>18, <1>20, <1>21, <1>22, <1>23 DEF IInv

\* What an announcement changes.
LEMMA AnnouncedFacts ==
  ASSUME NEW S, NEW x \in AgentStates(S)
  PROVE  /\ Announced(x) \in AgentStates(S) /\ Announced(x).op = x.sent + 1 /\ Announced(x).op # 0
         /\ Announced(x).notes = x.notes /\ Announced(x).send = x.send
         /\ Announced(x).buf = x.buf /\ Announced(x).pend = x.pend
<1>1. x.sent \in Nat /\ x.sent + 1 \in Nat /\ x.sent + 1 # 0
  BY DEF AgentStates
<1> DEFINE y == [x EXCEPT !.op = x.sent + 1, !.sent = x.sent + 1]
<1>2. /\ y \in AgentStates(S) /\ y.op = x.sent + 1 /\ y.notes = x.notes /\ y.send = x.send
      /\ y.buf = x.buf /\ y.pend = x.pend
  BY <1>1 DEF AgentStates
<1>3. Announced(x) = y
  BY DEF Announced
<1> HIDE DEF y
<1> QED BY <1>1, <1>2, <1>3

\* The messages a rank has are lists of places.
LEMMA MetaTypes ==
  ASSUME NEW c \in ChainStates
  PROVE  c.cur.meta \in Metas /\ c.nxt.meta \in Metas /\ c.cur.last \in BOOLEAN /\ c.nxt.last \in BOOLEAN
<1>1. << >> \in Metas
  <2>1. << >> \in Seq(Spots)
    OBVIOUS
  <2> QED BY <2>1 DEF Metas
<1>2. ASSUME NEW m \in {NoMessage} \cup Messages PROVE m.meta \in Metas /\ m.last \in BOOLEAN
  <2>1. CASE m = NoMessage
    BY <2>1, <1>1 DEF NoMessage
  <2>2. CASE m \in Messages
    BY <2>2 DEF Messages
  <2> QED BY <2>1, <2>2
<1> QED BY <1>2 DEF ChainStates

\* A bucket announced to the rank behind: nothing was under way, now its message is.
LEMMA PostedLink ==
  ASSUME NEW x, NEW c, NEW c2, NEW v, NEW m, x.op # 0, x.notes = << >>, c.inbox = << >>, ~Reading(c),
         c2.inbox = Append(c.inbox, m), c2.xfer = c.xfer, m.key = x.op, Holds(x.buf[m.side], m.meta, v)
  PROVE  LinkOK(x, m.side, c2, v)
<1>1. c2.inbox = <<m>>
  OBVIOUS
<1>2. c2.inbox # << >> /\ Head(c2.inbox) = m /\ Tail(c2.inbox) = << >>
  BY <1>1, OneFacts
<1> QED BY <1>2 DEF LinkOK, Reading

\* Announcing a bucket to the next rank, and passing the tensors on with it.
LEMMA KeepsAnnounceBucket == ASSUME IInv, NEW r \in Ranks, AnnounceBucket(r) PROVE IInv'
<1> DEFINE c == chain[r]  x == agent[r]  i == ipc[r]  w == worker[r]  v == manager.round
           m == MessageOf(r, c.cur.meta, c.cur.last)
           x2 == IF HasNext(r) THEN Announced(x) ELSE x
           c2 == [c EXCEPT !.pc = IF c.cur.last THEN "yield" ELSE "read", !.todo = c.cur.meta]
           d2 == [chain[r + 1] EXCEPT !.inbox = Append(@, m)]
<1>1. /\ r \in Nat /\ r >= 1 /\ r <= NumRanks /\ r \in Agents /\ NumRanks \in Nat
      /\ Agents = 0..NumRanks /\ Ranks = 1..NumRanks
      /\ c \in ChainStates /\ x \in AgentStates(Moves)
      /\ c.pc = "announce" /\ manager.pc = "transfer" /\ RankOK(c, x, i, w, v)
      /\ LinkOK(agent[r - 1], SendSide(r - 1), c, v)
      /\ r < NumRanks => LinkOK(x, x.send, chain[r + 1], v)
      /\ HasLast(c) => c.inbox = << >>
  BY RankFacts, Constants DEF AnnounceBucket
<1>2. x.op = 0 /\ c.todo = << >> /\ ~c.xfer.on /\ Holds(x.buf[x.send], c.cur.meta, v) /\ x.pend = << >>
  BY <1>1 DEF RankOK, XferOK, BucketOK, DeviceOK, Sending
<1>3. r < NumRanks => /\ x.notes = << >> /\ chain[r + 1].inbox = << >> /\ ~Reading(chain[r + 1])
                      /\ r + 1 \in Ranks /\ chain[r + 1] \in ChainStates
  <2>1. r < NumRanks => r + 1 \in Ranks
    BY <1>1
  <2> QED BY <2>1, <1>1, <1>2 DEF LinkOK, IInv, TypeInv
<1>4. c.cur.meta \in Metas /\ c.cur.last \in BOOLEAN
  BY <1>1, MetaTypes
<1>5. /\ m \in Messages /\ m.key = x.sent + 1 /\ m.side = x.send /\ m.meta = c.cur.meta /\ m.last = c.cur.last
  BY <1>1, <1>4 DEF MessageOf, Messages, AgentStates
<1>6. /\ agent' = [agent EXCEPT ![r] = x2]
      /\ chain' = IF r < NumRanks THEN [chain EXCEPT ![r] = c2, ![r + 1] = d2] ELSE [chain EXCEPT ![r] = c2]
      /\ UNCHANGED <<manager, open, master, ipc, worker, model, label>>
  <2>1. CASE HasNext(r)
    <3>1. r < NumRanks /\ r # r + 1
      BY <2>1, <1>1 DEF HasNext
    <3>2. DOMAIN chain = Ranks /\ r \in Ranks /\ r + 1 \in Ranks
      BY <3>1, <1>3 DEF IInv, TypeInv
    <3>3. chain' = [chain EXCEPT ![r] = c2, ![r + 1].inbox = Append(@, m)]
      BY <2>1 DEF AnnounceBucket
    <3>4. chain' = [chain EXCEPT ![r] = c2, ![r + 1] = d2]
      BY <3>1, <3>2, <3>3, Zenon
    <3> QED BY <2>1, <3>1, <3>4 DEF AnnounceBucket
  <2>2. CASE ~HasNext(r)
    BY <2>2, <1>1, RankFacts DEF AnnounceBucket, HasNext
  <2> QED BY <2>1, <2>2
<1> HIDE DEF c, x, i, w, v, m
<1>7. /\ x2 \in AgentStates(Moves) /\ x2.notes = x.notes /\ x2.send = x.send /\ x2.buf = x.buf
      /\ x2.pend = << >> /\ (r < NumRanks => x2.op = x.sent + 1 /\ x2.op # 0) /\ (r = NumRanks => x2.op = 0)
  BY <1>1, <1>2, AnnouncedFacts DEF HasNext
<1>8. /\ c2 \in ChainStates /\ c2.pc = (IF c.cur.last THEN "yield" ELSE "read") /\ c2.cur = c.cur /\ c2.nxt = c.nxt
      /\ c2.todo = c.cur.meta /\ c2.inbox = c.inbox /\ c2.xfer = c.xfer
  BY <1>1, <1>4 DEF ChainStates, ChainPcs
<1>9. r < NumRanks =>
      /\ d2 \in ChainStates /\ HostView(d2) = HostView(chain[r + 1]) /\ d2.inbox = Append(chain[r + 1].inbox, m)
      /\ d2.pc = chain[r + 1].pc /\ d2.cur = chain[r + 1].cur /\ d2.nxt = chain[r + 1].nxt
      /\ d2.xfer = chain[r + 1].xfer /\ d2.todo = chain[r + 1].todo /\ d2.inbox = <<m>>
  <2>1. ASSUME r < NumRanks PROVE Append(chain[r + 1].inbox, m) = <<m>> /\ <<m>> \in Seq(Messages)
    <3>1. Append(chain[r + 1].inbox, m) = <<m>>
      <4>1. chain[r + 1].inbox = << >>
        BY <2>1, <1>3
      <4>2. \A e : Append(<< >>, e) = <<e>>
        OBVIOUS
      <4> QED BY <4>1, <4>2
    <3> QED BY <3>1, <1>5, OneFacts
  <2> QED BY <2>1, <1>3 DEF ChainStates, HostView
<1> HIDE DEF x2, c2, d2
<1>10. /\ chain'[r] = c2 /\ (r < NumRanks => chain'[r + 1] = d2)
       /\ \A q \in Ranks : q # r /\ q # r + 1 => chain'[q] = chain[q]
       /\ agent'[r] = x2 /\ \A a \in Agents : a # r => agent'[a] = agent[a]
       /\ chain' \in [Ranks -> ChainStates] /\ agent' = [a \in Agents |-> agent'[a]]
  <2>1. DOMAIN chain = Ranks /\ DOMAIN agent = Agents /\ chain \in [Ranks -> ChainStates]
    BY DEF IInv, TypeInv
  <2>2. CASE r < NumRanks
    <3>1. r # r + 1 /\ r + 1 \in Ranks
      BY <1>1, <1>3, <2>2
    <3> QED BY <1>1, <1>6, <1>8, <1>9, <2>1, <2>2, <3>1
  <2>3. CASE r = NumRanks
    <3>1. chain' = [chain EXCEPT ![r] = c2]
      BY <2>3, <1>1, <1>6
    <3>2. chain'[r] = c2 /\ (\A q \in Ranks : q # r => chain'[q] = chain[q]) /\ chain' \in [Ranks -> ChainStates]
      BY <1>8, <2>1, <3>1
    <3>3. agent'[r] = x2 /\ (\A a \in Agents : a # r => agent'[a] = agent[a]) /\ agent' = [a \in Agents |-> agent'[a]]
      BY <1>1, <1>6, <2>1
    <3> QED BY <1>1, <2>3, <3>2, <3>3
  <2> QED BY <1>1, <2>2, <2>3
<1>11. TypeInv'
  <2>1. 0 \in Agents /\ 0 # r /\ Ranks \subseteq Agents
    BY <1>1
  <2>2. agent'[0] \in AgentStates(Copies) /\ \A q \in Ranks : agent'[q] \in AgentStates(Moves)
    BY <2>1, <1>7, <1>10 DEF IInv, TypeInv
  <2> QED BY <2>2, <1>6, <1>10 DEF IInv, TypeInv
<1>12. \A q \in Ranks : q # r /\ q = r + 1 => r < NumRanks
  BY <1>1
<1>13. RanksOK'
  <2>1. RankOK(c2, x2, i, w, v)
    <3>1. XferOK(c2, x2, v)
      BY <1>2, <1>8 DEF XferOK
    <3>2. BucketOK(c2, x2, v)
      BY <1>2, <1>7, <1>8 DEF BucketOK, Opening, Sending
    <3>3. DeviceOK(c2, x2, i) /\ SharedOK(c2, x2, i, v)
      BY <1>1, <1>2, <1>7, <1>8 DEF RankOK, DeviceOK, SharedOK, Opening
    <3>4. HandOK(c2, i, w, v)
      BY <1>1, <1>8 DEF RankOK, HandOK
    <3> QED BY <3>1, <3>2, <3>3, <3>4 DEF RankOK
  <2>2. \A q \in Ranks : q # r => HostView(chain'[q]) = HostView(chain[q])
    BY <1>9, <1>10, <1>12
  <2>3. \A q \in Ranks : q # r => AgentView(agent'[q]) = AgentView(agent[q])
    BY <1>1, <1>10
  <2> QED BY <1>6, <1>10, <2>1, <2>2, <2>3, OtherRanks DEF IInv, i, w, v
<1>14. LinksOK'
  <2>0. master' = master /\ manager' = manager
    BY <1>6
  <2>1. ASSUME NEW q \in Ranks PROVE SendSide(q - 1)' = SendSide(q - 1)
    <3>1. q - 1 \in Agents
      BY <1>1
    <3>2. agent'[q - 1].send = agent[q - 1].send
      BY <3>1, <1>7, <1>10 DEF x
    <3> QED BY <2>0, <3>2 DEF SendSide
  <2>2. ASSUME r < NumRanks PROVE LinkOK(agent[r], SendSide(r), chain[r + 1], manager.round)'
    <3>1. LinkOK(x2, m.side, d2, v)
      BY <2>2, <1>2, <1>3, <1>5, <1>7, <1>9, PostedLink
    <3>2. SendSide(r)' = x2.send
      BY <1>1, <1>10 DEF SendSide
    <3> QED BY <2>0, <2>2, <3>1, <3>2, <1>5, <1>7, <1>10 DEF v
  <2>3. ASSUME NEW q \in Ranks, q # r + 1
        PROVE  /\ InView(chain'[q]) = InView(chain[q]) /\ SendSide(q - 1)' = SendSide(q - 1)
               /\ LinkView(agent'[q - 1], SendSide(q - 1)') = LinkView(agent[q - 1], SendSide(q - 1))
    <3>1. q - 1 \in Agents /\ q - 1 # r
      BY <2>3, <1>1
    <3>2. InView(chain'[q]) = InView(chain[q])
      BY <2>3, <1>8, <1>10 DEF InView, c
    <3> QED BY <2>1, <3>1, <3>2, <1>10
  <2>4. ASSUME NEW q \in Ranks, q = r + 1
        PROVE  LinkOK(agent[q - 1], SendSide(q - 1), chain[q], manager.round)'
    <3>1. q - 1 = r /\ r < NumRanks
      BY <2>4, <1>1
    <3> QED BY <3>1, <2>2, <2>4
  <2> QED BY <2>0, <2>3, <2>4, OtherLinks DEF IInv
<1>15. LastAgent'
  BY <1>1, <1>7, <1>10 DEF IInv, LastAgent, x
<1>16. MasterOK'
  <2>1. 0 \in Agents /\ 0 # r
    BY <1>1
  <2>2. agent'[0] = agent[0] /\ master' = master /\ manager' = manager
    BY <2>1, <1>6, <1>10
  <2> QED BY <2>2 DEF IInv, MasterOK
<1>17. LastInv'
  <2>1. /\ HasLast(c2) = HasLast(c) /\ SeesLast(c2) = SeesLast(c) /\ ~Posts(c)
        /\ HasLast(c) => Posts(c2)
    BY <1>1, <1>2, <1>8 DEF HasLast, SeesLast, Posts
  <2>2. ASSUME r < NumRanks
        PROVE  /\ Posts(d2) = Posts(chain[r + 1]) /\ HasLast(d2) = HasLast(chain[r + 1])
               /\ SeesLast(d2) <=> SeesLast(chain[r + 1]) \/ m.last
    <3>1. ToSet(d2.inbox) = {m} /\ ToSet(chain[r + 1].inbox) = {}
      BY <2>2, <1>3, <1>9, OneFacts
    <3> QED BY <2>2, <3>1, <1>9 DEF Posts, HasLast, SeesLast
  <2>3. ~Posted(r)
    BY <2>1, <1>1 DEF Posted, c
  <2>4. \A a \in Agents : Posted(a) => Posted(a)'
    <3> SUFFICES ASSUME NEW a \in Agents, Posted(a) PROVE Posted(a)'
      OBVIOUS
    <3>1. master' = master /\ a # r
      BY <1>6, <2>3
    <3>2. CASE a = 0
      BY <3>1, <3>2 DEF Posted
    <3>3. CASE a = r + 1
      <4>1. r < NumRanks /\ a # 0
        BY <3>3, <1>1
      <4> QED BY <3>3, <4>1, <2>2, <1>10 DEF Posted
    <3>4. CASE a # 0 /\ a # r + 1
      <4>1. a \in Ranks
        BY <3>4, <1>1
      <4> QED BY <3>1, <3>4, <4>1, <1>10 DEF Posted
    <3> QED BY <3>2, <3>3, <3>4
  <2>5. ASSUME NEW q \in Ranks
        PROVE  /\ SeesLast(chain'[q]) => SeesLast(chain[q]) \/ \A a \in 0..(q - 1) : Posted(a)'
               /\ HasLast(chain'[q]) => chain'[q].inbox = << >>
    <3>1. CASE q = r
      BY <3>1, <2>1, <1>1, <1>8, <1>10 DEF c
    <3>2. CASE q = r + 1
      <4>1. r < NumRanks
        BY <3>2, <1>1
      <4>2. ASSUME m.last PROVE \A a \in 0..(q - 1) : Posted(a)'
        <5>1. HasLast(c)
          BY <4>2, <1>5 DEF HasLast
        <5>2. \A a \in 0..(r - 1) : Posted(a) /\ a \in Agents
          BY <5>1, <1>1 DEF IInv, LastInv, SeesLast, c
        <5>3. Posted(r)'
          BY <5>1, <2>1, <1>1, <1>10 DEF Posted
        <5>4. \A a \in 0..(q - 1) : a = r \/ a \in 0..(r - 1)
          BY <3>2, <1>1
        <5> QED BY <2>4, <5>2, <5>3, <5>4
      <4>3. ~HasLast(chain[r + 1])
        <5>1. SeesLast(chain[r + 1]) => Posted(r)
          <6>1. r \in 0..((r + 1) - 1) /\ r + 1 \in Ranks
            BY <4>1, <1>1, <1>3
          <6> QED BY <6>1 DEF IInv, LastInv
        <5> QED BY <5>1, <2>3 DEF SeesLast
      <4> QED BY <3>2, <4>1, <4>2, <4>3, <2>2, <1>10
    <3>3. CASE q # r /\ q # r + 1
      BY <3>3, <1>10 DEF IInv, LastInv
    <3> QED BY <3>1, <3>2, <3>3
  <2> QED BY <2>4, <2>5, LastFrame DEF IInv
<1>18. Coverage'
  <2> SUFFICES ASSUME NEW q \in Ranks, NEW t \in Tensors PROVE Covered(q, t)'
    BY DEF Coverage
  <2>0. master' = master /\ manager' = manager /\ ipc' = ipc /\ worker' = worker /\ model' = model
    BY <1>6
  <2>1. Covered(q, t)
    BY <1>1 DEF IInv, Coverage
  <2>2. ASSUME NEW a \in 0..q, t \in Local(a), a # r PROVE t \in Local(a)'
    <3>1. CASE a = 0
      BY <2>0, <2>2, <3>1 DEF Local
    <3>2. CASE a = r + 1
      <4>1. r < NumRanks /\ a # 0
        BY <3>2, <1>1
      <4>2. Held(chain[a]) \subseteq Held(d2)
        <5>1. ToSet(chain[r + 1].inbox) = {}
          BY <4>1, <1>3, OneFacts
        <5> QED BY <3>2, <4>1, <5>1, <1>9 DEF Held
      <4> QED BY <2>2, <3>2, <4>1, <4>2, <1>10 DEF Local
    <3>3. CASE a # 0 /\ a # r + 1
      <4>1. a \in Ranks
        BY <3>3, <1>1
      <4> QED BY <2>2, <3>3, <4>1, <1>10 DEF Local
    <3> QED BY <3>1, <3>2, <3>3
  <2>3. ASSUME r \in 0..q, t \in Local(r) PROVE Covered(q, t)'
    <3>1. t \in Held(c)
      BY <2>3, <1>1 DEF Local, c
    <3>2. t \in Names(c.cur.meta) \/ t \in Held(c2)
      BY <3>1, <1>1, <1>8 DEF Held
    <3>3. CASE t \in Held(c2)
      <4>1. t \in Local(r)'
        BY <3>3, <1>1, <1>10 DEF Local
      <4> QED BY <4>1, <2>3 DEF Covered
    <3>4. CASE t \in Names(c.cur.meta) /\ q = r
      <4>1. t \in Names(chain'[r].todo)
        BY <3>4, <1>8, <1>10
      <4> QED BY <3>4, <4>1 DEF Covered, Owned
    <3>5. CASE t \in Names(c.cur.meta) /\ q # r
      <4>1. r < NumRanks /\ r + 1 \in 0..q /\ r + 1 # 0
        BY <3>5, <2>3, <1>1
      <4>2. m \in ToSet(d2.inbox)
        BY <4>1, <1>9, OneFacts
      <4>3. t \in Held(d2)
        BY <3>5, <4>2, <1>5 DEF Held
      <4>4. t \in Local(r + 1)'
        BY <4>1, <4>3, <1>10 DEF Local
      <4> QED BY <4>1, <4>4 DEF Covered
    <3> QED BY <3>2, <3>3, <3>4, <3>5
  <2>4. Owned(chain[q], ipc[q], worker[q], t) => Owned(chain'[q], ipc[q], worker[q], t)
    <3>1. CASE q = r
      <4>1. Names(c.todo) = {}
        BY <1>2, OneFacts DEF Names
      <4> QED BY <3>1, <4>1, <1>1, <1>8, <1>10 DEF Owned, c
    <3>2. CASE q = r + 1
      <4>1. r < NumRanks
        BY <3>2, <1>1
      <4> QED BY <3>2, <4>1, <1>9, <1>10 DEF Owned
    <3>3. CASE q # r /\ q # r + 1
      BY <3>3, <1>10
    <3> QED BY <3>1, <3>2, <3>3
  <2> QED BY <2>0, <2>1, <2>2, <2>3, <2>4 DEF Covered
<1>19. \A q \in Ranks : /\ chain'[q].cur = chain[q].cur /\ (q # r => chain'[q].pc = chain[q].pc)
  BY <1>8, <1>9, <1>10, <1>12 DEF c
<1>20. ClosedLast' /\ LeaderInv'
  <2>1. c2.pc \in {"yield", "read"}
    BY <1>8
  <2>2. \A q \in Ranks : chain'[q].pc \in Closed \cup {"call"} => chain'[q].pc = chain[q].pc
    BY <2>1, <1>10, <1>19 DEF Closed
  <2>3. "done" \in Closed \cup {"call"}
    BY DEF Closed
  <2>4. ClosedLast'
    BY <2>2, <1>6, <1>19 DEF IInv, ClosedLast
  <2>5. \A q \in Ranks : chain'[q].pc \in {"call", "done"} => chain'[q].pc = chain[q].pc
    BY <2>2, <2>3
  <2>6. LeaderInv'
    BY <2>5, <1>6 DEF IInv, LeaderInv
  <2> QED BY <2>4, <2>6
<1>21. ManagerInv'
  BY <1>1, <1>6 DEF IInv, ManagerInv
<1> QED BY <1>11, <1>13, <1>14, <1>15, <1>16, <1>17, <1>18, <1>20, <1>21 DEF IInv
-----------------------------------------------------------------------------
(* Steps of the trainer                                                    *)

\* SendSide of the trainer.
SideOf(x, m) == IF m.pc = "fill" THEN Other(x.send) ELSE x.send

\* What a step of the trainer keeps of what is tracked about all ranks.
LEMMA MasterStep ==
  ASSUME IInv, manager.pc = "transfer",
         NEW x2 \in AgentStates(Copies), NEW m2 \in MasterStates, NEW d2 \in ChainStates,
         agent' = [agent EXCEPT ![0] = x2], master' = m2, chain' = [chain EXCEPT ![1] = d2],
         UNCHANGED <<manager, open, ipc, worker, model, label>>,
         HostView(d2) = HostView(chain[1]),
         LinkOK(x2, SideOf(x2, m2), d2, manager.round),
         MasterGood(x2, m2, manager.round),
         m2.pc = "fill" => master.pc = "fill",
         SeesLast(d2) => SeesLast(chain[1]) \/ m2.pc # "fill",
         HasLast(d2) => d2.inbox = << >>,
         \A t \in Unsent(master) : t \in Unsent(m2) \/ t \in Held(d2),
         Held(chain[1]) \subseteq Held(d2)
  PROVE  IInv'
<1>1. /\ 1 \in Ranks /\ 0 \in Agents /\ 1 \in Agents /\ NumRanks \in Nat /\ NumRanks >= 2
      /\ Ranks = 1..NumRanks /\ Agents = 0..NumRanks
  BY Constants
<1>2. /\ chain'[1] = d2 /\ \A q \in Ranks : q # 1 => chain'[q] = chain[q]
      /\ agent'[0] = x2 /\ \A a \in Agents : a # 0 => agent'[a] = agent[a]
      /\ chain' \in [Ranks -> ChainStates] /\ agent' = [a \in Agents |-> agent'[a]]
  <2>1. DOMAIN chain = Ranks /\ DOMAIN agent = Agents /\ chain \in [Ranks -> ChainStates]
    BY DEF IInv, TypeInv
  <2> QED BY <1>1, <2>1
<1>3. /\ d2.pc = chain[1].pc /\ d2.cur = chain[1].cur /\ d2.nxt = chain[1].nxt /\ d2.todo = chain[1].todo
      /\ d2.xfer = chain[1].xfer
  BY DEF HostView
<1>4. manager' = manager /\ open' = open /\ ipc' = ipc /\ worker' = worker /\ model' = model /\ label' = label
  OBVIOUS
<1>5. TypeInv'
  <2>0. \A q \in Ranks : q \in Agents /\ q # 0
    BY <1>1
  <2>1. \A q \in Ranks : agent'[q] \in AgentStates(Moves)
    BY <2>0, <1>2 DEF IInv, TypeInv
  <2> QED BY <1>2, <1>4, <2>1 DEF IInv, TypeInv
<1>6. RanksOK'
  <2>1. \A q \in Ranks : HostView(chain'[q]) = HostView(chain[q]) /\ AgentView(agent'[q]) = AgentView(agent[q])
    BY <1>1, <1>2
  <2>2. 0 \notin Ranks
    BY <1>1
  <2> QED BY <1>4, <2>1, <2>2, OtherRanks DEF IInv
<1>7. LinksOK'
  <2>1. SendSide(0)' = SideOf(x2, m2)
    BY <1>2 DEF SendSide, SideOf
  <2>2. LinkOK(agent[0], SendSide(0), chain[1], manager.round)'
    BY <1>2, <1>4, <2>1
  <2>3. ASSUME NEW q \in Ranks, q # 1
        PROVE  /\ InView(chain'[q]) = InView(chain[q]) /\ SendSide(q - 1)' = SendSide(q - 1)
               /\ LinkView(agent'[q - 1], SendSide(q - 1)') = LinkView(agent[q - 1], SendSide(q - 1))
    <3>1. q - 1 \in Agents /\ q - 1 # 0
      BY <2>3, <1>1
    <3> QED BY <2>3, <3>1, <1>2 DEF SendSide
  <2>4. ASSUME NEW q \in Ranks, q = 1
        PROVE  LinkOK(agent[q - 1], SendSide(q - 1), chain[q], manager.round)'
    <3>1. q - 1 = 0
      BY <2>4
    <3> QED BY <3>1, <2>2, <2>4
  <2> QED BY <1>4, <2>3, <2>4, OtherLinks DEF IInv
<1>8. LastAgent'
  BY <1>1, <1>2 DEF IInv, LastAgent
<1>9. MasterOK'
  BY <1>2, <1>4 DEF MasterOK
<1>10. \A q \in Ranks : /\ HasLast(chain'[q]) = HasLast(chain[q]) /\ Posts(chain'[q]) = Posts(chain[q])
                        /\ chain'[q].pc = chain[q].pc /\ chain'[q].cur = chain[q].cur
                        /\ chain'[q].todo = chain[q].todo
  BY <1>2, <1>3 DEF HasLast, Posts
<1>11. LastInv'
  <2>1. \A a \in Agents : Posted(a) => Posted(a)'
    BY <1>1, <1>10 DEF Posted
  <2>2. ASSUME NEW q \in Ranks
        PROVE  /\ SeesLast(chain'[q]) => SeesLast(chain[q]) \/ \A a \in 0..(q - 1) : Posted(a)'
               /\ HasLast(chain'[q]) => chain'[q].inbox = << >>
    <3>1. CASE q = 1
      <4>1. \A a \in 0..(q - 1) : a = 0
        BY <3>1
      <4>2. m2.pc # "fill" => Posted(0)'
        BY DEF Posted
      <4> QED BY <3>1, <4>1, <4>2, <1>2
    <3>2. CASE q # 1
      BY <3>2, <1>2 DEF IInv, LastInv
    <3> QED BY <3>1, <3>2
  <2> QED BY <2>1, <2>2, LastFrame DEF IInv
<1>12. Coverage'
  <2> SUFFICES ASSUME NEW q \in Ranks, NEW t \in Tensors PROVE Covered(q, t)'
    BY DEF Coverage
  <2>1. Covered(q, t)
    BY DEF IInv, Coverage
  <2>2. Owned(chain[q], ipc[q], worker[q], t) => Owned(chain'[q], ipc[q], worker[q], t)
    BY <1>10 DEF Owned
  <2>3. ASSUME NEW a \in 0..q, t \in Local(a) PROVE \E b \in 0..q : t \in Local(b)'
    <3>1. 0 \in 0..q /\ 1 \in 0..q /\ 1 # 0
      BY <1>1
    <3>2. CASE a = 0
      <4>1. t \in Unsent(m2) \/ t \in Held(d2)
        BY <2>3, <3>2 DEF Local
      <4>2. t \in Local(0)' \/ t \in Local(1)'
        BY <4>1, <1>2 DEF Local
      <4> QED BY <3>1, <4>2
    <3>3. CASE a = 1
      BY <2>3, <3>1, <3>3, <1>2 DEF Local
    <3>4. CASE a # 0 /\ a # 1
      <4>1. a \in Ranks
        BY <3>4, <1>1
      <4> QED BY <2>3, <3>4, <4>1, <1>2 DEF Local
    <3> QED BY <3>2, <3>3, <3>4
  <2> QED BY <1>4, <2>1, <2>2, <2>3 DEF Covered
<1>13. ClosedLast' /\ LeaderInv'
  BY <1>4, <1>10 DEF IInv, ClosedLast, LeaderInv
<1>14. ManagerInv'
  BY <1>4 DEF IInv, ManagerInv
<1> QED BY <1>5, <1>6, <1>7, <1>8, <1>9, <1>11, <1>12, <1>13, <1>14 DEF IInv

\* What the invariant says of the trainer.
LEMMA MasterFacts ==
  ASSUME IInv
  PROVE  /\ agent[0] \in AgentStates(Copies) /\ master \in MasterStates /\ chain[1] \in ChainStates
         /\ chain = [chain EXCEPT ![1] = chain[1]] /\ agent = [agent EXCEPT ![0] = agent[0]]
         /\ MasterGood(agent[0], master, manager.round)
         /\ LinkOK(agent[0], SideOf(agent[0], master), chain[1], manager.round)
         /\ HasLast(chain[1]) => chain[1].inbox = << >>
         /\ SeesLast(chain[1]) => master.pc # "fill"
         /\ master.pc # "done" => manager.pc = "transfer" /\ manager.round \in Nat
         /\ 0 \in Agents /\ 1 \in Ranks
<1>1. 0 \in Agents /\ 1 \in Ranks /\ 1 - 1 = 0 /\ MaxUpdates \in Nat
  BY Constants
<1>2. /\ agent[0] \in AgentStates(Copies) /\ master \in MasterStates /\ chain[1] \in ChainStates
      /\ chain = [chain EXCEPT ![1] = chain[1]] /\ agent = [agent EXCEPT ![0] = agent[0]]
  BY <1>1 DEF IInv, TypeInv
<1>3. LinkOK(agent[0], SideOf(agent[0], master), chain[1], manager.round)
  <2>1. LinkOK(agent[1 - 1], SendSide(1 - 1), chain[1], manager.round)
    BY <1>1 DEF IInv, LinksOK
  <2>2. SendSide(0) = SideOf(agent[0], master)
    BY DEF SendSide, SideOf
  <2> QED BY <1>1, <2>1, <2>2
<1>4. MasterGood(agent[0], master, manager.round)
  BY DEF IInv, MasterOK
<1>5. HasLast(chain[1]) => chain[1].inbox = << >>
  BY <1>1 DEF IInv, LastInv
<1>6. SeesLast(chain[1]) => master.pc # "fill"
  <2>1. SeesLast(chain[1]) => Posted(0)
    <3>1. 0 \in 0..(1 - 1)
      OBVIOUS
    <3> QED BY <3>1, <1>1 DEF IInv, LastInv
  <2> QED BY <2>1 DEF Posted
<1>7. master.pc # "done" => manager.pc = "transfer" /\ manager.round \in Nat
  <2>1. manager.round \in Nat
    BY <1>1 DEF IInv, TypeInv, ManagerStates
  <2> QED BY <2>1 DEF IInv, ManagerInv
<1> QED BY <1>1, <1>2, <1>3, <1>4, <1>5, <1>6, <1>7

\* Packing one more tensor behind the others.
LEMMA KeepsFill == ASSUME IInv, Fill PROVE IInv'
<1> DEFINE x == agent[0]  c == chain[1]  v == manager.round
           t == master.next
           n == Place(t, master.at)
           e == [name |-> t, side |-> x.send, at |-> master.at]
           x2 == [x EXCEPT !.pend = Append(@, e)]
           m2 == [master EXCEPT !.next = t + 1, !.at = @ + Sizes[t], !.meta = Append(@, n)]
<1>1. /\ x \in AgentStates(Copies) /\ master \in MasterStates /\ c \in ChainStates
      /\ master.pc = "fill" /\ t \in Tensors /\ Fits(master.at, t) /\ manager.pc = "transfer"
      /\ MasterGood(x, master, v) /\ LinkOK(x, SideOf(x, master), c, v)
      /\ HasLast(c) => c.inbox = << >>
  BY MasterFacts DEF Fill
<1>2. /\ agent' = [agent EXCEPT ![0] = x2] /\ master' = m2 /\ chain' = [chain EXCEPT ![1] = c]
      /\ UNCHANGED <<manager, open, ipc, worker, model, label>>
  BY MasterFacts DEF Fill
<1>3. /\ master.meta \in Seq(Spots) /\ x.pend \in Seq(Copies) /\ master.at \in Nat /\ x.send \in Sides
      /\ Sizes[t] \in Nat /\ t \in Nat /\ t + 1 \in Nat \ {0} /\ master.at + Sizes[t] \in Nat
  <2>1. master.meta \in Seq(Spots) /\ x.pend \in Seq(Copies) /\ master.at \in Nat /\ x.send \in Sides
    BY <1>1 DEF MasterStates, AgentStates, Metas
  <2>2. Sizes[t] \in Nat /\ t \in Nat
    BY <1>1, Constants
  <2> QED BY <2>1, <2>2
<1>4. n \in Spots /\ n.name = t /\ n.at = master.at /\ e \in Copies /\ e.name = t /\ e.at = master.at /\ e.side = x.send
      /\ n = Place(e.name, e.at)
  BY <1>1, <1>3 DEF Spots, Places, Place, Copies
<1>5. /\ Append(x.pend, e) \in Seq(Copies) /\ ToSet(Append(x.pend, e)) = ToSet(x.pend) \cup {e}
      /\ Append(master.meta, n) \in Seq(Spots) /\ ToSet(Append(master.meta, n)) = ToSet(master.meta) \cup {n}
      /\ ToSet(master.meta) \subseteq Spots
  BY <1>3, <1>4, AppendFacts, SequenceFacts
<1> HIDE DEF x, c, v, n, e
<1>6. /\ x2 \in AgentStates(Copies) /\ x2.send = x.send /\ x2.op = x.op /\ x2.notes = x.notes /\ x2.buf = x.buf
      /\ x2.pend = Append(x.pend, e)
  BY <1>1, <1>5 DEF AgentStates
<1>7. /\ m2 \in MasterStates /\ m2.pc = "fill" /\ m2.next = t + 1 /\ m2.at = master.at + Sizes[t]
      /\ m2.meta = Append(master.meta, n)
  BY <1>1, <1>3, <1>5 DEF MasterStates, Metas
<1> HIDE DEF x2, m2
<1>8. MasterGood(x2, m2, v)
  <2>1. /\ Apart(ToSet(master.meta)) /\ Before(ToSet(master.meta), n.at)
        /\ \A f \in ToSet(x.pend) : f.side = x.send /\ Place(f.name, f.at) \in ToSet(master.meta)
        /\ \A p \in ToSet(master.meta) :
             HeldAt(x.buf[x.send], p, v) \/ \E f \in ToSet(x.pend) : f.name = p.name /\ f.at = p.at
    BY <1>1, <1>4 DEF MasterGood
  <2>2. Apart(ToSet(m2.meta)) /\ Before(ToSet(m2.meta), m2.at)
    <3>1. /\ Apart(ToSet(master.meta) \cup {n})
          /\ Before(ToSet(master.meta) \cup {n}, n.at + Sizes[n.name])
      BY <2>1, <1>4, <1>5, NextToOthers
    <3> QED BY <3>1, <1>4, <1>5, <1>7
  <2>3. \A f \in ToSet(x2.pend) : f.side = x2.send /\ Place(f.name, f.at) \in ToSet(m2.meta)
    BY <2>1, <1>4, <1>5, <1>6, <1>7
  <2>4. \A p \in ToSet(m2.meta) :
             HeldAt(x2.buf[x2.send], p, v) \/ \E f \in ToSet(x2.pend) : f.name = p.name /\ f.at = p.at
    BY <2>1, <1>4, <1>5, <1>6, <1>7
  <2> QED BY <2>2, <2>3, <2>4, <1>7 DEF MasterGood
<1>9. LinkOK(x2, SideOf(x2, m2), c, v)
  <2>1. SideOf(x2, m2) = SideOf(x, master)
    BY <1>1, <1>6, <1>7 DEF SideOf
  <2>2. LinkView(x2, SideOf(x, master)) = LinkView(x, SideOf(x, master))
    BY <1>6 DEF LinkView
  <2> QED BY <1>1, <2>1, <2>2, LinkFrame
<1>10. \A s \in Unsent(master) : s \in Unsent(m2)
  <2> SUFFICES ASSUME NEW s \in Unsent(master) PROVE s \in Unsent(m2)
    OBVIOUS
  <2>1. CASE s \in Names(master.meta)
    BY <2>1, <1>5, <1>7 DEF Unsent, Names
  <2>2. CASE s \in Tensors /\ s >= t
    <3>1. CASE s = t
      BY <3>1, <1>4, <1>5, <1>7 DEF Unsent, Names
    <3>2. CASE s # t
      <4>1. s \in Nat /\ s >= t + 1
        BY <2>2, <3>2, <1>3, Constants
      <4> QED BY <4>1, <2>2, <1>7 DEF Unsent
    <3> QED BY <3>1, <3>2
  <2> QED BY <2>1, <2>2, <1>1 DEF Unsent
<1> QED BY <1>1, <1>2, <1>6, <1>7, <1>8, <1>9, <1>10, MasterStep DEF x, c, v

\* The trainer offers its bucket, after the one before it was read.
LEMMA KeepsFlush == ASSUME IInv, Flush \/ FlushLast PROVE IInv'
<1> DEFINE x == agent[0]  c == chain[1]  v == manager.round
           last == ~(master.next \in Tensors)
           k == MessageOf(0, master.meta, last)
           y == Waited(x)
           z == Announced(y)
           x2 == IF last THEN z ELSE Swapped(z)
           m2 == IF last THEN [master EXCEPT !.pc = "sent"] ELSE [master EXCEPT !.at = 0, !.meta = << >>]
           d2 == [c EXCEPT !.inbox = Append(@, k)]
<1>1. /\ x \in AgentStates(Copies) /\ master \in MasterStates /\ c \in ChainStates
      /\ master.pc = "fill" /\ manager.pc = "transfer" /\ x.pend = << >>
      /\ MasterGood(x, master, v) /\ LinkOK(x, SideOf(x, master), c, v)
      /\ ~SeesLast(c) /\ ~HasLast(c)
      /\ x.op = 0 \/ (x.notes # << >> /\ Head(x.notes) = x.op)
  <2>1. master.pc = "fill" /\ x.pend = << >> /\ WaitOver(0)
    BY DEF Flush, FlushLast, Synchronized
  <2> QED BY <2>1, MasterFacts DEF WaitOver, SeesLast
<1>2. /\ agent' = [agent EXCEPT ![0] = x2] /\ master' = m2 /\ chain' = [chain EXCEPT ![1] = d2]
      /\ UNCHANGED <<manager, open, ipc, worker, model, label>>
  <2>1. CASE Flush
    <3>1. ~last /\ 0 + 1 = 1
      BY <2>1 DEF Flush
    <3>2. last = FALSE
      BY <3>1
    <3>3. chain' = [chain EXCEPT ![1] = d2]
      BY <2>1, <3>1, <3>2 DEF Flush, Post
    <3> QED BY <2>1, <3>2, <3>3 DEF Flush
  <2>2. CASE FlushLast
    <3>1. last /\ 0 + 1 = 1
      BY <2>2 DEF FlushLast
    <3>2. last = TRUE
      BY <3>1
    <3>3. chain' = [chain EXCEPT ![1] = d2]
      BY <2>2, <3>1, <3>2 DEF FlushLast, Post
    <3> QED BY <2>2, <3>2, <3>3 DEF FlushLast
  <2> QED BY <2>1, <2>2
<1>3. /\ y \in AgentStates(Copies) /\ y.op = 0 /\ y.notes = << >> /\ y.send = x.send /\ y.sent = x.sent
      /\ y.buf = x.buf /\ y.pend = x.pend /\ c.inbox = << >> /\ ~Reading(c)
  BY <1>1, WaitedFacts
<1>4. master.meta \in Metas /\ x.sent \in Nat /\ x.send \in Sides /\ last \in BOOLEAN
  BY <1>1 DEF MasterStates, AgentStates
<1>5. k \in Messages /\ k.meta = master.meta /\ k.last = last /\ k.key = x.sent + 1 /\ k.side = x.send
  BY <1>4 DEF MessageOf, Messages
<1>6. Holds(x.buf[x.send], master.meta, v)
  BY <1>1, OneFacts DEF MasterGood, Holds
<1> HIDE DEF x, y, c, v, k, last
<1>7. /\ z \in AgentStates(Copies) /\ z.op = x.sent + 1 /\ z.op # 0 /\ z.notes = << >> /\ z.send = x.send
      /\ z.buf = x.buf /\ z.pend = << >>
  BY <1>1, <1>3, AnnouncedFacts
<1> HIDE DEF z
<1>8. /\ x2 \in AgentStates(Copies) /\ x2.op = x.sent + 1 /\ x2.op # 0 /\ x2.notes = << >>
      /\ x2.send = (IF last THEN x.send ELSE Other(x.send))
      /\ x2.buf = x.buf /\ x2.pend = << >>
  <2>1. CASE last
    BY <2>1, <1>7
  <2>2. CASE ~last
    <3>1. Other(x.send) \in Sides
      BY <1>4 DEF Sides, Other
    <3> QED BY <2>2, <3>1, <1>7 DEF Swapped, AgentStates
  <2> QED BY <2>1, <2>2
<1>9. /\ m2 \in MasterStates /\ m2.pc = (IF last THEN "sent" ELSE "fill") /\ m2.next = master.next
      /\ ~last => m2.meta = << >> /\ m2.at = 0
  <2>1. << >> \in Metas
    <3>1. << >> \in Seq(Spots)
      OBVIOUS
    <3> QED BY <3>1 DEF Metas
  <2> QED BY <1>1, <2>1 DEF MasterStates
<1>10. /\ d2 \in ChainStates /\ HostView(d2) = HostView(c) /\ d2.inbox = Append(c.inbox, k) /\ d2.xfer = c.xfer
       /\ d2.cur = c.cur /\ d2.nxt = c.nxt /\ d2.pc = c.pc
  <2>1. Append(c.inbox, k) \in Seq(Messages)
    BY <1>1, <1>5, AppendFacts DEF ChainStates
  <2> QED BY <1>1, <2>1 DEF ChainStates, HostView
<1> HIDE DEF x2, m2, d2
<1>11. SideOf(x2, m2) = k.side
  BY <1>4, <1>5, <1>8, <1>9 DEF SideOf, Other, Sides
<1>12. LinkOK(x2, SideOf(x2, m2), d2, v)
  <2>1. LinkOK(x2, k.side, d2, v)
    BY <1>3, <1>5, <1>6, <1>8, <1>10, PostedLink
  <2> QED BY <2>1, <1>11
<1>13. MasterGood(x2, m2, v)
  <2>1. ToSet(<< >>) = {}
    BY OneFacts
  <2> QED BY <2>1, <1>8, <1>9 DEF MasterGood, Apart, Before
<1>14. ToSet(c.inbox) = {} /\ ToSet(d2.inbox) = {k}
  <2>1. d2.inbox = <<k>>
    <3>1. \A e : Append(<< >>, e) = <<e>>
      OBVIOUS
    <3> QED BY <3>1, <1>3, <1>10
  <2> QED BY <2>1, <1>3, OneFacts
<1>15. SeesLast(d2) => SeesLast(c) \/ m2.pc # "fill"
  BY <1>5, <1>9, <1>10, <1>14 DEF SeesLast, HasLast
<1>16. HasLast(d2) => d2.inbox = << >>
  BY <1>1, <1>10 DEF HasLast
<1>17. ASSUME NEW t \in Unsent(master) PROVE t \in Unsent(m2) \/ t \in Held(d2)
  <2>1. CASE t \in Names(master.meta)
    BY <2>1, <1>5, <1>14 DEF Held
  <2>2. CASE t \in Tensors /\ t >= master.next
    <3>1. CASE last
      <4>1. /\ t \in 1..Len(Sizes) /\ master.next \in Nat \ {0} /\ master.next \notin 1..Len(Sizes)
            /\ Len(Sizes) \in Nat
        BY <2>2, <3>1, <1>1, Constants DEF MasterStates, last
      <4> QED BY <4>1, <2>2
    <3>2. CASE ~last
      BY <2>2, <3>2, <1>9 DEF Unsent
    <3> QED BY <3>1, <3>2
  <2> QED BY <2>1, <2>2, <1>1 DEF Unsent
<1>18. Held(c) \subseteq Held(d2)
  BY <1>10, <1>14 DEF Held
<1> QED BY <1>1, <1>2, <1>8, <1>9, <1>10, <1>12, <1>13, <1>15, <1>16, <1>17, <1>18, MasterStep DEF x, c, v

\* Ending when the last bucket has been read.
LEMMA KeepsSendDone == ASSUME IInv, SendDone PROVE IInv'
<1> DEFINE x == agent[0]  c == chain[1]  v == manager.round
           x2 == Waited(x)
           m2 == [master EXCEPT !.pc = "done"]
<1>1. /\ x \in AgentStates(Copies) /\ master \in MasterStates /\ c \in ChainStates
      /\ master.pc = "sent" /\ manager.pc = "transfer"
      /\ MasterGood(x, master, v) /\ LinkOK(x, SideOf(x, master), c, v)
      /\ HasLast(c) => c.inbox = << >>
      /\ x.op = 0 \/ (x.notes # << >> /\ Head(x.notes) = x.op)
  BY MasterFacts DEF SendDone, WaitOver
<1>2. /\ agent' = [agent EXCEPT ![0] = x2] /\ master' = m2 /\ chain' = [chain EXCEPT ![1] = c]
      /\ UNCHANGED <<manager, open, ipc, worker, model, label>>
  BY MasterFacts DEF SendDone
<1> HIDE DEF x, c, v
<1>3. /\ x2 \in AgentStates(Copies) /\ x2.op = 0 /\ x2.notes = << >> /\ x2.pend = x.pend
      /\ c.inbox = << >> /\ ~Reading(c)
  BY <1>1, WaitedFacts
<1>4. m2 \in MasterStates /\ m2.pc = "done"
  BY <1>1 DEF MasterStates
<1> HIDE DEF x2, m2
<1>5. MasterGood(x2, m2, v)
  BY <1>1, <1>3, <1>4 DEF MasterGood
<1>6. LinkOK(x2, SideOf(x2, m2), c, v)
  BY <1>3 DEF LinkOK
<1>7. Unsent(master) = {}
  BY <1>1 DEF Unsent
<1> QED BY <1>1, <1>2, <1>3, <1>4, <1>5, <1>6, <1>7, MasterStep DEF x, c, v

\* A copy into a bucket of the trainer takes place.
LEMMA KeepsTrainerCopy == ASSUME IInv, DeviceCopy(0) PROVE IInv'
<1> DEFINE x == agent[0]  c == chain[1]  v == manager.round
           e == Head(x.pend)
           n == Place(e.name, e.at)
           b == [o \in 1..Sizes[e.name] |-> <<e.name, v>>]
           W == Written(x.buf[e.side], e.at, e.name, b)
           x2 == [x EXCEPT !.pend = Tail(@), !.buf = [x.buf EXCEPT ![e.side] = W]]
<1>1. /\ x \in AgentStates(Copies) /\ master \in MasterStates /\ c \in ChainStates
      /\ MasterGood(x, master, v) /\ LinkOK(x, SideOf(x, master), c, v)
      /\ HasLast(c) => c.inbox = << >>
      /\ x.pend # << >>
  BY MasterFacts DEF DeviceCopy
<1>2. master.pc = "fill" /\ manager.pc = "transfer" /\ v \in Nat
  BY <1>1, MasterFacts DEF MasterGood
<1>3. /\ agent' = [agent EXCEPT ![0] = x2] /\ master' = master /\ chain' = [chain EXCEPT ![1] = c]
      /\ UNCHANGED <<manager, open, ipc, worker, model, label>>
  <2>1. DOMAIN agent = Agents /\ 0 \in Agents
    BY MasterFacts DEF IInv, TypeInv
  <2>2. agent' = [agent EXCEPT ![0].pend = Tail(@), ![0].buf[e.side] = Written(@, e.at, e.name, b)]
    BY DEF DeviceCopy
  <2>3. agent' = [agent EXCEPT ![0] = x2]
    BY <2>1, <2>2, Zenon
  <2> QED BY <2>3, MasterFacts DEF DeviceCopy
<1>4. x.pend \in Seq(Copies) /\ master.meta \in Seq(Spots) /\ x.send \in Sides /\ x.buf \in [Sides -> Buckets]
  BY <1>1 DEF AgentStates, MasterStates, Metas
<1>5. /\ e \in ToSet(x.pend) /\ e \in Copies /\ Tail(x.pend) \in Seq(Copies)
      /\ ToSet(x.pend) = {e} \cup ToSet(Tail(x.pend))
      /\ ToSet(master.meta) \subseteq Spots
  BY <1>1, <1>4, SequenceFacts
<1>6. /\ Apart(ToSet(master.meta)) /\ Before(ToSet(master.meta), master.at)
      /\ \A f \in ToSet(x.pend) : f.side = x.send /\ Place(f.name, f.at) \in ToSet(master.meta)
      /\ \A p \in ToSet(master.meta) :
           HeldAt(x.buf[x.send], p, v) \/ \E f \in ToSet(x.pend) : f.name = p.name /\ f.at = p.at
  BY <1>1, <1>2 DEF MasterGood
<1>7. e.side = x.send /\ n \in ToSet(master.meta) /\ n \in Spots
  BY <1>5, <1>6
<1>8. e.name \in Tensors /\ e.at \in Nat /\ n.name = e.name /\ n.at = e.at /\ Fits(e.at, e.name) /\ Sizes[e.name] \in Nat
  BY <1>5, <1>7, Constants DEF Copies, Spots, Places, Place
<1> HIDE DEF x, c, v, e, n
<1>9. b \in [1..Sizes[e.name] -> Values] /\ \A o \in 1..Sizes[e.name] : b[o] = <<e.name, v>>
  <2>1. <<e.name, v>> \in Values
    BY <1>2, <1>8, Constants DEF Values
  <2> QED BY <2>1
<1> HIDE DEF b
<1>10. x.buf[x.send] \in Buckets
  BY <1>4
<1>11. /\ W \in Buckets
       /\ HeldAt(W, n, v)
       /\ \A q \in Spots : HeldAt(x.buf[x.send], q, v) /\ (q # n => \A o \in Bytes(q.name, q.at) : o \notin Bytes(n.name, n.at))
            => HeldAt(W, q, v)
  <2>1. Written(x.buf[x.send], e.at, e.name, b) \in Buckets
    BY <1>8, <1>9, <1>10, WrittenFacts
  <2>2. n \in Spots /\ b \in [1..Sizes[n.name] -> Values] /\ \A o \in 1..Sizes[n.name] : b[o] = <<n.name, v>>
    BY <1>7, <1>8, <1>9
  <2>3. /\ HeldAt(Written(x.buf[x.send], n.at, n.name, b), n, v)
       /\ \A q \in Spots : HeldAt(x.buf[x.send], q, v) /\ (q # n => \A o \in Bytes(q.name, q.at) : o \notin Bytes(n.name, n.at))
            => HeldAt(Written(x.buf[x.send], n.at, n.name, b), q, v)
    BY <2>2, <1>10, WrittenHolds
  <2> QED BY <2>1, <2>3, <1>7, <1>8
<1> HIDE DEF W
<1>12. /\ x2 \in AgentStates(Copies) /\ x2.send = x.send /\ x2.op = x.op /\ x2.notes = x.notes
       /\ x2.pend = Tail(x.pend) /\ x2.buf = [x.buf EXCEPT ![x.send] = W]
  <2>1. [x.buf EXCEPT ![x.send] = W] \in [Sides -> Buckets]
    BY <1>4, <1>11
  <2> QED BY <1>1, <1>5, <1>7, <2>1 DEF AgentStates
<1>13. x2.buf[x.send] = W /\ x2.buf[Other(x.send)] = x.buf[Other(x.send)]
  BY <1>4, <1>12 DEF Sides, Other
<1> HIDE DEF x2
<1>14. MasterGood(x2, master, v)
  <2>1. ASSUME NEW q \in ToSet(master.meta)
        PROVE  HeldAt(x2.buf[x2.send], q, v) \/ \E f \in ToSet(x2.pend) : f.name = q.name /\ f.at = q.at
    <3>1. CASE HeldAt(x.buf[x.send], q, v)
      <4>1. q # n => \A o \in Bytes(q.name, q.at) : o \notin Bytes(n.name, n.at)
        BY <1>6, <1>7 DEF Apart
      <4> QED BY <3>1, <4>1, <1>5, <1>11, <1>12, <1>13
    <3>2. CASE e.name = q.name /\ e.at = q.at
      <4>1. q = n
        BY <3>2, <1>5, <1>8 DEF Spots, Places, n, Place
      <4> QED BY <4>1, <1>11, <1>12, <1>13
    <3> QED BY <3>1, <3>2, <1>5, <1>6, <1>12
  <2> QED BY <2>1, <1>2, <1>5, <1>6, <1>12 DEF MasterGood
<1>15. LinkOK(x2, SideOf(x2, master), c, v)
  <2>1. SideOf(x2, master) = SideOf(x, master) /\ SideOf(x, master) = Other(x.send)
    BY <1>2, <1>12 DEF SideOf
  <2>2. LinkView(x2, SideOf(x, master)) = LinkView(x, SideOf(x, master))
    BY <2>1, <1>12, <1>13 DEF LinkView
  <2> QED BY <1>1, <2>1, <2>2, LinkFrame
<1> QED BY <1>1, <1>2, <1>3, <1>12, <1>14, <1>15, MasterStep DEF x, c, v
-----------------------------------------------------------------------------
(* What holds between pushes                                               *)

\* A rank whose worker is done has handed everything over.
LEMMA DoneRank ==
  ASSUME NEW c, NEW x, NEW i, NEW w, NEW v, RankOK(c, x, i, w, v), w.pc = "done"
  PROVE  /\ c.pc \in {"handedLast", "await", "done"} /\ i.msg = << >> /\ w.clones = {}
         /\ c.todo = << >>
         /\ c.cur.last => ~c.xfer.on
<1>1. HandOK(c, i, w, v) /\ BucketOK(c, x, v) /\ XferOK(c, x, v)
  BY DEF RankOK
<1>2. (c.pc = "handedLast" /\ i.answered) \/ c.pc \in {"await", "done"}
  BY <1>1 DEF HandOK
<1>3. i.msg = << >> /\ w.clones = {}
  BY <1>1, <1>2 DEF HandOK
<1>4. c.todo = << >>
  BY <1>1, <1>2 DEF BucketOK, Sending
<1>5. ~c.xfer.on
  BY <1>1, <1>2 DEF XferOK
<1> QED BY <1>2, <1>3, <1>4, <1>5

\* A worker that is done has loaded all tensors: nothing of them is elsewhere.
LEMMA DoneHasLoaded ==
  ASSUME IInv, manager.pc = "transfer", NEW r \in Ranks, worker[r].pc = "done"
  PROVE  \A t \in Tensors : model[r][t] = manager.round
<1> DEFINE c == chain[r]  i == ipc[r]  w == worker[r]
<1>1. /\ RankOK(c, agent[r], i, w, manager.round)
      /\ (HasLast(c) => c.inbox = << >>)
      /\ (c.pc \in Closed => c.cur.last)
      /\ r \in Nat /\ r >= 1 /\ Ranks = 1..NumRanks /\ r <= NumRanks /\ NumRanks \in Nat
  BY RankFacts, Constants
<1>2. /\ c.pc \in {"handedLast", "await", "done"} /\ i.msg = << >> /\ w.clones = {}
      /\ c.todo = << >> /\ (c.cur.last => ~c.xfer.on)
  BY <1>1, DoneRank
<1> HIDE DEF c, i, w
<1>3. HasLast(c) /\ SeesLast(c) /\ ~c.xfer.on /\ c.inbox = << >> /\ c.pc # "announce"
  BY <1>1, <1>2 DEF Closed, HasLast, SeesLast
<1>4. ASSUME NEW a \in 0..r, NEW t \in Local(a) PROVE FALSE
  <2>1. CASE a = r
    <3>1. ToSet(c.inbox) = {}
      BY <1>3, OneFacts
    <3>2. Held(c) = {}
      BY <1>3, <3>1 DEF Held
    <3> QED BY <2>1, <3>2, <1>1, <1>4 DEF Local, c
  <2>2. CASE a # r
    <3>1. Posted(a) /\ a \in 0..NumRanks
      BY <2>2, <1>1, <1>3 DEF IInv, LastInv, c
    <3>2. CASE a = 0
      BY <3>1, <3>2, <1>4 DEF Posted, Local, Unsent
    <3>3. CASE a # 0
      <4>1. a \in Ranks /\ Posts(chain[a])
        BY <3>1, <3>3, <1>1 DEF Posted
      <4>2. /\ RankOK(chain[a], agent[a], ipc[a], worker[a], manager.round)
            /\ HasLast(chain[a]) => chain[a].inbox = << >>
        BY <4>1, RankFacts
      <4>3. chain[a].cur.last /\ chain[a].pc # "announce" /\ HasLast(chain[a])
        BY <4>1 DEF Posts, HasLast
      <4>4. ToSet(chain[a].inbox) = {}
        BY <4>2, <4>3, OneFacts
      <4>5. ~chain[a].xfer.on
        BY <4>2, <4>3 DEF RankOK, XferOK, BucketOK, Opening
      <4> QED BY <3>3, <4>3, <4>4, <4>5, <1>4 DEF Local, Held
    <3> QED BY <3>2, <3>3
  <2> QED BY <2>1, <2>2
<1>5. ASSUME NEW t \in Tensors PROVE ~Owned(c, i, w, t)
  <2>1. ToSet(i.msg) = {} /\ ToSet(c.todo) = {}
    BY <1>2, OneFacts
  <2> QED BY <2>1, <1>2 DEF Owned, Names
<1> QED BY <1>4, <1>5 DEF IInv, Coverage, Covered, c, i, w

\* Between pushes nothing is under way, whatever the version.
LEMMA Quiet ==
  ASSUME IInv, manager.pc # "transfer", NEW u
  PROVE  /\ \A r \in Ranks : /\ RankOK(chain[r], agent[r], ipc[r], worker[r], u)
                             /\ LinkOK(agent[r - 1], SendSide(r - 1), chain[r], u)
                             /\ chain[r].inbox = << >> /\ chain[r].pc = "done" /\ worker[r].pc = "done"
                             /\ ipc[r].msg = << >> /\ ~ipc[r].answered
         /\ \A a \in Agents : agent[a].op = 0 /\ agent[a].notes = << >> /\ agent[a].pend = << >>
         /\ master.pc = "done"
<1>1. master.pc = "done" /\ \A r \in Ranks : chain[r].pc = "done" /\ worker[r].pc = "done"
  BY DEF IInv, ManagerInv
<1>2. agent[0].op = 0 /\ agent[0].pend = << >>
  BY <1>1 DEF IInv, MasterOK, MasterGood
<1>3. ASSUME NEW r \in Ranks
      PROVE  /\ agent[r].op = 0 /\ agent[r].pend = << >> /\ worker[r].clones = {} /\ ~chain[r].xfer.on
             /\ ipc[r].msg = << >> /\ ~ipc[r].answered
             /\ RankOK(chain[r], agent[r], ipc[r], worker[r], u)
  <2>1. RankOK(chain[r], agent[r], ipc[r], worker[r], manager.round)
    BY DEF IInv, RanksOK
  <2>2. /\ agent[r].op = 0 /\ agent[r].pend = << >> /\ worker[r].clones = {} /\ ~chain[r].xfer.on
        /\ ipc[r].msg = << >> /\ ~ipc[r].answered
    BY <1>1, <2>1 DEF RankOK, XferOK, BucketOK, DeviceOK, HandOK, Sending
  <2>3. XferOK(chain[r], agent[r], u) /\ BucketOK(chain[r], agent[r], u)
    BY <1>1, <2>1, <2>2 DEF RankOK, XferOK, BucketOK, Sending
  <2>4. SharedOK(chain[r], agent[r], ipc[r], u) /\ HandOK(chain[r], ipc[r], worker[r], u)
    BY <1>1, <2>1, <2>2 DEF RankOK, SharedOK, HandOK, Opening
  <2> QED BY <2>1, <2>2, <2>3, <2>4 DEF RankOK
<1>4. /\ Agents = 0..NumRanks /\ Ranks = 1..NumRanks /\ NumRanks \in Nat
  BY Constants
<1>5. \A a \in Agents : agent[a].op = 0 /\ agent[a].pend = << >>
  <2>1. \A a \in Agents : a = 0 \/ a \in Ranks
    BY <1>4
  <2> QED BY <2>1, <1>2, <1>3
<1>6. ASSUME NEW r \in Ranks
      PROVE  /\ agent[r - 1].notes = << >> /\ chain[r].inbox = << >>
             /\ LinkOK(agent[r - 1], SendSide(r - 1), chain[r], u)
  <2>1. r - 1 \in Agents
    BY <1>4
  <2>2. LinkOK(agent[r - 1], SendSide(r - 1), chain[r], manager.round)
    BY DEF IInv, LinksOK
  <2> QED BY <2>1, <2>2, <1>5 DEF LinkOK
<1>7. ASSUME NEW a \in Agents PROVE agent[a].notes = << >>
  <2>1. CASE a = NumRanks
    BY <2>1 DEF IInv, LastAgent
  <2>2. CASE a # NumRanks
    <3>1. a + 1 \in Ranks /\ (a + 1) - 1 = a
      BY <2>2, <1>4
    <3> QED BY <3>1, <1>6
  <2> QED BY <2>1, <2>2
<1> QED BY <1>1, <1>3, <1>5, <1>6, <1>7

\* A replica has a first rank, which has the workers receive.
LEMMA LeaderExists ==
  ASSUME NEW p \in ReplicaNames
  PROVE  \E r \in Ranks : ReplicaOf[r] = p /\ Leader(r)
<1> DEFINE S == MembersOf(p)
<1>1. \E q \in Ranks : ReplicaOf[q] = p
  BY DEF ReplicaNames
<1>2. S # {} /\ S \subseteq Nat /\ S \subseteq Ranks
  BY <1>1, Constants DEF MembersOf
<1>3. PICK m \in S : \A k \in S : m <= k
  <2>1. PICK m \in S : \A k \in S : <<k, m>> \notin OpToRel(<, Nat)
    BY <1>2, WFMin, NatLessThanWellFounded
  <2>2. ASSUME NEW k \in S PROVE m <= k
    <3>1. ~(k < m)
      BY <2>1, <1>2 DEF OpToRel
    <3> QED BY <3>1, <1>2
  <2> QED BY <2>2
<1>4. Min(S) \in S
  BY <1>3 DEF Min
<1>5. Min(S) \in Ranks /\ ReplicaOf[Min(S)] = p
  BY <1>4 DEF MembersOf
<1>6. Leader(Min(S))
  BY <1>5 DEF Leader
<1> QED BY <1>5, <1>6
-----------------------------------------------------------------------------
(* Steps of the manager                                                    *)

\* A push begins.
LEMMA KeepsStartUpdate == ASSUME IInv, StartUpdate PROVE IInv'
<1>1. /\ manager.pc = "idle" /\ manager.round < MaxUpdates /\ manager \in ManagerStates
      /\ manager' = [manager EXCEPT !.pc = "abort", !.round = @ + 1, !.left = ReplicaNames, !.failed = {}]
      /\ UNCHANGED <<open, agent, master, chain, ipc, worker, model, label>>
  BY DEF StartUpdate, IInv, TypeInv
<1> DEFINE u == manager.round + 1
<1>2. u \in 0..MaxUpdates /\ u >= 1
  BY <1>1, Constants DEF ManagerStates
<1>3. /\ manager' \in ManagerStates /\ manager'.pc = "abort" /\ manager'.round = u
      /\ manager'.left = ReplicaNames
  BY <1>1, <1>2 DEF ManagerStates
<1> HIDE DEF u
<1>4. TypeInv'
  BY <1>1, <1>3 DEF IInv, TypeInv
<1>5. /\ \A r \in Ranks : /\ RankOK(chain[r], agent[r], ipc[r], worker[r], u)
                          /\ LinkOK(agent[r - 1], SendSide(r - 1), chain[r], u)
                          /\ chain[r].inbox = << >> /\ chain[r].pc = "done" /\ worker[r].pc = "done"
      /\ \A a \in Agents : agent[a].op = 0 /\ agent[a].notes = << >> /\ agent[a].pend = << >>
      /\ master.pc = "done"
  BY <1>1, Quiet
<1>6. RanksOK' /\ LinksOK'
  BY <1>1, <1>3, <1>5 DEF RanksOK, LinksOK, SendSide
<1>7. LastAgent' /\ LastInv'
  BY <1>1 DEF IInv, LastAgent, LastInv, Posted
<1>8. MasterOK'
  <2>1. 0 \in Agents
    BY Constants
  <2> QED BY <2>1, <1>1, <1>5 DEF MasterOK, MasterGood
<1>9. Coverage' /\ ClosedLast'
  BY <1>3 DEF Coverage, ClosedLast
<1>10. LeaderInv'
  BY <1>1, <1>3, <1>5 DEF LeaderInv
<1>11. ManagerInv'
  BY <1>1, <1>2, <1>3, <1>5 DEF ManagerInv
<1> QED BY <1>4, <1>6, <1>7, <1>8, <1>9, <1>10, <1>11 DEF IInv

\* A step of the manager that only visits a replica.
LEMMA ManagerStep ==
  ASSUME IInv, manager.pc # "transfer", manager' \in ManagerStates, open' \subseteq ReplicaNames,
         manager'.pc # "transfer", manager'.round = manager.round,
         UNCHANGED <<agent, master, chain, ipc, worker, model, label>>, ManagerInv'
  PROVE  IInv'
<1>1. TypeInv'
  BY DEF IInv, TypeInv
<1>2. RanksOK' /\ LinksOK' /\ LastAgent' /\ MasterOK' /\ LastInv'
  BY DEF IInv, RanksOK, LinksOK, SendSide, LastAgent, MasterOK, LastInv, Posted
<1>3. Coverage' /\ ClosedLast'
  BY DEF Coverage, ClosedLast
<1>4. LeaderInv'
  BY DEF IInv, LeaderInv
<1> QED BY <1>1, <1>2, <1>3, <1>4 DEF IInv

\* A replica is paused, or is not.
LEMMA KeepsAbortRequests == ASSUME IInv, NEW p \in ReplicaNames, AbortRequests(p) \/ AbortFails(p) PROVE IInv'
<1>1. /\ manager \in ManagerStates /\ open \subseteq ReplicaNames /\ manager.pc = "abort" /\ p \in manager.left
      /\ UNCHANGED <<agent, master, chain, ipc, worker, model, label>>
  BY DEF AbortRequests, AbortFails, IInv, TypeInv
<1>2. /\ manager' \in ManagerStates /\ manager'.pc = "abort" /\ manager'.round = manager.round
      /\ manager'.left = manager.left \ {p} /\ open' \subseteq ReplicaNames
      /\ \/ manager'.failed = manager.failed /\ open' = open \ {p}
         \/ manager'.failed = manager.failed \cup {p} /\ open' = open
  <2>1. CASE AbortRequests(p)
    BY <2>1, <1>1 DEF AbortRequests, ManagerStates
  <2>2. CASE AbortFails(p)
    <3>1. /\ manager' = [manager EXCEPT !.left = @ \ {p}, !.failed = @ \cup {p}, !.failures = @ + 1]
          /\ manager.failures < MaxFailures /\ open' = open
      BY <2>2 DEF AbortFails
    <3>2. manager.failures + 1 \in Nat
      BY <1>1 DEF ManagerStates
    <3>3. manager.left \ {p} \in SUBSET ReplicaNames /\ manager.failed \cup {p} \in SUBSET ReplicaNames
      BY <1>1 DEF ManagerStates
    <3>4. manager' \in ManagerStates
      BY <3>1, <3>2, <3>3, <1>1 DEF ManagerStates
    <3> QED BY <3>1, <3>4, <1>1 DEF ManagerStates
  <2> QED BY <2>1, <2>2
<1>3. ManagerInv'
  <2>1. \A q \in ReplicaNames \ manager'.left : q \notin open' \/ q \in manager'.failed
    BY <1>1, <1>2 DEF IInv, ManagerInv
  <2> QED BY <2>1, <1>1, <1>2 DEF IInv, ManagerInv
<1> QED BY <1>1, <1>2, <1>3, ManagerStep

\* A replica serves again.
LEMMA KeepsResumeGeneration == ASSUME IInv, NEW p \in ReplicaNames, ResumeGeneration(p) PROVE IInv'
<1>1. /\ manager \in ManagerStates /\ open \subseteq ReplicaNames /\ manager.pc = "resume" /\ p \in manager.left
      /\ UNCHANGED <<agent, master, chain, ipc, worker, model, label>>
      /\ open' = open \cup {p}
  BY DEF ResumeGeneration, IInv, TypeInv
<1>2. /\ manager' \in ManagerStates /\ manager'.pc = (IF manager.left = {p} THEN "idle" ELSE "resume")
      /\ manager'.round = manager.round /\ manager'.left = manager.left \ {p}
  BY <1>1 DEF ResumeGeneration, ManagerStates
<1>3. ManagerInv'
  <2>1. ReplicaNames \ manager.left \subseteq open /\ manager.round >= 1
    BY <1>1 DEF IInv, ManagerInv
  <2>2. ReplicaNames \ manager'.left \subseteq open'
    BY <1>1, <1>2, <2>1
  <2>3. manager'.pc = "idle" => open' = ReplicaNames
    BY <1>1, <1>2, <2>1
  <2> QED BY <2>1, <2>2, <2>3, <1>1, <1>2 DEF IInv, ManagerInv
<1>4. manager'.pc # "transfer" /\ open' \subseteq ReplicaNames
  BY <1>1, <1>2
<1> QED BY <1>1, <1>2, <1>3, <1>4, ManagerStep

\* The push ends when all ranks have: all workers have loaded everything.
LEMMA KeepsFinalize == ASSUME IInv, Finalize PROVE IInv'
<1>1. /\ manager \in ManagerStates /\ open \subseteq ReplicaNames /\ manager.pc = "transfer"
      /\ master.pc = "done" /\ \A r \in Ranks : chain[r].pc = "done"
      /\ UNCHANGED <<open, agent, master, chain, ipc, worker, model, label>>
  BY DEF Finalize, IInv, TypeInv
<1>2. /\ manager' \in ManagerStates /\ manager'.pc = "resume"
      /\ manager'.round = manager.round /\ manager'.left = ReplicaNames
  BY <1>1 DEF Finalize, ManagerStates
<1>3. ASSUME NEW p \in ReplicaNames
      PROVE  /\ label[p] = manager.round /\ \A q \in MembersOf(p) : worker[q].pc = "done"
  <2>1. PICK r \in Ranks : ReplicaOf[r] = p /\ Leader(r)
    BY LeaderExists
  <2> QED BY <2>1, <1>1 DEF IInv, LeaderInv
<1>4. \A r \in Ranks : worker[r].pc = "done"
  <2> SUFFICES ASSUME NEW r \in Ranks PROVE worker[r].pc = "done"
    OBVIOUS
  <2>1. r \in MembersOf(ReplicaOf[r]) /\ ReplicaOf[r] \in ReplicaNames
    BY DEF MembersOf, ReplicaNames
  <2> QED BY <2>1, <1>3
<1>5. \A r \in Ranks, t \in Tensors : model[r][t] = manager.round
  BY <1>1, <1>4, DoneHasLoaded
<1>6. manager.round >= 1
  BY <1>1 DEF IInv, ManagerInv
<1>7. ManagerInv'
  BY <1>1, <1>2, <1>3, <1>4, <1>5, <1>6 DEF ManagerInv
<1>8. TypeInv'
  BY <1>1, <1>2 DEF IInv, TypeInv
<1>9. RanksOK' /\ LinksOK' /\ LastAgent' /\ MasterOK' /\ LastInv'
  BY <1>1, <1>2 DEF IInv, RanksOK, LinksOK, SendSide, LastAgent, MasterOK, LastInv, Posted
<1>10. Coverage' /\ ClosedLast'
  BY <1>2 DEF Coverage, ClosedLast
<1>11. LeaderInv'
  BY <1>1, <1>2 DEF IInv, LeaderInv
<1> QED BY <1>7, <1>8, <1>9, <1>10, <1>11 DEF IInv

\* What preparing an agent changes.
LEMMA PreparedFacts ==
  ASSUME NEW S, NEW x \in AgentStates(S)
  PROVE  /\ Prepared(x) \in AgentStates(S)
         /\ Prepared(x).send = 1 /\ Prepared(x).op = 0
         /\ Prepared(x).notes = x.notes /\ Prepared(x).pend = x.pend
<1> DEFINE blank == [s \in {1, 2} |-> Blank]
<1>1. Blank \in Buckets
  <2>1. Nothing \in Values
    BY DEF Nothing, Values
  <2> QED BY <2>1 DEF Blank, Buckets
<1>2. blank \in [Sides -> Buckets] /\ 1 \in Sides
  BY <1>1 DEF Sides
<1>3. Prepared(x) = [x EXCEPT !.send = 1, !.op = 0, !.buf = blank]
  BY DEF Prepared
<1> HIDE DEF blank
<1>4. x = [send |-> x.send, op |-> x.op, sent |-> x.sent, notes |-> x.notes, buf |-> x.buf, pend |-> x.pend]
      /\ x.sent \in Nat /\ x.notes \in Seq(Nat) /\ x.pend \in Seq(S)
  BY DEF AgentStates
<1>5. Prepared(x) = [send |-> 1, op |-> 0, sent |-> x.sent, notes |-> x.notes, buf |-> blank, pend |-> x.pend]
  BY <1>3, <1>4
<1> HIDE DEF Prepared
<1> QED BY <1>2, <1>4, <1>5 DEF AgentStates

\* The transfer begins, with nothing under way.
LEMMA KeepsConnect == ASSUME IInv, Connect PROVE IInv'
<1> DEFINE u == manager.round
           first(r) == IF Leader(r) THEN "call" ELSE "setup"
           c2(r) == [IdleChain EXCEPT !.pc = first(r), !.inbox = chain[r].inbox]
           x2(a) == Prepared(agent[a])
           i2(r) == [ipc[r] EXCEPT !.at = 0, !.meta = << >>]
           w2 == [pc |-> "idle", clones |-> {}, last |-> FALSE]
<1>1. /\ manager \in ManagerStates /\ manager.pc = "abort" /\ manager.left = {} /\ manager.round >= 1
      /\ \A p \in ReplicaNames \ manager.left : p \notin open \/ p \in manager.failed
      /\ manager' = [manager EXCEPT !.pc = "transfer"]
      /\ agent' = [a \in Agents |-> x2(a)]
      /\ master' = [pc |-> "fill", next |-> 1, at |-> 0, meta |-> << >>]
      /\ chain' = [r \in Ranks |-> c2(r)]
      /\ ipc' = [r \in Ranks |-> i2(r)]
      /\ worker' = [r \in Ranks |-> w2]
      /\ UNCHANGED <<open, model, label>>
  BY DEF Connect, IInv, TypeInv, ManagerInv
<1> HIDE DEF first, c2, x2, i2
<1>2. /\ Ranks = 1..NumRanks /\ Agents = 0..NumRanks /\ NumRanks \in Nat
      /\ Tensors = 1..Len(Sizes) /\ Len(Sizes) \in Nat
  BY Constants
<1>3. /\ \A r \in Ranks : /\ chain[r].inbox = << >> /\ ipc[r] \in IpcStates
                          /\ ipc[r].msg = << >> /\ ~ipc[r].answered
      /\ \A a \in Agents : agent[a].op = 0 /\ agent[a].notes = << >> /\ agent[a].pend = << >>
  BY <1>1, Quiet DEF IInv, TypeInv
<1>4. /\ manager' \in ManagerStates /\ manager'.pc = "transfer" /\ manager'.round = u
      /\ manager'.failed = manager.failed
  BY <1>1 DEF ManagerStates
<1>5. \A S : << >> \in Seq(S)
  OBVIOUS
<1>6. ToSet(<< >>) = {}
  BY OneFacts
<1>7. \A a \in Agents : /\ agent'[a].send = 1 /\ agent'[a].op = 0 /\ agent'[a].notes = << >> /\ agent'[a].pend = << >>
                        /\ agent'[a] \in AgentStates(IF a = 0 THEN Copies ELSE Moves)
  <2> SUFFICES ASSUME NEW a \in Agents
               PROVE  /\ x2(a).send = 1 /\ x2(a).op = 0 /\ x2(a).notes = << >> /\ x2(a).pend = << >>
                      /\ x2(a) \in AgentStates(IF a = 0 THEN Copies ELSE Moves)
    BY <1>1
  <2>1. agent[a] \in AgentStates(IF a = 0 THEN Copies ELSE Moves)
    <3>1. a = 0 \/ (a \in Ranks /\ a # 0)
      BY <1>2
    <3> QED BY <3>1 DEF IInv, TypeInv
  <2> QED BY <2>1, <1>3, PreparedFacts DEF x2
<1>8. \A r \in Ranks : /\ chain'[r].pc = first(r)
                       /\ chain'[r].cur = NoMessage /\ chain'[r].nxt = NoMessage /\ chain'[r].todo = << >>
                       /\ chain'[r].inbox = << >> /\ chain'[r].xfer = NoXfer
                       /\ chain'[r] \in ChainStates
  <2> SUFFICES ASSUME NEW r \in Ranks
               PROVE  /\ chain'[r].pc = first(r)
                      /\ chain'[r].cur = NoMessage /\ chain'[r].nxt = NoMessage /\ chain'[r].todo = << >>
                      /\ chain'[r].inbox = << >> /\ chain'[r].xfer = NoXfer
                      /\ chain'[r] \in ChainStates
    OBVIOUS
  <2>1. chain'[r] = c2(r)
    BY <1>1
  <2>2. c2(r) = [IdleChain EXCEPT !.pc = first(r), !.inbox = << >>]
    BY <1>3 DEF c2
  <2>3. c2(r) = [pc |-> first(r), cur |-> NoMessage, nxt |-> NoMessage,
                 todo |-> << >>, inbox |-> << >>, xfer |-> NoXfer]
    BY <2>2 DEF IdleChain
  <2>4. << >> \in Metas /\ << >> \in Seq(Messages) /\ first(r) \in ChainPcs
    BY <1>5 DEF Metas, ChainPcs, first
  <2> QED BY <2>1, <2>3, <2>4 DEF ChainStates
<1>9. \A r \in Ranks : /\ ipc'[r].at = 0 /\ ipc'[r].meta = << >> /\ ipc'[r].msg = << >> /\ ~ipc'[r].answered
                       /\ ipc'[r] \in IpcStates
  <2> SUFFICES ASSUME NEW r \in Ranks
               PROVE  /\ i2(r).at = 0 /\ i2(r).meta = << >> /\ i2(r).msg = << >> /\ ~i2(r).answered
                      /\ i2(r) \in IpcStates
    BY <1>1
  <2>1. << >> \in Metas
    BY <1>5 DEF Metas
  <2> QED BY <2>1, <1>3 DEF IpcStates, i2
<1>10. \A r \in Ranks : worker'[r] = w2
  BY <1>1
<1>11. /\ agent' = [a \in Agents |-> agent'[a]] /\ chain' = [r \in Ranks |-> chain'[r]]
       /\ ipc' = [r \in Ranks |-> ipc'[r]] /\ worker' = [r \in Ranks |-> worker'[r]]
  BY <1>1
<1>12. /\ master'.pc = "fill" /\ master'.next = 1 /\ master'.at = 0 /\ master'.meta = << >>
       /\ master' \in MasterStates
  <2>1. << >> \in Metas
    BY <1>5 DEF Metas
  <2>2. master' = [pc |-> "fill", next |-> 1, at |-> 0, meta |-> << >>]
    BY <1>1
  <2> QED BY <2>1, <2>2 DEF MasterStates
<1>13. open' = open /\ model' = model /\ label' = label
  BY <1>1
<1> HIDE DEF c2, x2, i2, u
<1>14. TypeInv'
  <2>1. agent'[0] \in AgentStates(Copies) /\ \A r \in Ranks : agent'[r] \in AgentStates(Moves)
    <3>1. 0 \in Agents /\ \A r \in Ranks : r \in Agents /\ r # 0
      BY <1>2
    <3> QED BY <3>1, <1>7
  <2>2. chain' \in [Ranks -> ChainStates] /\ ipc' \in [Ranks -> IpcStates]
    BY <1>8, <1>9, <1>11
  <2>3. worker' \in [Ranks -> WorkerStates]
    BY <1>1 DEF WorkerStates
  <2> QED BY <2>1, <2>2, <2>3, <1>4, <1>11, <1>12, <1>13 DEF IInv, TypeInv
<1>15. RanksOK'
  <2> SUFFICES ASSUME NEW r \in Ranks
               PROVE  RankOK(chain'[r], agent'[r], ipc'[r], worker'[r], manager'.round)
    BY DEF RanksOK
  <2> DEFINE c == chain'[r]  x == agent'[r]  i == ipc'[r]  w == worker'[r]
  <2>1. /\ c.pc \in {"call", "setup"} /\ c.cur = NoMessage /\ c.todo = << >> /\ c.xfer = NoXfer
        /\ x.op = 0 /\ x.pend = << >>
        /\ i.at = 0 /\ i.meta = << >> /\ i.msg = << >> /\ ~i.answered
        /\ w.pc = "idle" /\ w.clones = {}
    <3>1. r \in Agents
      BY <1>2
    <3> QED BY <3>1, <1>7, <1>8, <1>9, <1>10 DEF first
  <2> HIDE DEF c, x, i, w
  <2>2. ~c.xfer.on /\ ~c.cur.last
    BY <2>1 DEF NoXfer, NoMessage
  <2>3. XferOK(c, x, manager'.round) /\ BucketOK(c, x, manager'.round)
    BY <2>1, <2>2 DEF XferOK, BucketOK, Sending, Opening
  <2>4. DeviceOK(c, x, i) /\ SharedOK(c, x, i, manager'.round)
    BY <2>1, <1>6 DEF DeviceOK, SharedOK, Apart, Before
  <2>5. HandOK(c, i, w, manager'.round)
    BY <2>1 DEF HandOK
  <2> QED BY <2>3, <2>4, <2>5 DEF RankOK, c, x, i, w
<1>16. LinksOK'
  <2> SUFFICES ASSUME NEW r \in Ranks
               PROVE  LinkOK(agent'[r - 1], SendSide(r - 1)', chain'[r], manager'.round)
    BY DEF LinksOK
  <2>1. r - 1 \in Agents
    BY <1>2
  <2>2. ~chain'[r].xfer.on
    BY <1>8 DEF NoXfer
  <2> QED BY <2>1, <2>2, <1>7, <1>8 DEF LinkOK, Reading
<1>17. LastAgent'
  BY <1>2, <1>7 DEF LastAgent
<1>18. MasterOK'
  <2>1. 0 \in Agents
    BY <1>2
  <2>2. agent'[0].pend = << >>
    BY <2>1, <1>7
  <2> QED BY <2>2, <1>6, <1>12 DEF MasterOK, MasterGood, Apart, Before
<1>19. LastInv'
  <2> SUFFICES ASSUME NEW q \in Ranks
               PROVE  /\ SeesLast(chain'[q]) => \A a \in 0..(q - 1) : Posted(a)'
                      /\ HasLast(chain'[q]) => chain'[q].inbox = << >>
    BY DEF LastInv
  <2>1. ~chain'[q].cur.last /\ ~chain'[q].xfer.on /\ ToSet(chain'[q].inbox) = {}
    BY <1>6, <1>8 DEF NoXfer, NoMessage
  <2> QED BY <2>1 DEF SeesLast, HasLast
<1>20. Coverage'
  <2> SUFFICES ASSUME NEW r \in Ranks, NEW t \in Tensors PROVE Covered(r, t)'
    BY DEF Coverage
  <2>1. t \in Local(0)'
    BY <1>2, <1>12 DEF Local, Unsent
  <2>2. 0 \in 0..r
    BY <1>2
  <2> QED BY <2>1, <2>2 DEF Covered
<1>21. ClosedLast'
  BY <1>8 DEF ClosedLast, Closed, first
<1>22. LeaderInv'
  <2>1. \A p : \A q \in MembersOf(p) : q \in Ranks
    BY DEF MembersOf
  <2> QED BY <2>1, <1>8, <1>10 DEF LeaderInv, first
<1>23. ManagerInv'
  BY <1>1, <1>4, <1>13 DEF ManagerInv, u
<1> QED BY <1>14, <1>15, <1>16, <1>17, <1>18, <1>19, <1>20, <1>21, <1>22, <1>23 DEF IInv
-----------------------------------------------------------------------------
(* The invariant holds                                                     *)

\* An agent that has done nothing.
LEMMA IdleAgents ==
  ASSUME NEW S
  PROVE  /\ FreshAgent \in AgentStates(S)
         /\ FreshAgent.op = 0 /\ FreshAgent.notes = << >> /\ FreshAgent.pend = << >>
<1>1. Nothing \in Values
  BY DEF Nothing, Values
<1>2. Blank \in Buckets
  BY <1>1 DEF Blank, Buckets
<1>3. << >> \in Seq(S) /\ << >> \in Seq(Nat)
  OBVIOUS
<1> QED BY <1>2, <1>3 DEF FreshAgent, AgentStates, Sides

\* The invariant holds initially.
LEMMA InitHolds == Init => IInv
<1> SUFFICES ASSUME Init PROVE IInv
  OBVIOUS
<1> USE DEF Init
<1>1. /\ Ranks = 1..NumRanks /\ Agents = 0..NumRanks /\ NumRanks \in Nat /\ MaxUpdates \in Nat
      /\ 0 \in Agents /\ NumRanks \in Agents
  BY Constants
<1>2. \A S : << >> \in Seq(S)
  OBVIOUS
<1>3. ToSet(<< >>) = {}
  BY OneFacts
<1>4. Blank \in Buckets
  <2>1. Nothing \in Values
    BY DEF Nothing, Values
  <2> QED BY <2>1 DEF Blank, Buckets
<1>5. /\ manager.pc = "idle" /\ manager.round = 0 /\ manager \in ManagerStates
      /\ open = ReplicaNames
  BY <1>1 DEF ManagerStates
<1>6. \A a \in Agents : agent[a] = FreshAgent
  OBVIOUS
<1>7. \A r \in Ranks :
        /\ chain[r].pc = "done" /\ chain[r].cur = NoMessage /\ chain[r].nxt = NoMessage /\ chain[r].todo = << >>
        /\ chain[r].inbox = << >> /\ chain[r].xfer = NoXfer
        /\ ipc[r].meta = << >> /\ ipc[r].msg = << >> /\ ~ipc[r].answered /\ ipc[r].at = 0
        /\ worker[r].pc = "done" /\ worker[r].clones = {}
  BY DEF IdleChain
<1>8. master.pc = "done" /\ master.meta = << >> /\ master \in MasterStates
  BY <1>2 DEF MasterStates, Metas
<1>9. (\A r \in Ranks, t \in Tensors : model[r][t] = 0) /\ \A p \in ReplicaNames : label[p] = 0
  OBVIOUS
<1>10. TypeInv
  <2>1. agent[0] \in AgentStates(Copies) /\ \A r \in Ranks : agent[r] \in AgentStates(Moves)
    BY <1>1, <1>6, IdleAgents
  <2>2. agent = [a \in Agents |-> agent[a]]
    OBVIOUS
  <2>3. IdleChain \in ChainStates
    <3>1. << >> \in Metas /\ << >> \in Seq(Messages)
      BY <1>2 DEF Metas
    <3> QED BY <3>1 DEF IdleChain, ChainStates, ChainPcs
  <2>4. chain \in [Ranks -> ChainStates]
    BY <2>3
  <2>5. ipc \in [Ranks -> IpcStates]
    BY <1>2, <1>4 DEF IpcStates, Metas
  <2>6. worker \in [Ranks -> WorkerStates]
    BY DEF WorkerStates
  <2>7. model \in [Ranks -> [Tensors -> Nat]] /\ label \in [ReplicaNames -> Nat]
    OBVIOUS
  <2> HIDE DEF Init
  <2> QED BY <2>1, <2>2, <2>4, <2>5, <2>6, <2>7, <1>5, <1>8 DEF TypeInv
<1> HIDE DEF Init
<1>11. RanksOK
  <2> SUFFICES ASSUME NEW r \in Ranks PROVE RankOK(chain[r], agent[r], ipc[r], worker[r], manager.round)
    BY DEF RanksOK
  <2> DEFINE c == chain[r]  x == agent[r]  i == ipc[r]  w == worker[r]
  <2>1. /\ c.pc = "done" /\ c.cur = NoMessage /\ c.todo = << >> /\ c.xfer = NoXfer
        /\ x.op = 0 /\ x.pend = << >>
        /\ i.meta = << >> /\ i.msg = << >> /\ ~i.answered
        /\ w.pc = "done" /\ w.clones = {}
    BY <1>1, <1>6, <1>7, IdleAgents
  <2> HIDE DEF c, x, i, w
  <2>2. ~c.xfer.on /\ ~c.cur.last
    BY <2>1 DEF NoXfer, NoMessage
  <2>3. XferOK(c, x, manager.round) /\ BucketOK(c, x, manager.round)
    BY <2>1, <2>2 DEF XferOK, BucketOK, Sending, Opening
  <2>4. DeviceOK(c, x, i) /\ SharedOK(c, x, i, manager.round)
    BY <2>1, <1>3 DEF DeviceOK, SharedOK, Apart, Before
  <2>5. HandOK(c, i, w, manager.round)
    BY <2>1 DEF HandOK
  <2> QED BY <2>3, <2>4, <2>5 DEF RankOK, c, x, i, w
<1>12. LinksOK
  <2> SUFFICES ASSUME NEW r \in Ranks
               PROVE  LinkOK(agent[r - 1], SendSide(r - 1), chain[r], manager.round)
    BY DEF LinksOK
  <2>1. r - 1 \in Agents
    BY <1>1
  <2>2. ~chain[r].xfer.on
    BY <1>7 DEF NoXfer
  <2> QED BY <2>1, <2>2, <1>6, <1>7, IdleAgents DEF LinkOK, Reading
<1>13. LastAgent
  BY <1>1, <1>6, IdleAgents DEF LastAgent
<1>14. MasterOK
  BY <1>1, <1>6, <1>8, IdleAgents DEF MasterOK, MasterGood
<1>15. LastInv
  <2> SUFFICES ASSUME NEW q \in Ranks
               PROVE  ~SeesLast(chain[q]) /\ chain[q].inbox = << >>
    BY DEF LastInv
  <2>1. ~chain[q].cur.last /\ ~chain[q].xfer.on /\ ToSet(chain[q].inbox) = {}
    BY <1>3, <1>7 DEF NoXfer, NoMessage
  <2> QED BY <2>1, <1>7 DEF SeesLast, HasLast
<1>16. Coverage /\ ClosedLast
  BY <1>5 DEF Coverage, ClosedLast
<1>17. LeaderInv
  BY <1>5, <1>7 DEF LeaderInv
<1>18. ManagerInv
  BY <1>5, <1>7, <1>8, <1>9 DEF ManagerInv
<1> QED BY <1>10, <1>11, <1>12, <1>13, <1>14, <1>15, <1>16, <1>17, <1>18 DEF IInv

\* Every step of a rank keeps the invariant.
LEMMA KeepsRankStep == ASSUME IInv, NEW r \in Ranks, RankStep(r) PROVE IInv'
<1>1. CASE CallWorkers(r)
  BY <1>1, KeepsCallWorkers
<1>2. CASE Attach(r)
  BY <1>2, KeepsAttach
<1>3. CASE ReadFirst(r)
  BY <1>3, KeepsBeginRead
<1>4. CASE FirstRead(r)
  BY <1>4, KeepsAdvance
<1>5. CASE AnnounceBucket(r)
  BY <1>5, KeepsAnnounceBucket
<1>6. CASE ReadNext(r)
  BY <1>6, KeepsBeginRead
<1>7. CASE Yield(r)
  BY <1>7, KeepsYield
<1>8. CASE HandOver(r)
  BY <1>8, KeepsHandOver
<1>9. CASE Answered(r)
  BY <1>9, KeepsAnswered
<1>10. CASE Turn(r)
  BY <1>10, KeepsAdvance
<1>11. CASE HandOverLast(r)
  BY <1>11, KeepsHandOverLast
<1>12. CASE AnsweredLast(r)
  BY <1>12, KeepsAnsweredLast
<1>13. CASE SetGlobalSteps(r)
  BY <1>13, KeepsSetGlobalSteps
<1> QED BY <1>1, <1>2, <1>3, <1>4, <1>5, <1>6, <1>7, <1>8, <1>9, <1>10, <1>11, <1>12, <1>13 DEF RankStep

\* Every step keeps the invariant.
LEMMA StepHolds == IInv /\ [Next]_vars => IInv'
<1> SUFFICES ASSUME IInv, [Next]_vars PROVE IInv'
  OBVIOUS
<1>1. CASE StartUpdate
  BY <1>1, KeepsStartUpdate
<1>2. ASSUME NEW p \in ReplicaNames, AbortFails(p) \/ AbortRequests(p) PROVE IInv'
  BY <1>2, KeepsAbortRequests
<1>3. ASSUME NEW p \in ReplicaNames, ResumeGeneration(p) PROVE IInv'
  BY <1>3, KeepsResumeGeneration
<1>4. CASE Connect
  BY <1>4, KeepsConnect
<1>5. CASE Finalize
  BY <1>5, KeepsFinalize
<1>6. CASE Fill
  BY <1>6, KeepsFill
<1>7. CASE Flush \/ FlushLast
  BY <1>7, KeepsFlush
<1>8. CASE SendDone
  BY <1>8, KeepsSendDone
<1>9. ASSUME NEW a \in Agents, DeviceCopy(a) PROVE IInv'
  <2>1. a = 0 \/ a \in Ranks
    BY Constants
  <2>2. CASE a = 0
    BY <2>2, <1>9, KeepsTrainerCopy
  <2> QED BY <2>1, <2>2, <1>9, KeepsDeviceCopy
<1>10. ASSUME NEW r \in Ranks, RankStep(r) PROVE IInv'
  BY <1>10, KeepsRankStep
<1>11. ASSUME NEW r \in Ranks, ReadBucket(r) PROVE IInv'
  BY <1>11, KeepsReadBucket
<1>12. ASSUME NEW r \in Ranks, CloneBucket(r) PROVE IInv'
  BY <1>12, KeepsCloneBucket
<1>13. ASSUME NEW r \in Ranks, LoadWeights(r) PROVE IInv'
  BY <1>13, KeepsLoadWeights
<1>14. CASE UNCHANGED vars
  <2>1. UNCHANGED <<manager, open, agent, master, chain, ipc, worker, model, label>>
    BY <1>14 DEF vars
  <2>2. TypeInv' /\ ManagerInv'
    BY <2>1 DEF IInv, TypeInv, ManagerInv
  <2>3. RanksOK' /\ LinksOK' /\ LastAgent' /\ MasterOK'
    BY <2>1 DEF IInv, RanksOK, LinksOK, SendSide, LastAgent, MasterOK
  <2>4. LastInv' /\ ClosedLast' /\ LeaderInv'
    BY <2>1 DEF IInv, LastInv, Posted, ClosedLast, LeaderInv
  <2>5. Coverage'
    BY <2>1 DEF IInv, Coverage, Covered, Local
  <2> QED BY <2>2, <2>3, <2>4, <2>5 DEF IInv
<1> QED BY <1>1, <1>2, <1>3, <1>4, <1>5, <1>6, <1>7, <1>8, <1>9, <1>10, <1>11, <1>12, <1>13, <1>14
        DEF Next, Progress

\* Reads, copies and answers never tear a tensor and never lose one, for any chain of
\* ranks, replicas, sizes and number of pushes (send_weights, receive_weights,
\* update_weights of the nixl engine and of the worker).
THEOREM TransferInvariant == Spec => []IInv
<1>1. Init => IInv
  BY InitHolds
<1>2. IInv /\ [Next]_vars => IInv'
  BY StepHolds
<1> QED BY <1>1, <1>2, PTL DEF Spec
-----------------------------------------------------------------------------
(* The transfer implements WeightDelivery                                  *)

\* The replicas of WeightDelivery are the sets of their workers.
Groups(P) == {MembersOf(p) : p \in P}

\* The version a replica reports, by the set of its workers.
Labels == [S \in Groups(ReplicaNames) |-> label[CHOOSE p \in ReplicaNames : S = MembersOf(p)]]

\* Different replicas have different workers.
LEMMA MembersDistinct ==
  ASSUME NEW p \in ReplicaNames, NEW q \in ReplicaNames, MembersOf(p) = MembersOf(q)
  PROVE  p = q
<1>1. PICK r \in Ranks : ReplicaOf[r] = p
  BY DEF ReplicaNames
<1>2. r \in MembersOf(q)
  BY <1>1 DEF MembersOf
<1> QED BY <1>1, <1>2 DEF MembersOf

\* Sets of replicas and sets of their groups of workers correspond.
LEMMA GroupFacts ==
  ASSUME NEW P \in SUBSET ReplicaNames, NEW p \in ReplicaNames
  PROVE  /\ MembersOf(p) \in Groups(ReplicaNames)
         /\ MembersOf(p) \in Groups(P) <=> p \in P
         /\ Groups(P \ {p}) = Groups(P) \ {MembersOf(p)}
         /\ Groups(P \cup {p}) = Groups(P) \cup {MembersOf(p)}
         /\ (CHOOSE q \in ReplicaNames : MembersOf(p) = MembersOf(q)) = p
<1>1. MembersOf(p) \in Groups(ReplicaNames)
  BY DEF Groups
<1>2. \A q \in P : MembersOf(q) = MembersOf(p) => q = p
  BY MembersDistinct
<1>3. MembersOf(p) \in Groups(P) <=> p \in P
  BY <1>2 DEF Groups
<1>4. Groups(P \ {p}) = Groups(P) \ {MembersOf(p)}
  BY <1>2 DEF Groups
<1>5. Groups(P \cup {p}) = Groups(P) \cup {MembersOf(p)}
  BY DEF Groups
<1>6. (CHOOSE q \in ReplicaNames : MembersOf(p) = MembersOf(q)) = p
  BY MembersDistinct
<1> QED BY <1>1, <1>3, <1>4, <1>5, <1>6

\* A group has the label of its replica.
LEMMA LabelOfGroup == ASSUME NEW p \in ReplicaNames PROVE Labels[MembersOf(p)] = label[p]
<1>1. MembersOf(p) \in Groups(ReplicaNames) /\ (CHOOSE q \in ReplicaNames : MembersOf(p) = MembersOf(q)) = p
  BY GroupFacts
<1> QED BY <1>1 DEF Labels

\* What is loaded at first is what WeightDelivery starts from.
LEMMA MapsInit == Init => Delivery!Init
<1> SUFFICES ASSUME Init PROVE Delivery!Init
  OBVIOUS
<1>1. Delivery!Workers = Ranks
  <2>1. \A r \in Ranks : r \in MembersOf(ReplicaOf[r]) /\ ReplicaOf[r] \in ReplicaNames
    BY DEF MembersOf, ReplicaNames
  <2> QED BY <2>1 DEF Delivery!Workers, MembersOf
<1>2. /\ manager.round = 0 /\ open = ReplicaNames /\ manager.failed = {}
      /\ model = [r \in Ranks |-> [t \in Tensors |-> 0]] /\ label = [p \in ReplicaNames |-> 0]
  BY DEF Init
<1>3. Labels = [S \in Groups(ReplicaNames) |-> 0]
  <2>1. \A S \in Groups(ReplicaNames) : (CHOOSE p \in ReplicaNames : S = MembersOf(p)) \in ReplicaNames
    BY DEF Groups
  <2> QED BY <1>2, <2>1 DEF Labels
<1> QED BY <1>1, <1>2, <1>3 DEF Delivery!Init, Labels, Groups

\* What does not concern the replicas, as WeightDelivery sees them.
LEMMA Stutters ==
  ASSUME manager'.round = manager.round, manager'.failed = manager.failed, UNCHANGED <<open, model, label>>
  PROVE  UNCHANGED Delivery!delivery
  BY DEF Delivery!delivery

\* A push is a new version, which all replicas may get.
LEMMA MapsStartUpdate == ASSUME IInv, StartUpdate PROVE Delivery!NewVersion
<1>1. /\ manager \in ManagerStates /\ manager.pc = "idle"
      /\ manager' = [manager EXCEPT !.pc = "abort", !.round = @ + 1, !.left = ReplicaNames, !.failed = {}]
      /\ UNCHANGED <<open, model, label>>
  BY DEF StartUpdate, IInv, TypeInv
<1>2. /\ open = ReplicaNames
      /\ \A r \in Ranks, t \in Tensors : model[r][t] = manager.round
      /\ \A p \in ReplicaNames : label[p] = manager.round
  BY <1>1 DEF IInv, ManagerInv
<1>3. manager'.round = manager.round + 1 /\ manager'.failed = {}
  BY <1>1 DEF ManagerStates
<1>4. \A S \in Groups(ReplicaNames) : Delivery!AllHave(S, manager.round) /\ Labels[S] = manager.round
  <2> SUFFICES ASSUME NEW p \in ReplicaNames
               PROVE  Delivery!AllHave(MembersOf(p), manager.round) /\ Labels[MembersOf(p)] = manager.round
    BY DEF Groups
  <2> QED BY <1>2, LabelOfGroup DEF Delivery!AllHave, MembersOf
<1> QED BY <1>1, <1>2, <1>3, <1>4 DEF Delivery!NewVersion, Labels, Groups

\* An abort pauses a replica, or excuses it.
LEMMA MapsAbort ==
  ASSUME IInv, NEW p \in ReplicaNames
  PROVE  /\ AbortRequests(p) => Delivery!Pause(MembersOf(p))
         /\ AbortFails(p) => Delivery!PauseFails(MembersOf(p))
<1>1. manager \in ManagerStates /\ open \in SUBSET ReplicaNames /\ manager.failed \in SUBSET ReplicaNames
  BY DEF IInv, TypeInv, ManagerStates
<1>2. /\ Groups(open \ {p}) = Groups(open) \ {MembersOf(p)}
      /\ Groups(manager.failed \cup {p}) = Groups(manager.failed) \cup {MembersOf(p)}
  BY <1>1, GroupFacts
<1>3. ASSUME AbortRequests(p) PROVE Delivery!Pause(MembersOf(p))
  <2>1. /\ manager' = [manager EXCEPT !.left = @ \ {p}] /\ open' = open \ {p}
        /\ model' = model /\ label' = label
    BY <1>3 DEF AbortRequests
  <2>2. manager'.round = manager.round /\ manager'.failed = manager.failed
    BY <2>1, <1>1 DEF ManagerStates
  <2> QED BY <2>1, <2>2, <1>2 DEF Delivery!Pause, Groups
<1>4. ASSUME AbortFails(p) PROVE Delivery!PauseFails(MembersOf(p))
  <2>1. /\ manager' = [manager EXCEPT !.left = @ \ {p}, !.failed = @ \cup {p}, !.failures = @ + 1]
        /\ open' = open /\ model' = model /\ label' = label
    BY <1>4 DEF AbortFails
  <2>2. manager'.round = manager.round /\ manager'.failed = manager.failed \cup {p}
    BY <2>1, <1>1 DEF ManagerStates
  <2> QED BY <2>1, <2>2, <1>2 DEF Delivery!PauseFails, Groups
<1> QED BY <1>3, <1>4

\* A replica serves again when it has the version it reports.
LEMMA MapsResume == ASSUME IInv, NEW p \in ReplicaNames, ResumeGeneration(p) PROVE Delivery!Reopen(MembersOf(p))
<1>1. /\ manager \in ManagerStates /\ open \in SUBSET ReplicaNames /\ manager.pc = "resume"
      /\ open' = open \cup {p} /\ model' = model /\ label' = label
      /\ manager' = [manager EXCEPT !.left = @ \ {p}, !.pc = IF manager.left = {p} THEN "idle" ELSE @]
  BY DEF ResumeGeneration, IInv, TypeInv
<1>2. manager'.round = manager.round /\ manager'.failed = manager.failed
  BY <1>1 DEF ManagerStates
<1>3. Groups(open \cup {p}) = Groups(open) \cup {MembersOf(p)}
  BY <1>1, GroupFacts
<1>4. Delivery!AllHave(MembersOf(p), manager.round)
  BY <1>1 DEF IInv, ManagerInv, Delivery!AllHave, MembersOf
<1>5. Labels[MembersOf(p)] = manager.round
  BY <1>1, LabelOfGroup DEF IInv, ManagerInv
<1> QED BY <1>1, <1>2, <1>3, <1>4, <1>5 DEF Delivery!Reopen, Groups, Labels

\* A version is reported when all workers have it.
LEMMA MapsSetGlobalSteps ==
  ASSUME IInv, NEW r \in Ranks, SetGlobalSteps(r)
  PROVE  Delivery!Report(MembersOf(ReplicaOf[r]))
<1> DEFINE p == ReplicaOf[r]
<1>1. /\ chain[r].pc = "await" /\ \A q \in MembersOf(p) : worker[q].pc = "done"
      /\ label' = [label EXCEPT ![p] = manager.round]
      /\ manager' = manager /\ open' = open /\ model' = model
      /\ label \in [ReplicaNames -> Nat]
  BY DEF SetGlobalSteps, IInv, TypeInv
<1>2. p \in ReplicaNames /\ MembersOf(p) \subseteq Ranks
  BY DEF ReplicaNames, MembersOf
<1>3. manager.pc = "transfer"
  BY <1>1, RankFacts
<1>4. Delivery!AllHave(MembersOf(p), manager.round)
  BY <1>1, <1>2, <1>3, DoneHasLoaded DEF Delivery!AllHave
<1> HIDE DEF p
<1>5. Labels' = [Labels EXCEPT ![MembersOf(p)] = manager.round]
  <2>1. \A S \in Groups(ReplicaNames) : \E q \in ReplicaNames : S = MembersOf(q)
    BY DEF Groups
  <2> DEFINE f == [Labels EXCEPT ![MembersOf(p)] = manager.round]
  <2>2. Labels' = [S \in Groups(ReplicaNames) |-> label'[CHOOSE q \in ReplicaNames : S = MembersOf(q)]]
    BY DEF Labels
  <2>3. f = [S \in Groups(ReplicaNames) |-> f[S]]
    <3> DEFINE L == Labels  G == Groups(ReplicaNames)
    <3>1. L = [S \in G |-> L[S]]
      BY DEF Labels
    <3> HIDE DEF L, G
    <3>2. f = [L EXCEPT ![MembersOf(p)] = manager.round]
      BY DEF L
    <3> HIDE DEF f
    <3>3. f = [S \in G |-> f[S]]
      BY <3>1, <3>2
    <3> QED BY <3>3 DEF G
  <2>4. ASSUME NEW q \in ReplicaNames
        PROVE  label'[CHOOSE z \in ReplicaNames : MembersOf(q) = MembersOf(z)] = f[MembersOf(q)]
    <3>1. (CHOOSE z \in ReplicaNames : MembersOf(q) = MembersOf(z)) = q /\ MembersOf(q) \in Groups(ReplicaNames)
      BY GroupFacts
    <3>2. label'[q] = IF q = p THEN manager.round ELSE label[q]
      BY <1>1, <1>2
    <3>3. f[MembersOf(q)] = IF MembersOf(q) = MembersOf(p) THEN manager.round ELSE Labels[MembersOf(q)]
      BY <3>1 DEF Labels
    <3>4. MembersOf(q) = MembersOf(p) <=> q = p
      BY <1>2, MembersDistinct
    <3> HIDE DEF f
    <3> QED BY <3>1, <3>2, <3>3, <3>4, LabelOfGroup
  <2> HIDE DEF f
  <2>5. \A S \in Groups(ReplicaNames) : label'[CHOOSE z \in ReplicaNames : S = MembersOf(z)] = f[S]
    BY <2>1, <2>4
  <2>6. Labels' = f
    BY <2>2, <2>3, <2>5
  <2> QED BY <2>6 DEF f
<1> QED BY <1>1, <1>4, <1>5 DEF Delivery!Report, Groups, Labels, p

\* A worker is loaded while its replica does not serve, or is excused.
LEMMA MapsLoadWeights ==
  ASSUME IInv, NEW r \in Ranks, LoadWeights(r)
  PROVE  LET S == {t \in Tensors : \E k \in worker[r].clones : k[1] = t}
         IN  Delivery!Load(MembersOf(ReplicaOf[r]), r, S)
<1> DEFINE p == ReplicaOf[r]  K == worker[r].clones  v == manager.round
           S == {t \in Tensors : \E k \in K : k[1] = t}
<1>1. /\ worker[r].pc = "load"
      /\ model' = [model EXCEPT ![r] = [t \in Tensors |->
                     IF \E k \in K : k[1] = t THEN (CHOOSE k \in K : k[1] = t)[2] ELSE @[t]]]
      /\ manager' = manager /\ open' = open /\ label' = label
      /\ open \in SUBSET ReplicaNames /\ manager.failed \in SUBSET ReplicaNames
      /\ model \in [Ranks -> [Tensors -> Nat]]
  BY DEF LoadWeights, IInv, TypeInv, ManagerStates
<1>2. p \in ReplicaNames
  BY DEF ReplicaNames
<1>3. manager.pc = "transfer" /\ \A k \in K : k[2] = v
  BY <1>1, RankFacts DEF RankOK, HandOK
<1>4. p \notin open \/ p \in manager.failed
  BY <1>2, <1>3 DEF IInv, ManagerInv
<1>5. MembersOf(p) \notin Groups(open) \/ MembersOf(p) \in Groups(manager.failed)
  BY <1>1, <1>2, <1>4, GroupFacts
<1> HIDE DEF p, K, v
<1>6. \A t \in Tensors : (IF \E k \in K : k[1] = t THEN (CHOOSE k \in K : k[1] = t)[2] ELSE model[r][t])
                           = IF t \in S THEN v ELSE model[r][t]
  BY <1>3
<1>7. model' = [model EXCEPT ![r] = [t \in Tensors |-> IF t \in S THEN v ELSE model[r][t]]]
  BY <1>1, <1>6
<1> HIDE DEF S
<1>8. Delivery!Load(MembersOf(p), r, S)
  <2>1. MembersOf(p) \notin {MembersOf(q) : q \in open} \/ MembersOf(p) \in {MembersOf(q) : q \in manager.failed}
    BY <1>5 DEF Groups
  <2>2. Delivery!Load(MembersOf(p), r, S) <=>
          /\ MembersOf(p) \notin {MembersOf(q) : q \in open} \/ MembersOf(p) \in {MembersOf(q) : q \in manager.failed}
          /\ model' = [model EXCEPT ![r] = [t \in Tensors |-> IF t \in S THEN v ELSE model[r][t]]]
          /\ manager'.round = manager.round /\ Labels' = Labels
          /\ Groups(open)' = Groups(open) /\ Groups(manager.failed)' = Groups(manager.failed)
    BY DEF Delivery!Load, Groups, Labels, v
  <2>3. Labels' = Labels /\ Groups(open)' = Groups(open) /\ Groups(manager.failed)' = Groups(manager.failed)
    BY <1>1 DEF Labels, Groups
  <2> QED BY <1>1, <1>7, <2>1, <2>2, <2>3
<1> QED BY <1>8 DEF S, K, p

\* What a rank does between the report of one version and the next is not seen.
LEMMA HiddenRankSteps ==
  ASSUME NEW r \in Ranks, RankStep(r) \/ ReadBucket(r) \/ CloneBucket(r), ~SetGlobalSteps(r)
  PROVE  UNCHANGED <<manager, open, model, label>>
<1>1. CASE RankStep(r)
  BY <1>1 DEF RankStep, CallWorkers, Attach, ReadFirst, FirstRead, AnnounceBucket, ReadNext, Yield,
              HandOver, Answered, Turn, HandOverLast, AnsweredLast
<1>2. CASE ReadBucket(r)
  BY <1>2 DEF ReadBucket
<1>3. CASE CloneBucket(r)
  BY <1>3 DEF CloneBucket
<1> QED BY <1>1, <1>2, <1>3

\* Every step is one of WeightDelivery's, or is not seen by it.
LEMMA StepMaps == IInv /\ [Next]_vars => [Delivery!Next]_(Delivery!delivery)
<1> SUFFICES ASSUME IInv, [Next]_vars PROVE Delivery!Next \/ UNCHANGED Delivery!delivery
  OBVIOUS
<1>1. \A p \in ReplicaNames : MembersOf(p) \in {MembersOf(q) : q \in ReplicaNames}
  OBVIOUS
<1>2. CASE StartUpdate
  BY <1>2, MapsStartUpdate DEF Delivery!Next
<1>3. ASSUME NEW p \in ReplicaNames, AbortRequests(p) PROVE Delivery!Next
  BY <1>1, <1>3, MapsAbort DEF Delivery!Next
<1>4. ASSUME NEW p \in ReplicaNames, AbortFails(p) PROVE Delivery!Next
  BY <1>1, <1>4, MapsAbort DEF Delivery!Next
<1>5. ASSUME NEW p \in ReplicaNames, ResumeGeneration(p) PROVE Delivery!Next
  BY <1>1, <1>5, MapsResume DEF Delivery!Next
<1>6. ASSUME NEW r \in Ranks, SetGlobalSteps(r) PROVE Delivery!Next
  <2>1. ReplicaOf[r] \in ReplicaNames
    BY DEF ReplicaNames
  <2> QED BY <1>1, <1>6, <2>1, MapsSetGlobalSteps DEF Delivery!Next
<1>7. ASSUME NEW r \in Ranks, LoadWeights(r) PROVE Delivery!Next
  <2> DEFINE p == MembersOf(ReplicaOf[r])
             S == {t \in Tensors : \E k \in worker[r].clones : k[1] = t}
  <2>1. ReplicaOf[r] \in ReplicaNames /\ r \in p
    BY DEF ReplicaNames, MembersOf
  <2>2. Delivery!Load(p, r, S) /\ S \in SUBSET Tensors
    BY <1>7, MapsLoadWeights
  <2>3. p \in {MembersOf(q) : q \in ReplicaNames}
    BY <1>1, <2>1
  <2> HIDE DEF p, S
  <2>4. \E w \in p, Z \in SUBSET Tensors : Delivery!Load(p, w, Z)
    BY <2>1, <2>2
  <2> QED BY <2>3, <2>4 DEF Delivery!Next
<1>8. CASE Connect \/ Finalize
  <2>1. manager \in ManagerStates
    BY DEF IInv, TypeInv
  <2>2. /\ manager' = [manager EXCEPT !.pc = "transfer"]
           \/ manager' = [manager EXCEPT !.pc = "resume", !.left = ReplicaNames]
        /\ UNCHANGED <<open, model, label>>
    BY <1>8 DEF Connect, Finalize
  <2>3. manager'.round = manager.round /\ manager'.failed = manager.failed
    BY <2>1, <2>2 DEF ManagerStates
  <2> QED BY <2>2, <2>3, Stutters
<1>9. CASE Fill \/ Flush \/ FlushLast \/ SendDone
  BY <1>9, Stutters DEF Fill, Flush, FlushLast, SendDone
<1>10. ASSUME NEW a \in Agents, DeviceCopy(a) PROVE UNCHANGED Delivery!delivery
  BY <1>10, Stutters DEF DeviceCopy
<1>11. ASSUME NEW r \in Ranks, RankStep(r) \/ ReadBucket(r) \/ CloneBucket(r), ~SetGlobalSteps(r)
       PROVE  UNCHANGED Delivery!delivery
  BY <1>11, HiddenRankSteps, Stutters
<1>12. CASE UNCHANGED vars
  BY <1>12, Stutters DEF vars
<1> QED BY <1>2, <1>3, <1>4, <1>5, <1>6, <1>7, <1>8, <1>9, <1>10, <1>11, <1>12 DEF Next, Progress

\* The transfer keeps what WeightDelivery promises.
THEOREM DeliveryIsImplemented == Spec => ImplementsDelivery
<1>1. Init => Delivery!Init
  BY MapsInit
<1>2. IInv /\ [Next]_vars => [Delivery!Next]_(Delivery!delivery)
  BY StepMaps
<1> QED BY <1>1, <1>2, TransferInvariant, PTL DEF Spec, ImplementsDelivery, Delivery!Spec

-----------------------------------------------------------------------------
(* What WeightDelivery promises, and what follows from it                  *)

\* The variables of WeightDelivery, as the transfer has them.
Replicas == Groups(ReplicaNames)
Loaded(m, S, v) == \A w \in S, t \in Tensors : m[w][t] = v
Opened == Groups(open)
Excused == Groups(manager.failed)
Latest == manager.round

\* What WeightDelivery says of the transfer, with its variables named.
LEMMA DeliveryState ==
  /\ Delivery!TypeOK <=>
       /\ Latest \in Nat /\ model \in [UNION Replicas -> [Tensors -> Nat]]
       /\ Labels \in [Replicas -> Nat] /\ Opened \subseteq Replicas /\ Excused \subseteq Replicas
  /\ Delivery!ServesOneVersion <=> \A S \in Opened \ Excused : Loaded(model, S, Labels[S])
  /\ Delivery!Init <=>
       /\ Latest = 0 /\ model = [w \in UNION Replicas |-> [t \in Tensors |-> 0]]
       /\ Labels = [S \in Replicas |-> 0] /\ Opened = Replicas /\ Excused = {}
BY DEF Delivery!TypeOK, Delivery!ServesOneVersion, Delivery!AllHave, Delivery!Init, Delivery!Workers,
       Replicas, Loaded, Opened, Excused, Latest, Labels, Groups

\* The steps about one replica: paused or not, reported, served again, loaded.
ReplicaStep(S) ==
  /\ Latest' = Latest
  /\ \/ /\ Opened' = Opened \ {S}
        /\ Excused' = Excused /\ model' = model /\ Labels' = Labels
     \/ /\ Excused' = Excused \cup {S}
        /\ Opened' = Opened /\ model' = model /\ Labels' = Labels
     \/ /\ Loaded(model, S, Latest) /\ Labels' = [Labels EXCEPT ![S] = Latest]
        /\ Opened' = Opened /\ Excused' = Excused /\ model' = model
     \/ /\ Loaded(model, S, Latest) /\ Labels[S] = Latest /\ Opened' = Opened \cup {S}
        /\ Excused' = Excused /\ model' = model /\ Labels' = Labels
     \/ /\ S \notin Opened \/ S \in Excused
        /\ \E w \in S, Z \in SUBSET Tensors :
             model' = [model EXCEPT ![w] = [t \in Tensors |-> IF t \in Z THEN Latest ELSE model[w][t]]]
        /\ Opened' = Opened /\ Excused' = Excused /\ Labels' = Labels

\* Every step as one on these variables.
LEMMA DeliverySteps ==
  ASSUME [Delivery!Next]_(Delivery!delivery)
  PROVE  \/ /\ Opened = Replicas /\ (\A S \in Replicas : Loaded(model, S, Latest) /\ Labels[S] = Latest)
            /\ Latest' = Latest + 1 /\ Excused' = {} /\ model' = model /\ Labels' = Labels /\ Opened' = Opened
         \/ \E S \in Replicas : ReplicaStep(S)
         \/ Latest' = Latest /\ Opened' = Opened /\ Excused' = Excused /\ model' = model /\ Labels' = Labels
<1>1. ASSUME Delivery!NewVersion
      PROVE  /\ Opened = Replicas /\ (\A S \in Replicas : Loaded(model, S, Latest) /\ Labels[S] = Latest)
             /\ Latest' = Latest + 1 /\ Excused' = {} /\ model' = model /\ Labels' = Labels /\ Opened' = Opened
  BY <1>1 DEF Delivery!NewVersion, Delivery!AllHave, Replicas, Loaded, Opened, Excused, Latest, Labels, Groups
<1>2. ASSUME NEW S \in Replicas, Delivery!Pause(S)
      PROVE  /\ Latest' = Latest /\ Opened' = Opened \ {S}
             /\ Excused' = Excused /\ model' = model /\ Labels' = Labels
  BY <1>2 DEF Delivery!Pause, Opened, Excused, Latest, Labels, Groups
<1>3. ASSUME NEW S \in Replicas, Delivery!PauseFails(S)
      PROVE  /\ Latest' = Latest /\ Excused' = Excused \cup {S}
             /\ Opened' = Opened /\ model' = model /\ Labels' = Labels
  BY <1>3 DEF Delivery!PauseFails, Opened, Excused, Latest, Labels, Groups
<1>4. ASSUME NEW S \in Replicas, Delivery!Report(S)
      PROVE  /\ Latest' = Latest /\ Loaded(model, S, Latest) /\ Labels' = [Labels EXCEPT ![S] = Latest]
             /\ Opened' = Opened /\ Excused' = Excused /\ model' = model
  BY <1>4 DEF Delivery!Report, Delivery!AllHave, Loaded, Opened, Excused, Latest, Labels, Groups
<1>5. ASSUME NEW S \in Replicas, Delivery!Reopen(S)
      PROVE  /\ Latest' = Latest /\ Loaded(model, S, Latest) /\ Labels[S] = Latest /\ Opened' = Opened \cup {S}
             /\ Excused' = Excused /\ model' = model /\ Labels' = Labels
  BY <1>5 DEF Delivery!Reopen, Delivery!AllHave, Loaded, Opened, Excused, Latest, Labels, Groups
<1>6. ASSUME NEW S \in Replicas, NEW w \in S, NEW Z \in SUBSET Tensors, Delivery!Load(S, w, Z)
      PROVE  /\ Latest' = Latest /\ (S \notin Opened \/ S \in Excused)
             /\ model' = [model EXCEPT ![w] = [t \in Tensors |-> IF t \in Z THEN Latest ELSE model[w][t]]]
             /\ Opened' = Opened /\ Excused' = Excused /\ Labels' = Labels
  <2>1. Latest' = Latest /\ Opened' = Opened /\ Excused' = Excused /\ Labels' = Labels
    BY <1>6 DEF Delivery!Load, Opened, Excused, Latest, Labels, Groups
  <2>2. S \notin Opened \/ S \in Excused
    BY <1>6 DEF Delivery!Load, Opened, Excused, Groups
  <2>3. model' = [model EXCEPT ![w] = [t \in Tensors |-> IF t \in Z THEN Latest ELSE model[w][t]]]
    BY <1>6 DEF Delivery!Load, Latest
  <2> QED BY <2>1, <2>2, <2>3
<1>7. ASSUME UNCHANGED Delivery!delivery
      PROVE  Latest' = Latest /\ Opened' = Opened /\ Excused' = Excused /\ model' = model /\ Labels' = Labels
  BY <1>7 DEF Delivery!delivery, Opened, Excused, Latest, Labels, Groups
<1>8. {MembersOf(p) : p \in ReplicaNames} = Replicas
  BY DEF Replicas, Groups
<1>9. ASSUME Delivery!Next
      PROVE  \/ Delivery!NewVersion
             \/ \E S \in Replicas :
                  \/ Delivery!Pause(S) \/ Delivery!PauseFails(S) \/ Delivery!Report(S) \/ Delivery!Reopen(S)
                  \/ \E w \in S, Z \in SUBSET Tensors : Delivery!Load(S, w, Z)
  BY <1>8, <1>9 DEF Delivery!Next
<1> HIDE DEF Replicas, Loaded, Opened, Excused, Latest, Labels
<1>10. CASE Delivery!NewVersion
  BY <1>1, <1>10
<1>11. ASSUME NEW S \in Replicas,
              \/ Delivery!Pause(S) \/ Delivery!PauseFails(S) \/ Delivery!Report(S) \/ Delivery!Reopen(S)
              \/ \E w \in S, Z \in SUBSET Tensors : Delivery!Load(S, w, Z)
       PROVE  ReplicaStep(S)
  <2>1. CASE \E w \in S, Z \in SUBSET Tensors : Delivery!Load(S, w, Z)
    <3>1. PICK w \in S, Z \in SUBSET Tensors : Delivery!Load(S, w, Z)
      BY <2>1
    <3>2. /\ Latest' = Latest /\ (S \notin Opened \/ S \in Excused)
          /\ model' = [model EXCEPT ![w] = [t \in Tensors |-> IF t \in Z THEN Latest ELSE model[w][t]]]
          /\ Opened' = Opened /\ Excused' = Excused /\ Labels' = Labels
      BY <3>1, <1>6
    <3>3. \E u \in S, T \in SUBSET Tensors :
            model' = [model EXCEPT ![u] = [t \in Tensors |-> IF t \in T THEN Latest ELSE model[u][t]]]
      BY <3>2, Zenon
    <3> QED BY <3>2, <3>3 DEF ReplicaStep
  <2>2. CASE Delivery!Report(S)
    BY <1>4, <2>2 DEF ReplicaStep
  <2>3. CASE Delivery!Pause(S) \/ Delivery!PauseFails(S)
    BY <1>2, <1>3, <2>3 DEF ReplicaStep
  <2>4. CASE Delivery!Reopen(S)
    BY <1>5, <2>4 DEF ReplicaStep
  <2> QED BY <1>11, <2>1, <2>2, <2>3, <2>4
<1> QED BY <1>7, <1>9, <1>10, <1>11

\* No worker belongs to two replicas.
LEMMA ReplicasDisjoint ==
  ASSUME NEW S \in Replicas, NEW Z \in Replicas, NEW w \in S, w \in Z PROVE S = Z
BY DEF Replicas, Groups, MembersOf

\* What WeightDelivery has in its variables keeps its type.
THEOREM DeliveryTypes == Delivery!Spec => []Delivery!TypeOK
<1>1. Delivery!Init => Delivery!TypeOK
  BY DeliveryState
<1>2. Delivery!TypeOK /\ [Delivery!Next]_(Delivery!delivery) => Delivery!TypeOK'
  <2> SUFFICES ASSUME Delivery!TypeOK, [Delivery!Next]_(Delivery!delivery) PROVE Delivery!TypeOK'
    OBVIOUS
  <2>1. /\ Latest \in Nat /\ model \in [UNION Replicas -> [Tensors -> Nat]]
        /\ Labels \in [Replicas -> Nat] /\ Opened \subseteq Replicas /\ Excused \subseteq Replicas
    BY DeliveryState
  <2> HIDE DEF Replicas, Loaded, Opened, Excused, Latest, Labels
  <2>2. /\ Latest' \in Nat /\ model' \in [UNION Replicas -> [Tensors -> Nat]]
        /\ Labels' \in [Replicas -> Nat] /\ Opened' \subseteq Replicas /\ Excused' \subseteq Replicas
    <3>1. CASE \E S \in Replicas : ReplicaStep(S)
      <4>1. PICK S \in Replicas : ReplicaStep(S)
        BY <3>1
      <4>2. S \subseteq UNION Replicas
        OBVIOUS
      <4>3. model' \in [UNION Replicas -> [Tensors -> Nat]]
        BY <2>1, <4>1, <4>2 DEF ReplicaStep
      <4> QED BY <2>1, <4>1, <4>3 DEF ReplicaStep
    <3> QED BY <2>1, <3>1, DeliverySteps
  <2>3. Delivery!TypeOK' <=>
          /\ Latest' \in Nat /\ model' \in [UNION Replicas -> [Tensors -> Nat]]
          /\ Labels' \in [Replicas -> Nat] /\ Opened' \subseteq Replicas /\ Excused' \subseteq Replicas
    BY DEF Delivery!TypeOK, Delivery!Workers, Replicas, Opened, Excused, Latest, Labels, Groups
  <2> QED BY <2>2, <2>3
<1> QED BY <1>1, <1>2, PTL DEF Delivery!Spec

\* A replica that serves, and was paused when it had to be, has one version of
\* all its tensors on all its workers, whatever pushes keep WeightDelivery's promise.
THEOREM DeliveryServesOneVersion == Delivery!Spec => []Delivery!ServesOneVersion
<1>1. Delivery!Init => Delivery!ServesOneVersion
  BY DeliveryState DEF Loaded
<1>2. Delivery!TypeOK /\ Delivery!ServesOneVersion /\ [Delivery!Next]_(Delivery!delivery)
        => Delivery!ServesOneVersion'
  <2> SUFFICES ASSUME Delivery!TypeOK, Delivery!ServesOneVersion, [Delivery!Next]_(Delivery!delivery)
               PROVE  Delivery!ServesOneVersion'
    OBVIOUS
  <2>1. /\ model \in [UNION Replicas -> [Tensors -> Nat]]
        /\ Labels \in [Replicas -> Nat] /\ Opened \subseteq Replicas /\ Excused \subseteq Replicas
        /\ \A S \in Opened \ Excused : Loaded(model, S, Labels[S])
    BY DeliveryState
  <2>2. Delivery!ServesOneVersion' <=> \A S \in Opened' \ Excused' : Loaded(model', S, Labels'[S])
    BY DEF Delivery!ServesOneVersion, Delivery!AllHave, Loaded, Opened, Excused, Labels, Groups
  <2> HIDE DEF Replicas, Loaded, Opened, Excused, Latest, Labels
  <2>3. ASSUME NEW S \in Replicas, ReplicaStep(S), NEW Z \in Opened' \ Excused'
        PROVE  Loaded(model', Z, Labels'[Z])
    <3>1. CASE model' = model
      <4>1. Loaded(model, Z, Labels'[Z])
        BY <2>1, <2>3, <3>1 DEF ReplicaStep
      <4> QED BY <4>1, <3>1
    <3>2. CASE model' # model
      <4>1. PICK w \in S, T \in SUBSET Tensors :
              model' = [model EXCEPT ![w] = [t \in Tensors |-> IF t \in T THEN Latest ELSE model[w][t]]]
        BY <2>3, <3>2 DEF ReplicaStep
      <4>2. /\ S \notin Opened \/ S \in Excused
            /\ Opened' = Opened /\ Excused' = Excused /\ Labels' = Labels
        BY <2>3, <3>2 DEF ReplicaStep
      <4>3. Z \in Opened \ Excused /\ Z \in Replicas /\ Z # S
        BY <2>1, <2>3, <4>2
      <4>4. \A u \in Z : u # w /\ model'[u] = model[u]
        BY <2>1, <4>1, <4>3, ReplicasDisjoint
      <4>5. Loaded(model, Z, Labels[Z])
        BY <2>1, <4>3
      <4> QED BY <4>2, <4>4, <4>5 DEF Loaded
    <3> QED BY <3>1, <3>2
  <2>4. ASSUME NEW Z \in Opened' \ Excused', ~\E S \in Replicas : ReplicaStep(S)
        PROVE  Loaded(model', Z, Labels'[Z])
    <3>1. model' = model /\ Loaded(model, Z, Labels'[Z])
      BY <2>1, <2>4, DeliverySteps
    <3> QED BY <3>1
  <2> QED BY <2>2, <2>3, <2>4
<1> QED BY <1>1, <1>2, DeliveryTypes, PTL DEF Delivery!Spec

\* So has every replica of the transfer.
THEOREM OneVersion == Spec => []Delivery!ServesOneVersion
<1> QED BY DeliveryIsImplemented, DeliveryServesOneVersion DEF ImplementsDelivery
=============================================================================
