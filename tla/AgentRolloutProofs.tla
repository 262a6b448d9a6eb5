------------------------- MODULE AgentRolloutProofs -------------------------
(***************************************************************************)
(* Theorems about AgentRollout, for any conversations, servers and pushes: *)
(* the versions a conversation reports enclose those of its tokens, and    *)
(* with partial rollout no interruption leaves a trace in a transcript.    *)
(***************************************************************************)
EXTENDS AgentRollout, SequenceTheorems, TLAPS

-----------------------------------------------------------------------------
(* Sequences of tokens                                                     *)

\* The versions of the weights behind some tokens.
Versions(s) == UNION {s[i].by : i \in DOMAIN s}

LEMMA VersionsOfConcat ==
  ASSUME NEW s \in Seq(Tokens), NEW t \in Seq(Tokens)
  PROVE  /\ s \o t \in Seq(Tokens)
         /\ Versions(s \o t) = Versions(s) \cup Versions(t)
<1>1. /\ s \o t \in Seq(Tokens) /\ Len(s \o t) = Len(s) + Len(t)
      /\ \A i \in 1..Len(s) + Len(t) :
           (s \o t)[i] = IF i <= Len(s) THEN s[i] ELSE t[i - Len(s)]
  BY ConcatProperties
<1>2. /\ Len(s) \in Nat /\ Len(t) \in Nat
      /\ DOMAIN s = 1..Len(s) /\ DOMAIN t = 1..Len(t)
      /\ DOMAIN (s \o t) = 1..(Len(s) + Len(t))
  BY <1>1, LenProperties
<1>3. Versions(s \o t) \subseteq Versions(s) \cup Versions(t)
  <2> SUFFICES ASSUME NEW i \in DOMAIN (s \o t), NEW v \in (s \o t)[i].by
               PROVE  v \in Versions(s) \cup Versions(t)
    BY DEF Versions
  <2>1. CASE i <= Len(s)
    BY <1>1, <1>2, <2>1 DEF Versions
  <2>2. CASE i > Len(s)
    <3>1. i - Len(s) \in DOMAIN t /\ (s \o t)[i] = t[i - Len(s)]
      BY <1>1, <1>2, <2>2
    <3> QED BY <3>1 DEF Versions
  <2> QED BY <1>2, <2>1, <2>2
<1>4. Versions(s) \subseteq Versions(s \o t)
  <2> SUFFICES ASSUME NEW i \in DOMAIN s PROVE s[i].by \subseteq Versions(s \o t)
    BY DEF Versions
  <2>1. i \in DOMAIN (s \o t) /\ (s \o t)[i] = s[i]
    BY <1>1, <1>2
  <2> QED BY <2>1 DEF Versions
<1>5. Versions(t) \subseteq Versions(s \o t)
  <2> SUFFICES ASSUME NEW i \in DOMAIN t PROVE t[i].by \subseteq Versions(s \o t)
    BY DEF Versions
  <2>1. i + Len(s) \in DOMAIN (s \o t) /\ (s \o t)[i + Len(s)] = t[i]
    BY <1>1, <1>2
  <2> QED BY <2>1 DEF Versions
<1> QED BY <1>1, <1>3, <1>4, <1>5

LEMMA VersionsOfAppend ==
  ASSUME NEW s \in Seq(Tokens), NEW e \in Tokens
  PROVE  /\ Append(s, e) \in Seq(Tokens)
         /\ Versions(Append(s, e)) = Versions(s) \cup e.by
<1>1. /\ Append(s, e) \in Seq(Tokens) /\ Append(s, e) = s \o <<e>> /\ <<e>> \in Seq(Tokens)
  BY AppendProperties, AppendIsConcat
<1>2. Versions(<<e>>) = e.by
  BY DEF Versions
<1> QED BY <1>1, <1>2, VersionsOfConcat

LEMMA VersionsOfNothing == << >> \in Seq(Tokens) /\ Versions(<< >>) = {}
BY DEF Versions

LEMMA VersionsOfGiven ==
  ASSUME NEW who \in {"prompt", "tool", "user"}, NEW n \in Nat
  PROVE  Given(who, n) \in Seq(Tokens) /\ Versions(Given(who, n)) = {}
<1>1. Given(who, n) \in [1..n -> Tokens]
  BY DEF Given, Tokens
<1>2. Given(who, n) \in Seq(Tokens)
  BY <1>1, SeqDef
<1>3. \A i \in DOMAIN Given(who, n) : Given(who, n)[i].by = {}
  BY DEF Given
<1> QED BY <1>2, <1>3 DEF Versions
-----------------------------------------------------------------------------
(* The invariant behind VersionsCover                                      *)

\* V lies between the bounds of a conversation or an output, if there are any.
Encloses(lo, hi, V) ==
  IF lo = None THEN hi = None /\ V = {}
  ELSE lo \in Nat /\ hi \in Nat /\ lo <= hi /\ V \subseteq lo..hi

\* No server that may still answer is behind v.
Seen(v) == v = None \/ (v \in Nat /\ v <= latest /\ \A s \in open : v <= label[s])

NotAfter(v, w) == v = None \/ w = None \/ v <= w

\* All servers that are open have one label, and all weights it names.
OneLabel ==
  /\ latest \in Nat /\ label \in [Replicas -> Nat] /\ open \subseteq Replicas /\ excused = {}
  /\ \A s \in Replicas : label[s] <= latest
  /\ \A r, s \in open : label[r] = label[s]
  /\ \A s \in open : Delivery!AllHave(s, label[s])

Asked(a) ==
  /\ Encloses(talk[a].min, talk[a].max, Versions(talk[a].text))
  /\ Encloses(output[a].min, output[a].max, Versions(output[a].ids))
  /\ (talk[a].assistantTurns = 0) <=> (talk[a].min = None)
  /\ Seen(talk[a].max) /\ Seen(output[a].max)
  /\ NotAfter(talk[a].max, output[a].min)

Served(a) ==
  CASE pc[a] = "running" ->
         server[a] \in open /\ Versions(part[a]) \subseteq {label[server[a]]}
    [] pc[a] = "answered" ->
         /\ answer[a] \in [reason : {"completed", "aborted"}, version : Nat]
         /\ Seen(answer[a].version)
         /\ NotAfter(talk[a].max, answer[a].version) /\ NotAfter(output[a].max, answer[a].version)
         /\ Versions(part[a]) \subseteq {answer[a].version}
    [] OTHER -> part[a] = << >>

VersionInv == TypeOK /\ OneLabel /\ \A a \in Agents : Asked(a) /\ Served(a)
LEMMA NoneIsNoVersion == None \notin Nat
BY RolloutAssumption

LEMMA InitVersionInv == Init => VersionInv
<1> SUFFICES ASSUME Init PROVE VersionInv
  OBVIOUS
<1> USE DEF Init, Delivery!Init
<1>1. ASSUME NEW a \in Agents
      PROVE  /\ Given("prompt", Prompt[a]) \in Seq(Tokens)
             /\ Versions(Given("prompt", Prompt[a])) = {}
  <2>1. Prompt[a] \in Nat
    BY RolloutAssumption
  <2> QED BY <2>1, VersionsOfGiven
<1>2. /\ << >> \in Seq(Tokens) /\ << >> \in Seq({0, 1}) /\ << >> \in Seq(Tokens \cup {None})
      /\ Versions(<< >>) = {}
  BY VersionsOfNothing
<1>3. TypeOK
  BY <1>1, <1>2 DEF TypeOK, Opening, NoOutput
<1>4. OneLabel
  BY DEF OneLabel, Delivery!AllHave, Delivery!Workers
<1>5. ASSUME NEW a \in Agents PROVE Asked(a) /\ Served(a)
  BY <1>1, <1>2, <1>5 DEF Asked, Served, Opening, NoOutput, Encloses, Seen, NotAfter
<1> QED BY <1>3, <1>4, <1>5 DEF VersionInv
-----------------------------------------------------------------------------
(* What the steps of a push leave true                                     *)

\* One that was seen stays so, and labels do not change under an open server.
Forward ==
  /\ \A v : Seen(v) => Seen(v)'
  /\ \A s \in open : s \in open' => label'[s] = label[s]

LEMMA SeenForward ==
  ASSUME OneLabel, latest' \in Nat, latest <= latest',
         \A s \in open' : label'[s] \in Nat /\ (label'[s] = latest' \/ (s \in open /\ label'[s] = label[s]))
  PROVE  \A v : Seen(v) => Seen(v)'
<1> SUFFICES ASSUME NEW v, Seen(v), v # None
             PROVE  v \in Nat /\ v <= latest' /\ \A s \in open' : v <= label'[s]
  BY DEF Seen
<1>1. v \in Nat /\ v <= latest /\ latest \in Nat
  BY DEF Seen, OneLabel
<1>2. v <= latest'
  BY <1>1
<1>3. ASSUME NEW s \in open' PROVE v <= label'[s]
  BY <1>1, <1>2, <1>3 DEF Seen
<1> QED BY <1>1, <1>2, <1>3

LEMMA PublishForward == ASSUME OneLabel, Publish PROVE OneLabel' /\ Forward
<1> USE DEF Publish, Delivery!NewVersion, OneLabel
<1>1. OneLabel'
  BY DEF Delivery!AllHave
<1>2. \A v : Seen(v) => Seen(v)'
  BY SeenForward
<1> QED BY <1>1, <1>2 DEF Forward

LEMMA AbortForward ==
  ASSUME OneLabel, NEW s \in Replicas, AbortAll(s) PROVE OneLabel' /\ Forward
<1> USE DEF AbortAll, Delivery!Pause, OneLabel
<1>1. OneLabel'
  BY DEF Delivery!AllHave
<1>2. \A v : Seen(v) => Seen(v)'
  BY SeenForward
<1> QED BY <1>1, <1>2 DEF Forward

LEMMA LoadForward ==
  ASSUME OneLabel, NEW s \in Replicas, NEW w \in s, LoadWorker(s, w) PROVE OneLabel' /\ Forward
<1> USE DEF LoadWorker, AllPaused, Delivery!Load, OneLabel
<1>1. OneLabel'
  OBVIOUS
<1>2. \A v : Seen(v) => Seen(v)'
  BY SeenForward
<1> QED BY <1>1, <1>2 DEF Forward

LEMMA ReportForward ==
  ASSUME OneLabel, NEW s \in Replicas, SetGlobalSteps(s) PROVE OneLabel' /\ Forward
<1> USE DEF SetGlobalSteps, AllPaused, Delivery!Report, OneLabel
<1>1. OneLabel'
  OBVIOUS
<1>2. \A v : Seen(v) => Seen(v)'
  BY SeenForward
<1> QED BY <1>1, <1>2 DEF Forward

LEMMA ResumeForward ==
  ASSUME OneLabel, NEW s \in Replicas, ResumeGeneration(s) PROVE OneLabel' /\ Forward
<1> USE DEF ResumeGeneration, Delivery!Reopen, OneLabel
<1>1. OneLabel'
  BY DEF Delivery!AllHave
<1>2. \A v : Seen(v) => Seen(v)'
  BY SeenForward
<1> QED BY <1>1, <1>2 DEF Forward

\* A conversation that does not move keeps its part of the invariant.
LEMMA Unmoved ==
  ASSUME Forward, NEW a \in Agents, Asked(a), Served(a),
         talk'[a] = talk[a], output'[a] = output[a], pc'[a] = pc[a], server'[a] = server[a],
         part'[a] = part[a], answer'[a] = answer[a],
         pc[a] = "running" => server[a] \in open'
  PROVE  Asked(a)' /\ Served(a)'
<1>1. Asked(a)'
  BY DEF Asked, Forward, Encloses, NotAfter, Versions
<1>2. CASE pc[a] = "running"
  BY <1>1, <1>2 DEF Served, Forward, Versions
<1>3. CASE pc[a] = "answered"
  BY <1>1, <1>3 DEF Served, Forward, NotAfter, Versions
<1>4. CASE pc[a] \notin {"running", "answered"}
  BY <1>1, <1>4 DEF Served
<1> QED BY <1>2, <1>3, <1>4
LEMMA Still == ASSUME OneLabel, UNCHANGED delivery PROVE OneLabel' /\ Forward
BY DEF delivery, OneLabel, Forward, Seen, Delivery!AllHave

LEMMA PushKeepsInv ==
  ASSUME VersionInv, UNCHANGED rollout, OneLabel', Forward, open \subseteq open'
  PROVE  VersionInv'
<1> USE DEF rollout, request
<1>1. TypeOK'
  BY DEF VersionInv, TypeOK
<1>2. ASSUME NEW a \in Agents PROVE Asked(a)' /\ Served(a)'
  <2>1. Asked(a) /\ Served(a) /\ (pc[a] = "running" => server[a] \in open')
    BY DEF VersionInv, Served
  <2> QED BY <2>1, Unmoved
<1> QED BY <1>1, <1>2 DEF VersionInv

LEMMA AbortKeepsInv ==
  ASSUME VersionInv, NEW s \in Replicas, AbortAll(s)
  PROVE  VersionInv'
<1>1. OneLabel' /\ Forward
  BY AbortForward DEF VersionInv
<1>2. TypeOK'
  BY DEF VersionInv, TypeOK, AbortAll
<1>3. ASSUME NEW a \in Agents, ~(pc[a] = "running" /\ server[a] = s)
      PROVE  Asked(a)' /\ Served(a)'
  <2>1. Asked(a) /\ Served(a) /\ (pc[a] = "running" => server[a] \in open')
    BY <1>3 DEF VersionInv, Served, AbortAll, Delivery!Pause
  <2>2. /\ talk'[a] = talk[a] /\ output'[a] = output[a] /\ pc'[a] = pc[a]
        /\ server'[a] = server[a] /\ part'[a] = part[a] /\ answer'[a] = answer[a]
    BY <1>3 DEF AbortAll
  <2> QED BY <1>1, <2>1, <2>2, Unmoved
<1>4. ASSUME NEW a \in Agents, pc[a] = "running", server[a] = s
      PROVE  Asked(a)' /\ Served(a)'
  <2>1. /\ talk' = talk /\ output' = output /\ part' = part
        /\ pc'[a] = "answered" /\ answer'[a] = [reason |-> "aborted", version |-> label[s]]
    BY <1>4 DEF AbortAll
  <2>2. Asked(a) /\ Served(a) /\ s \in open /\ label[s] \in Nat /\ Versions(part[a]) \subseteq {label[s]}
    BY <1>4 DEF VersionInv, Served, OneLabel
  <2>3. Asked(a)'
    BY <1>1, <2>1, <2>2 DEF Asked, Forward, Encloses, NotAfter, Versions
  <2>4. Seen(label[s])
    BY <2>2 DEF VersionInv, OneLabel, Seen
  <2>5. NotAfter(talk[a].max, label[s]) /\ NotAfter(output[a].max, label[s])
    BY <2>2 DEF Asked, Seen, NotAfter
  <2>6. label' = label /\ Seen(label[s])'
    <3>1. label' = label
      BY DEF AbortAll, Delivery!Pause
    <3> QED BY <2>2, <2>4, <3>1 DEF Seen, AbortAll, Delivery!Pause
  <2>7. answer'[a].version = label[s] /\ answer'[a] \in [reason : {"completed", "aborted"}, version : Nat]
    BY <2>1, <2>2
  <2>8. Seen(answer[a].version)'
    <3>1. label[s] \in Nat /\ label[s] <= latest' /\ \A r \in open' : label[s] <= label'[r]
      BY <2>2, <2>6, NoneIsNoVersion DEF Seen
    <3> QED BY <2>7, <3>1 DEF Seen
  <2> QED BY <2>1, <2>2, <2>3, <2>5, <2>7, <2>8 DEF Served, NotAfter, Versions
<1> QED BY <1>1, <1>2, <1>3, <1>4 DEF VersionInv

-----------------------------------------------------------------------------
(* What the steps of a conversation leave true                             *)

\* A step of one conversation: the others stand still.
LEMMA OthersUnmoved ==
  ASSUME VersionInv, UNCHANGED delivery, NEW a \in Agents, NEW b \in Agents,
         talk'[b] = talk[b], output'[b] = output[b], pc'[b] = pc[b], server'[b] = server[b],
         part'[b] = part[b], answer'[b] = answer[b]
  PROVE  Asked(b)' /\ Served(b)'
<1>1. Forward
  BY Still DEF VersionInv
<1>2. Asked(b) /\ Served(b) /\ (pc[b] = "running" => server[b] \in open')
  BY DEF VersionInv, Served, delivery
<1> QED BY <1>1, <1>2, Unmoved

\* Between requests a conversation may do what does not concern its tokens.
LEMMA Waiting ==
  ASSUME VersionInv, UNCHANGED delivery, NEW a \in Agents, UNCHANGED <<talk, output, part>>,
         pc[a] \notin {"running", "answered"}, pc'[a] \notin {"running", "answered"}
  PROVE  Asked(a)' /\ Served(a)'
<1>1. Forward /\ Asked(a) /\ Served(a)
  BY Still DEF VersionInv
<1>2. Asked(a)'
  BY <1>1 DEF Asked, Forward, Encloses, NotAfter, Versions
<1>3. part'[a] = << >>
  BY <1>1 DEF Served
<1> QED BY <1>2, <1>3 DEF Served

LEMMA AcquireKeepsInv ==
  ASSUME VersionInv, NEW a \in Agents, Acquire(a) PROVE VersionInv'
<1>1. OneLabel' /\ TypeOK'
  BY Still DEF VersionInv, TypeOK, Acquire
<1>2. ASSUME NEW b \in Agents, b # a PROVE Asked(b)' /\ Served(b)'
  BY <1>2, OthersUnmoved DEF Acquire, VersionInv, TypeOK
<1>3. Asked(a)' /\ Served(a)'
  BY Waiting DEF Acquire, VersionInv, TypeOK
<1> QED BY <1>1, <1>2, <1>3 DEF VersionInv

LEMMA ReleaseKeepsInv ==
  ASSUME VersionInv, NEW a \in Agents, Release(a) PROVE VersionInv'
<1>1. OneLabel' /\ Forward /\ TypeOK'
  BY Still DEF VersionInv, TypeOK, Release, request
<1>2. ASSUME NEW b \in Agents PROVE Asked(b)' /\ Served(b)'
  BY OthersUnmoved DEF Release, request
<1> QED BY <1>1, <1>2 DEF VersionInv

LEMMA RefuseKeepsInv ==
  ASSUME VersionInv, NEW a \in Agents, Refuse(a) PROVE VersionInv'
<1>1. OneLabel' /\ TypeOK'
  BY Still DEF VersionInv, TypeOK, Refuse, request
<1>2. ASSUME NEW b \in Agents, b # a PROVE Asked(b)' /\ Served(b)'
  BY <1>2, OthersUnmoved DEF Refuse, request, VersionInv, TypeOK
<1>3. Asked(a)' /\ Served(a)'
  BY Waiting DEF Refuse, request, VersionInv, TypeOK
<1> QED BY <1>1, <1>2, <1>3 DEF VersionInv

LEMMA AcceptKeepsInv ==
  ASSUME VersionInv, NEW a \in Agents, Accept(a) PROVE VersionInv'
<1>1. OneLabel' /\ Forward /\ TypeOK'
  BY Still DEF VersionInv, TypeOK, Accept, request
<1>2. ASSUME NEW b \in Agents, b # a PROVE Asked(b)' /\ Served(b)'
  BY <1>2, OthersUnmoved DEF Accept, request, VersionInv, TypeOK
<1>3. Asked(a) /\ Served(a) /\ part[a] = << >> /\ server[a] \in open
  BY DEF VersionInv, Accept, Served
<1>4. /\ talk' = talk /\ output' = output /\ part' = part /\ server' = server /\ open' = open
      /\ pc'[a] = "running"
  BY DEF Accept, request, delivery, VersionInv, TypeOK
<1>5. Asked(a)'
  BY <1>1, <1>3, <1>4 DEF Asked, Forward, Encloses, NotAfter, Versions
<1>6. Versions(part[a])' = {}
  BY <1>3, <1>4, VersionsOfNothing
<1>7. Served(a)'
  BY <1>3, <1>4, <1>6 DEF Served
<1> QED BY <1>1, <1>2, <1>5, <1>7 DEF VersionInv
LEMMA LengthsAdd ==
  ASSUME NEW S, NEW T, NEW s \in Seq(S), NEW t \in Seq(T) PROVE Len(s) + Len(t) \in Nat
<1>1. Len(s) \in Nat /\ Len(t) \in Nat
  BY LenProperties
<1> QED BY <1>1

LEMMA SentIsNat == ASSUME TypeOK, NEW a \in Agents PROVE Sent(a) \in Nat
<1>1. talk[a].text \in Seq(Tokens) /\ output[a].ids \in Seq(Tokens)
  BY DEF TypeOK
<1>2. Len(talk[a].text) + Len(output[a].ids) \in Nat
  BY <1>1, LengthsAdd, Zenon
<1> QED BY <1>2, Zenon DEF Sent

LEMMA TokenKeepsInv ==
  ASSUME VersionInv, NEW a \in Agents, Token(a) PROVE VersionInv'
<1> DEFINE new == Generated(Serving(server[a]), Sent(a) + Len(part[a]) + 1)
<1>1. OneLabel' /\ Forward
  BY Still DEF VersionInv, Token
<1>2. /\ pc[a] = "running" /\ server[a] \in open /\ label[server[a]] \in Nat
      /\ Asked(a) /\ Versions(part[a]) \subseteq {label[server[a]]} /\ part[a] \in Seq(Tokens)
  BY DEF VersionInv, Served, Token, OneLabel, TypeOK
<1>3. Serving(server[a]) \subseteq {label[server[a]]}
  BY <1>2 DEF VersionInv, OneLabel, Serving, Delivery!AllHave
<1>4. Sent(a) + Len(part[a]) + 1 \in Nat
  <2>1. Sent(a) \in Nat /\ Len(part[a]) \in Nat
    BY <1>2, SentIsNat, LenProperties DEF VersionInv
  <2> HIDE DEF Sent
  <2> QED BY <2>1, SMT
<1>5. new \in Tokens /\ new.by = Serving(server[a])
  BY <1>2, <1>3, <1>4 DEF Generated, Tokens
<1>6. /\ Append(part[a], new) \in Seq(Tokens)
      /\ Versions(Append(part[a], new)) \subseteq {label[server[a]]}
  BY <1>2, <1>3, <1>5, VersionsOfAppend
<1>7. /\ talk' = talk /\ output' = output /\ server' = server /\ UNCHANGED delivery
      /\ part' = [part EXCEPT ![a] = Append(part[a], new)]
      /\ \/ pc' = pc /\ answer' = answer
         \/ /\ pc' = [pc EXCEPT ![a] = "answered"]
            /\ answer' = [answer EXCEPT ![a] = [reason |-> "completed", version |-> label[server[a]]]]
  BY DEF Token
<1> HIDE DEF new
<1>8. TypeOK'
  BY <1>6, <1>7 DEF VersionInv, TypeOK
<1>9. ASSUME NEW b \in Agents, b # a PROVE Asked(b)' /\ Served(b)'
  BY <1>7, <1>9, OthersUnmoved DEF VersionInv, TypeOK
<1>10. Asked(a)'
  BY <1>1, <1>2, <1>7 DEF Asked, Forward, Encloses, NotAfter, Versions
<1>11. part'[a] = Append(part[a], new) /\ Versions(part[a])' \subseteq {label[server[a]]}
  <2>1. part'[a] = Append(part[a], new)
    BY <1>7 DEF VersionInv, TypeOK
  <2> QED BY <1>6, <2>1 DEF Versions
<1>12. CASE pc' = pc /\ answer' = answer
  <2>1. Served(a)'
    BY <1>2, <1>7, <1>11, <1>12 DEF Served, delivery
  <2> QED BY <1>1, <1>8, <1>9, <1>10, <2>1 DEF VersionInv
<1>13. CASE /\ pc' = [pc EXCEPT ![a] = "answered"]
            /\ answer' = [answer EXCEPT ![a] = [reason |-> "completed", version |-> label[server[a]]]]
  <2>1. /\ pc'[a] = "answered" /\ answer'[a].version = label[server[a]]
        /\ answer'[a] \in [reason : {"completed", "aborted"}, version : Nat]
    BY <1>2, <1>13 DEF VersionInv, TypeOK
  <2>2. Seen(label[server[a]])
    BY <1>2 DEF VersionInv, OneLabel, Seen
  <2>3. Seen(answer[a].version)'
    BY <1>7, <2>1, <2>2 DEF Seen, delivery
  <2>4. NotAfter(talk[a].max, label[server[a]]) /\ NotAfter(output[a].max, label[server[a]])
    BY <1>2 DEF Asked, Seen, NotAfter
  <2>5. Served(a)'
    BY <1>7, <1>11, <2>1, <2>3, <2>4 DEF Served, NotAfter
  <2> QED BY <1>1, <1>8, <1>9, <1>10, <2>5 DEF VersionInv
<1> QED BY <1>7, <1>12, <1>13

\* What generate has after an answer: its tokens, and bounds that hold for them.
LEMMA MergedFacts ==
  ASSUME VersionInv, NEW a \in Agents, pc[a] = "answered"
  PROVE  LET out == Merged(a) IN
         /\ out \in [ids : Seq(Tokens), logps : Seq(Tokens), min : Nat \cup {None}, max : Nat \cup {None}]
         /\ out.min \in Nat /\ out.max \in Nat
         /\ Encloses(out.min, out.max, Versions(out.ids))
         /\ Seen(out.max) /\ NotAfter(talk[a].max, out.min)
<1>1. /\ Asked(a) /\ answer[a].version \in Nat /\ Seen(answer[a].version)
      /\ NotAfter(talk[a].max, answer[a].version) /\ NotAfter(output[a].max, answer[a].version)
      /\ Versions(part[a]) \subseteq {answer[a].version}
  BY DEF VersionInv, Served
<1>2. /\ output[a] \in [ids : Seq(Tokens), logps : Seq(Tokens), min : Nat \cup {None}, max : Nat \cup {None}]
      /\ part[a] \in Seq(Tokens) /\ None \notin Nat
  BY NoneIsNoVersion DEF VersionInv, TypeOK
<1>3. /\ output[a].ids \o part[a] \in Seq(Tokens) /\ output[a].logps \o part[a] \in Seq(Tokens)
      /\ Versions(output[a].ids \o part[a]) = Versions(output[a].ids) \cup Versions(part[a])
  BY <1>2, VersionsOfConcat
<1>4. CASE output[a].min = None
  BY <1>1, <1>2, <1>3, <1>4 DEF Merged, Asked, Encloses, NotAfter
<1>5. CASE output[a].min # None
  <2>1. /\ output[a].min \in Nat /\ output[a].max \in Nat /\ output[a].min <= output[a].max
        /\ output[a].max <= answer[a].version
        /\ Versions(output[a].ids) \subseteq output[a].min..output[a].max
    BY <1>1, <1>2, <1>5 DEF Asked, Encloses, NotAfter
  <2>2. Versions(output[a].ids \o part[a]) \subseteq output[a].min..answer[a].version
    BY <1>1, <1>3, <2>1
  <2> QED BY <1>1, <1>2, <1>3, <1>5, <2>1, <2>2 DEF Merged, Asked, Encloses
<1> QED BY <1>4, <1>5

LEMMA RetryKeepsInv ==
  ASSUME VersionInv, NEW a \in Agents, Retry(a) PROVE VersionInv'
<1>1. OneLabel' /\ Forward
  BY Still DEF VersionInv, Retry, Answered
<1>2. /\ pc[a] = "answered" /\ Asked(a)
      /\ talk' = talk /\ output' = [output EXCEPT ![a] = Merged(a)]
      /\ part' = [part EXCEPT ![a] = << >>] /\ pc' = [pc EXCEPT ![a] = "asking"]
      /\ server' = [server EXCEPT ![a] = None] /\ answer' = [answer EXCEPT ![a] = None]
      /\ UNCHANGED delivery
  BY DEF Retry, Answered, VersionInv
<1> DEFINE out == Merged(a)
<1>3. /\ out \in [ids : Seq(Tokens), logps : Seq(Tokens), min : Nat \cup {None}, max : Nat \cup {None}]
      /\ Encloses(out.min, out.max, Versions(out.ids)) /\ Seen(out.max) /\ NotAfter(talk[a].max, out.min)
  BY <1>2, MergedFacts
<1> HIDE DEF out
<1>4. TypeOK'
  BY <1>2, <1>3, VersionsOfNothing DEF VersionInv, TypeOK, out
<1>5. ASSUME NEW b \in Agents, b # a PROVE Asked(b)' /\ Served(b)'
  BY <1>2, <1>5, OthersUnmoved DEF VersionInv, TypeOK
<1>6. output'[a] = out /\ part'[a] = << >> /\ pc'[a] = "asking"
  BY <1>2 DEF VersionInv, TypeOK, out
<1>7. Served(a)'
  BY <1>6 DEF Served
<1>8. Asked(a)'
  BY <1>1, <1>2, <1>3, <1>6 DEF Asked, Forward, Encloses, NotAfter, Versions
<1> QED BY <1>1, <1>4, <1>5, <1>7, <1>8 DEF VersionInv

\* What follows a conversation's turn is a conversation again.
LEMMA Repeated == ASSUME NEW S, NEW e \in S, NEW n \in Nat PROVE [i \in 1..n |-> e] \in Seq(S)
BY SeqDef

LEMMA AnswerFacts ==
  ASSUME VersionInv, NEW a \in Agents, pc[a] = "answered"
  PROVE  LET c == WithAnswer(talk[a], Merged(a)) IN
         /\ c \in [text : Seq(Tokens), mask : Seq({0, 1}), logps : Seq(Tokens \cup {None}),
                   assistantTurns : Nat, userTurns : Nat,
                   min : Nat \cup {None}, max : Nat \cup {None}]
         /\ Encloses(c.min, c.max, Versions(c.text)) /\ Seen(c.max)
         /\ c.assistantTurns # 0 /\ c.min # None
<1> DEFINE out == Merged(a)
           old == talk[a]
           ones == [i \in DOMAIN out.ids |-> 1]
<1>1. /\ out.ids \in Seq(Tokens) /\ out.logps \in Seq(Tokens)
      /\ out.min \in Nat /\ out.max \in Nat
      /\ Encloses(out.min, out.max, Versions(out.ids)) /\ Seen(out.max) /\ NotAfter(old.max, out.min)
  BY MergedFacts
<1>2. /\ old \in [text : Seq(Tokens), mask : Seq({0, 1}), logps : Seq(Tokens \cup {None}),
                  assistantTurns : Nat, userTurns : Nat,
                  min : Nat \cup {None}, max : Nat \cup {None}]
      /\ Encloses(old.min, old.max, Versions(old.text))
      /\ (old.assistantTurns = 0) <=> (old.min = None)
  BY DEF VersionInv, TypeOK, Asked
<1> HIDE DEF out, old
<1>3. /\ old.text \o out.ids \in Seq(Tokens)
      /\ Versions(old.text \o out.ids) = Versions(old.text) \cup Versions(out.ids)
  BY <1>1, <1>2, VersionsOfConcat
<1>4. ones \in Seq({0, 1})
  <2>1. Len(out.ids) \in Nat /\ DOMAIN out.ids = 1..Len(out.ids)
    BY <1>1, LenProperties
  <2> QED BY <2>1, Repeated
<1> HIDE DEF ones
<1>5. old.mask \o ones \in Seq({0, 1})
  BY <1>2, <1>4, ConcatProperties
<1>6. old.logps \o out.logps \in Seq(Tokens \cup {None})
  <2>1. out.logps \in Seq(Tokens \cup {None})
    BY <1>1
  <2> QED BY <1>2, <2>1, ConcatProperties
<1> DEFINE lo == IF old.assistantTurns = 0 THEN out.min ELSE old.min
           hi == IF old.assistantTurns = 0 \/ out.max # 0 THEN out.max ELSE old.max
<1>7. lo \in Nat /\ hi = out.max /\ lo <= hi /\ Versions(old.text \o out.ids) \subseteq lo..hi
  <2>1. out.min <= out.max /\ Versions(out.ids) \subseteq out.min..out.max
    BY <1>1, NoneIsNoVersion DEF Encloses
  <2>2. CASE old.assistantTurns = 0
    BY <1>1, <1>2, <1>3, <2>1, <2>2 DEF Encloses
  <2>3. CASE old.assistantTurns # 0
    <3>1. /\ old.min \in Nat /\ old.max \in Nat /\ old.min <= old.max /\ old.max <= out.min
          /\ Versions(old.text) \subseteq old.min..old.max
      BY <1>1, <1>2, <2>3, NoneIsNoVersion DEF Encloses, NotAfter
    <3>2. lo = old.min /\ hi = out.max
      BY <1>1, <2>1, <2>3, <3>1
    <3> QED BY <1>1, <1>3, <2>1, <3>1, <3>2
  <2> QED BY <2>2, <2>3
<1> DEFINE c == WithAnswer(old, out)
<1>8. /\ c.text = old.text \o out.ids /\ c.min = lo /\ c.max = hi
      /\ c.assistantTurns = old.assistantTurns + 1
      /\ c = [text |-> old.text \o out.ids, mask |-> old.mask \o ones,
              logps |-> old.logps \o out.logps, assistantTurns |-> old.assistantTurns + 1,
              userTurns |-> old.userTurns, min |-> lo, max |-> hi]
  <2>1. c = [old EXCEPT !.text = old.text \o out.ids, !.mask = old.mask \o ones,
                        !.logps = old.logps \o out.logps,
                        !.assistantTurns = old.assistantTurns + 1, !.min = lo, !.max = hi]
    BY <1>2, Zenon DEF WithAnswer, ones
  <2> HIDE DEF lo, hi, c
  <2> QED BY <1>2, <2>1
<1> HIDE DEF lo, hi, c
<1>9. c \in [text : Seq(Tokens), mask : Seq({0, 1}), logps : Seq(Tokens \cup {None}),
            assistantTurns : Nat, userTurns : Nat,
            min : Nat \cup {None}, max : Nat \cup {None}]
  BY <1>1, <1>2, <1>3, <1>5, <1>6, <1>7, <1>8
<1>10. Encloses(c.min, c.max, Versions(c.text)) /\ Seen(c.max) /\ c.min # None
  BY <1>1, <1>7, <1>8, NoneIsNoVersion DEF Encloses
<1>11. c.assistantTurns # 0
  BY <1>2, <1>8
<1> QED BY <1>9, <1>10, <1>11 DEF c, old, out

LEMMA EndTurnKeepsInv ==
  ASSUME VersionInv, NEW a \in Agents, EndTurn(a) PROVE VersionInv'
<1>1. OneLabel' /\ Forward
  BY Still DEF VersionInv, EndTurn, Answered
<1> DEFINE c == WithAnswer(talk[a], Merged(a))
<1>2. /\ pc[a] = "answered"
      /\ talk' = [talk EXCEPT ![a] = c] /\ output' = [output EXCEPT ![a] = NoOutput]
      /\ part' = [part EXCEPT ![a] = << >>]
      /\ \E next \in {"done", "tools", "interacting"} : pc' = [pc EXCEPT ![a] = next]
      /\ server' = [server EXCEPT ![a] = None] /\ answer' = [answer EXCEPT ![a] = None]
      /\ UNCHANGED delivery
  BY DEF EndTurn, Answered
<1>3. /\ c \in [text : Seq(Tokens), mask : Seq({0, 1}), logps : Seq(Tokens \cup {None}),
                assistantTurns : Nat, userTurns : Nat,
                min : Nat \cup {None}, max : Nat \cup {None}]
      /\ Encloses(c.min, c.max, Versions(c.text)) /\ Seen(c.max)
      /\ c.assistantTurns # 0 /\ c.min # None
  BY <1>2, AnswerFacts
<1> HIDE DEF c
<1>4. TypeOK'
  BY <1>2, <1>3, VersionsOfNothing DEF VersionInv, TypeOK, NoOutput
<1>5. ASSUME NEW b \in Agents, b # a PROVE Asked(b)' /\ Served(b)'
  BY <1>2, <1>5, OthersUnmoved DEF VersionInv, TypeOK
<1>6. /\ talk'[a] = c /\ output'[a] = NoOutput /\ part'[a] = << >>
      /\ pc'[a] \in {"done", "tools", "interacting"}
  BY <1>2 DEF VersionInv, TypeOK
<1>7. Served(a)'
  BY <1>6 DEF Served
<1>8. Asked(a)'
  <2>1. \A m : Seen(m) => Seen(m)'
    BY <1>1 DEF Forward
  <2>2. \/ c.max = None
        \/ c.max \in Nat /\ c.max <= latest' /\ \A s \in open' : c.max <= label'[s]
    BY <1>3, <2>1 DEF Seen
  <2>3. /\ Versions(output[a].ids)' = {} /\ output'[a].min = None /\ output'[a].max = None
    BY <1>6, VersionsOfNothing DEF NoOutput, Versions
  <2>4. Versions(talk[a].text)' = Versions(c.text)
    BY <1>6 DEF Versions
  <2>5. Encloses(talk[a].min, talk[a].max, Versions(talk[a].text))'
    BY <1>3, <1>6, <2>4 DEF Encloses
  <2>6. Seen(talk[a].max)' /\ Seen(output[a].max)'
    BY <1>6, <2>2, <2>3 DEF Seen
  <2> QED BY <1>3, <1>6, <2>3, <2>5, <2>6 DEF Asked, Encloses, NotAfter
<1> QED BY <1>1, <1>4, <1>5, <1>7, <1>8 DEF VersionInv

LEMMA FeedFacts ==
  ASSUME VersionInv, NEW a \in Agents, NEW who \in {"tool", "user"}, NEW n \in Nat
  PROVE  LET c == WithFeed(talk[a], who, n) IN
         /\ c \in [text : Seq(Tokens), mask : Seq({0, 1}), logps : Seq(Tokens \cup {None}),
                   assistantTurns : Nat, userTurns : Nat,
                   min : Nat \cup {None}, max : Nat \cup {None}]
         /\ Versions(c.text) = Versions(talk[a].text)
         /\ c.assistantTurns = talk[a].assistantTurns
         /\ c.min = talk[a].min /\ c.max = talk[a].max
<1> DEFINE old == talk[a]
           zeros == [i \in 1..n |-> 0]
           nones == [i \in 1..n |-> None]
           new == IF old.logps = << >> THEN old.logps ELSE old.logps \o nones
<1>1. old \in [text : Seq(Tokens), mask : Seq({0, 1}), logps : Seq(Tokens \cup {None}),
              assistantTurns : Nat, userTurns : Nat,
              min : Nat \cup {None}, max : Nat \cup {None}]
  BY DEF VersionInv, TypeOK
<1> HIDE DEF old
<1>2. /\ old.text \o Given(who, n) \in Seq(Tokens)
      /\ Versions(old.text \o Given(who, n)) = Versions(old.text)
  <2>1. Given(who, n) \in Seq(Tokens) /\ Versions(Given(who, n)) = {}
    BY VersionsOfGiven
  <2>2. old.text \in Seq(Tokens)
    BY <1>1
  <2>3. /\ old.text \o Given(who, n) \in Seq(Tokens)
        /\ Versions(old.text \o Given(who, n)) = Versions(old.text) \cup Versions(Given(who, n))
    BY <2>1, <2>2, VersionsOfConcat
  <2> QED BY <2>1, <2>3
<1>3. zeros \in Seq({0, 1}) /\ nones \in Seq(Tokens \cup {None})
  BY Repeated
<1> HIDE DEF zeros, nones
<1>4. old.mask \o zeros \in Seq({0, 1}) /\ new \in Seq(Tokens \cup {None})
  BY <1>1, <1>3, ConcatProperties
<1> DEFINE c == WithFeed(old, who, n)
<1>5. c = [text |-> old.text \o Given(who, n), mask |-> old.mask \o zeros, logps |-> new,
           assistantTurns |-> old.assistantTurns, userTurns |-> old.userTurns + 1,
           min |-> old.min, max |-> old.max]
  <2>1. c = [old EXCEPT !.text = old.text \o Given(who, n), !.mask = old.mask \o zeros,
                        !.logps = new, !.userTurns = old.userTurns + 1]
    BY <1>1, Zenon DEF WithFeed, zeros, nones
  <2> HIDE DEF new, c
  <2> QED BY <1>1, <2>1
<1> HIDE DEF new, c
<1> QED BY <1>1, <1>2, <1>4, <1>5 DEF c, old

\* The tools' or the user's turn, in which the conversation is only added to.
LEMMA FeedKeepsInv ==
  ASSUME VersionInv, NEW a \in Agents, pc[a] \in {"tools", "interacting"},
         NEW who \in {"tool", "user"}, NEW n \in Nat, NEW next \in {"asking", "done"},
         pc' = [pc EXCEPT ![a] = next],
         talk' = [talk EXCEPT ![a] = WithFeed(@, who, n)],
         UNCHANGED <<delivery, output, request, balancer>>
  PROVE  VersionInv'
<1>1. OneLabel' /\ Forward
  BY Still DEF VersionInv
<1> DEFINE c == WithFeed(talk[a], who, n)
<1>2. /\ c \in [text : Seq(Tokens), mask : Seq({0, 1}), logps : Seq(Tokens \cup {None}),
                assistantTurns : Nat, userTurns : Nat,
                min : Nat \cup {None}, max : Nat \cup {None}]
      /\ Versions(c.text) = Versions(talk[a].text)
      /\ c.assistantTurns = talk[a].assistantTurns
      /\ c.min = talk[a].min /\ c.max = talk[a].max
  BY FeedFacts
<1>3. talk' = [talk EXCEPT ![a] = c]
  OBVIOUS
<1> HIDE DEF c
<1>4. TypeOK'
  <2>1. pc' \in [Agents -> {"asking", "sent", "running", "answered", "tools", "interacting", "done", "failed"}]
    BY DEF VersionInv, TypeOK
  <2>2. talk' \in [Agents -> [text : Seq(Tokens), mask : Seq({0, 1}), logps : Seq(Tokens \cup {None}),
                              assistantTurns : Nat, userTurns : Nat,
                              min : Nat \cup {None}, max : Nat \cup {None}]]
    BY <1>2, <1>3 DEF VersionInv, TypeOK
  <2> QED BY <2>1, <2>2 DEF VersionInv, TypeOK, request
<1>5. ASSUME NEW b \in Agents, b # a PROVE Asked(b)' /\ Served(b)'
  BY <1>3, <1>5, OthersUnmoved DEF VersionInv, TypeOK, request
<1>6. /\ talk'[a] = c /\ output' = output /\ part' = part /\ pc'[a] = next
      /\ Asked(a) /\ Served(a)
  BY <1>3 DEF VersionInv, TypeOK, request
<1>7. Served(a)'
  BY <1>6 DEF Served
<1>8. Asked(a)'
  <2>1. Versions(talk[a].text)' = Versions(talk[a].text)
    BY <1>2, <1>6 DEF Versions
  <2>2. /\ talk'[a].min = talk[a].min /\ talk'[a].max = talk[a].max
        /\ talk'[a].assistantTurns = talk[a].assistantTurns
        /\ Versions(output[a].ids)' = Versions(output[a].ids)
    BY <1>2, <1>6 DEF Versions
  <2> QED BY <1>1, <1>6, <2>1, <2>2 DEF Asked, Forward, Encloses, NotAfter
<1> QED BY <1>1, <1>4, <1>5, <1>7, <1>8 DEF VersionInv

LEMMA HearToolsKeepsInv ==
  ASSUME VersionInv, NEW a \in Agents, HearTools(a) PROVE VersionInv'
<1>1. PICK n \in Feeds :
        IF FeedFits(talk[a], n)
        THEN /\ talk' = [talk EXCEPT ![a] = WithFeed(@, "tool", n)]
             /\ pc' = [pc EXCEPT ![a] = "asking"]
        ELSE pc' = [pc EXCEPT ![a] = "done"] /\ UNCHANGED talk
  BY DEF HearTools
<1>2. n \in Nat /\ pc[a] = "tools" /\ UNCHANGED <<delivery, output, request, balancer>>
  BY RolloutAssumption DEF HearTools
<1>3. CASE FeedFits(talk[a], n)
  BY <1>1, <1>2, <1>3, FeedKeepsInv
<1>4. CASE ~FeedFits(talk[a], n)
  <2>1. OneLabel' /\ TypeOK'
    BY <1>1, <1>2, <1>4, Still DEF VersionInv, TypeOK, request
  <2>2. ASSUME NEW b \in Agents, b # a PROVE Asked(b)' /\ Served(b)'
    BY <1>1, <1>2, <1>4, <2>2, OthersUnmoved DEF request, VersionInv, TypeOK
  <2>3. Asked(a)' /\ Served(a)'
    BY <1>1, <1>2, <1>4, Waiting DEF request, VersionInv, TypeOK
  <2> QED BY <2>1, <2>2, <2>3 DEF VersionInv
<1> QED BY <1>3, <1>4

LEMMA HearUserKeepsInv ==
  ASSUME VersionInv, NEW a \in Agents, HearUser(a) PROVE VersionInv'
<1>1. PICK n \in Feeds, next \in {"asking", "done"} :
        /\ talk' = [talk EXCEPT ![a] = WithFeed(@, "user", n)]
        /\ pc' = [pc EXCEPT ![a] = next]
  BY DEF HearUser
<1>2. n \in Nat /\ pc[a] = "interacting" /\ UNCHANGED <<delivery, output, request, balancer>>
  BY RolloutAssumption DEF HearUser
<1> QED BY <1>1, <1>2, FeedKeepsInv

LEMMA StepKeepsInv == VersionInv /\ [Next]_vars => VersionInv'
<1> SUFFICES ASSUME VersionInv, [Next]_vars PROVE VersionInv'
  OBVIOUS
<1>1. CASE Publish
  BY <1>1, PublishForward, PushKeepsInv DEF VersionInv, Publish, Delivery!NewVersion
<1>2. ASSUME NEW s \in Replicas, AbortAll(s) PROVE VersionInv'
  BY <1>2, AbortKeepsInv
<1>3. ASSUME NEW s \in Replicas, SetGlobalSteps(s) PROVE VersionInv'
  BY <1>3, ReportForward, PushKeepsInv DEF VersionInv, SetGlobalSteps, Delivery!Report
<1>4. ASSUME NEW s \in Replicas, ResumeGeneration(s) PROVE VersionInv'
  BY <1>4, ResumeForward, PushKeepsInv DEF VersionInv, ResumeGeneration, Delivery!Reopen
<1>5. ASSUME NEW s \in Replicas, NEW w \in s, LoadWorker(s, w) PROVE VersionInv'
  BY <1>5, LoadForward, PushKeepsInv DEF VersionInv, LoadWorker, Delivery!Load
<1>6. ASSUME NEW a \in Agents, Agent(a) PROVE VersionInv'
  BY <1>6, AcquireKeepsInv, RefuseKeepsInv, AcceptKeepsInv, TokenKeepsInv, RetryKeepsInv,
     EndTurnKeepsInv, HearToolsKeepsInv, HearUserKeepsInv DEF Agent
<1>7. ASSUME NEW a \in Agents, Release(a) PROVE VersionInv'
  BY <1>7, ReleaseKeepsInv
<1>8. CASE UNCHANGED vars
  BY <1>8, Still, PushKeepsInv DEF vars, rollout, delivery, VersionInv
<1> QED BY <1>1, <1>2, <1>3, <1>4, <1>5, <1>6, <1>7, <1>8 DEF Next, Push

\* VersionInv is inductive: it holds in every state of any push and rollout.
THEOREM VersionsInvariant == Spec => []VersionInv
BY InitVersionInv, StepKeepsInv, PTL DEF Spec

\* A conversation and what its requests collect keep their types.
THEOREM TypeCorrect == Spec => []TypeOK
<1>1. VersionInv => TypeOK
  BY DEF VersionInv
<1> QED BY <1>1, VersionsInvariant, PTL

\* The versions a conversation reports enclose those of the weights behind
\* each of its tokens, however often it was cut off and moved (VersionsCover).
THEOREM VersionsEnclose == Spec => []VersionsCover
<1>1. VersionInv => VersionsCover
  <2> SUFFICES ASSUME VersionInv, NEW a \in Agents, NEW i \in DOMAIN talk[a].text,
                      NEW v \in talk[a].text[i].by
               PROVE  talk[a].min <= v /\ v <= talk[a].max
    BY DEF VersionsCover
  <2>1. v \in Versions(talk[a].text) /\ Encloses(talk[a].min, talk[a].max, Versions(talk[a].text))
    BY DEF Versions, VersionInv, Asked
  <2> QED BY <2>1 DEF Encloses
<1> QED BY <1>1, VersionsInvariant, PTL
-----------------------------------------------------------------------------
(* Tokens, masks and log probabilities                                     *)

\* What the mask and the log probability of a token must be; a probability that
\* the model gave stands as the token itself, the 0.0 of other tokens as None.
Fits(token, m, l) == IF token.who = "model" THEN m = 1 /\ l = token ELSE m = 0 /\ l = None

\* The mask and the log probabilities belong to the last tokens of the text.
Aligned(text, mask, logps) ==
  /\ Len(mask) <= Len(text) /\ Len(logps) = Len(mask)
  /\ \A j \in 1..Len(mask) : Fits(text[Len(text) - Len(mask) + j], mask[j], logps[j])

\* The values of a mask.
Bits == {0, 1}
\* The values of a list of log probabilities.
Logps == Tokens \cup {None}

\* The same for tokens that are yet to be appended.
AllFit(t, n, k) == Len(n) = Len(t) /\ Len(k) = Len(t) /\ \A i \in 1..Len(t) : Fits(t[i], n[i], k[i])

\* Tokens of the model that were generated right behind a text of length n.
OfModel(s, n) == \A i \in 1..Len(s) : s[i].who = "model" /\ s[i].at = n + i

\* Every token of the model stands where it was generated for.
Placed(text) == \A i \in 1..Len(text) : text[i].who = "model" => text[i].at = i

\* What is generated behind an answer that was cut off continues it.
LEMMA OfModelConcat ==
  ASSUME NEW s \in Seq(Tokens), NEW t \in Seq(Tokens), NEW n \in Nat, OfModel(s, n), OfModel(t, n + Len(s))
  PROVE  OfModel(s \o t, n)
<1>1. /\ s \o t \in Seq(Tokens) /\ Len(s \o t) = Len(s) + Len(t)
      /\ \A i \in 1..Len(s) + Len(t) : (s \o t)[i] = IF i <= Len(s) THEN s[i] ELSE t[i - Len(s)]
  BY ConcatProperties
<1>2. Len(s) \in Nat /\ Len(t) \in Nat
  BY LenProperties
<1> SUFFICES ASSUME NEW i \in 1..(Len(s) + Len(t)) PROVE (s \o t)[i].who = "model" /\ (s \o t)[i].at = n + i
  BY <1>1 DEF OfModel
<1>3. CASE i <= Len(s)
  BY <1>1, <1>2, <1>3 DEF OfModel
<1>4. CASE i > Len(s)
  <2>1. i - Len(s) \in 1..Len(t) /\ (s \o t)[i] = t[i - Len(s)]
    BY <1>1, <1>2, <1>4
  <2>2. t[i - Len(s)].who = "model" /\ t[i - Len(s)].at = (n + Len(s)) + (i - Len(s))
    BY <2>1 DEF OfModel
  <2>3. (n + Len(s)) + (i - Len(s)) = n + i
    BY <1>2
  <2> QED BY <2>1, <2>2, <2>3
<1> QED BY <1>2, <1>3, <1>4

\* A further token of the engine.
LEMMA OfModelAppend ==
  ASSUME NEW S, NEW s \in Seq(S), NEW e, NEW n \in Nat, OfModel(s, n),
         e.who = "model", e.at = n + Len(s) + 1
  PROVE  OfModel(Append(s, e), n)
<1>0. s \in Seq(S \cup {e})
  OBVIOUS
<1>1. /\ Append(s, e) \in Seq(S \cup {e}) /\ Len(Append(s, e)) = Len(s) + 1 /\ Len(s) \in Nat
      /\ \A i \in 1..Len(s) : Append(s, e)[i] = s[i]
      /\ Append(s, e)[Len(s) + 1] = e
  BY <1>0, AppendProperties, LenProperties
<1> SUFFICES ASSUME NEW i \in 1..(Len(s) + 1) PROVE Append(s, e)[i].who = "model" /\ Append(s, e)[i].at = n + i
  BY <1>1 DEF OfModel
<1>2. CASE i \in 1..Len(s)
  BY <1>1, <1>2 DEF OfModel
<1>3. CASE i = Len(s) + 1
  BY <1>1, <1>3
<1> QED BY <1>1, <1>2, <1>3

\* What is appended to a text keeps the places of its tokens.
LEMMA PlacedConcat ==
  ASSUME NEW s \in Seq(Tokens), NEW t \in Seq(Tokens), Placed(s),
         \A i \in 1..Len(t) : t[i].who = "model" => t[i].at = Len(s) + i
  PROVE  Placed(s \o t)
<1>1. /\ s \o t \in Seq(Tokens) /\ Len(s \o t) = Len(s) + Len(t)
      /\ \A i \in 1..Len(s) + Len(t) : (s \o t)[i] = IF i <= Len(s) THEN s[i] ELSE t[i - Len(s)]
  BY ConcatProperties
<1>2. Len(s) \in Nat /\ Len(t) \in Nat
  BY LenProperties
<1> SUFFICES ASSUME NEW i \in 1..(Len(s) + Len(t)), (s \o t)[i].who = "model" PROVE (s \o t)[i].at = i
  BY <1>1 DEF Placed
<1>3. CASE i <= Len(s)
  BY <1>1, <1>2, <1>3 DEF Placed
<1>4. CASE i > Len(s)
  <2>1. i - Len(s) \in 1..Len(t) /\ (s \o t)[i] = t[i - Len(s)]
    BY <1>1, <1>2, <1>4
  <2>2. t[i - Len(s)].at = Len(s) + (i - Len(s))
    BY <2>1
  <2>3. Len(s) + (i - Len(s)) = i
    BY <1>2
  <2> QED BY <2>1, <2>2, <2>3
<1> QED BY <1>2, <1>3, <1>4

\* Mask and log probabilities that grow with the text stay aligned with it.
LEMMA AlignedConcat ==
  ASSUME NEW s \in Seq(Tokens), NEW m \in Seq(Bits), NEW l \in Seq(Logps), Aligned(s, m, l),
         NEW t \in Seq(Tokens), NEW n \in Seq(Bits), NEW k \in Seq(Logps),
         AllFit(t, n, k)
  PROVE  Aligned(s \o t, m \o n, l \o k) /\ Len(m \o n) = Len(m) + Len(t)
<1>1. /\ Len(s \o t) = Len(s) + Len(t)
      /\ \A i \in 1..Len(s) + Len(t) : (s \o t)[i] = IF i <= Len(s) THEN s[i] ELSE t[i - Len(s)]
  BY ConcatProperties
<1>2. /\ Len(m \o n) = Len(m) + Len(n)
      /\ \A i \in 1..Len(m) + Len(n) : (m \o n)[i] = IF i <= Len(m) THEN m[i] ELSE n[i - Len(m)]
  BY ConcatProperties
<1>3. /\ Len(l \o k) = Len(l) + Len(k)
      /\ \A i \in 1..Len(l) + Len(k) : (l \o k)[i] = IF i <= Len(l) THEN l[i] ELSE k[i - Len(l)]
  BY ConcatProperties
<1>4. /\ Len(s) \in Nat /\ Len(t) \in Nat /\ Len(m) \in Nat /\ Len(l) = Len(m) /\ Len(m) <= Len(s)
  BY LenProperties DEF Aligned
<1>5. Len(n) = Len(t) /\ Len(k) = Len(t) /\ \A i \in 1..Len(t) : Fits(t[i], n[i], k[i])
  BY DEF AllFit
<1>6. ASSUME NEW j \in 1..(Len(m) + Len(t))
      PROVE  Fits((s \o t)[Len(s) + Len(t) - (Len(m) + Len(t)) + j], (m \o n)[j], (l \o k)[j])
  <2>1. Len(s) + Len(t) - (Len(m) + Len(t)) + j = Len(s) - Len(m) + j
    BY <1>4
  <2>2. CASE j <= Len(m)
    <3>1. Len(s) - Len(m) + j \in 1..(Len(s) + Len(t)) /\ Len(s) - Len(m) + j <= Len(s) /\ j \in 1..Len(m)
      BY <1>4, <2>2
    <3>2. /\ (s \o t)[Len(s) - Len(m) + j] = s[Len(s) - Len(m) + j]
          /\ (m \o n)[j] = m[j] /\ (l \o k)[j] = l[j]
      BY <1>1, <1>2, <1>3, <1>4, <1>5, <2>2, <3>1
    <3> QED BY <2>1, <3>1, <3>2 DEF Aligned
  <2>3. CASE j > Len(m)
    <3>1. /\ Len(s) - Len(m) + j \in 1..(Len(s) + Len(t)) /\ ~(Len(s) - Len(m) + j <= Len(s))
          /\ j - Len(m) \in 1..Len(t) /\ Len(s) - Len(m) + j - Len(s) = j - Len(m)
      BY <1>4, <2>3
    <3>2. /\ (s \o t)[Len(s) - Len(m) + j] = t[j - Len(m)]
          /\ (m \o n)[j] = n[j - Len(m)] /\ (l \o k)[j] = k[j - Len(m)]
      BY <1>1, <1>2, <1>3, <1>4, <1>5, <2>3, <3>1
    <3>3. Fits(t[j - Len(m)], n[j - Len(m)], k[j - Len(m)])
      BY <1>5, <3>1
    <3> QED BY <2>1, <3>2, <3>3
  <2>4. j <= Len(m) \/ j > Len(m)
    BY <1>4
  <2> QED BY <2>2, <2>3, <2>4
<1> QED BY <1>1, <1>2, <1>3, <1>4, <1>5, <1>6 DEF Aligned

\* The truncation to ResponseLength keeps a prefix (run's AgentLoopOutput).
LEMMA CutFacts ==
  ASSUME NEW S, NEW s \in Seq(S)
  PROVE  /\ Len(Cut(s)) = Least(ResponseLength, Len(s)) /\ Len(Cut(s)) \in Nat
         /\ DOMAIN Cut(s) = 1..Len(Cut(s))
         /\ \A i \in 1..Len(Cut(s)) : i \in 1..Len(s) /\ Cut(s)[i] = s[i]
<1> DEFINE n == Least(ResponseLength, Len(s))
<1>1. Len(s) \in Nat /\ ResponseLength \in Nat \ {0} /\ n \in Nat /\ n <= Len(s)
  BY LenProperties, RolloutAssumption DEF Least
<1>2. \A i \in 1..n : s[i] \in S
  BY <1>1, ElementOfSeq
<1>3. /\ SubSeq(s, 1, n) \in Seq(S)
      /\ Len(SubSeq(s, 1, n)) = IF 1 <= n THEN n - 1 + 1 ELSE 0
      /\ \A i \in 1..(n - 1 + 1) : SubSeq(s, 1, n)[i] = s[1 + i - 1]
  <2>1. 1 \in Int /\ n \in Int
    BY <1>1
  <2> HIDE DEF n
  <2> QED BY <1>2, <2>1, SubSeqProperties
<1>4. Cut(s) = SubSeq(s, 1, n)
  BY DEF Cut
<1> HIDE DEF n
<1>5. Len(Cut(s)) = n
  BY <1>1, <1>3, <1>4
<1>6. DOMAIN Cut(s) = 1..n
  BY <1>3, <1>4, <1>5, LenProperties
<1>7. \A i \in 1..n : i \in 1..Len(s) /\ Cut(s)[i] = s[i]
  BY <1>1, <1>3, <1>4
<1> QED BY <1>1, <1>5, <1>6, <1>7 DEF n

\* Of an aligned conversation that has a response, the three fields run returns
\* are aligned: [-n:] finds as many tokens as the mask has, unless there are none.
LEMMA AlignedResponse ==
  ASSUME NEW c \in [text : Seq(Tokens), mask : Seq({0, 1}), logps : Seq(Tokens \cup {None}),
                    assistantTurns : Nat, userTurns : Nat,
                    min : Nat \cup {None}, max : Nat \cup {None}],
         Aligned(c.text, c.mask, c.logps), c.mask # << >>
  PROVE  /\ Len(Response(c)) = Len(Cut(c.mask)) /\ Len(Cut(c.logps)) = Len(Cut(c.mask))
         /\ \A i \in DOMAIN Cut(c.mask) : Fits(Response(c)[i], Cut(c.mask)[i], Cut(c.logps)[i])
<1> DEFINE s == c.text
           m == c.mask
           l == c.logps
           r == SubSeq(s, Len(s) - Len(m) + 1, Len(s))
<1>1. s \in Seq(Tokens) /\ m \in Seq({0, 1}) /\ l \in Seq(Tokens \cup {None}) /\ Aligned(s, m, l) /\ m # << >>
  OBVIOUS
<1>2. Len(s) \in Nat /\ Len(m) \in Nat \ {0} /\ Len(m) <= Len(s) /\ Len(l) = Len(m)
  <2>1. Len(s) \in Nat /\ Len(m) \in Nat /\ Len(m) # 0
    BY <1>1, LenProperties, EmptySeq
  <2> QED BY <1>1, <2>1 DEF Aligned
<1>3. Response(c) = Cut(r)
  <2>1. LastOf(s, Len(m)) = r
    BY <1>2 DEF LastOf
  <2> QED BY <2>1 DEF Response
<1> HIDE DEF s, m, l
<1>4. r \in Seq(Tokens) /\ Len(r) = Len(m) /\ \A i \in 1..Len(m) : r[i] = s[Len(s) - Len(m) + i]
  <2> DEFINE b == Len(s) - Len(m) + 1
             e == Len(s)
  <2>1. b \in Int /\ e \in Int /\ e - b + 1 = Len(m) /\ b <= e
    BY <1>2
  <2>2. \A i \in b..e : s[i] \in Tokens
    <3>1. \A i \in b..e : i \in 1..Len(s)
      BY <1>2
    <3> QED BY <1>1, <3>1, ElementOfSeq
  <2>3. r = SubSeq(s, b, e) /\ \A i \in 1..Len(m) : b + i - 1 = Len(s) - Len(m) + i
    BY <1>2
  <2> HIDE DEF b, e, r
  <2>4. /\ SubSeq(s, b, e) \in Seq(Tokens)
        /\ Len(SubSeq(s, b, e)) = IF b <= e THEN e - b + 1 ELSE 0
        /\ \A i \in 1..(e - b + 1) : SubSeq(s, b, e)[i] = s[b + i - 1]
    BY <2>1, <2>2, SubSeqProperties
  <2>5. \A i \in 1..Len(m) : r[i] = s[b + i - 1]
    BY <2>1, <2>3, <2>4
  <2> QED BY <2>1, <2>3, <2>4, <2>5
<1> HIDE DEF r
<1>5. /\ Len(Cut(r)) = Len(Cut(m)) /\ Len(Cut(l)) = Len(Cut(m)) /\ DOMAIN Cut(m) = 1..Len(Cut(m))
  BY <1>1, <1>2, <1>4, CutFacts
<1>6. ASSUME NEW i \in 1..Len(Cut(m)) PROVE Fits(Cut(r)[i], Cut(m)[i], Cut(l)[i])
  <2>1. i \in 1..Len(m) /\ Cut(r)[i] = r[i] /\ Cut(m)[i] = m[i] /\ Cut(l)[i] = l[i]
    BY <1>1, <1>4, <1>5, CutFacts
  <2>2. Fits(s[Len(s) - Len(m) + i], m[i], l[i])
    BY <1>1, <2>1 DEF Aligned
  <2> QED BY <1>4, <2>1, <2>2
<1> QED BY <1>3, <1>5, <1>6 DEF m, l
-----------------------------------------------------------------------------
(* The invariant behind TranscriptKept                                     *)

\* The type of a conversation.
Talk == [text : Seq(Tokens), mask : Seq({0, 1}), logps : Seq(Tokens \cup {None}),
         assistantTurns : Nat, userTurns : Nat,
         min : Nat \cup {None}, max : Nat \cup {None}]

\* The invariant of one conversation: its text, mask and log probabilities are
\* aligned, what generate has collected stands right behind the text, what the
\* engine generates right behind that, and a turn that is over added a token.
Ordered(a) ==
  /\ Placed(talk[a].text) /\ Aligned(talk[a].text, talk[a].mask, talk[a].logps)
  /\ OfModel(output[a].ids, Len(talk[a].text)) /\ output[a].logps = output[a].ids
  /\ OfModel(part[a], Sent(a))
  /\ pc[a] \in {"tools", "interacting", "done"} => talk[a].mask # << >> /\ output[a].ids = << >>
  /\ pc[a] = "answered" /\ answer[a].reason = "completed" => part[a] # << >>

\* The invariant behind TranscriptKept.
TranscriptInv == \A a \in Agents : Ordered(a)

\* An opening has no token of the model, no mask and no log probabilities.
LEMMA InitTranscriptInv == Init => TranscriptInv
<1> SUFFICES ASSUME Init, NEW a \in Agents PROVE Ordered(a)
  BY DEF TranscriptInv
<1>1. /\ talk[a] = Opening(Prompt[a]) /\ output[a] = NoOutput /\ part[a] = << >> /\ pc[a] = "asking"
  BY DEF Init
<1>2. Prompt[a] \in Nat
  BY RolloutAssumption
<1>3. /\ talk[a].text = Given("prompt", Prompt[a]) /\ talk[a].mask = << >> /\ talk[a].logps = << >>
      /\ output[a].ids = << >> /\ output[a].logps = << >>
  BY <1>1 DEF Opening, NoOutput
<1>4. Given("prompt", Prompt[a]) \in Seq(Tokens)
  BY <1>2, VersionsOfGiven
<1>5. Len(Given("prompt", Prompt[a])) \in Nat
  BY <1>4, LenProperties
<1>6. \A i \in 1..Len(Given("prompt", Prompt[a])) : Given("prompt", Prompt[a])[i].who = "prompt"
  <2>1. DOMAIN Given("prompt", Prompt[a]) = 1..Len(Given("prompt", Prompt[a]))
    BY <1>4, LenProperties
  <2> QED BY <2>1 DEF Given
<1>7. Placed(talk[a].text)
  BY <1>3, <1>6 DEF Placed
<1>8. Aligned(talk[a].text, talk[a].mask, talk[a].logps)
  BY <1>3, <1>5 DEF Aligned
<1> QED BY <1>1, <1>3, <1>7, <1>8 DEF Ordered, OfModel

\* A conversation nothing of which changes but its place and its server.
LEMMA OrderStays ==
  ASSUME NEW a \in Agents, Ordered(a), talk'[a] = talk[a], output'[a] = output[a], part'[a] = part[a],
         pc'[a] \in {"tools", "interacting", "done"} => pc[a] \in {"tools", "interacting", "done"},
         pc'[a] = "answered" /\ answer'[a].reason = "completed" => pc[a] = "answered" /\ answer'[a] = answer[a]
  PROVE  Ordered(a)'
BY DEF Ordered, Sent

\* The engine's next token, at whatever server, is behind all before it.
LEMMA TokenKeepsOrder ==
  ASSUME TypeOK, NEW a \in Agents, Ordered(a), Token(a) PROVE Ordered(a)'
<1> DEFINE new == Generated(Serving(server[a]), Sent(a) + Len(part[a]) + 1)
<1>1. part[a] \in Seq(Tokens) /\ Sent(a) \in Nat /\ Len(part[a]) \in Nat
  BY SentIsNat, LenProperties DEF TypeOK
<1>2. /\ talk' = talk /\ output' = output /\ part' = [part EXCEPT ![a] = Append(part[a], new)]
      /\ pc' = pc \/ pc' = [pc EXCEPT ![a] = "answered"]
  BY DEF Token
<1>3. pc[a] = "running"
  BY DEF Token
<1>4. OfModel(Append(part[a], new), Sent(a)) /\ Append(part[a], new) # << >>
  <2>1. new.who = "model" /\ new.at = Sent(a) + Len(part[a]) + 1
    BY DEF Generated
  <2> HIDE DEF new
  <2>2. Append(part[a], new) # << >>
    BY <1>1
  <2> QED BY <1>1, <2>1, <2>2, OfModelAppend DEF Ordered
<1> HIDE DEF new
<1>5. part'[a] = Append(part[a], new) /\ pc'[a] \in {"running", "answered"}
  BY <1>2, <1>3 DEF TypeOK
<1>6. Sent(a)' = Sent(a)
  BY <1>2 DEF Sent
<1> QED BY <1>2, <1>4, <1>5, <1>6 DEF Ordered

\* generate joins an answer to those cut off before it (Merged).
LEMMA MergedOrder ==
  ASSUME TypeOK, NEW a \in Agents, Ordered(a)
  PROVE  /\ Merged(a).ids \in Seq(Tokens) /\ Merged(a).logps = Merged(a).ids
         /\ OfModel(Merged(a).ids, Len(talk[a].text))
         /\ part[a] # << >> => Merged(a).ids # << >>
<1>1. /\ output[a].ids \in Seq(Tokens) /\ part[a] \in Seq(Tokens) /\ talk[a].text \in Seq(Tokens)
      /\ Len(talk[a].text) \in Nat
  BY LenProperties DEF TypeOK
<1>2. OfModel(output[a].ids, Len(talk[a].text)) /\ OfModel(part[a], Len(talk[a].text) + Len(output[a].ids))
  BY DEF Ordered, Sent
<1>3. output[a].ids \o part[a] \in Seq(Tokens) /\ OfModel(output[a].ids \o part[a], Len(talk[a].text))
  BY <1>1, <1>2, OfModelConcat, ConcatProperties
<1>4. part[a] # << >> => output[a].ids \o part[a] # << >>
  <2>1. /\ Len(output[a].ids \o part[a]) = Len(output[a].ids) + Len(part[a])
        /\ Len(output[a].ids) \in Nat /\ Len(part[a]) \in Nat /\ Len(<< >>) = 0
        /\ part[a] # << >> => Len(part[a]) # 0
    BY <1>1, ConcatProperties, LenProperties, EmptySeq
  <2> QED BY <2>1
<1>5. Merged(a).ids = output[a].ids \o part[a] /\ Merged(a).logps = output[a].ids \o part[a]
  BY DEF Merged, Ordered
<1> QED BY <1>3, <1>4, <1>5

\* A request that is sent again starts behind what has been generated.
LEMMA RetryKeepsOrder ==
  ASSUME TypeOK, NEW a \in Agents, Ordered(a), Retry(a) PROVE Ordered(a)'
<1>1. /\ talk' = talk /\ output' = [output EXCEPT ![a] = Merged(a)]
      /\ part' = [part EXCEPT ![a] = << >>] /\ pc' = [pc EXCEPT ![a] = "asking"]
  BY DEF Retry, Answered
<1> DEFINE out == Merged(a)
<1>2. out.logps = out.ids /\ OfModel(out.ids, Len(talk[a].text))
  BY MergedOrder
<1> HIDE DEF out
<1>3. output'[a] = out /\ part'[a] = << >> /\ pc'[a] = "asking"
  BY <1>1 DEF TypeOK, out
<1>4. OfModel(<< >>, Sent(a)')
  BY DEF OfModel
<1> QED BY <1>1, <1>2, <1>3, <1>4 DEF Ordered

\* The fields of a conversation after a turn.
LEMMA AnswerIs ==
  ASSUME NEW old \in Talk, NEW out
  PROVE  LET c == WithAnswer(old, out) IN
         /\ c.text = old.text \o out.ids /\ c.mask = old.mask \o [i \in DOMAIN out.ids |-> 1]
         /\ c.logps = old.logps \o out.logps
<1> DEFINE ones == [i \in DOMAIN out.ids |-> 1]
           lo == IF old.assistantTurns = 0 THEN out.min ELSE old.min
           hi == IF old.assistantTurns = 0 \/ out.max # 0 THEN out.max ELSE old.max
           c == WithAnswer(old, out)
<1>1. c = [old EXCEPT !.text = old.text \o out.ids, !.mask = old.mask \o ones,
                      !.logps = old.logps \o out.logps,
                      !.assistantTurns = old.assistantTurns + 1, !.min = lo, !.max = hi]
  BY Zenon DEF WithAnswer, ones, Talk
<1> HIDE DEF lo, hi, c, ones
<1>2. c.text = old.text \o out.ids /\ c.mask = old.mask \o ones /\ c.logps = old.logps \o out.logps
  BY <1>1 DEF Talk
<1> QED BY <1>2 DEF c, ones

\* A sequence something was appended to is not empty.
LEMMA LongerIsNotEmpty ==
  ASSUME NEW s, NEW p \in Nat, NEW q \in Nat, Len(s) = p + q, p # 0 \/ q # 0 PROVE s # << >>
<1>1. Len(s) # 0
  BY SMT
<1>2. Len(<< >>) = 0
  BY EmptySeq
<1> QED BY <1>1, <1>2

\* The turn of the model: its tokens, ones for the mask, its log probabilities.
LEMMA AnswerKeepsOrder ==
  ASSUME NEW old \in Talk, NEW out, out.ids \in Seq(Tokens), out.logps = out.ids, out.ids # << >>,
         OfModel(out.ids, Len(old.text)), Placed(old.text), Aligned(old.text, old.mask, old.logps)
  PROVE  LET c == WithAnswer(old, out) IN
         Placed(c.text) /\ Aligned(c.text, c.mask, c.logps) /\ c.mask # << >>
<1> DEFINE ones == [i \in DOMAIN out.ids |-> 1]
           c == WithAnswer(old, out)
<1>1. /\ old.text \in Seq(Tokens) /\ old.mask \in Seq({0, 1}) /\ old.logps \in Seq(Tokens \cup {None})
      /\ out.ids \in Seq(Tokens \cup {None})
  BY DEF Talk
<1>2. Len(out.ids) \in Nat \ {0} /\ DOMAIN out.ids = 1..Len(out.ids) /\ Len(old.mask) \in Nat
  <2>1. Len(out.ids) \in Nat /\ Len(out.ids) # 0
    BY LenProperties, EmptySeq
  <2> QED BY <1>1, <2>1, LenProperties
<1>3. ones \in Seq({0, 1}) /\ Len(ones) = Len(out.ids) /\ \A i \in 1..Len(out.ids) : ones[i] = 1
  <2>1. ones = [i \in 1..Len(out.ids) |-> 1] /\ Len(out.ids) \in Nat
    BY <1>2
  <2>2. [i \in 1..Len(out.ids) |-> 1] \in Seq({0, 1})
    BY <2>1, Repeated
  <2> QED BY <2>1, <2>2, LenProperties
<1>4. c.text = old.text \o out.ids /\ c.mask = old.mask \o ones /\ c.logps = old.logps \o out.logps
  BY AnswerIs
<1> HIDE DEF c, ones
<1>5. Placed(c.text)
  BY <1>1, <1>4, PlacedConcat DEF OfModel
<1>6. AllFit(out.ids, ones, out.logps)
  BY <1>3 DEF AllFit, Fits, OfModel
<1>7. Aligned(c.text, c.mask, c.logps) /\ Len(c.mask) = Len(old.mask) + Len(out.ids)
  <2> DEFINE s == old.text
             m == old.mask
             l == old.logps
             t == out.ids
             k == out.logps
  <2>1. /\ s \in Seq(Tokens) /\ m \in Seq(Bits) /\ l \in Seq(Logps) /\ Aligned(s, m, l)
        /\ t \in Seq(Tokens) /\ ones \in Seq(Bits) /\ k \in Seq(Logps) /\ AllFit(t, ones, k)
    BY <1>1, <1>3, <1>6 DEF Bits, Logps
  <2> HIDE DEF s, m, l, t, k
  <2>2. Aligned(s \o t, m \o ones, l \o k) /\ Len(m \o ones) = Len(m) + Len(t)
    BY <2>1, AlignedConcat
  <2> QED BY <1>4, <2>2, Zenon DEF s, m, l, t, k
<1>8. c.mask # << >>
  BY <1>2, <1>7, LongerIsNotEmpty, Zenon
<1> QED BY <1>5, <1>7, <1>8 DEF c

\* What a tool or a user says: tokens, zeros for the mask, and 0.0 for the log
\* probabilities, of which there are some because the model spoke before.
LEMMA FeedKeepsOrder ==
  ASSUME NEW old \in Talk, NEW who \in {"tool", "user"}, NEW n \in Nat, old.mask # << >>,
         Placed(old.text), Aligned(old.text, old.mask, old.logps)
  PROVE  LET c == WithFeed(old, who, n) IN
         Placed(c.text) /\ Aligned(c.text, c.mask, c.logps) /\ c.mask # << >>
<1> DEFINE zeros == [i \in 1..n |-> 0]
           nones == [i \in 1..n |-> None]
           t == Given(who, n)
           logps == IF old.logps = << >> THEN old.logps ELSE old.logps \o nones
           c == WithFeed(old, who, n)
<1>1. old.text \in Seq(Tokens) /\ old.mask \in Seq({0, 1}) /\ old.logps \in Seq(Tokens \cup {None})
  BY DEF Talk
<1>2. Len(old.mask) \in Nat \ {0} /\ Len(old.logps) = Len(old.mask) /\ old.logps # << >>
  <2>1. Len(old.mask) \in Nat /\ Len(old.mask) # 0 /\ Len(old.logps) = Len(old.mask)
    BY <1>1, LenProperties, EmptySeq DEF Aligned
  <2> QED BY <2>1, EmptySeq
<1>3. t \in Seq(Tokens) /\ Len(t) = n /\ \A i \in 1..n : t[i].who = who
  <2>1. t \in Seq(Tokens) /\ DOMAIN t = 1..n
    BY VersionsOfGiven DEF Given
  <2>2. Len(t) \in Nat /\ 1..Len(t) = 1..n
    BY <2>1, LenProperties
  <2>3. Len(t) = n
    BY <2>2
  <2>4. \A i \in 1..n : t[i].who = who
    BY DEF Given
  <2> QED BY <2>1, <2>3, <2>4
<1>4. /\ zeros \in Seq({0, 1}) /\ nones \in Seq(Tokens \cup {None})
      /\ Len(zeros) = n /\ Len(nones) = n
      /\ \A i \in 1..n : zeros[i] = 0 /\ nones[i] = None
  <2>1. zeros \in Seq({0, 1}) /\ nones \in Seq(Tokens \cup {None})
    BY Repeated
  <2>2. DOMAIN zeros = 1..n /\ DOMAIN nones = 1..n
    OBVIOUS
  <2> QED BY <2>1, <2>2, LenProperties
<1>5. c.text = old.text \o t /\ c.mask = old.mask \o zeros /\ c.logps = old.logps \o nones
  <2>1. c = [old EXCEPT !.text = old.text \o t, !.mask = old.mask \o zeros,
                        !.logps = logps, !.userTurns = old.userTurns + 1]
    BY Zenon DEF WithFeed, Talk
  <2> HIDE DEF logps, c, zeros, t
  <2>2. c.text = old.text \o t /\ c.mask = old.mask \o zeros /\ c.logps = logps
    BY <2>1 DEF Talk
  <2> QED BY <1>2, <2>2 DEF logps
<1> HIDE DEF c, zeros, nones, t
<1>6. AllFit(t, zeros, nones) /\ \A i \in 1..Len(t) : t[i].who # "model"
  BY <1>3, <1>4 DEF AllFit, Fits
<1>7. Placed(c.text)
  BY <1>1, <1>3, <1>5, <1>6, PlacedConcat
<1>8. Aligned(c.text, c.mask, c.logps) /\ Len(c.mask) = Len(old.mask) + Len(t)
  <2> DEFINE s == old.text
             m == old.mask
             l == old.logps
  <2>1. /\ s \in Seq(Tokens) /\ m \in Seq(Bits) /\ l \in Seq(Logps) /\ Aligned(s, m, l)
        /\ t \in Seq(Tokens) /\ zeros \in Seq(Bits) /\ nones \in Seq(Logps) /\ AllFit(t, zeros, nones)
    BY <1>1, <1>3, <1>4, <1>6 DEF Bits, Logps
  <2> HIDE DEF s, m, l
  <2>2. Aligned(s \o t, m \o zeros, l \o nones) /\ Len(m \o zeros) = Len(m) + Len(t)
    BY <2>1, AlignedConcat
  <2> QED BY <1>5, <2>2, Zenon DEF s, m, l
<1>9. c.mask # << >>
  BY <1>2, <1>3, <1>8, LongerIsNotEmpty, Zenon
<1> QED BY <1>7, <1>8, <1>9 DEF c

\* With partial rollout only a completed answer ends a turn, and it has a token.
LEMMA EndTurnKeepsOrder ==
  ASSUME PartialRollout, VersionInv, NEW a \in Agents, Ordered(a), EndTurn(a) PROVE Ordered(a)'
<1> DEFINE c == WithAnswer(talk[a], Merged(a))
<1>1. /\ pc[a] = "answered" /\ ~Retries(a)
      /\ talk' = [talk EXCEPT ![a] = c] /\ output' = [output EXCEPT ![a] = NoOutput]
      /\ part' = [part EXCEPT ![a] = << >>]
      /\ \E next \in {"done", "tools", "interacting"} : pc' = [pc EXCEPT ![a] = next]
  BY DEF EndTurn, Answered
<1>2. answer[a].reason = "completed"
  <2>1. answer[a].reason \in {"completed", "aborted"}
    BY <1>1 DEF VersionInv, Served
  <2> QED BY <1>1, <2>1 DEF Retries
<1>3. TypeOK /\ talk[a] \in Talk
  BY DEF VersionInv, TypeOK, Talk
<1>4. /\ Merged(a).ids \in Seq(Tokens) /\ Merged(a).logps = Merged(a).ids
      /\ OfModel(Merged(a).ids, Len(talk[a].text)) /\ Merged(a).ids # << >>
  BY <1>1, <1>2, <1>3, MergedOrder DEF Ordered
<1>5. Placed(c.text) /\ Aligned(c.text, c.mask, c.logps) /\ c.mask # << >>
  BY <1>3, <1>4, AnswerKeepsOrder DEF Ordered
<1> HIDE DEF c
<1>6. /\ talk'[a] = c /\ output'[a] = NoOutput /\ part'[a] = << >>
      /\ pc'[a] \in {"done", "tools", "interacting"}
  BY <1>1, <1>3 DEF TypeOK
<1>7. NoOutput.ids = << >> /\ NoOutput.logps = << >>
  BY DEF NoOutput
<1>8. OfModel(<< >>, Len(c.text)) /\ OfModel(<< >>, Sent(a)')
  BY DEF OfModel
<1> QED BY <1>5, <1>6, <1>7, <1>8 DEF Ordered

\* The turn of a tool or a user.
LEMMA HearKeepsOrder ==
  ASSUME TypeOK, NEW a \in Agents, Ordered(a), NEW who \in {"tool", "user"}, NEW n \in Nat,
         pc[a] \in {"tools", "interacting"},
         NEW next \in {"asking", "done"}, pc' = [pc EXCEPT ![a] = next],
         talk' = [talk EXCEPT ![a] = WithFeed(talk[a], who, n)], output' = output, part' = part, part[a] = << >>
  PROVE  Ordered(a)'
<1> DEFINE c == WithFeed(talk[a], who, n)
<1>1. Placed(c.text) /\ Aligned(c.text, c.mask, c.logps) /\ c.mask # << >>
  BY FeedKeepsOrder DEF Ordered, TypeOK, Talk
<1> HIDE DEF c
<1>2. talk'[a] = c /\ output'[a].ids = << >> /\ output'[a].logps = << >> /\ part'[a] = << >> /\ pc'[a] = next
  BY DEF TypeOK, Ordered, c
<1>3. OfModel(<< >>, Len(c.text)) /\ OfModel(<< >>, Sent(a)')
  BY DEF OfModel
<1> QED BY <1>1, <1>2, <1>3 DEF Ordered

\* A push that cuts a request off changes nothing of its conversation.
LEMMA AbortKeepsOrder ==
  ASSUME TypeOK, NEW s \in Replicas, AbortAll(s), NEW a \in Agents, Ordered(a) PROVE Ordered(a)'
<1>1. talk' = talk /\ output' = output /\ part' = part
  BY DEF AbortAll
<1>2. CASE pc[a] = "running" /\ server[a] = s
  <2>1. pc'[a] = "answered" /\ answer'[a].reason = "aborted"
    BY <1>2 DEF AbortAll
  <2> QED BY <1>1, <2>1, OrderStays
<1>3. CASE ~(pc[a] = "running" /\ server[a] = s)
  <2>1. pc'[a] = pc[a] /\ answer'[a] = answer[a]
    BY <1>3 DEF AbortAll
  <2> QED BY <1>1, <2>1, OrderStays
<1> QED BY <1>2, <1>3

\* A step of a conversation keeps its order.
LEMMA AgentKeepsOrder ==
  ASSUME PartialRollout, VersionInv, NEW a \in Agents, Agent(a), Ordered(a) PROVE Ordered(a)'
<1>1. TypeOK
  BY DEF VersionInv
<1>2. CASE Acquire(a) \/ Refuse(a) \/ Accept(a)
  <2>1. /\ UNCHANGED <<talk, output, part, answer>>
        /\ pc'[a] \in {"sent", "failed", "running"}
    BY <1>1, <1>2 DEF Acquire, Refuse, Accept, request, TypeOK
  <2> QED BY <2>1, OrderStays
<1>3. CASE HearTools(a)
  <2>1. PICK n \in Feeds :
          IF FeedFits(talk[a], n)
          THEN /\ talk' = [talk EXCEPT ![a] = WithFeed(@, "tool", n)]
               /\ pc' = [pc EXCEPT ![a] = "asking"]
          ELSE pc' = [pc EXCEPT ![a] = "done"] /\ UNCHANGED talk
    BY <1>3 DEF HearTools
  <2>2. n \in Nat /\ pc[a] = "tools" /\ output' = output /\ part' = part /\ part[a] = << >>
    BY <1>3, RolloutAssumption DEF HearTools, request, VersionInv, Served
  <2>3. CASE FeedFits(talk[a], n)
    BY <1>1, <2>1, <2>2, <2>3, HearKeepsOrder
  <2>4. CASE ~FeedFits(talk[a], n)
    <3>1. talk' = talk /\ pc'[a] = "done"
      BY <1>1, <2>1, <2>4 DEF TypeOK
    <3> QED BY <2>2, <3>1, OrderStays
  <2> QED BY <2>3, <2>4
<1>4. CASE HearUser(a)
  <2>1. PICK n \in Feeds, next \in {"asking", "done"} :
          /\ talk' = [talk EXCEPT ![a] = WithFeed(@, "user", n)]
          /\ pc' = [pc EXCEPT ![a] = next]
    BY <1>4 DEF HearUser
  <2>2. n \in Nat /\ pc[a] = "interacting" /\ output' = output /\ part' = part /\ part[a] = << >>
    BY <1>4, RolloutAssumption DEF HearUser, request, VersionInv, Served
  <2> QED BY <1>1, <2>1, <2>2, HearKeepsOrder
<1>5. CASE Token(a)
  BY <1>1, <1>5, TokenKeepsOrder
<1>6. CASE Retry(a)
  BY <1>1, <1>6, RetryKeepsOrder
<1>7. CASE EndTurn(a)
  BY <1>7, EndTurnKeepsOrder
<1> QED BY <1>2, <1>3, <1>4, <1>5, <1>6, <1>7 DEF Agent

\* And it leaves the others alone.
LEMMA OthersKeepOrder ==
  ASSUME TypeOK, NEW a \in Agents, Agent(a), NEW b \in Agents, b # a, Ordered(b) PROVE Ordered(b)'
<1>1. /\ talk'[b] = talk[b] /\ output'[b] = output[b] /\ part'[b] = part[b]
      /\ pc'[b] = pc[b] /\ answer'[b] = answer[b]
  BY DEF Agent, Acquire, Refuse, Accept, Token, Retry, EndTurn, Answered, HearTools, HearUser, request, TypeOK
<1> QED BY <1>1, OrderStays

\* Every step keeps every conversation in order.
LEMMA StepKeepsOrder == PartialRollout /\ VersionInv /\ TranscriptInv /\ [Next]_vars => TranscriptInv'
<1> SUFFICES ASSUME PartialRollout, VersionInv, TranscriptInv, [Next]_vars, NEW b \in Agents
             PROVE  Ordered(b)'
  BY DEF TranscriptInv
<1>1. TypeOK /\ Ordered(b)
  BY DEF VersionInv, TranscriptInv
<1>2. ASSUME UNCHANGED <<pc, talk, output, request>> PROVE Ordered(b)'
  BY <1>1, <1>2, OrderStays DEF request
<1>3. CASE Publish \/ UNCHANGED vars
  BY <1>2, <1>3 DEF Publish, vars, rollout
<1>4. ASSUME NEW s \in Replicas, AbortAll(s) PROVE Ordered(b)'
  BY <1>1, <1>4, AbortKeepsOrder
<1>5. ASSUME NEW s \in Replicas, SetGlobalSteps(s) \/ ResumeGeneration(s) \/ \E w \in s : LoadWorker(s, w)
      PROVE  Ordered(b)'
  BY <1>2, <1>5 DEF SetGlobalSteps, ResumeGeneration, LoadWorker, rollout
<1>6. ASSUME NEW a \in Agents, Agent(a) PROVE Ordered(b)'
  BY <1>1, <1>6, AgentKeepsOrder, OthersKeepOrder
<1>7. ASSUME NEW a \in Agents, Release(a) PROVE Ordered(b)'
  BY <1>2, <1>7 DEF Release
<1> QED BY <1>3, <1>4, <1>5, <1>6, <1>7 DEF Next, Push

\* With partial rollout, however often a push cuts a conversation off and a retry
\* moves it to another server, every token of the model stands where it was
\* generated for, and the mask and the log probabilities of a finished conversation
\* belong to the tokens of its response (FullyAsyncLLMServerManager.generate,
\* ToolAgentLoop, abort_all_requests).  Without it a push may end the first turn
\* before the engine generated a token, and the property does not hold.
THEOREM TranscriptsAreKept == ASSUME PartialRollout PROVE Spec => []TranscriptKept
<1>1. ASSUME VersionInv, TranscriptInv PROVE TranscriptKept
  <2> SUFFICES ASSUME NEW a \in Agents
               PROVE  LET c == talk[a] IN
                      /\ \A i \in DOMAIN c.text : c.text[i].who = "model" => c.text[i].at = i
                      /\ pc[a] = "done" =>
                           /\ Len(Response(c)) = Len(Cut(c.mask)) /\ Len(Cut(c.logps)) = Len(Cut(c.mask))
                           /\ \A i \in DOMAIN Cut(c.mask) : Fits(Response(c)[i], Cut(c.mask)[i], Cut(c.logps)[i])
    BY DEF TranscriptKept, Fits
  <2>1. talk[a] \in Talk /\ Ordered(a)
    BY <1>1 DEF VersionInv, TypeOK, Talk, TranscriptInv
  <2>2. DOMAIN talk[a].text = 1..Len(talk[a].text)
    BY <2>1, LenProperties DEF Talk
  <2> QED BY <2>1, <2>2, AlignedResponse DEF Ordered, Placed, Talk
<1>2. Init => TranscriptInv
  BY InitTranscriptInv
<1>3. VersionInv /\ TranscriptInv /\ [Next]_vars => TranscriptInv'
  BY StepKeepsOrder
<1> QED BY <1>1, <1>2, <1>3, VersionsInvariant, PTL DEF Spec
=============================================================================
