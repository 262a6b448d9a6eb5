---------------------------- MODULE AgentRollout ----------------------------
(***************************************************************************)
(* The rollout of conversations while weights are pushed: the agent loops  *)
(* of verl/experimental/agent_loop (tool_agent_loop.py), the load balancer *)
(* they share, the retries of fully_async_policy/agent_loop, the servers   *)
(* of vllm_async_server.py, and the manager of checkpoint_engine/base.py,  *)
(* which pauses the servers, loads and resumes them.                       *)
(*                                                                         *)
(* The replicas are those of WeightDelivery, each behind one server, and a *)
(* push is made of its steps.  Replicas that cannot be paused are its      *)
(* matter, not this module's.  A conversation is a coroutine that waits    *)
(* for the balancer, a server, its tools or its user; the balancer hears   *)
(* of a released server later, in the order of that coroutine's calls.     *)
(***************************************************************************)
EXTENDS Integers, Sequences, SequencesExt, FiniteSets, FiniteSetsExt

CONSTANTS
  Agents,                   \* the conversations, each with a request_id of its own
  Servers,                  \* the replicas, in the order the balancer knows them
  Tensors,
  PromptLength, ResponseLength,
  Prompt,                   \* the length of each one's prompt
  Feeds,                    \* lengths of what tools and users say
  MaxAssistantTurns, MaxUserTurns,     \* 0: no limit
  Interactions,             \* an interaction is configured
  CacheSize,                \* conversations the balancer remembers
  PartialRollout,           \* async_training.partial_rollout
  LastVersion,              \* bound on the pushes
  None

ASSUME RolloutAssumption ==
  /\ {PromptLength, ResponseLength, CacheSize} \subseteq Nat \ {0}
  /\ Prompt \in [Agents -> 1..PromptLength] /\ Feeds \subseteq Nat \ {0}
  /\ {MaxAssistantTurns, MaxUserTurns, LastVersion} \subseteq Nat
  /\ Servers # << >> /\ IsInjective(Servers)
  /\ {PartialRollout, Interactions} \subseteq BOOLEAN /\ None \notin Int

Replicas == Range(Servers)

VARIABLES
  latest, model, label, open, excused,      \* of WeightDelivery
  pc,                       \* where the coroutine of a conversation is
  talk,                     \* its AgentData
  output,                   \* what generate has collected over its retries
  server,                   \* the server of its request
  part,                     \* tokens of the request so far
  answer,                   \* the server's answer: [reason, version]
  owed,                     \* the server whose release is on its way to the balancer
  inflight, route           \* the balancer's counts, and its LRU cache, recent ones last

Delivery == INSTANCE WeightDelivery

delivery == <<latest, model, label, open, excused>>
request == <<server, part, answer>>
balancer == <<owed, inflight, route>>
vars == <<delivery, pc, talk, output, request, balancer>>

\* A token remembers who wrote it, and one of the model the versions of the
\* weights it comes from and the position it was generated for.
Given(who, n) == [i \in 1..n |-> [who |-> who, by |-> {}, at |-> 0]]
Generated(versions, i) == [who |-> "model", by |-> versions, at |-> i]

Opening(n) ==
  [text |-> Given("prompt", n), mask |-> << >>, logps |-> << >>,
   assistantTurns |-> 0, userTurns |-> 0, min |-> None, max |-> None]

NoOutput == [ids |-> << >>, logps |-> << >>, min |-> None, max |-> None]

Init ==
  /\ Delivery!Init
  /\ pc = [a \in Agents |-> "asking"]
  /\ talk = [a \in Agents |-> Opening(Prompt[a])]
  /\ output = [a \in Agents |-> NoOutput]
  /\ server = [a \in Agents |-> None]
  /\ part = [a \in Agents |-> << >>]
  /\ answer = [a \in Agents |-> None]
  /\ owed = [a \in Agents |-> None]
  /\ inflight = [s \in Replicas |-> 0]
  /\ route = << >>
-----------------------------------------------------------------------------
(* The load balancer.                                                      *)

Remembered(a) == {s \in Replicas : Contains(route, <<a, s>>)}

\* The first of the servers with the fewest requests.
LeastLoaded ==
  Servers[Min({i \in DOMAIN Servers : \A s \in Replicas : inflight[Servers[i]] <= inflight[s]})]

\* The cache after a look at a's server: the least recent entry makes room.
Routed(a, s) ==
  LET others == SelectSeq(route, LAMBDA e : e[1] # a)
  IN  Append(IF Len(others) = CacheSize THEN Tail(others) ELSE others, <<a, s>>)

Acquire(a) ==
  /\ pc[a] = "asking" /\ owed[a] = None
  /\ LET s == IF Remembered(a) # {} THEN CHOOSE r \in Remembered(a) : TRUE ELSE LeastLoaded
     IN  /\ server' = [server EXCEPT ![a] = s]
         /\ inflight' = [inflight EXCEPT ![s] = @ + 1]
         /\ route' = Routed(a, s)
  /\ pc' = [pc EXCEPT ![a] = "sent"]
  /\ UNCHANGED <<delivery, talk, output, part, answer, owed>>

Release(a) ==
  /\ owed[a] # None
  /\ inflight' = [inflight EXCEPT ![owed[a]] = @ - 1]
  /\ owed' = [owed EXCEPT ![a] = None]
  /\ UNCHANGED <<delivery, pc, talk, output, request, route>>
-----------------------------------------------------------------------------
(* A server.                                                               *)

\* Mutation: a request that was cut off starts again.
MutantSent(a) == Len(talk[a].text)

\* The length of the prompt of a request: the conversation, and what was
\* generated before the request was cut off.
Sent(a) == Len(talk[a].text) + Len(output[a].ids)

Least(i, j) == IF i <= j THEN i ELSE j

\* max_tokens; the engine does not take a request without any.
MaxTokens(a) == Least(ResponseLength, PromptLength + ResponseLength - Sent(a))

\* The exception ends the conversation, and the batch it belongs to.
Refuse(a) ==
  /\ pc[a] = "sent" /\ MaxTokens(a) <= 0
  /\ pc' = [pc EXCEPT ![a] = "failed"]
  /\ owed' = [owed EXCEPT ![a] = server[a]]
  /\ UNCHANGED <<delivery, talk, output, request, inflight, route>>

\* The engine takes no request while it is paused.
Accept(a) ==
  /\ pc[a] = "sent" /\ MaxTokens(a) > 0 /\ server[a] \in open
  /\ pc' = [pc EXCEPT ![a] = "running"]
  /\ UNCHANGED <<delivery, talk, output, request, balancer>>

Serving(s) == {model[w][t] : w \in s, t \in Tensors}

\* The engine generates a token; with the one that ends the answer, at the
\* latest the last it may, the request is finished.
Token(a) ==
  /\ pc[a] = "running"
  /\ LET tokens == Append(part[a], Generated(Serving(server[a]), Sent(a) + Len(part[a]) + 1))
     IN  /\ part' = [part EXCEPT ![a] = tokens]
         /\ \/ Len(tokens) < MaxTokens(a) /\ UNCHANGED <<pc, answer>>
            \/ /\ pc' = [pc EXCEPT ![a] = "answered"]
               /\ answer' = [answer EXCEPT ![a] = [reason |-> "completed", version |-> label[server[a]]]]
  /\ UNCHANGED <<delivery, talk, output, server, balancer>>
-----------------------------------------------------------------------------
(* A conversation.                                                         *)

\* Mutation: the first version is that of the last answer, too.
MutantMerged(a) ==
  [ids |-> output[a].ids \o part[a],
   logps |-> output[a].logps \o part[a],
   min |-> answer[a].version,
   max |-> answer[a].version]

\* Tokens, log probabilities and versions of an answer join those before it.
Merged(a) ==
  [ids |-> output[a].ids \o part[a],
   logps |-> output[a].logps \o part[a],
   min |-> IF output[a].min = None THEN answer[a].version ELSE output[a].min,
   max |-> answer[a].version]

Retries(a) == answer[a].reason = "aborted" /\ PartialRollout

Answered(a) ==
  /\ pc[a] = "answered"
  /\ owed' = [owed EXCEPT ![a] = server[a]]
  /\ server' = [server EXCEPT ![a] = None]
  /\ part' = [part EXCEPT ![a] = << >>]
  /\ answer' = [answer EXCEPT ![a] = None]
  /\ UNCHANGED <<delivery, inflight, route>>

Retry(a) ==
  /\ Answered(a) /\ Retries(a)
  /\ output' = [output EXCEPT ![a] = Merged(a)]
  /\ pc' = [pc EXCEPT ![a] = "asking"]
  /\ UNCHANGED talk

\* The first turn brings all fields of the answer, later ones the last version.
WithAnswer(c, out) ==
  [c EXCEPT !.text = @ \o out.ids,
            !.mask = @ \o [i \in DOMAIN out.ids |-> 1],
            !.logps = @ \o out.logps,
            !.assistantTurns = @ + 1,
            !.min = IF c.assistantTurns = 0 THEN out.min ELSE @,
            !.max = IF c.assistantTurns = 0 \/ out.max # 0 THEN out.max ELSE @]

Reached(count, limit) == limit # 0 /\ count >= limit

Ended(c) ==
  \/ Len(c.mask) >= ResponseLength
  \/ Reached(c.assistantTurns, MaxAssistantTurns)
  \/ Reached(c.userTurns, MaxUserTurns)

\* What the answer says decides what comes next, unless the conversation ends.
EndTurn(a) ==
  /\ Answered(a) /\ ~Retries(a)
  /\ output' = [output EXCEPT ![a] = NoOutput]
  /\ LET c == WithAnswer(talk[a], Merged(a)) IN
     /\ talk' = [talk EXCEPT ![a] = c]
     /\ \E next \in IF Ended(c) THEN {"done"}
                    ELSE {"tools", IF Interactions THEN "interacting" ELSE "done"} :
          pc' = [pc EXCEPT ![a] = next]

\* Tools and users add tokens the model has no part in; a log probability of
\* 0.0 is None here.
WithFeed(c, who, n) ==
  [c EXCEPT !.text = @ \o Given(who, n),
            !.mask = @ \o [i \in 1..n |-> 0],
            !.logps = IF @ = << >> THEN @ ELSE @ \o [i \in 1..n |-> None],
            !.userTurns = @ + 1]

\* Mutation: what the tools say is not counted.
MutantFeedFits(c, n) == Len(c.mask) < ResponseLength

FeedFits(c, n) == Len(c.mask) + n < ResponseLength

\* _handle_processing_tools_state: an answer that is too long ends it all.
HearTools(a) ==
  /\ pc[a] = "tools"
  /\ \E n \in Feeds :
       IF FeedFits(talk[a], n)
       THEN /\ talk' = [talk EXCEPT ![a] = WithFeed(@, "tool", n)]
            /\ pc' = [pc EXCEPT ![a] = "asking"]
       ELSE pc' = [pc EXCEPT ![a] = "done"] /\ UNCHANGED talk
  /\ UNCHANGED <<delivery, output, request, balancer>>

\* _handle_interacting_state: no length is looked at.
HearUser(a) ==
  /\ pc[a] = "interacting"
  /\ \E n \in Feeds, next \in {"asking", "done"} :
       /\ talk' = [talk EXCEPT ![a] = WithFeed(@, "user", n)]
       /\ pc' = [pc EXCEPT ![a] = next]
  /\ UNCHANGED <<delivery, output, request, balancer>>

\* The last n elements as Python's [-n:] finds them: all of them for n = 0.
LastOf(s, n) == IF n = 0 THEN s ELSE SubSeq(s, Len(s) - n + 1, Len(s))

\* The fields of the AgentLoopOutput that run returns, cut off.
Cut(s) == SubSeq(s, 1, Least(ResponseLength, Len(s)))
Response(c) == Cut(LastOf(c.text, Len(c.mask)))
-----------------------------------------------------------------------------
(* A push.  Each gather waits for all servers.                             *)

rollout == <<pc, talk, output, request, balancer>>

Publish ==
  /\ latest < LastVersion
  /\ Delivery!NewVersion
  /\ UNCHANGED rollout

\* abort_all_requests: what has been taken is answered as it stands.
AbortAll(s) ==
  /\ s \in open /\ label[s] < latest
  /\ Delivery!Pause(s)
  /\ LET cut == {a \in Agents : pc[a] = "running" /\ server[a] = s}
     IN  /\ pc' = [a \in Agents |-> IF a \in cut THEN "answered" ELSE pc[a]]
         /\ answer' = [a \in Agents |-> IF a \in cut
                         THEN [reason |-> "aborted", version |-> label[s]] ELSE answer[a]]
  /\ UNCHANGED <<talk, output, server, part, balancer>>

AllPaused == open = {}

LoadWorker(s, w) ==
  /\ AllPaused /\ \E t \in Tensors : model[w][t] # latest
  /\ Delivery!Load(s, w, Tensors)
  /\ UNCHANGED rollout

SetGlobalSteps(s) ==
  /\ AllPaused /\ label[s] # latest
  /\ Delivery!Report(s)
  /\ UNCHANGED rollout

ResumeGeneration(s) ==
  /\ s \notin open /\ \A r \in Replicas : label[r] = latest
  /\ Delivery!Reopen(s)
  /\ UNCHANGED rollout
-----------------------------------------------------------------------------
Agent(a) ==
  \/ Acquire(a) \/ Refuse(a) \/ Accept(a) \/ Token(a)
  \/ Retry(a) \/ EndTurn(a) \/ HearTools(a) \/ HearUser(a)

Push ==
  \E s \in Replicas :
    \/ AbortAll(s) \/ SetGlobalSteps(s) \/ ResumeGeneration(s)
    \/ \E w \in s : LoadWorker(s, w)

Next == Publish \/ Push \/ \E a \in Agents : Agent(a) \/ Release(a)

Spec == Init /\ [][Next]_vars

\* Coroutines, servers and the manager go on; a server generates until the
\* model ends its answer or has no tokens left.
FairSpec ==
  /\ Spec /\ WF_vars(Push)
  /\ \A a \in Agents : WF_vars(Agent(a)) /\ WF_vars(Release(a))
-----------------------------------------------------------------------------
(* Properties.                                                             *)

\* The types of what a conversation keeps.
Tokens == [who : {"prompt", "model", "tool", "user"}, by : SUBSET Nat, at : Nat]

TypeOK ==
  /\ pc \in [Agents -> {"asking", "sent", "running", "answered", "tools", "interacting", "done", "failed"}]
  /\ talk \in [Agents -> [text : Seq(Tokens), mask : Seq({0, 1}), logps : Seq(Tokens \cup {None}),
                          assistantTurns : Nat, userTurns : Nat,
                          min : Nat \cup {None}, max : Nat \cup {None}]]
  /\ output \in [Agents -> [ids : Seq(Tokens), logps : Seq(Tokens),
                            min : Nat \cup {None}, max : Nat \cup {None}]]
  /\ part \in [Agents -> Seq(Tokens)]
  /\ DOMAIN server = Agents /\ DOMAIN answer = Agents

\* Interruptions and turns leave no trace in what is trained: every token of
\* the model was generated right behind the tokens it stands behind, and the
\* mask and the log probabilities of a finished conversation belong to the
\* tokens of its response (FullyAsyncLLMServerManager.generate, ToolAgentLoop).
TranscriptKept ==
  \A a \in Agents :
    LET c == talk[a]
        response == Response(c)
        mask == Cut(c.mask)
        logps == Cut(c.logps)
    IN  /\ \A i \in DOMAIN c.text : c.text[i].who = "model" => c.text[i].at = i
        /\ pc[a] = "done" =>
             /\ Len(response) = Len(mask) /\ Len(logps) = Len(mask)
             /\ \A i \in DOMAIN mask :
                  IF response[i].who = "model" THEN mask[i] = 1 /\ logps[i] = response[i]
                  ELSE mask[i] = 0 /\ logps[i] = None

\* min_global_steps and max_global_steps, by which the trainer measures how
\* stale a conversation is, enclose the versions of all its tokens, whatever
\* servers it moved between and whichever pushes cut it off.
VersionsCover ==
  \A a \in Agents : \A i \in DOMAIN talk[a].text : \A v \in talk[a].text[i].by :
    talk[a].min <= v /\ v <= talk[a].max

\* Every conversation ends, and only one that users talked into ends because
\* no room is left for an answer: tools always leave some.
EveryAgentEnds ==
  <>(\A a \in Agents :
       \/ pc[a] = "done"
       \/ pc[a] = "failed" /\ \E i \in DOMAIN talk[a].text : talk[a].text[i].who = "user")
=============================================================================
