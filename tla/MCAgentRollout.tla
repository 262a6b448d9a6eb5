--------------------------- MODULE MCAgentRollout ---------------------------
(* Small instances of AgentRollout for TLC.                                *)
EXTENDS AgentRollout

CONSTANTS c1, c2

\* Two replicas of one worker each.
MCServers == <<{"p"}, {"q"}>>

\* A prompt that leaves room for more than a response, and one that does not.
MCPrompt == [c \in Agents |-> IF c = c1 THEN 1 ELSE 2]
=============================================================================
