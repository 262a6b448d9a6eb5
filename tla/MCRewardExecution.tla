------------------------- MODULE MCRewardExecution -------------------------
(* Small instances of RewardExecution for TLC. *)
EXTENDS RewardExecution

CONSTANTS p, q, h, t1, t2

\* p and q have the same length; h never ends by itself.
MCPrograms == {p, q, h}
MCSize == [x \in MCPrograms |-> IF x = h THEN 2 ELSE 1]

\* Pairs for two workers, one of them with the same program twice; and
\* a single one, which the scoring thread runs itself.
MCGroups == {<<p, p>>, <<p, q>>, <<h>>}
MCPairs == {<<q, p>>}
=============================================================================
