\* Two conversations on two servers through a push, with a balancer that remembers one of them.
SPECIFICATION FairSpec
CHECK_DEADLOCK FALSE
CONSTANTS
  Agents = {c1, c2}
  Servers <- MCServers
  Tensors = {t}
  PromptLength = 2
  ResponseLength = 3
  Prompt <- MCPrompt
  c1 = c1
  c2 = c2
  Feeds = {1}
  MaxAssistantTurns = 2
  MaxUserTurns = 2
  Interactions = TRUE
  CacheSize = 1
  PartialRollout = TRUE
  LastVersion = 1
  None = None
INVARIANTS
  TranscriptKept
  VersionsCover
PROPERTIES
  EveryAgentEnds
