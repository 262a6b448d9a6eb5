\* One rollout per group: the whole default pipeline, every kind of outcome, until a stop or no leaf is left.
SPECIFICATION FairSpec
CONSTANTS
  MaxIterations = 7
  K = 1
  NumStages = 4
  SecondAttempt = TRUE
  FilterRollout = TRUE
  StopOnRewardOne = TRUE
  ClusterUpdate = TRUE
  CodeRepair = 2
  Outcomes <- ChainOutcomes
  NoObj = NoObj
  Tol = 1
  MaxReward = 3
  RewardOne = 3
  Unit <- MCUnit
  Scale <- MCScale
  LevelWeight <- MCLevelWeight
  GroupMean <- MCGroupMean
  None = None
INVARIANTS
  NoGoodCodeAbandoned
  StopJustified
PROPERTIES
  Termination
