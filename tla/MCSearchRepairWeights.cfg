\* The weight plan of a repaired program.
SPECIFICATION Spec
CONSTANTS
  MaxIterations = 5
  K = 1
  NumStages = 4
  SecondAttempt = TRUE
  FilterRollout = FALSE
  StopOnRewardOne = FALSE
  ClusterUpdate = FALSE
  CodeRepair = 1
  Outcomes <- CodeOutcomes
  NoObj = NoObj
  Tol = 1
  MaxReward = 3
  RewardOne = 3
  Unit <- MCUnit
  Scale <- MCScale
  LevelWeight <- MCLevelWeight
  GroupMean <- MCGroupMean
  None = None
INVARIANT
  LateWeightsForRepairs
