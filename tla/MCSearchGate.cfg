\* Three stages, so that six iterations reach the gate, CODE and what follows.
SPECIFICATION Spec
CONSTANTS
  MaxIterations = 6
  K = 2
  NumStages = 3
  SecondAttempt = TRUE
  FilterRollout = FALSE
  StopOnRewardOne = FALSE
  ClusterUpdate = TRUE
  CodeRepair = 1
  Outcomes <- TwoOutcomes
  NoObj = NoObj
  Tol = 1
  MaxReward = 3
  RewardOne = 3
  Unit <- MCUnit
  Scale <- MCScale
  LevelWeight <- MCLevelWeight
  GroupMean <- MCGroupMean
  None = None
INVARIANTS
  ExpandedOnce
  QBounded
  VisitAccounting
  NoLeafMeansExhausted
  GateCostsOneIteration
  LateWeightsAfterCodeAttempt
