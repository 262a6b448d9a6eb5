\* What a search answers that ends after six groups, over the seven stages of the SolverLLM order.
SPECIFICATION LoggedSpec
CONSTANTS
  MaxIterations = 6
  K = 1
  NumStages = 7
  SecondAttempt = FALSE
  FilterRollout = FALSE
  StopOnRewardOne = FALSE
  ClusterUpdate = FALSE
  CodeRepair = 0
  ScalePreference = TRUE
  Outcomes <- AnswerOutcomes
  NoObj = NoObj
  Tol = 1
  MaxReward = 3
  RewardOne = 3
  Unit <- MCUnit
  Scale <- MCScale
  LevelWeight <- MCLevelWeight
  GroupMean <- MCGroupMean
  None = None
INVARIANTS
  MajorityWins
  SilenceMeansContradiction
