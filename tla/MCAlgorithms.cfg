SPECIFICATION AlgorithmsSpec
CHECK_DEADLOCK FALSE
CONSTANTS
  NoObjective = NoObjective
  TolNum = 1
  TolDen = 100
  AlphaNum = 3
  AlphaDen = 5
  MinClusters = 3
  WeightsOf <- MCWeights
  NoModel = NoModel
  DecayNum = 1
  DecayDen = 2
  StructAlphaNum = 2
  StructAlphaDen = 5
  StructK = 1
  Unbounded = Unbounded
  MarginNum = 1
  MarginDen = 10
  NoText = NoText
  NoNumber = NoNumber
  NoScale = NoScale
  Unit = 100
  Grain = 3
  PerCent = 2
  LinearCost = 2
INVARIANTS
  GroupRewardsSound
  TestPlansSound
  GroupBookkeeping
  EstimatorsAgree
  SplitsSound
  DispatchRoundTrip
