SPECIFICATION FairSpec
CONSTANTS
  s1 = s1
  s2 = s2
  s3 = s3
  None = None
  Samples <- MCThree
  Position <- MCThreeInOrder
  Configs <- MCEveryConfig
  MaxIterations = 2
  MaxCrashes = 2
INVARIANTS
  TraceBeforeResult
  LeakNeedsFailedReset
  OnPolicyOnceLearned
PROPERTIES
  ImplementsLedger
  EverySampleGetsResult
