SPECIFICATION FairSpec
CHECK_DEADLOCK FALSE
CONSTANTS
  Total = 10
  Required = 1
  Trigger = 2
  MaxRequired = 3
  MaxConcurrent = 2
  PendingMax = 1
  SaveFreq = 1
  TestFreq = 2
  MaxCrashes = 1
  None = None
INVARIANTS
  FreshnessBound
  OnePlace
  NothingLeftBehind
PROPERTIES
  TrainingEnds
