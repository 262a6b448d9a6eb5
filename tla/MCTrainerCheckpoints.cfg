\* Three epochs of two batches, the last step before the third, three crashes.
SPECIFICATION FairSpec
CHECK_DEADLOCK FALSE
CONSTANTS
  StepsPerEpoch = 2
  TotalEpochs = 3
  TotalSteps = 4
  SaveFreq = 2
  UseCritic = TRUE
  Limits <- MCLimits
  NoLimit = NoLimit
  MaxCrashes = 3
  NoTracker = NoTracker
  EmptyTracker = EmptyTracker
INVARIANTS
  TrackedRestores
  BatchesInOrder
  StopsInTime
PROPERTIES
  TrainingEnds
