\* A push to two replicas of two ranks and one, with one request that cannot be aborted.
SPECIFICATION Spec
CONSTANTS
  Sizes <- MCSizes
  BucketSize = 3
  ReplicaOf <- MCReplicaOf
  MaxUpdates = 1
  MaxFailures = 1
PROPERTIES
  ImplementsDelivery
  EveryPushEnds
CHECK_DEADLOCK FALSE
