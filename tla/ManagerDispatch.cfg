SPECIFICATION FairSpec
CONSTANTS
  Tasks <- PairTasks
  Inspectors = {}
  Roles = {"developer"}
  Role <- PairRole
  MaxRetries <- RequeueRetries
  Retryable = {"a"}
  MaxConcurrent = 1
  NoTask = none
  MaxClaims = 2
  MaxRestarts = 1
INVARIANTS
  TypeOK
  ActiveSlotHasWorker
  OneTaskPerWorker
PROPERTIES
  QueuedServed
  LeaseResolved
CHECK_DEADLOCK FALSE
