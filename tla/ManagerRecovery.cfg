SPECIFICATION FairSpec
CONSTANTS
  Tasks <- LoneTasks
  Inspectors = {"i"}
  Roles = {"developer", "inspector"}
  Role <- LoneRole
  MaxRetries <- LoneRetries
  Retryable = {}
  MaxConcurrent = 2
  NoTask = none
  MaxClaims = 2
  MaxRestarts = 1
PROPERTIES
  SlotFreed
  LeaseResolved
CHECK_DEADLOCK FALSE
