SPECIFICATION FairSpec
CONSTANTS
  Tasks <- PairTasks
  Inspectors = {}
  Roles = {"developer"}
  Role <- PairRole
  MaxRetries <- PairRetries
  Retryable = {}
  MaxConcurrent = 1
  NoTask = none
  MaxClaims = 2
  MaxRestarts = 0
PROPERTIES
  IdleReleased
CHECK_DEADLOCK FALSE
