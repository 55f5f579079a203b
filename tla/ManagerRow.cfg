SPECIFICATION Spec
CONSTANTS
  Tasks <- TwinTasks
  Inspectors = {}
  Roles = {"developer", "reviewer"}
  Role <- TwinRole
  MaxRetries <- TwinRetries
  Retryable = {"a", "b"}
  MaxConcurrent = 2
  NoTask = none
  MaxClaims = 2
  MaxRestarts = 0
INVARIANTS
  QueuedTaskHasRow
CHECK_DEADLOCK FALSE
