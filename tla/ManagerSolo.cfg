SPECIFICATION Spec
CONSTANTS
  Tasks <- TrioTasks
  Inspectors = {}
  Roles = {"developer"}
  Role <- TrioRole
  MaxRetries <- TrioRetries
  Retryable = {}
  MaxConcurrent = 1
  NoTask = none
  MaxClaims = 3
  MaxRestarts = 0
INVARIANTS
  OneActiveSubagentPerRole
CHECK_DEADLOCK FALSE
