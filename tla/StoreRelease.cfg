SPECIFICATION Spec
CONSTANTS
  Tasks <- JoinTasks
  SuccessDeps <- JoinSuccess
  FinishedDeps <- JoinFinished
  Role <- JoinRole
  MaxRetries <- JoinRetries
  Retryable = {}
  Mains = {m1}
  Workers = {w1}
  Inspectors = {}
  MaxTokens = 2
INVARIANTS
  StartedAfterDependencies
  NoLostRelease
PROPERTY ImplementsLifecycle
CHECK_DEADLOCK FALSE
