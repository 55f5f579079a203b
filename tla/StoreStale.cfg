SPECIFICATION Spec
CONSTANTS
  Tasks <- LoneTask
  SuccessDeps <- LoneDeps
  FinishedDeps <- LoneDeps
  Role <- LoneRole
  MaxRetries <- LoneRetries
  Retryable <- LoneTask
  Mains = {m1}
  Workers = {w1, w2}
  Inspectors = {}
  MaxTokens = 2
PROPERTY StaleWorkersCannotOverwrite
CHECK_DEADLOCK FALSE
