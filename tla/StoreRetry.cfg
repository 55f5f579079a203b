SPECIFICATION Spec
CONSTANTS
  Tasks <- LoneTask
  SuccessDeps <- LoneDeps
  FinishedDeps <- LoneDeps
  Role <- LoneRole
  MaxRetries <- LoneRetries
  Retryable <- LoneTask
  Mains = {m1}
  Workers = {w1, w2}
  Inspectors = {i1}
  MaxTokens = 2
SYMMETRY Symmetry
INVARIANTS
  TypeOK
  LeaseMatchesStatus
  DeadLetterIffExhausted
PROPERTY FinalStatusesStay
CHECK_DEADLOCK FALSE
