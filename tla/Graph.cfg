SPECIFICATION FairSpec
CONSTANTS
  MaxNodes = 5
  MaxEdits = 1
  NewKeys = {"m"}
  Plans <- MCPlans
  Patches <- MCPatches
  MaxParallelTasks = 2
  MaxDynamicTasks = 4
  MaxReplanAttempts = 1
INVARIANTS
  TypeOK
  StartedAfterDependencies
  DependenciesAcyclic
  PlannedKeysHeld
  PlannedWithinBudget
  NoPendingLeft
PROPERTIES
  ExecutorReturns
CHECK_DEADLOCK FALSE
