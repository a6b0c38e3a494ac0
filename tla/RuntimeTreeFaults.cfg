SPECIFICATION Spec
CONSTANTS
  Executions = {"e1"}
  Steps <- TreeSteps
  NoStep = NoStep
  Definitions <- OnlyTree
  InitialDefinition <- Tree
  TasksPerStep = 1
  MaxRetry = 1
  MaxEdits = 0
  MaxFaults = 2
  LocksLapse = FALSE
  NullsRejected = FALSE
INVARIANT TypeOK
INVARIANT StepsFollowEdges
INVARIANT NoLostDispatch
INVARIANT CompletedMeansSent
INVARIANT SendsWithinAttempts
INVARIANT CompletedReachedLeaf
CHECK_DEADLOCK FALSE
