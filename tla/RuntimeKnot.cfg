SPECIFICATION FairSpec
CONSTANTS
  Executions = {"e1"}
  Steps <- KnotSteps
  NoStep = NoStep
  Definitions <- OnlyKnot
  InitialDefinition <- Knot
  TasksPerStep = 2
  MaxRetry = 1
  MaxEdits = 0
  MaxFaults = 0
  LocksLapse = FALSE
  NullsRejected = FALSE
INVARIANT OneTaskPerStep
PROPERTY TasksSettle
PROPERTY SuccessorsBegin
CHECK_DEADLOCK FALSE
