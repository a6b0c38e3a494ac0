SPECIFICATION Spec
CONSTANTS
  Executions = {"e1"}
  Steps <- DelayedSteps
  NoStep = NoStep
  Definitions <- DelayedEdits
  InitialDefinition <- Delayed
  TasksPerStep = 1
  MaxRetry = 1
  MaxEdits = 1
  MaxFaults = 0
  LocksLapse = FALSE
  NullsRejected = FALSE
INVARIANT OriginalVersionOnly
CHECK_DEADLOCK FALSE
