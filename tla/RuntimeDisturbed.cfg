SPECIFICATION Spec
CONSTANTS
  Executions = {"e1"}
  Steps <- DelayedSteps
  NoStep = NoStep
  Definitions <- DelayedEdits
  InitialDefinition <- Delayed
  TasksPerStep = 2
  MaxRetry = 1
  MaxEdits = 2
  MaxFaults = 2
  LocksLapse = TRUE
  NullsRejected = FALSE
PROPERTY ImplementsTraversal
CHECK_DEADLOCK FALSE
