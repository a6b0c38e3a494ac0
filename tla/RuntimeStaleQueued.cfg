SPECIFICATION Spec
CONSTANTS
  Executions = {"e1"}
  Steps <- ChainSteps
  NoStep = NoStep
  Definitions <- OnlyChain
  InitialDefinition <- Chain
  TasksPerStep = 1
  MaxRetry = 1
  MaxEdits = 0
  MaxFaults = 0
  LocksLapse = FALSE
  NullsRejected = FALSE
INVARIANT QuietMeansCompleted
CHECK_DEADLOCK FALSE
