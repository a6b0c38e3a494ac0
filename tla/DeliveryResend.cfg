SPECIFICATION Spec
CONSTANTS
  Jobs = {"j1"}
  Channels = {"email"}
  Providers = {"p1"}
  Hooks = {"h1"}
  MaxRetry = 1
  MaxFaults = 1
  MaxChanges = 0
PROPERTY SentIsFinal
CHECK_DEADLOCK FALSE
