SPECIFICATION FairSpec
CONSTANTS
  Jobs = {"j1"}
  Channels = {"email"}
  Providers = {"p1"}
  Hooks = {"h1"}
  MaxRetry = 1
  MaxFaults = 2
  MaxChanges = 1
PROPERTY JobsSettle
PROPERTY HooksHear
CHECK_DEADLOCK FALSE
