SPECIFICATION Spec
CONSTANTS
  Jobs = {"j1"}
  Channels = {email, sms}
  Providers = {p1, p2}
  Hooks = {"h1"}
  MaxRetry = 1
  MaxFaults = 2
  MaxChanges = 1
SYMMETRY Symmetry
INVARIANT TypeOK
INVARIANT StatusMatchesAttempts
INVARIANT SentEventHasBacking
INVARIANT OneMessagePerRun
INVARIANT QueuedMeansUntouched
INVARIANT OneLateRequest
INVARIANT DoneMeansLogged
CHECK_DEADLOCK FALSE
