SPECIFICATION BrowserSpec
CONSTANTS
  Steps = {"trigger_1", "a", "b", "c", "n"}
  Submitted <- MCSubmitted
  MaxEdges = 2
  Trigger = "trigger_1"
  MaxEdits = 2
  MaxDrafts = 4
  MaxVisits = 3
  MaxSaves = 2
  Found = {"ada"}
  Profile = "me"
  Attempts = 1
  MaxSends = 2
  MaxChanges = 1
  Workflows = {w1, w2}
  NoWorkflow = NoWorkflow
  WorkflowKey <- OneKey
  MaxOperations = 3
  MaxInFlight = 2
  ProviderNames = {"resend", "sendgrid"}
  ChannelOf <- ByEmail
  ProviderIds = {1, 2}
  MaxJobs = 2
  People = {p1, p2}
  NoPerson = NoPerson
  Channels = {"email"}
  MaxRequests = 2
  ApiKeys = {k1, k2}
  NoKey = NoKey
  MaxCommands = 2
  Users = {u1, u2}
  NoUser = NoUser
  MaxSubmits = 3
  MaxTexts = 3
  MaxWrites = 3
  MaxOpenings = 2
  Myself = "me"
  Searches = {"a", "ab"}
  Hits <- MCHits
  Reachable <- MCReachable
  Nobody = "nobody"
  MaxBodies = 1
  MaxTests = 2
  SenderNames = {"x", "y"}
  NoSender = ""
  Provided = "ours"
SYMMETRY Symmetry
INVARIANT BrowserTypeOK
 
INVARIANT PanelSound
INVARIANT AuthPagesSound
PROPERTY CanvasSound
PROPERTY WorkflowPageSound
PROPERTY ProviderPageSound
PROPERTY SubscriberPageSound
 
PROPERTY ChannelPageSound
CHECK_DEADLOCK FALSE
