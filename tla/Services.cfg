SPECIFICATION ServicesSpec
CONSTANTS
  ProviderNames = {"resend", "sendgrid", "twilio"}
  ChannelOf <- MCChannelOf
  ProviderIds = {1, 2, 3}
  Writers = {w1, w2}
  MaxRequests = 2
  Requests <- AllRequests
  Keys = {"k"}
  Clients = {c1, c2}
  Limit = 2
  Window = 3
  CounterBound = 4
  Persons = {1}
  Media = {"email", "sms"}
  Addresses <- MCAddresses
  Asks <- MCAsks
  Senders = {s1, s2}
  MaxCalls = 3
  MaxRunning = 2
  MaxFaults = 1
  Kinds <- AllKinds
  Providers = {"google"}
  Proxies = {p1, p2}
SYMMETRY Symmetry
INVARIANT ServicesTypeOK
INVARIANT LimiterSound
INVARIANT SessionsHaveTenant
INVARIANT SeedsComplete
INVARIANT OnboardingGate
INVARIANT NewestCodeStands
INVARIANT SessionSurvives
PROPERTY SerialRequests
PROPERTY PrimarySucceeds
PROPERTY ContactsSound
PROPERTY PrimaryStable
CHECK_DEADLOCK FALSE
