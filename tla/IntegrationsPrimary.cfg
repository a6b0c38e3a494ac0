SPECIFICATION IntegrationSpec
CONSTANTS
  ProviderNames = {"resend", "sendgrid", "twilio"}
  ChannelOf <- MCChannelOf
  ProviderIds = {1, 2, 3}
  Writers = {w1, w2}
  MaxRequests = 3
  Requests <- StateActions
INVARIANT ActiveHasPrimary
CHECK_DEADLOCK FALSE
