--------------------------- MODULE MCIntegrations ---------------------------
(***************************************************************************)
(* The instance of Integrations for TLC: two e-mail providers and one for  *)
(* SMS.                                                                    *)
(***************************************************************************)
EXTENDS Integrations

MCChannelOf == [n \in ProviderNames |-> IF n = "twilio" THEN "sms" ELSE "email"]

AllRequests == StateActions \cup {"create", "update", "delete"}
=============================================================================
