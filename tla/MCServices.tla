----------------------------- MODULE MCServices -----------------------------
(***************************************************************************)
(* The instance for TLC of four parts of the API that share no state: the  *)
(* provider integrations, the rate limiter, the subscribers, and the       *)
(* accounts with the session of one browser.  Since no step of one reads   *)
(* or writes a variable of another, a run that lets one of them move,      *)
(* chosen at the start, sees every state and every step of each.           *)
(***************************************************************************)
EXTENDS MCIntegrations, RateLimiter, Subscribers, WebSession, TLC

VARIABLE focus     \* the part that moves

servicesVars == <<focus, integrationVars, limiterVars, subscriberVars, webVars>>

MCAddresses == [m \in Media |-> IF m = "email" THEN {"a@x"} ELSE {"+1"}]
MCAsks == {{"email"}, {"email", "sms"}}
AllKinds == {"signup", "social", "signin", "verify", "reset", "resend", "forgot",
             "refresh", "logout", "onboard", "organization"}

\* Proxied requests are interchangeable.
Symmetry == Permutations(Proxies)

ServicesInit ==
    /\ focus \in {"integrations", "limiter", "subscribers", "session"}
    /\ IntegrationInit
    /\ focus # "integrations" => \A i \in ProviderIds : rows[i] = NoRow
    /\ LimiterInit
    /\ SubscriberInit
    /\ WebInit

ServicesNext ==
    \/ /\ focus = "integrations"
       /\ IntegrationNext
       /\ UNCHANGED <<focus, limiterVars, subscriberVars, webVars>>
    \/ /\ focus = "limiter"
       /\ LimiterNext
       /\ UNCHANGED <<focus, integrationVars, subscriberVars, webVars>>
    \/ /\ focus = "subscribers"
       /\ SubscriberNext
       /\ UNCHANGED <<focus, integrationVars, limiterVars, webVars>>
    \/ /\ focus = "session"
       /\ WebNext
       /\ UNCHANGED <<focus, integrationVars, limiterVars, subscriberVars>>

ServicesSpec == ServicesInit /\ [][ServicesNext]_servicesVars

\* The variables of each part stay within their domains.
ServicesTypeOK == IntegrationTypeOK /\ LimiterTypeOK /\ SubscriberTypeOK /\ WebTypeOK
=============================================================================
