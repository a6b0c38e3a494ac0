----------------------------- MODULE WebSession -----------------------------
(***************************************************************************)
(* The dashboard's session: the cookies of one browser, the Next.js proxy  *)
(* that forwards its requests to the API, and the API's refresh tokens     *)
(* (Accounts).  Several requests are in flight at once; each works on the  *)
(* cookies it was sent with, and its answer, whenever it arrives, replaces *)
(* the cookies the browser holds by then.                                  *)
(***************************************************************************)
EXTENDS Accounts

CONSTANT Proxies       \* requests the browser may have in flight

VARIABLES jar,         \* cookies: calls whose access and refresh token it holds, 0: none,
                       \* and whether it holds needs_onboarding
          expired,     \* calls whose access token has passed its TTL
          proxy,       \* the proxied requests
          landed,      \* sign-ins whose answer reached the browser
          raced,       \* two requests held the same refresh token at once
          loggedOut,   \* the user asked to log out
          dropped      \* an answer left out the cookies that its request had renewed

web     == <<jar, expired, proxy, landed, raced, loggedOut, dropped>>
webVars == <<vars, web>>

Effects   == {"keep", "set", "clear", "onboarded"}
Request_  == [path: {"other", "logout", "onboarding"},
              at: {"idle", "backend", "refresh", "wait", "again", "work", "logout", "answer"},
              access: Calls \cup {0}, refresh: Calls \cup {0},
              call: Calls \cup {0},   \* its refresh
              work: Calls \cup {0},   \* its onboarding
              effect: Effects]
NoRequest == [path |-> "other", at |-> "idle", access |-> 0, refresh |-> 0, call |-> 0,
              work |-> 0, effect |-> "keep"]
NoCookies == [access |-> 0, refresh |-> 0, onboard |-> FALSE]

\* Every variable stays within its domain; a cookie is one that a call of the API issued.
WebTypeOK ==
    /\ TypeOK
    /\ jar \in [access: Calls \cup {0}, refresh: Calls \cup {0}, onboard: BOOLEAN]
    /\ \A n \in Calls : n \in {jar.access, jar.refresh} => session[n] # 0
    /\ expired \subseteq Calls
    /\ proxy \in [Proxies -> Request_]
    /\ landed \subseteq Calls
    /\ raced \in BOOLEAN
    /\ loggedOut \in BOOLEAN
    /\ dropped \in BOOLEAN

WebInit ==
    /\ Init
    /\ jar = NoCookies
    /\ expired = {}
    /\ proxy = [p \in Proxies |-> NoRequest]
    /\ landed = {}
    /\ raced = FALSE
    /\ loggedOut = FALSE
    /\ dropped = FALSE

\* A request of the browser leaves with the cookies the browser holds.
Leave(p, path, at) ==
    /\ proxy[p].at = "idle"
    /\ proxy' = [proxy EXCEPT ![p] = [NoRequest EXCEPT
                    !.path = path, !.at = at, !.access = jar.access, !.refresh = jar.refresh,
                    !.effect = IF path = "logout" THEN "clear" ELSE "keep"]]
    /\ raced' = (raced \/ \E q \in Proxies \ {p} :
                    proxy[q].at # "idle" /\ proxy[q].refresh = jar.refresh)

\* proxyBackend with no access token refreshes first; with none at all it answers 401.
Send(p) ==
    /\ jar.refresh # 0
    /\ Leave(p, "other", IF jar.access = 0 THEN "refresh" ELSE "backend")
    /\ UNCHANGED <<vars, jar, expired, landed, loggedOut, dropped>>

\* POST /api/auth/onboarding: the page that sends it opens only with both cookies.
SendOnboarding(p) ==
    /\ jar.access # 0 /\ jar.onboard
    /\ Leave(p, "onboarding", "backend")
    /\ UNCHANGED <<vars, jar, expired, landed, loggedOut, dropped>>

At(p, at) == [proxy EXCEPT ![p].at = at]

\* sendToBackend: an expired JWT answers 401 "invalid bearer token", which
\* shouldAttemptRefresh turns into a refresh; any other answer is passed on.
AskBackend(p) ==
    /\ \/ /\ proxy[p].at = "backend"
          /\ proxy[p].access \in expired
          /\ proxy' = At(p, "refresh")
          /\ UNCHANGED vars
       \/ /\ proxy[p].at = "again" \/ (proxy[p].at = "backend" /\ proxy[p].access \notin expired)
          /\ IF proxy[p].path = "onboarding"
             THEN \E n \in Calls :
                    /\ CompleteOnboarding(n)
                    /\ proxy' = [proxy EXCEPT ![p] = [@ EXCEPT !.at = "work", !.work = n]]
             ELSE proxy' = At(p, "answer") /\ UNCHANGED vars
    /\ UNCHANGED <<jar, expired, landed, raced, loggedOut, dropped>>

\* refreshSession: POST /auth/refresh with the cookie the request came with; a token
\* the API does not know answers 401 and clears the cookies.
RefreshSession(p) ==
    /\ proxy[p].at = "refresh"
    /\ \/ \E n \in Calls :
            /\ Refresh(n, proxy[p].refresh)
            /\ proxy' = [proxy EXCEPT ![p] = [@ EXCEPT !.at = "wait", !.call = n]]
       \/ /\ proxy[p].refresh \notin tokens
          /\ proxy' = [proxy EXCEPT ![p] = [@ EXCEPT !.at = "answer", !.effect = "clear"]]
          /\ UNCHANGED vars
    /\ UNCHANGED <<jar, expired, landed, raced, loggedOut, dropped>>

\* The refresh answered: the request is sent again and its answer carries the new
\* cookies.  One that failed answered 400, which clears the cookies, or never
\* reached the proxy (502), which leaves them.
FinishRefresh(p) ==
    /\ proxy[p].at = "wait"
    /\ \/ /\ call[proxy[p].call].at = "done"
          /\ proxy' = [proxy EXCEPT ![p] = [@ EXCEPT !.at = "again", !.effect = "set"]]
       \/ /\ call[proxy[p].call].at = "failed"
          /\ \E e \in {"clear", "keep"} :
                proxy' = [proxy EXCEPT ![p] = [@ EXCEPT !.at = "answer", !.effect = e]]
    /\ UNCHANGED <<vars, jar, expired, landed, raced, loggedOut, dropped>>

\* POST /api/auth/logout: the result of the API call is ignored, the cookies go.
LogoutWeb(p) ==
    /\ jar.refresh # 0
    /\ Leave(p, "logout", "logout")
    /\ loggedOut' = TRUE
    /\ \E n \in Calls : Logout(n, jar.refresh)
    /\ UNCHANGED <<jar, expired, landed, dropped>>

\* The API call of a logout has ended.
FinishLogout(p) ==
    /\ proxy[p].at = "logout"
    /\ \A n \in Calls : call[n].kind = "logout" /\ call[n].arg = proxy[p].refresh =>
            call[n].at \notin Running
    /\ proxy' = [proxy EXCEPT ![p].at = "answer"]
    /\ UNCHANGED <<vars, jar, expired, landed, raced, loggedOut, dropped>>

\* Mutated form: the flag goes whatever the API answered.
FinishOnboarding_AnyStatus(p) ==
    /\ proxy[p].at = "work"
    /\ call[proxy[p].work].at \in {"done", "failed"}
    /\ proxy' = [proxy EXCEPT ![p] = [@ EXCEPT !.at = "answer", !.effect = "onboarded"]]
    /\ dropped' = (dropped \/ proxy[p].effect = "set")
    /\ UNCHANGED <<vars, jar, expired, landed, raced, loggedOut>>

\* The onboarding route builds a new answer for a success, which carries the end of
\* needs_onboarding and none of the cookies of proxyBackend; an error is passed on.
FinishOnboarding(p) ==
    /\ proxy[p].at = "work"
    /\ \/ /\ call[proxy[p].work].at = "done"
          /\ proxy' = [proxy EXCEPT ![p] = [@ EXCEPT !.at = "answer", !.effect = "onboarded"]]
          /\ dropped' = (dropped \/ proxy[p].effect = "set")
       \/ /\ call[proxy[p].work].at = "failed"
          /\ proxy' = At(p, "answer")
          /\ UNCHANGED dropped
    /\ UNCHANGED <<vars, jar, expired, landed, raced, loggedOut>>

\* Mutated form: only the access cookie is renewed.
Cookies_AccessOnly(effect, n) ==
    CASE effect = "set"   -> [access |-> n, refresh |-> IF jar.refresh = 0 THEN n ELSE jar.refresh,
                              onboard |-> call[n].needs]
      [] effect = "clear" -> NoCookies
      [] effect = "onboarded" -> [jar EXCEPT !.onboard = FALSE]
      [] OTHER            -> jar

\* Set-Cookie of the answer: setSessionCookies, clearSessionCookies, setOnboardingCookie
\* or nothing.
Cookies(effect, n) ==
    CASE effect = "set"       -> [access |-> n, refresh |-> n, onboard |-> call[n].needs]
      [] effect = "clear"     -> NoCookies
      [] effect = "onboarded" -> [jar EXCEPT !.onboard = FALSE]
      [] OTHER                -> jar

\* The answer of a proxied request arrives, in any order.
Arrive(p) ==
    /\ proxy[p].at = "answer"
    /\ jar' = Cookies(proxy[p].effect, proxy[p].call)
    /\ proxy' = [proxy EXCEPT ![p] = NoRequest]
    /\ UNCHANGED <<vars, expired, landed, raced, loggedOut, dropped>>

\* withSessionCookies: the answer of a sign-in or a verification arrives.
Land(n) ==
    /\ call[n].kind \in {"social", "signin", "verify"}
    /\ call[n].at = "done"
    /\ n \notin landed
    /\ \A p \in Proxies : proxy[p].at = "idle"
    /\ jar' = Cookies("set", n)
    /\ landed' = landed \cup {n}
    /\ loggedOut' = FALSE
    /\ dropped' = FALSE
    /\ UNCHANGED <<vars, expired, proxy, raced>>

\* The TTL of the access token in the jar passes.
ExpireAccess ==
    /\ jar.access # 0
    /\ expired' = expired \cup {jar.access}
    /\ UNCHANGED <<vars, jar, proxy, landed, raced, loggedOut, dropped>>

Account(n) ==
    /\ \/ Signup(n)
       \/ \E p \in Providers : SigninWithSocial(n, p)
       \/ Signin(n)
       \/ VerifyEmail(n, verification)
       \/ ResetPassword(n, verification)
       \/ ResendVerification(n)
       \/ ForgotPassword(n)
       \/ CompleteOnboarding(n)
       \/ CreateOrganization(n)
       \/ Statement(n)
       \/ Fail(n)
    /\ UNCHANGED web

WebNext ==
    \/ \E n \in Calls : Account(n) \/ Land(n)
    \/ \E p \in Proxies :
        \/ Send(p)
        \/ SendOnboarding(p)
        \/ AskBackend(p)
        \/ RefreshSession(p)
        \/ FinishRefresh(p)
        \/ FinishOnboarding(p)
        \/ LogoutWeb(p)
        \/ FinishLogout(p)
        \/ Arrive(p)
    \/ ExpireAccess

WebSpec == WebInit /\ [][WebNext]_webVars

Quiet == /\ \A n \in Calls : call[n].at \notin Running
         /\ \A p \in Proxies : proxy[p].at = "idle"

\* A browser that signed in stays signed in, through any number of expiries and
\* rotations, as long as no two of its requests carried the same refresh token at
\* once, no API call failed and no onboarding renewed its session: with nothing in
\* flight its refresh cookie is a live token.  (Two that did race: the loser's 401
\* clears the cookies the winner set.  A refresh that failed: its token was deleted
\* before the statement that failed.  An onboarding with an expired access token: its
\* route drops the new cookies, and the browser keeps a token that is deleted.)
SessionSurvives ==
    /\ Quiet
    /\ landed # {} /\ ~loggedOut
    /\ ~raced /\ ~dropped
    /\ \A n \in Calls : call[n].at # "failed"
    => jar.refresh \in tokens

\* The dashboard lets a browser in that has an access token and no needs_onboarding.
\* Only users who completed onboarding get there, and their organization was named:
\* however refreshes, sign-ins and onboardings answer late, fail or overtake each other,
\* no answer takes needs_onboarding away from a user who still has to onboard.
OnboardingGate ==
    /\ jar.access # 0 /\ ~jar.onboard => user.onboarded
    /\ OnboardedNamesTenant
=============================================================================
