----------------------------- MODULE AuthPages -----------------------------
(***************************************************************************)
(* The pages around the session of one tab: sign-in, registration, e-mail  *)
(* verification, onboarding, the three steps that reset a password, and    *)
(* the dashboard with what it caches of the profile.  The pages check the  *)
(* cookies when they are visited, on the server; a request that was sent   *)
(* from one page may be answered on another, and its function then still   *)
(* sends the user where it would have.  What the API does to an account is *)
(* one step here (Accounts has its statements), and so is what a proxy     *)
(* does to the cookies (WebSession).                                       *)
(***************************************************************************)
EXTENDS Integers, FiniteSets

CONSTANTS Users,       \* people with an address each, who share the tab
          NoUser,      \* nobody
          MaxSubmits   \* bound on the requests the users make

VARIABLES account,     \* what the API knows of each user
          mailed,      \* users with a code to reset their password
          cookies,     \* the session of the tab: of whom, and needs_onboarding
          place,       \* the page shown
          wizard,      \* useForgotPasswordFlow
          profile,     \* whose profile is cached
          submit,      \* the requests, in the order of their calls
          muddle       \* what may excuse a page that misleads, so far

authPagesVars == <<account, mailed, cookies, place, wizard, profile, submit, muddle>>

Submits     == 1..MaxSubmits
PublicPages == {"login", "register", "verify"}
Pages       == PublicPages \cup {"onboarding", "forgot", "dashboard"}
Stages      == {"none", "unverified", "bare", "ready"}
SignedOut   == [user |-> NoUser, onboard |-> FALSE]
NoWizard    == [step |-> "email", email |-> NoUser, code |-> NoUser]
NoSubmit    == [kind |-> "none", at |-> "idle", user |-> NoUser, code |-> NoUser, mounted |-> FALSE]
Muddles     == {"overlap", "expired", "back"}
WizardKinds  == {"sendCode", "checkCode", "reset"}
SessionKinds == {"signin", "verify", "onboard", "logout"}
InFlight   == {n \in Submits : submit[n].at \in {"sent", "done", "refused"}}
Busy(kind) == \E n \in InFlight : submit[n].kind = kind /\ submit[n].mounted

\* Every variable stays within its domain.
AuthPagesTypeOK ==
    /\ account \in [Users -> Stages]
    /\ mailed \subseteq Users
    /\ cookies \in [user: Users \cup {NoUser}, onboard: BOOLEAN]
    /\ place \in Pages
    /\ wizard \in [step: {"email", "code", "password"}, email: Users \cup {NoUser}, code: Users \cup {NoUser}]
    /\ profile \in Users \cup {NoUser}
    /\ submit \in [Submits -> [kind: {"none", "signup", "load"} \cup WizardKinds \cup SessionKinds,
                               at: {"idle", "sent", "done", "refused", "ended"},
                               user: Users \cup {NoUser}, code: Users \cup {NoUser}, mounted: BOOLEAN]]
    /\ muddle \subseteq Muddles

AuthPagesInit ==
    /\ account \in [Users -> Stages]
    /\ mailed = {}
    /\ cookies = SignedOut
    /\ place = "login"
    /\ wizard = NoWizard
    /\ profile = NoUser
    /\ submit = [n \in Submits |-> NoSubmit]
    /\ muddle = {}

----------------------------------------------------------------------------
(* Pages. *)

\* Mutated form: the pages for those who are signed out do not look at the cookies.
Route_NoRedirect(target, c) ==
    CASE target = "dashboard" /\ c.user = NoUser -> "login"
      [] target = "dashboard" /\ c.onboard       -> "onboarding"
      [] OTHER                                   -> target

\* Where a visit ends, after the redirects of the pages.
Route(target, c) ==
    CASE target = "forgot"                             -> "forgot"
      [] target # "forgot" /\ c.user = NoUser          -> IF target \in PublicPages THEN target ELSE "login"
      [] target # "forgot" /\ c.user # NoUser          -> IF c.onboard THEN "onboarding" ELSE "dashboard"

\* The functions of a page that is left run on; those of the wizard find nothing to update.
Departed(s, there) ==
    IF there = place THEN s ELSE [n \in Submits |-> [s[n] EXCEPT !.mounted = FALSE]]

\* The tab goes to a page, with the cookies c.
GoTo(target, c, s) ==
    /\ cookies' = c
    /\ place' = Route(target, c)
    /\ wizard' = IF place' = place THEN wizard ELSE NoWizard
    /\ submit' = Departed(s, place')

\* The user follows a link.
Follow(target) ==
    /\ target # place
    /\ GoTo(target, cookies, submit)
    /\ UNCHANGED <<account, mailed, profile, muddle>>

Links ==
    CASE place = "login"      -> {"register", "forgot"}
      [] place \in {"register", "verify", "forgot"} -> {"login"}
      [] place = "onboarding" -> {}
      [] place = "dashboard"  -> {"dashboard"}

----------------------------------------------------------------------------
(* Requests. *)

\* A function of a page, up to its first await.  To start what changes the session while
\* something else does is to overlap.
StartSubmit(kind, u, c) ==
    /\ \E n \in Submits :
        /\ submit[n].at = "idle" /\ \A m \in 1..(n - 1) : submit[m].at # "idle"
        /\ submit' = [submit EXCEPT ![n] = [kind |-> kind, at |-> "sent", user |-> u, code |-> c,
                                            mounted |-> TRUE]]
    /\ muddle' = IF kind \in SessionKinds /\ \E n \in InFlight : submit[n].kind \in SessionKinds
                 THEN muddle \cup {"overlap"} ELSE muddle
    /\ UNCHANGED <<account, mailed, cookies, place, profile>>

\* The button of the sign-in page is never disabled, those of the others are while their
\* request runs.
Signin(u)  == place = "login" /\ StartSubmit("signin", u, NoUser) /\ UNCHANGED wizard
Signup(u)  == place = "register" /\ ~Busy("signup") /\ StartSubmit("signup", u, NoUser) /\ UNCHANGED wizard
Verify(u)  == place = "verify" /\ ~Busy("verify") /\ StartSubmit("verify", u, NoUser) /\ UNCHANGED wizard
Onboard    == /\ place = "onboarding" /\ ~Busy("onboard")
              /\ StartSubmit("onboard", cookies.user, NoUser)
              /\ UNCHANGED wizard
Logout     == /\ place = "dashboard" /\ ~Busy("logout")
              /\ StartSubmit("logout", cookies.user, NoUser)
              /\ UNCHANGED wizard

\* useUserProfile, when nothing is cached or it has become stale.
FetchProfile ==
    /\ place = "dashboard" /\ ~Busy("load")
    /\ StartSubmit("load", cookies.user, NoUser)
    /\ UNCHANGED wizard

\* The steps of the wizard.
SendCode(u) ==
    /\ place = "forgot" /\ wizard.step = "email" /\ ~Busy("sendCode")
    /\ StartSubmit("sendCode", u, NoUser)
    /\ wizard' = [wizard EXCEPT !.email = u]

CheckCode(c) ==
    /\ place = "forgot" /\ wizard.step = "code" /\ ~Busy("checkCode")
    /\ StartSubmit("checkCode", wizard.email, c)
    /\ wizard' = [wizard EXCEPT !.code = c]

ResetPassword ==
    /\ place = "forgot" /\ wizard.step = "password" /\ ~Busy("reset")
    /\ StartSubmit("reset", wizard.email, wizard.code)
    /\ UNCHANGED wizard

\* Back is not disabled while the code is checked.
GoBackToEmail ==
    /\ place = "forgot" /\ wizard.step = "code"
    /\ wizard' = [wizard EXCEPT !.step = "email"]
    /\ muddle' = IF Busy("checkCode") THEN muddle \cup {"back"} ELSE muddle
    /\ UNCHANGED <<account, mailed, cookies, place, profile, submit>>

----------------------------------------------------------------------------
(* The API. *)

\* Who asked is entitled to it: the rows that decide, and the session it came with.
Granted(n) ==
    LET s == submit[n]
    IN  CASE s.kind = "signin"    -> account[s.user] \in {"bare", "ready"}
          [] s.kind = "signup"    -> account[s.user] = "none"
          [] s.kind = "verify"    -> account[s.user] = "unverified"
          [] s.kind = "onboard"   -> s.user # NoUser /\ account[s.user] = "bare"
          [] s.kind = "load"      -> s.user # NoUser
          [] s.kind \in {"checkCode", "reset"} -> s.code = s.user /\ s.code \in mailed
          [] s.kind \in {"logout", "sendCode"}  -> TRUE

Serve(n) ==
    LET s == submit[n]
    IN  /\ s.at = "sent"
        /\ submit' = [submit EXCEPT ![n].at = IF Granted(n) THEN "done" ELSE "refused"]
        /\ account' = CASE s.kind = "signup" /\ Granted(n)  -> [account EXCEPT ![s.user] = "unverified"]
                        [] s.kind = "verify" /\ Granted(n)  -> [account EXCEPT ![s.user] = "bare"]
                        [] s.kind = "onboard" /\ Granted(n) -> [account EXCEPT ![s.user] = "ready"]
                        [] OTHER                            -> account
        /\ mailed' = CASE s.kind = "sendCode" /\ account[s.user] # "none" -> mailed \cup {s.user}
                       [] s.kind = "reset" /\ Granted(n)                  -> mailed \ {s.user}
                       [] OTHER                                           -> mailed
        /\ UNCHANGED <<cookies, place, wizard, profile, muddle>>

----------------------------------------------------------------------------
(* The rest of the functions, as answers arrive. *)

Ended(n) == [submit EXCEPT ![n] = [NoSubmit EXCEPT !.at = "ended"]]

Session(u) == [user |-> u, onboard |-> account[u] = "bare"]

\* A request that signs in succeeds: its answer sets the cookies, and the user is sent on.
Enters(n) ==
    /\ submit[n].at = "done" /\ submit[n].kind \in {"signin", "verify"}
    /\ LET c == Session(submit[n].user)
       IN  GoTo(IF c.onboard THEN "onboarding" ELSE "dashboard", c, Ended(n))
    /\ UNCHANGED <<account, mailed, profile, muddle>>

\* Registration, and a sign-in before the address is verified, lead to the verification.
MustVerify(n) ==
    /\ \/ submit[n].kind = "signup" /\ submit[n].at = "done"
       \/ /\ submit[n].kind = "signin" /\ submit[n].at = "refused"
          /\ account[submit[n].user] = "unverified"
    /\ GoTo("verify", cookies, Ended(n))
    /\ UNCHANGED <<account, mailed, profile, muddle>>

OnboardReturns(n) ==
    /\ submit[n].kind = "onboard" /\ submit[n].at = "done"
    /\ GoTo("dashboard", [cookies EXCEPT !.onboard = FALSE], Ended(n))
    /\ UNCHANGED <<account, mailed, profile, muddle>>

\* queryClient.clear(): what is cached goes, and what is being loaded has nowhere to go.
LogoutReturns(n) ==
    /\ submit[n].kind = "logout" /\ submit[n].at = "done"
    /\ GoTo("login", SignedOut,
            [m \in Submits |-> IF submit[m].kind = "load" THEN Ended(m)[m] ELSE Ended(n)[m]])
    /\ profile' = NoUser
    /\ UNCHANGED <<account, mailed, muddle>>

ProfileArrives(n) ==
    /\ submit[n].kind = "load" /\ submit[n].at = "done"
    /\ profile' = submit[n].user
    /\ submit' = Ended(n)
    /\ UNCHANGED <<account, mailed, cookies, place, wizard, muddle>>

\* The next step of the wizard, if the wizard is still there.
StepReturns(n, kind, step) ==
    /\ submit[n].kind = kind /\ submit[n].at = "done"
    /\ wizard' = IF submit[n].mounted THEN [wizard EXCEPT !.step = step] ELSE wizard
    /\ submit' = Ended(n)
    /\ UNCHANGED <<account, mailed, cookies, place, profile, muddle>>

ResetReturns(n) ==
    /\ submit[n].kind = "reset" /\ submit[n].at = "done"
    /\ GoTo("login", cookies, Ended(n))
    /\ UNCHANGED <<account, mailed, profile, muddle>>

\* An error is shown where it can be: the request was refused, or lost on either way.
SubmitFails(n) ==
    /\ submit[n].at \in {"sent", "done", "refused"}
    /\ submit' = Ended(n)
    /\ UNCHANGED <<account, mailed, cookies, place, wizard, profile, muddle>>

\* A proxied request finds the session expired and clears the cookies.  Bound: once.
SessionExpires ==
    /\ cookies.user # NoUser /\ "expired" \notin muddle
    /\ cookies' = SignedOut
    /\ muddle' = muddle \cup {"expired"}
    /\ UNCHANGED <<account, mailed, place, wizard, profile, submit>>

\* Social sign-in leaves the document and comes back to a new one, with nothing cached and
\* nothing under way.
SocialSignin(u) ==
    /\ place \in PublicPages /\ account[u] \in {"bare", "ready"}
    /\ cookies' = Session(u)
    /\ place' = Route("dashboard", cookies')
    /\ wizard' = NoWizard /\ profile' = NoUser
    /\ submit' = [n \in Submits |-> IF submit[n].at = "idle" THEN NoSubmit ELSE [NoSubmit EXCEPT !.at = "ended"]]
    /\ UNCHANGED <<account, mailed, muddle>>

AuthPagesNext ==
    \/ \E u \in Users : Signin(u) \/ Signup(u) \/ Verify(u) \/ SendCode(u) \/ CheckCode(u) \/ SocialSignin(u)
    \/ \E target \in Links : Follow(target)
    \/ Onboard \/ Logout \/ FetchProfile \/ ResetPassword \/ GoBackToEmail \/ SessionExpires
    \/ \E n \in Submits :
        \/ Serve(n) \/ Enters(n) \/ MustVerify(n) \/ OnboardReturns(n) \/ LogoutReturns(n)
        \/ ProfileArrives(n) \/ StepReturns(n, "sendCode", "code") \/ StepReturns(n, "checkCode", "password")
        \/ ResetReturns(n) \/ SubmitFails(n)

AuthPagesSpec == AuthPagesInit /\ [][AuthPagesNext]_authPagesVars

----------------------------------------------------------------------------
(* Properties. *)

\* However late the answers come and in whatever order, also those of two requests that
\* change the session, the tab shows the page that its cookies are for, unless the session
\* expired.
PageFitsSession ==
    "expired" \notin muddle =>
        \/ place = "forgot"
        \/ cookies.user = NoUser /\ place \in PublicPages
        \/ cookies.user # NoUser /\ place = IF cookies.onboard THEN "onboarding" ELSE "dashboard"

\* Nobody is shown what was cached for somebody else, unless they signed in over one
\* another's session.
OwnProfile ==
    muddle \cap {"overlap", "expired"} = {} /\ place = "dashboard" => profile \in {NoUser, cookies.user}

\* The last step of the wizard holds a pair that was checked, unless the user went back
\* while it was.
CheckedPair == wizard.step = "password" /\ "back" \notin muddle => wizard.code = wizard.email
=============================================================================
