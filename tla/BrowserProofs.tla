--------------------------- MODULE BrowserProofs ---------------------------
(***************************************************************************)
(* Proofs about what runs in one browser, for every value of the constants *)
(* and of the bounds: the pages around the session, the panel for a test   *)
(* send, the saving of a draft, and the builder's canvas.  Each component  *)
(* has an inductive invariant of its own; the run's properties say that of *)
(* the component that moves.                                               *)
(***************************************************************************)
EXTENDS MCBrowser, FiniteSetTheorems, FunctionTheorems, TLAPS

\* A step of the browser is one of the component that moves.
LEMMA OneMoves ==
    ASSUME [BrowserNext]_browserVars
    PROVE  /\ focus' = focus
           /\ focus = "session" => [AuthPagesNext]_authPagesVars
           /\ focus = "panel" => [PanelNext]_panelVars
           /\ focus = "autosave" => [AutosaveNext]_autosaveVars
           /\ focus = "host" => [CanvasHostNext]_canvasHostVars
BY DEF BrowserNext, browserVars, builderSide, pages, authPagesVars, panelVars, autosaveVars,
       canvasHostVars
----------------------------------------------------------------------------
(***************************************************************************)
(* The pages around the session.                                           *)
(***************************************************************************)

\* A request, or what is left of one.
SubmitRecord == [kind: {"none", "signup", "load"} \cup WizardKinds \cup SessionKinds,
                 at: {"idle", "sent", "done", "refused", "ended"},
                 user: Users \cup {NoUser}, code: Users \cup {NoUser}, mounted: BOOLEAN]

\* Whoever signs in, registers, verifies an address or asks for a code is a user.
ByUsers ==
    \A n \in Submits : submit[n].kind \in {"signin", "signup", "verify", "sendCode"} =>
        submit[n].user \in Users

LEMMA RouteTyped ==
    ASSUME NEW target \in Pages, NEW c
    PROVE  Route(target, c) \in Pages
BY DEF Route, Pages, PublicPages

\* What a visit keeps of the requests: their number, and all of each but who listens.
LEMMA VisitTyped ==
    ASSUME AuthPagesTypeOK, NEW target \in Pages, NEW s, NEW c,
           s \in [Submits -> SubmitRecord],
           c \in [user: Users \cup {NoUser}, onboard: BOOLEAN],
           GoTo(target, c, s)
    PROVE  /\ cookies' = c
           /\ place' \in Pages
           /\ wizard' \in {wizard, NoWizard}
           /\ submit' \in [Submits -> SubmitRecord]
           /\ \A n \in Submits : /\ submit'[n].kind = s[n].kind
                                 /\ submit'[n].at = s[n].at
                                 /\ submit'[n].user = s[n].user
                                 /\ submit'[n].code = s[n].code
                                 /\ submit'[n].mounted => place' = place /\ s[n].mounted
BY RouteTyped DEF GoTo, Departed, SubmitRecord

LEMMA EndedTyped ==
    ASSUME AuthPagesTypeOK, NEW n \in Submits
    PROVE  /\ Ended(n) \in [Submits -> SubmitRecord]
           /\ Ended(n)[n].at = "ended" /\ Ended(n)[n].kind = "none"
           /\ ~Ended(n)[n].mounted
           /\ \A m \in Submits : m # n => Ended(n)[m] = submit[m]
BY DEF AuthPagesTypeOK, Ended, NoSubmit, SubmitRecord

\* The request that StartSubmit adds.
LEMMA StartTyped ==
    ASSUME AuthPagesTypeOK, NEW kind \in {"signup", "load"} \cup WizardKinds \cup SessionKinds,
           NEW u \in Users \cup {NoUser}, NEW c \in Users \cup {NoUser}, StartSubmit(kind, u, c)
    PROVE  /\ submit' \in [Submits -> SubmitRecord]
           /\ muddle' \subseteq Muddles /\ muddle \subseteq muddle'
           /\ UNCHANGED <<account, mailed, cookies, place, profile>>
           /\ \E n \in Submits :
                /\ submit[n].at = "idle"
                /\ submit'[n] = [kind |-> kind, at |-> "sent", user |-> u, code |-> c,
                                 mounted |-> TRUE]
                /\ \A m \in Submits : m # n => submit'[m] = submit[m]
<1>1. PICK n \in Submits :
         /\ submit[n].at = "idle"
         /\ submit' = [submit EXCEPT ![n] = [kind |-> kind, at |-> "sent", user |-> u, code |-> c,
                                             mounted |-> TRUE]]
  BY DEF StartSubmit
<1>2. [kind |-> kind, at |-> "sent", user |-> u, code |-> c, mounted |-> TRUE] \in SubmitRecord
  BY DEF SubmitRecord
<1>3. submit \in [Submits -> SubmitRecord] /\ muddle \subseteq Muddles
  BY DEF AuthPagesTypeOK, SubmitRecord
<1>4. muddle' \subseteq Muddles /\ muddle \subseteq muddle'
  BY <1>3 DEF StartSubmit, Muddles
<1>5. UNCHANGED <<account, mailed, cookies, place, profile>>
  BY DEF StartSubmit
<1>. QED  BY <1>1, <1>2, <1>3, <1>4, <1>5

AuthTyped == AuthPagesTypeOK /\ ByUsers

LEMMA StartKeepsTypes ==
    ASSUME AuthTyped, NEW kind \in {"signup", "load"} \cup WizardKinds \cup SessionKinds,
           NEW u \in Users \cup {NoUser}, NEW c \in Users \cup {NoUser}, StartSubmit(kind, u, c),
           kind \in {"signin", "signup", "verify", "sendCode"} => u \in Users,
           wizard' \in [step: {"email", "code", "password"}, email: Users \cup {NoUser},
                        code: Users \cup {NoUser}]
    PROVE  AuthTyped'
<1>1. AuthPagesTypeOK
  BY DEF AuthTyped
<1>2. AuthPagesTypeOK'
  BY <1>1, StartTyped DEF AuthPagesTypeOK, SubmitRecord
<1>3. ByUsers'
  <2>1. PICK n \in Submits :
          /\ submit'[n] = [kind |-> kind, at |-> "sent", user |-> u, code |-> c, mounted |-> TRUE]
          /\ \A m \in Submits : m # n => submit'[m] = submit[m]
    BY <1>1, StartTyped
  <2>2. \A m \in Submits : m # n => submit'[m].kind = submit[m].kind /\ submit'[m].user = submit[m].user
    BY <2>1
  <2>3. submit'[n].kind = kind /\ submit'[n].user = u
    BY <2>1
  <2>. QED  BY <2>2, <2>3 DEF ByUsers, AuthTyped
<1>. QED  BY <1>2, <1>3 DEF AuthTyped

LEMMA VisitKeepsTypes ==
    ASSUME AuthTyped, NEW target \in Pages, NEW s \in [Submits -> SubmitRecord],
           NEW c \in [user: Users \cup {NoUser}, onboard: BOOLEAN], GoTo(target, c, s),
           \A n \in Submits : s[n].kind \in {"none", submit[n].kind} /\ (s[n].kind # "none" => s[n] = submit[n]),
           profile' \in Users \cup {NoUser}, UNCHANGED <<account, mailed, muddle>>
    PROVE  AuthTyped'
<1>1. AuthPagesTypeOK /\ ByUsers
  BY DEF AuthTyped
<1>2. /\ cookies' = c /\ place' \in Pages /\ wizard' \in {wizard, NoWizard}
      /\ submit' \in [Submits -> SubmitRecord]
      /\ \A n \in Submits : submit'[n].kind = s[n].kind /\ submit'[n].user = s[n].user
  BY <1>1, VisitTyped
<1>3. AuthPagesTypeOK'
  BY <1>1, <1>2 DEF AuthPagesTypeOK, SubmitRecord, NoWizard
<1>4. ByUsers'
  BY <1>1, <1>2, Zenon DEF ByUsers
<1>. QED  BY <1>3, <1>4 DEF AuthTyped

LEMMA ServeKeepsTypes ==
    ASSUME AuthTyped, NEW n \in Submits, Serve(n)
    PROVE  AuthTyped'
<1>1. AuthPagesTypeOK /\ ByUsers /\ submit \in [Submits -> SubmitRecord]
  BY DEF AuthTyped, AuthPagesTypeOK, SubmitRecord
<1>2. submit' \in [Submits -> SubmitRecord]
      /\ \A m \in Submits : submit'[m].kind = submit[m].kind /\ submit'[m].user = submit[m].user
  BY <1>1 DEF Serve, SubmitRecord
<1>3. account' \in [Users -> Stages]
  BY <1>1 DEF Serve, AuthPagesTypeOK, Stages
<1>4. mailed' \subseteq Users
  BY <1>1 DEF Serve, AuthPagesTypeOK, ByUsers
<1>5. AuthPagesTypeOK'
  BY <1>1, <1>2, <1>3, <1>4 DEF AuthPagesTypeOK, SubmitRecord, Serve
<1>6. ByUsers'
  BY <1>1, <1>2, Zenon DEF ByUsers
<1>. QED  BY <1>5, <1>6 DEF AuthTyped

LEMMA AuthTypesAtFirst == AuthPagesInit => AuthTyped
BY DEF AuthPagesInit, AuthTyped, AuthPagesTypeOK, ByUsers, SignedOut, NoWizard, NoSubmit,
       Pages, PublicPages

LEMMA AuthTypesKept ==
    ASSUME AuthTyped, [AuthPagesNext]_authPagesVars
    PROVE  AuthTyped'
<1>1. AuthPagesTypeOK /\ ByUsers
  BY DEF AuthTyped
<1>2. /\ submit \in [Submits -> SubmitRecord]
      /\ account \in [Users -> Stages] /\ place \in Pages /\ muddle \subseteq Muddles
      /\ cookies \in [user: Users \cup {NoUser}, onboard: BOOLEAN]
      /\ wizard \in [step: {"email", "code", "password"}, email: Users \cup {NoUser},
                     code: Users \cup {NoUser}]
      /\ profile \in Users \cup {NoUser}
  BY <1>1 DEF AuthPagesTypeOK, SubmitRecord
<1>3. ASSUME NEW u \in Users,
             Signin(u) \/ Signup(u) \/ Verify(u) \/ SendCode(u) \/ CheckCode(u)
      PROVE  AuthTyped'
  <2>1. \E kind \in {"signup", "load"} \cup WizardKinds \cup SessionKinds,
           w \in Users \cup {NoUser}, c \in Users \cup {NoUser} :
          /\ StartSubmit(kind, w, c)
          /\ kind \in {"signin", "signup", "verify", "sendCode"} => w \in Users
    BY <1>2, <1>3 DEF Signin, Signup, Verify, SendCode, CheckCode, WizardKinds, SessionKinds
  <2>2. wizard' \in [step: {"email", "code", "password"}, email: Users \cup {NoUser},
                     code: Users \cup {NoUser}]
    BY <1>2, <1>3 DEF Signin, Signup, Verify, SendCode, CheckCode
  <2>. QED  BY <2>1, <2>2, StartKeepsTypes
<1>4. ASSUME Onboard \/ Logout \/ FetchProfile \/ ResetPassword
      PROVE  AuthTyped'
  <2>1. \E kind \in {"signup", "load"} \cup WizardKinds \cup SessionKinds,
           w \in Users \cup {NoUser}, c \in Users \cup {NoUser} :
          /\ StartSubmit(kind, w, c)
          /\ kind \notin {"signin", "signup", "verify", "sendCode"}
    BY <1>2, <1>4 DEF Onboard, Logout, FetchProfile, ResetPassword, WizardKinds, SessionKinds
  <2>2. wizard' = wizard
    BY <1>4 DEF Onboard, Logout, FetchProfile, ResetPassword
  <2>. QED  BY <2>1, <2>2, <1>2, StartKeepsTypes
<1>5. ASSUME NEW u \in Users, SocialSignin(u)
      PROVE  AuthTyped'
  <2>1. /\ cookies' \in [user: Users \cup {NoUser}, onboard: BOOLEAN]
        /\ place' \in Pages
        /\ wizard' = NoWizard /\ profile' = NoUser
        /\ submit' \in [Submits -> SubmitRecord]
        /\ \A n \in Submits : submit'[n].kind = "none"
        /\ UNCHANGED <<account, mailed, muddle>>
    BY <1>5, RouteTyped DEF SocialSignin, Session, NoSubmit, SubmitRecord, Pages
  <2>. QED  BY <1>1, <2>1 DEF AuthTyped, AuthPagesTypeOK, ByUsers, NoWizard, SubmitRecord
<1>6. ASSUME NEW target \in Links, Follow(target)
      PROVE  AuthTyped'
  <2>1. target \in Pages
    BY <1>2 DEF Links, Pages, PublicPages
  <2>2. GoTo(target, cookies, submit) /\ UNCHANGED <<account, mailed, profile, muddle>>
    BY <1>6 DEF Follow
  <2>. QED  BY <1>2, <2>1, <2>2, VisitKeepsTypes
<1>7. ASSUME GoBackToEmail \/ SessionExpires
      PROVE  AuthTyped'
  <2>1. /\ wizard' \in [step: {"email", "code", "password"}, email: Users \cup {NoUser},
                        code: Users \cup {NoUser}]
        /\ cookies' \in [user: Users \cup {NoUser}, onboard: BOOLEAN]
        /\ muddle' \subseteq Muddles
        /\ UNCHANGED <<account, mailed, place, profile, submit>>
    <3>1. CASE GoBackToEmail
      BY <1>2, <3>1 DEF GoBackToEmail, Muddles
    <3>2. CASE SessionExpires
      BY <1>2, <3>2 DEF SessionExpires, SignedOut, Muddles
    <3>. QED  BY <1>7, <3>1, <3>2
  <2>. QED  BY <1>1, <2>1 DEF AuthTyped, AuthPagesTypeOK, ByUsers
<1>8. ASSUME NEW n \in Submits, Serve(n)
      PROVE  AuthTyped'
  BY <1>8, ServeKeepsTypes
<1>9. ASSUME NEW n \in Submits
      PROVE  /\ Ended(n) \in [Submits -> SubmitRecord]
             /\ \A m \in Submits : /\ Ended(n)[m].kind \in {"none", submit[m].kind}
                                   /\ Ended(n)[m].kind # "none" => Ended(n)[m] = submit[m]
  BY <1>1, EndedTyped
<1>10. ASSUME NEW n \in Submits,
              Enters(n) \/ MustVerify(n) \/ OnboardReturns(n) \/ LogoutReturns(n) \/ ResetReturns(n)
       PROVE  AuthTyped'
  <2>1. PICK target \in Pages, c \in [user: Users \cup {NoUser}, onboard: BOOLEAN] :
          \/ GoTo(target, c, Ended(n)) /\ UNCHANGED profile
          \/ /\ GoTo(target, c, [m \in Submits |-> IF submit[m].kind = "load" THEN Ended(m)[m]
                                                                            ELSE Ended(n)[m]])
             /\ profile' = NoUser
    BY <1>2, <1>10 DEF Enters, MustVerify, OnboardReturns, LogoutReturns, ResetReturns, Session,
                       SignedOut, Pages, PublicPages, SubmitRecord
  <2>2. UNCHANGED <<account, mailed, muddle>> /\ profile' \in Users \cup {NoUser}
    BY <1>2, <1>10 DEF Enters, MustVerify, OnboardReturns, LogoutReturns, ResetReturns
  <2>3. CASE GoTo(target, c, Ended(n))
    BY <1>9, <2>1, <2>2, <2>3, VisitKeepsTypes
  <2>4. CASE GoTo(target, c, [m \in Submits |-> IF submit[m].kind = "load" THEN Ended(m)[m]
                                                                          ELSE Ended(n)[m]])
    <3>. DEFINE s == [m \in Submits |-> IF submit[m].kind = "load" THEN Ended(m)[m]
                                                                  ELSE Ended(n)[m]]
    <3>1. s \in [Submits -> SubmitRecord]
      BY <1>9
    <3>2. \A m \in Submits : s[m].kind \in {"none", submit[m].kind}
                             /\ (s[m].kind # "none" => s[m] = submit[m])
      BY <1>9
    <3>3. GoTo(target, c, s)
      BY <2>4
    <3>. HIDE DEF s
    <3>. QED  BY <3>1, <3>2, <3>3, <2>1, <2>2, VisitKeepsTypes
  <2>. QED  BY <2>1, <2>3, <2>4
<1>11. ASSUME NEW n \in Submits,
              \/ ProfileArrives(n) \/ StepReturns(n, "sendCode", "code")
              \/ StepReturns(n, "checkCode", "password") \/ SubmitFails(n)
       PROVE  AuthTyped'
  <2>1. /\ submit' = Ended(n)
        /\ wizard' \in [step: {"email", "code", "password"}, email: Users \cup {NoUser},
                        code: Users \cup {NoUser}]
        /\ profile' \in Users \cup {NoUser}
        /\ UNCHANGED <<account, mailed, cookies, place, muddle>>
    BY <1>2, <1>11 DEF ProfileArrives, StepReturns, SubmitFails, SubmitRecord
  <2>2. ByUsers'
    BY <1>1, <1>9, <2>1 DEF ByUsers
  <2>. QED  BY <1>1, <1>9, <2>1, <2>2 DEF AuthTyped, AuthPagesTypeOK, SubmitRecord
<1>12. ASSUME UNCHANGED authPagesVars
       PROVE  AuthTyped'
  BY <1>1, <1>12 DEF AuthTyped, AuthPagesTypeOK, ByUsers, authPagesVars, InFlight
<1>. QED
  BY <1>3, <1>4, <1>5, <1>6, <1>7, <1>8, <1>10, <1>11, <1>12 DEF AuthPagesNext
----------------------------------------------------------------------------
(***************************************************************************)
(* Which page is shown.                                                    *)
(***************************************************************************)

\* Wherever a visit is aimed, the redirects end on a page that the cookies are for.
LEMMA VisitFits ==
    ASSUME NEW target, NEW c, NEW s, GoTo(target, c, s)
    PROVE  PageFitsSession'
<1>1. cookies' = c /\ place' = Route(target, c)
  BY DEF GoTo
<1>2. \/ Route(target, c) = "forgot"
      \/ c.user = NoUser /\ Route(target, c) \in PublicPages
      \/ c.user # NoUser /\ Route(target, c) = IF c.onboard THEN "onboarding" ELSE "dashboard"
  BY DEF Route, PublicPages
<1>. QED  BY <1>1, <1>2 DEF PageFitsSession

LEMMA PageKept ==
    ASSUME PageFitsSession, [AuthPagesNext]_authPagesVars
    PROVE  PageFitsSession'
<1>1. CASE cookies' = cookies /\ place' = place /\ muddle \subseteq muddle'
  BY <1>1 DEF PageFitsSession
<1>2. ASSUME NEW u \in Users,
             Signin(u) \/ Signup(u) \/ Verify(u) \/ SendCode(u) \/ CheckCode(u)
      PROVE  PageFitsSession'
  BY <1>1, <1>2 DEF Signin, Signup, Verify, SendCode, CheckCode, StartSubmit
<1>3. ASSUME Onboard \/ Logout \/ FetchProfile \/ ResetPassword \/ GoBackToEmail
      PROVE  PageFitsSession'
  BY <1>1, <1>3 DEF Onboard, Logout, FetchProfile, ResetPassword, StartSubmit, GoBackToEmail
<1>4. ASSUME NEW u \in Users, SocialSignin(u)
      PROVE  PageFitsSession'
  <2>1. place' = Route("dashboard", cookies')
    BY <1>4 DEF SocialSignin
  <2>. QED  BY <2>1 DEF Route, PageFitsSession, PublicPages
<1>5. ASSUME SessionExpires
      PROVE  PageFitsSession'
  BY <1>5 DEF SessionExpires, PageFitsSession
<1>6. ASSUME NEW target, Follow(target)
      PROVE  PageFitsSession'
  BY <1>6, VisitFits DEF Follow
<1>7. ASSUME NEW n \in Submits,
             Enters(n) \/ MustVerify(n) \/ OnboardReturns(n) \/ LogoutReturns(n) \/ ResetReturns(n)
      PROVE  PageFitsSession'
  BY <1>7, VisitFits DEF Enters, MustVerify, OnboardReturns, LogoutReturns, ResetReturns
<1>8. ASSUME NEW n \in Submits,
             \/ Serve(n) \/ ProfileArrives(n) \/ StepReturns(n, "sendCode", "code")
             \/ StepReturns(n, "checkCode", "password") \/ SubmitFails(n)
      PROVE  PageFitsSession'
  BY <1>1, <1>8 DEF Serve, ProfileArrives, StepReturns, SubmitFails
<1>9. CASE UNCHANGED authPagesVars
  BY <1>1, <1>9 DEF authPagesVars
<1>. QED  BY <1>2, <1>3, <1>4, <1>5, <1>6, <1>7, <1>8, <1>9 DEF AuthPagesNext
----------------------------------------------------------------------------
(***************************************************************************)
(* Requests come, are served, and end.                                     *)
(***************************************************************************)

\* The requests still in flight are those of before, with who asked what; and what was
\* granted has been, or is now.
Fewer ==
    \A n \in InFlight' :
        /\ n \in InFlight
        /\ submit'[n].kind = submit[n].kind /\ submit'[n].user = submit[n].user
        /\ submit'[n].code = submit[n].code
        /\ submit'[n].mounted => submit[n].mounted
        /\ submit'[n].at = "done" => submit[n].at = "done" \/ Granted(n)

LEMMA VisitEnds ==
    ASSUME AuthTyped, NEW target, NEW c, NEW s \in [Submits -> SubmitRecord], GoTo(target, c, s),
           \A n \in Submits : s[n] = submit[n] \/ s[n].at = "ended"
    PROVE  Fewer /\ \A n \in InFlight' : submit'[n].mounted => place' = place
<1>1. submit \in [Submits -> SubmitRecord]
  BY DEF AuthTyped, AuthPagesTypeOK, SubmitRecord
<1>2. submit' = Departed(s, place')
  BY DEF GoTo
<1>3. ASSUME NEW n \in Submits
      PROVE  /\ submit'[n].kind = s[n].kind /\ submit'[n].user = s[n].user
             /\ submit'[n].code = s[n].code /\ submit'[n].at = s[n].at
             /\ submit'[n].mounted => s[n].mounted /\ place' = place
  BY <1>2 DEF Departed, SubmitRecord
<1>. QED  BY <1>1, <1>3 DEF Fewer, InFlight

LEMMA EndingEnds ==
    ASSUME AuthTyped, NEW n \in Submits, submit' = Ended(n)
    PROVE  Fewer /\ n \notin InFlight'
<1>1. AuthPagesTypeOK
  BY DEF AuthTyped
<1>. QED  BY <1>1, EndedTyped DEF Fewer, InFlight
----------------------------------------------------------------------------
(***************************************************************************)
(* Whose profile is cached.                                                *)
(***************************************************************************)

\* No request that changes the session was sent over another, and the session has not
\* expired.
Undisturbed == muddle \cap {"overlap", "expired"} = {}

\* What is cached and what is being loaded is of the session; and at most one request
\* is about to change the session, one that signs in only where there is none.
ProfileInv ==
    Undisturbed =>
        /\ profile \in {NoUser, cookies.user}
        /\ \A n \in InFlight :
            submit[n].kind = "load" => submit[n].user = cookies.user /\ cookies.user # NoUser
        /\ \A n \in InFlight : submit[n].kind \in {"signin", "verify"} => cookies.user = NoUser
        /\ \A n, m \in InFlight :
            submit[n].kind \in SessionKinds /\ submit[m].kind \in SessionKinds => n = m

LEMMA ProfileStays ==
    ASSUME ProfileInv, Fewer, muddle \subseteq muddle', cookies'.user = cookies.user,
           profile' \in {profile, NoUser}
    PROVE  ProfileInv'
BY DEF ProfileInv, Fewer, Undisturbed

LEMMA StartKeepsProfile ==
    ASSUME AuthTyped, PageFitsSession, ProfileInv,
           NEW kind \in {"signup", "load"} \cup WizardKinds \cup SessionKinds,
           NEW u \in Users \cup {NoUser}, NEW c \in Users \cup {NoUser}, StartSubmit(kind, u, c),
           kind = "load" => place = "dashboard" /\ u = cookies.user,
           kind \in {"signin", "verify"} => place \in {"login", "verify"}
    PROVE  ProfileInv'
<1>. SUFFICES ASSUME Undisturbed'
              PROVE  ProfileInv'
  BY DEF ProfileInv
<1>. DEFINE r == [kind |-> kind, at |-> "sent", user |-> u, code |-> c, mounted |-> TRUE]
<1>1. r.kind = kind /\ r.at = "sent" /\ r.user = u
  OBVIOUS
<1>. HIDE DEF r
<1>2. /\ muddle \subseteq muddle' /\ cookies' = cookies /\ profile' = profile
      /\ \E n \in Submits : /\ submit[n].at = "idle"
                            /\ submit'[n] = r
                            /\ \A m \in Submits : m # n => submit'[m] = submit[m]
  BY StartTyped DEF AuthTyped, r
<1>3. PICK n \in Submits : /\ submit[n].at = "idle"
                           /\ submit'[n] = r
                           /\ \A m \in Submits : m # n => submit'[m] = submit[m]
  BY <1>2
<1>4. Undisturbed /\ "expired" \notin muddle /\ "overlap" \notin muddle'
  BY <1>2 DEF Undisturbed
<1>5. kind = "load" => cookies.user # NoUser
  BY <1>4 DEF PageFitsSession, PublicPages
<1>6. kind \in {"signin", "verify"} => cookies.user = NoUser
  BY <1>4 DEF PageFitsSession
<1>7. kind \in SessionKinds => \A m \in InFlight : submit[m].kind \notin SessionKinds
  BY <1>4 DEF StartSubmit
<1>8. \A m \in InFlight' : m = n \/ (m \in InFlight /\ m # n /\ submit'[m] = submit[m])
  BY <1>3, Zenon DEF InFlight
<1>9. /\ profile' \in {NoUser, cookies'.user}
      /\ \A m \in InFlight' :
            submit'[m].kind = "load" => submit'[m].user = cookies'.user /\ cookies'.user # NoUser
      /\ \A m \in InFlight' : submit'[m].kind \in {"signin", "verify"} => cookies'.user = NoUser
  BY <1>1, <1>2, <1>3, <1>4, <1>5, <1>6, <1>8 DEF ProfileInv
<1>10. \A l, m \in InFlight' :
            submit'[l].kind \in SessionKinds /\ submit'[m].kind \in SessionKinds => l = m
  BY <1>1, <1>3, <1>4, <1>7, <1>8 DEF ProfileInv
<1>. QED  BY <1>9, <1>10 DEF ProfileInv

LEMMA ServeKeepsRequests ==
    ASSUME AuthTyped, NEW n \in Submits, Serve(n)
    PROVE  Fewer /\ UNCHANGED <<cookies, place, wizard, profile, muddle>>
BY DEF Serve, AuthTyped, AuthPagesTypeOK, Fewer, InFlight

\* What signs in ends where nobody was: it was the one request to change the session.
LEMMA EntersKeepsProfile ==
    ASSUME AuthTyped, ProfileInv, NEW n \in Submits, Enters(n)
    PROVE  ProfileInv'
<1>. SUFFICES ASSUME Undisturbed'
              PROVE  ProfileInv'
  BY DEF ProfileInv
<1>1. PICK target, c : GoTo(target, c, Ended(n))
  BY DEF Enters
<1>2. AuthPagesTypeOK /\ UNCHANGED <<profile, muddle>>
  BY DEF AuthTyped, Enters
<1>3. Undisturbed
  BY <1>2 DEF Undisturbed
<1>4. n \in InFlight /\ submit[n].kind \in {"signin", "verify"} /\ submit[n].kind \in SessionKinds
  BY DEF Enters, InFlight, SessionKinds
<1>5. cookies.user = NoUser /\ profile = NoUser
  BY <1>3, <1>4 DEF ProfileInv
<1>6. \A m \in InFlight : submit[m].kind # "load" /\ (submit[m].kind \in SessionKinds => m = n)
  BY <1>3, <1>4, <1>5 DEF ProfileInv
<1>7. Fewer /\ n \notin InFlight'
  <2>1. /\ Ended(n) \in [Submits -> SubmitRecord] /\ Ended(n)[n].at = "ended"
        /\ \A m \in Submits : Ended(n)[m] = submit[m] \/ Ended(n)[m].at = "ended"
    BY <1>2, EndedTyped
  <2>2. Fewer
    BY <1>1, <2>1, VisitEnds
  <2>3. submit' = Departed(Ended(n), place')
    BY <1>1 DEF GoTo
  <2>4. submit'[n].at = "ended"
    BY <2>1, <2>3 DEF Departed, SubmitRecord
  <2>. QED  BY <2>2, <2>4 DEF InFlight
<1>8. \A m \in InFlight' : submit'[m].kind # "load" /\ submit'[m].kind \notin SessionKinds
  BY <1>6, <1>7 DEF Fewer
<1>. QED  BY <1>2, <1>5, <1>8 DEF ProfileInv, SessionKinds

LEMMA ProfileKept ==
    ASSUME AuthTyped, PageFitsSession, ProfileInv, [AuthPagesNext]_authPagesVars
    PROVE  ProfileInv'
<1>1. AuthPagesTypeOK /\ cookies.user \in Users \cup {NoUser}
      /\ wizard.email \in Users \cup {NoUser} /\ wizard.code \in Users \cup {NoUser}
  BY DEF AuthTyped, AuthPagesTypeOK
<1>2. ASSUME NEW n \in Submits
      PROVE  /\ Ended(n) \in [Submits -> SubmitRecord]
             /\ \A m \in Submits : Ended(n)[m] = submit[m] \/ Ended(n)[m].at = "ended"
  BY <1>1, EndedTyped
<1>3. ASSUME NEW u \in Users,
             Signin(u) \/ Signup(u) \/ Verify(u) \/ SendCode(u) \/ CheckCode(u)
      PROVE  ProfileInv'
  <2>1. \E kind \in {"signup", "load"} \cup WizardKinds \cup SessionKinds,
           w \in Users \cup {NoUser}, c \in Users \cup {NoUser} :
          /\ StartSubmit(kind, w, c)
          /\ kind # "load"
          /\ kind \in {"signin", "verify"} => place \in {"login", "verify"}
    BY <1>1, <1>3 DEF Signin, Signup, Verify, SendCode, CheckCode, WizardKinds, SessionKinds
  <2>. QED  BY <2>1, StartKeepsProfile
<1>4. ASSUME Onboard \/ Logout \/ FetchProfile \/ ResetPassword
      PROVE  ProfileInv'
  <2>1. \E kind \in {"signup", "load"} \cup WizardKinds \cup SessionKinds,
           w \in Users \cup {NoUser}, c \in Users \cup {NoUser} :
          /\ StartSubmit(kind, w, c)
          /\ kind = "load" => place = "dashboard" /\ w = cookies.user
          /\ kind \notin {"signin", "verify"}
    BY <1>1, <1>4 DEF Onboard, Logout, FetchProfile, ResetPassword, WizardKinds, SessionKinds
  <2>. QED  BY <2>1, StartKeepsProfile
<1>5. ASSUME NEW u \in Users, SocialSignin(u)
      PROVE  ProfileInv'
  <2>1. profile' = NoUser /\ InFlight' = {}
    BY <1>5 DEF SocialSignin, InFlight, NoSubmit
  <2>. QED  BY <2>1 DEF ProfileInv
<1>6. ASSUME NEW target \in Links, Follow(target)
      PROVE  ProfileInv'
  <2>1. GoTo(target, cookies, submit) /\ UNCHANGED <<muddle, profile>>
    BY <1>6 DEF Follow
  <2>2. submit \in [Submits -> SubmitRecord]
    BY <1>1 DEF AuthPagesTypeOK, SubmitRecord
  <2>3. Fewer
    BY <2>1, <2>2, VisitEnds
  <2>. QED  BY <2>1, <2>3, ProfileStays DEF GoTo
<1>7. ASSUME GoBackToEmail
      PROVE  ProfileInv'
  BY <1>7, ProfileStays DEF GoBackToEmail, Fewer, InFlight
<1>8. ASSUME SessionExpires
      PROVE  ProfileInv'
  BY <1>8 DEF SessionExpires, ProfileInv, Undisturbed
<1>9. ASSUME NEW n \in Submits, Serve(n)
      PROVE  ProfileInv'
  BY <1>9, ServeKeepsRequests, ProfileStays
<1>10. ASSUME NEW n \in Submits, Enters(n)
       PROVE  ProfileInv'
  BY <1>10, EntersKeepsProfile
<1>11. ASSUME NEW n \in Submits, MustVerify(n) \/ OnboardReturns(n) \/ ResetReturns(n)
       PROVE  ProfileInv'
  <2>1. PICK target, c : GoTo(target, c, Ended(n)) /\ c.user = cookies.user
    BY <1>1, <1>11 DEF MustVerify, OnboardReturns, ResetReturns, AuthPagesTypeOK
  <2>2. Fewer /\ cookies' = c
    BY <1>2, <2>1, VisitEnds DEF GoTo
  <2>. QED  BY <1>11, <2>1, <2>2, ProfileStays DEF MustVerify, OnboardReturns, ResetReturns
<1>12. ASSUME NEW n \in Submits, LogoutReturns(n)
       PROVE  ProfileInv'
  <2>. DEFINE s == [m \in Submits |-> IF submit[m].kind = "load" THEN Ended(m)[m] ELSE Ended(n)[m]]
  <2>1. /\ s \in [Submits -> SubmitRecord]
        /\ \A m \in Submits : s[m] = submit[m] \/ s[m].at = "ended"
        /\ \A m \in Submits : submit[m].kind = "load" => s[m].at = "ended"
    BY <1>1, <1>2, EndedTyped
  <2>2. GoTo("login", SignedOut, s) /\ profile' = NoUser /\ UNCHANGED muddle
    BY <1>12 DEF LogoutReturns
  <2>. HIDE DEF s
  <2>3. Fewer
    BY <2>1, <2>2, VisitEnds
  <2>4. \A m \in Submits : submit'[m].at = s[m].at
    BY <2>1, <2>2 DEF GoTo, Departed, SubmitRecord
  <2>5. \A m \in InFlight' : submit'[m].kind # "load"
    BY <2>1, <2>3, <2>4 DEF Fewer, InFlight
  <2>6. cookies'.user = NoUser
    BY <2>2 DEF GoTo, SignedOut
  <2>. QED  BY <2>2, <2>3, <2>5, <2>6 DEF ProfileInv, Undisturbed, Fewer
<1>13. ASSUME NEW n \in Submits, ProfileArrives(n)
       PROVE  ProfileInv'
  <2>1. /\ submit[n].kind = "load" /\ n \in InFlight /\ profile' = submit[n].user
        /\ UNCHANGED <<cookies, muddle>>
    BY <1>13 DEF ProfileArrives, InFlight
  <2>2. Fewer
    BY <1>13, EndingEnds DEF ProfileArrives
  <2>. QED  BY <2>1, <2>2 DEF ProfileInv, Undisturbed, Fewer
<1>14. ASSUME NEW n \in Submits,
              \/ StepReturns(n, "sendCode", "code") \/ StepReturns(n, "checkCode", "password")
              \/ SubmitFails(n)
       PROVE  ProfileInv'
  <2>1. submit' = Ended(n) /\ UNCHANGED <<cookies, muddle, profile>>
    BY <1>14 DEF StepReturns, SubmitFails
  <2>. QED  BY <2>1, EndingEnds, ProfileStays
<1>15. CASE UNCHANGED authPagesVars
  BY <1>15, ProfileStays DEF authPagesVars, Fewer, InFlight
<1>. QED
  BY <1>3, <1>4, <1>5, <1>6, <1>7, <1>8, <1>9, <1>10, <1>11, <1>12, <1>13, <1>14, <1>15
     DEF AuthPagesNext
----------------------------------------------------------------------------
(***************************************************************************)
(* The wizard that resets a password.                                      *)
(***************************************************************************)

\* A code that was accepted is that of the address it was sent to.
CodesChecked ==
    \A n \in Submits : submit[n].kind = "checkCode" /\ submit[n].at = "done" =>
        submit[n].code = submit[n].user

\* Unless the user went back while a code was checked: the wizard waits on the step whose
\* request runs, of which there is one, with the pair that was sent.
StepsAwaited ==
    "back" \notin muddle =>
        /\ wizard.step = "password" => wizard.code = wizard.email
        /\ \A n \in InFlight :
            /\ submit[n].mounted /\ submit[n].kind = "sendCode" => wizard.step = "email"
            /\ submit[n].mounted /\ submit[n].kind = "checkCode" =>
                /\ wizard.step = "code"
                /\ wizard.code = submit[n].code
                /\ wizard.email = submit[n].user
        /\ \A n, m \in InFlight :
            /\ submit[n].mounted /\ submit[m].mounted
            /\ submit[n].kind = submit[m].kind /\ submit[n].kind \in {"sendCode", "checkCode"}
            => n = m

WizardInv == CodesChecked /\ StepsAwaited

LEMMA CodesStay ==
    ASSUME CodesChecked, Fewer
    PROVE  CodesChecked'
<1>. SUFFICES ASSUME NEW n \in Submits, submit'[n].kind = "checkCode", submit'[n].at = "done"
              PROVE  submit'[n].code = submit'[n].user
  BY DEF CodesChecked
<1>1. n \in InFlight'
  BY DEF InFlight
<1>2. /\ submit[n].kind = "checkCode" /\ submit'[n].user = submit[n].user
      /\ submit'[n].code = submit[n].code
      /\ submit[n].at = "done" \/ Granted(n)
  BY <1>1 DEF Fewer
<1>. QED  BY <1>2 DEF Granted, CodesChecked

LEMMA WizardStays ==
    ASSUME WizardInv, Fewer, muddle \subseteq muddle', wizard' = wizard
    PROVE  WizardInv'
BY CodesStay DEF WizardInv, StepsAwaited, Fewer

\* A visit either stays on the page, with the wizard, or leaves it, and no request of the
\* wizard is heard any more.
LEMMA VisitKeepsWizard ==
    ASSUME AuthTyped, WizardInv, NEW target, NEW c, NEW s \in [Submits -> SubmitRecord],
           GoTo(target, c, s), \A n \in Submits : s[n] = submit[n] \/ s[n].at = "ended",
           muddle' = muddle
    PROVE  WizardInv'
<1>1. Fewer /\ \A n \in InFlight' : submit'[n].mounted => place' = place
  BY VisitEnds
<1>2. CASE place' = place
  BY <1>1, <1>2, WizardStays DEF GoTo
<1>3. CASE place' # place
  <2>1. wizard' = NoWizard /\ \A n \in InFlight' : ~submit'[n].mounted
    BY <1>1, <1>3 DEF GoTo
  <2>2. StepsAwaited'
    BY <2>1 DEF StepsAwaited, NoWizard
  <2>3. CodesChecked'
    BY <1>1, CodesStay DEF WizardInv
  <2>. QED  BY <2>2, <2>3 DEF WizardInv
<1>. QED  BY <1>2, <1>3

\* A request that starts is none of the wizard's, or the one of the step it is on.
LEMMA StartKeepsWizard ==
    ASSUME AuthTyped, WizardInv,
           NEW kind \in {"signup", "load"} \cup WizardKinds \cup SessionKinds,
           NEW u \in Users \cup {NoUser}, NEW c \in Users \cup {NoUser}, StartSubmit(kind, u, c),
           wizard'.step = wizard.step,
           \/ kind \notin {"sendCode", "checkCode"} /\ wizard' = wizard
           \/ kind = "sendCode" /\ wizard.step = "email" /\ ~Busy("sendCode")
           \/ /\ kind = "checkCode" /\ wizard.step = "code" /\ ~Busy("checkCode")
              /\ wizard'.email = u /\ wizard'.code = c
    PROVE  WizardInv'
<1>. DEFINE r == [kind |-> kind, at |-> "sent", user |-> u, code |-> c, mounted |-> TRUE]
<1>1. r.kind = kind /\ r.at = "sent" /\ r.user = u /\ r.code = c /\ r.mounted
  OBVIOUS
<1>. HIDE DEF r
<1>2. /\ muddle \subseteq muddle'
      /\ \E n \in Submits : /\ submit[n].at = "idle"
                            /\ submit'[n] = r
                            /\ \A m \in Submits : m # n => submit'[m] = submit[m]
  BY StartTyped DEF AuthTyped, r
<1>3. PICK n \in Submits : /\ submit[n].at = "idle"
                           /\ submit'[n] = r
                           /\ \A m \in Submits : m # n => submit'[m] = submit[m]
  BY <1>2
<1>4. CodesChecked'
  BY <1>1, <1>3 DEF WizardInv, CodesChecked
<1>5. \A m \in InFlight' : m = n \/ (m \in InFlight /\ m # n /\ submit'[m] = submit[m])
  BY <1>3, Zenon DEF InFlight
<1>6. StepsAwaited'
  <2>. SUFFICES ASSUME "back" \notin muddle'
                PROVE  StepsAwaited'
    BY DEF StepsAwaited
  <2>1. StepsAwaited /\ "back" \notin muddle
    BY <1>2 DEF WizardInv
  <2>2. CASE kind \notin {"sendCode", "checkCode"} /\ wizard' = wizard
    BY <1>1, <1>3, <1>5, <2>1, <2>2 DEF StepsAwaited
  <2>3. CASE kind = "sendCode" /\ wizard.step = "email" /\ ~Busy("sendCode")
    <3>1. \A m \in InFlight : ~(submit[m].mounted /\ submit[m].kind \in {"sendCode", "checkCode"})
      BY <2>1, <2>3 DEF StepsAwaited, Busy
    <3>. QED  BY <1>1, <1>3, <1>5, <2>1, <2>3, <3>1 DEF StepsAwaited
  <2>4. CASE /\ kind = "checkCode" /\ wizard.step = "code" /\ ~Busy("checkCode")
             /\ wizard'.email = u /\ wizard'.code = c
    <3>1. \A m \in InFlight : ~(submit[m].mounted /\ submit[m].kind \in {"sendCode", "checkCode"})
      BY <2>1, <2>4 DEF StepsAwaited, Busy
    <3>. QED  BY <1>1, <1>3, <1>5, <2>1, <2>4, <3>1 DEF StepsAwaited
  <2>. QED  BY <2>2, <2>3, <2>4
<1>. QED  BY <1>4, <1>6 DEF WizardInv

\* The wizard goes on when the request of its step is answered.
LEMMA StepKeepsWizard ==
    ASSUME AuthTyped, WizardInv, NEW n \in Submits,
           StepReturns(n, "sendCode", "code") \/ StepReturns(n, "checkCode", "password")
    PROVE  WizardInv'
<1>1. Fewer /\ n \notin InFlight' /\ muddle' = muddle
  BY EndingEnds DEF StepReturns
<1>2. CASE ~submit[n].mounted
  BY <1>1, <1>2, WizardStays DEF StepReturns
<1>3. CASE submit[n].mounted /\ "back" \notin muddle
  <2>1. n \in InFlight /\ StepsAwaited /\ CodesChecked
    BY DEF StepReturns, InFlight, WizardInv
  <2>2. \A m \in InFlight' : ~(submit'[m].mounted /\ submit'[m].kind \in {"sendCode", "checkCode"})
    BY <1>1, <1>3, <2>1 DEF StepsAwaited, Fewer, StepReturns
  <2>3. \/ submit[n].kind = "sendCode" /\ wizard' = [wizard EXCEPT !.step = "code"]
        \/ /\ submit[n].kind = "checkCode" /\ submit[n].at = "done"
           /\ wizard' = [wizard EXCEPT !.step = "password"]
    BY <1>3 DEF StepReturns
  <2>4. wizard.code = wizard.email \/ submit[n].kind = "sendCode"
    BY <1>3, <2>1, <2>3 DEF StepsAwaited, CodesChecked
  <2>5. wizard'.step = "password" => wizard'.code = wizard'.email
    BY <2>3, <2>4 DEF AuthTyped, AuthPagesTypeOK
  <2>. QED  BY <1>1, <2>1, <2>2, <2>5, CodesStay DEF WizardInv, StepsAwaited
<1>4. CASE "back" \in muddle
  BY <1>1, <1>4, CodesStay DEF WizardInv, StepsAwaited
<1>. QED  BY <1>2, <1>3, <1>4

LEMMA WizardKept ==
    ASSUME AuthTyped, WizardInv, [AuthPagesNext]_authPagesVars
    PROVE  WizardInv'
<1>1. AuthPagesTypeOK /\ cookies.user \in Users \cup {NoUser}
      /\ wizard.email \in Users \cup {NoUser} /\ wizard.code \in Users \cup {NoUser}
      /\ submit \in [Submits -> SubmitRecord]
      /\ wizard \in [step: {"email", "code", "password"}, email: Users \cup {NoUser},
                     code: Users \cup {NoUser}]
  BY DEF AuthTyped, AuthPagesTypeOK, SubmitRecord
<1>2. ASSUME NEW n \in Submits
      PROVE  /\ Ended(n) \in [Submits -> SubmitRecord]
             /\ \A m \in Submits : Ended(n)[m] = submit[m] \/ Ended(n)[m].at = "ended"
  BY <1>1, EndedTyped
<1>3. ASSUME NEW u \in Users, Signin(u) \/ Signup(u) \/ Verify(u)
      PROVE  WizardInv'
  <2>1. \E kind \in {"signup", "signin", "verify"} : StartSubmit(kind, u, NoUser)
    BY <1>3 DEF Signin, Signup, Verify
  <2>2. wizard' = wizard
    BY <1>3 DEF Signin, Signup, Verify
  <2>. QED  BY <2>1, <2>2, StartKeepsWizard DEF SessionKinds
<1>4. ASSUME Onboard \/ Logout \/ FetchProfile \/ ResetPassword
      PROVE  WizardInv'
  <2>. DEFINE Kinds == {"signup", "load"} \cup WizardKinds \cup SessionKinds
  <2>1. \E kind \in Kinds, w \in Users \cup {NoUser}, c \in Users \cup {NoUser} :
          StartSubmit(kind, w, c) /\ kind \notin {"sendCode", "checkCode"}
    <3>1. {"onboard", "logout", "load", "reset"} \subseteq Kinds
      BY DEF WizardKinds, SessionKinds
    <3>2. wizard.email \in Users \cup {NoUser} /\ wizard.code \in Users \cup {NoUser}
          /\ cookies.user \in Users \cup {NoUser} /\ NoUser \in Users \cup {NoUser}
      BY <1>1
    <3>3. \/ StartSubmit("onboard", cookies.user, NoUser) \/ StartSubmit("logout", cookies.user, NoUser)
          \/ StartSubmit("load", cookies.user, NoUser) \/ StartSubmit("reset", wizard.email, wizard.code)
      BY <1>4 DEF Onboard, Logout, FetchProfile, ResetPassword
    <3>. HIDE DEF Kinds
    <3>. QED  BY <3>1, <3>2, <3>3
  <2>2. wizard' = wizard
    BY <1>4 DEF Onboard, Logout, FetchProfile, ResetPassword
  <2>. QED  BY <2>1, <2>2, StartKeepsWizard
<1>5. ASSUME NEW u \in Users, SendCode(u)
      PROVE  WizardInv'
  <2>1. /\ StartSubmit("sendCode", u, NoUser) /\ wizard.step = "email" /\ ~Busy("sendCode")
        /\ wizard'.step = wizard.step
    BY <1>1, <1>5 DEF SendCode
  <2>. QED  BY <2>1, StartKeepsWizard DEF WizardKinds
<1>6. ASSUME NEW c \in Users, CheckCode(c)
      PROVE  WizardInv'
  <2>1. /\ StartSubmit("checkCode", wizard.email, c) /\ wizard.step = "code" /\ ~Busy("checkCode")
        /\ wizard'.step = wizard.step /\ wizard'.email = wizard.email /\ wizard'.code = c
    BY <1>1, <1>6 DEF CheckCode
  <2>. QED  BY <1>1, <2>1, StartKeepsWizard DEF WizardKinds
<1>7. ASSUME NEW u \in Users, SocialSignin(u)
      PROVE  WizardInv'
  <2>1. wizard' = NoWizard /\ \A n \in Submits : submit'[n].kind = "none"
    BY <1>7 DEF SocialSignin, NoSubmit
  <2>. QED  BY <2>1 DEF WizardInv, CodesChecked, StepsAwaited, NoWizard, InFlight
<1>8. ASSUME NEW target \in Links, Follow(target)
      PROVE  WizardInv'
  BY <1>1, <1>8, VisitKeepsWizard DEF Follow
<1>9. ASSUME GoBackToEmail
      PROVE  WizardInv'
  <2>1. /\ wizard.step = "code" /\ wizard'.step = "email" /\ UNCHANGED submit
        /\ "back" \notin muddle' => ~Busy("checkCode") /\ "back" \notin muddle
    BY <1>1, <1>9 DEF GoBackToEmail
  <2>2. CodesChecked'
    BY <2>1 DEF WizardInv, CodesChecked
  <2>3. StepsAwaited'
    BY <2>1 DEF WizardInv, StepsAwaited, Busy, InFlight
  <2>. QED  BY <2>2, <2>3 DEF WizardInv
<1>10. ASSUME SessionExpires
       PROVE  WizardInv'
  BY <1>10, WizardStays DEF SessionExpires, Fewer, InFlight
<1>11. ASSUME NEW n \in Submits, Serve(n)
       PROVE  WizardInv'
  BY <1>11, ServeKeepsRequests, WizardStays
<1>12. ASSUME NEW n \in Submits, Enters(n) \/ MustVerify(n) \/ OnboardReturns(n) \/ ResetReturns(n)
       PROVE  WizardInv'
  <2>1. \E target, c : GoTo(target, c, Ended(n))
    BY <1>12 DEF Enters, MustVerify, OnboardReturns, ResetReturns
  <2>2. muddle' = muddle
    BY <1>12 DEF Enters, MustVerify, OnboardReturns, ResetReturns
  <2>. QED  BY <1>2, <2>1, <2>2, VisitKeepsWizard
<1>13. ASSUME NEW n \in Submits, LogoutReturns(n)
       PROVE  WizardInv'
  <2>. DEFINE s == [m \in Submits |-> IF submit[m].kind = "load" THEN Ended(m)[m] ELSE Ended(n)[m]]
  <2>1. /\ s \in [Submits -> SubmitRecord]
        /\ \A m \in Submits : s[m] = submit[m] \/ s[m].at = "ended"
    BY <1>1, <1>2, EndedTyped
  <2>2. GoTo("login", SignedOut, s) /\ UNCHANGED muddle
    BY <1>13 DEF LogoutReturns
  <2>. HIDE DEF s
  <2>. QED  BY <2>1, <2>2, VisitKeepsWizard
<1>14. ASSUME NEW n \in Submits, ProfileArrives(n) \/ SubmitFails(n)
       PROVE  WizardInv'
  BY <1>14, EndingEnds, WizardStays DEF ProfileArrives, SubmitFails
<1>15. ASSUME NEW n \in Submits,
              StepReturns(n, "sendCode", "code") \/ StepReturns(n, "checkCode", "password")
       PROVE  WizardInv'
  BY <1>15, StepKeepsWizard
<1>16. CASE UNCHANGED authPagesVars
  BY <1>16, WizardStays DEF authPagesVars, Fewer, InFlight
<1>. QED
  BY <1>3, <1>4, <1>5, <1>6, <1>7, <1>8, <1>9, <1>10, <1>11, <1>12, <1>13, <1>14, <1>15, <1>16
     DEF AuthPagesNext
----------------------------------------------------------------------------
AuthPagesInv == AuthTyped /\ PageFitsSession /\ ProfileInv /\ WizardInv

LEMMA AuthPagesAtFirst == AuthPagesInit => AuthPagesInv
<1>. SUFFICES ASSUME AuthPagesInit
              PROVE  AuthPagesInv
  OBVIOUS
<1>1. AuthTyped
  BY AuthTypesAtFirst
<1>2. PageFitsSession
  BY DEF AuthPagesInit, PageFitsSession, SignedOut, PublicPages
<1>3. InFlight = {} /\ \A n \in Submits : submit[n].kind = "none"
  BY DEF AuthPagesInit, InFlight, NoSubmit
<1>. QED  BY <1>1, <1>2, <1>3
          DEF AuthPagesInit, AuthPagesInv, ProfileInv, WizardInv, CodesChecked, StepsAwaited, NoWizard

\* The pages around the session: PageFitsSession, OwnProfile, CheckedPair.
THEOREM SessionPagesSound == BrowserSpec => []AuthPagesSound
<1>. DEFINE Inv == focus = "session" => AuthPagesInv
<1>1. BrowserInit => Inv
  BY AuthPagesAtFirst DEF BrowserInit
<1>2. Inv /\ [BrowserNext]_browserVars => Inv'
  BY OneMoves, AuthTypesKept, PageKept, ProfileKept, WizardKept DEF AuthPagesInv
<1>3. Inv => AuthPagesSound
  BY DEF AuthPagesInv, ProfileInv, WizardInv, StepsAwaited, AuthPagesSound, Undisturbed,
         OwnProfile, CheckedPair
<1>. QED  BY <1>1, <1>2, <1>3, PTL DEF BrowserSpec
----------------------------------------------------------------------------
(***************************************************************************)
(* The panel for a test send.                                              *)
(***************************************************************************)

\* A send has a recipient, and ends with an attempt on every channel.
SendsGrow ==
    \A n \in SendIds :
        /\ sends[n].at # "none" => sends[n].form.who # NoOne
        /\ sends[n].final => sends[n].attempts = Attempts

\* Only what was sent is polled.  A poll that has read the end of a send reads, if it can,
\* every attempt; and so it is cached.
PollsFollow ==
    \A n \in SendIds :
        /\ polls[n].at # "idle" => sends[n].at = "answered"
        /\ polls[n].at \in {"attempts", "answer"} /\ polls[n].view.final => sends[n].final
        /\ polls[n].at = "answer" /\ polls[n].view.final /\ ~polls[n].view.unread =>
            polls[n].view.events = Attempts
        /\ polled[n].final /\ ~polled[n].unread => polled[n].events = Attempts

\* Unless the form was changed meanwhile, what is on its way to the panel has its form, as
\* has what is shown; and the button observes all that is on its way, if the drawer was not
\* closed either.
FormsAgree ==
    /\ "changed" \notin lapses =>
        /\ \A n \in Pending : sends[n].watched => sends[n].form = form
        /\ shown # 0 => sends[shown].form = form
    /\ lapses = {} => Pending \subseteq {mutation}

PanelInv == PanelTypeOK /\ SendsGrow /\ PollsFollow /\ FormsAgree

SendRecord == [at: OnItsWay \cup {"none", "answered", "failed"}, form: Form,
               attempts: 0..Attempts, final: BOOLEAN, watched: BOOLEAN]
PollRecord == [at: {"idle", "status", "attempts", "answer"}, view: View]

LEMMA PanelTypes ==
    ASSUME PanelTypeOK
    PROVE  /\ sends \in [SendIds -> SendRecord] /\ polls \in [SendIds -> PollRecord]
           /\ polled \in [SendIds -> View] /\ form \in Form /\ draft \in Whom \cup {NoOne}
           /\ mutation \in SendIds \cup {0} /\ shown \in SendIds \cup {0}
           /\ shown # 0 => sends[shown].at = "answered"
           /\ mutation # 0 => sends[mutation].at # "none"
           /\ Default \in Whom \cup {NoOne}
BY DEF PanelTypeOK, SendRecord, PollRecord, Default, Whom

LEMMA PanelAtFirst == PanelInit => PanelInv
<1>. SUFFICES ASSUME PanelInit
              PROVE  PanelInv
  OBVIOUS
<1>1. NoSend \in SendRecord /\ NoPoll \in PollRecord /\ Unknown \in View
  BY PanelConstants DEF NoSend, NoPoll, Unknown, SendRecord, PollRecord, View, Form, OnItsWay
<1>2. PanelTypeOK
  <2>1. /\ sends \in [SendIds -> SendRecord] /\ polls \in [SendIds -> PollRecord]
        /\ polled \in [SendIds -> View]
    BY <1>1 DEF PanelInit
  <2>2. form \in Form
    BY PanelConstants DEF PanelInit, Form
  <2>3. /\ draft \in Whom \cup {NoOne} /\ mutation = 0 /\ shown = 0
        /\ drawer \in BOOLEAN /\ profiled \in BOOLEAN /\ lapses = {}
    BY DEF PanelInit
  <2>. QED  BY <2>1, <2>2, <2>3 DEF PanelTypeOK, SendRecord, PollRecord
<1>3. Pending = {}
  BY DEF PanelInit, Pending, NoSend, OnItsWay
<1>4. SendsGrow /\ PollsFollow
  BY DEF PanelInit, SendsGrow, PollsFollow, NoSend, NoPoll, Unknown
<1>. QED  BY <1>2, <1>3, <1>4 DEF PanelInv, FormsAgree, PanelInit

\* What only moves the form, or what is heard, leaves sends and polls as they are.
LEMMA SendsStay ==
    ASSUME SendsGrow, PollsFollow, UNCHANGED <<polls, polled>>,
           \A n \in SendIds : /\ sends'[n].at = sends[n].at /\ sends'[n].form = sends[n].form
                              /\ sends'[n].final = sends[n].final
                              /\ sends'[n].attempts = sends[n].attempts
    PROVE  SendsGrow' /\ PollsFollow'
BY DEF SendsGrow, PollsFollow

LEMMA ChangeKeepsPanel ==
    ASSUME PanelInv, NEW who \in Whom \cup {NoOne}, ChangeForm(who),
           draft' \in Whom \cup {NoOne}, mutation' \in {mutation, 0}
    PROVE  PanelInv'
<1>1. PanelTypeOK'
  <2>1. form' \in Form
    <3>1. form.version \in 0..MaxChanges /\ form.version < MaxChanges
      BY DEF PanelInv, PanelTypeOK, Form, ChangeForm
    <3>2. form.version + 1 \in 0..MaxChanges
      BY <3>1, PanelConstants
    <3>. QED  BY <3>2 DEF ChangeForm, Form
  <2>2. lapses' \subseteq {"changed", "left"}
    BY DEF PanelInv, PanelTypeOK, ChangeForm
  <2>. QED  BY <2>1, <2>2 DEF PanelInv, PanelTypeOK, ChangeForm
<1>2. SendsGrow' /\ PollsFollow'
  BY SendsStay DEF PanelInv, ChangeForm
<1>3. shown' = 0 /\ Pending' = Pending /\ (Pending # {} => "changed" \in lapses')
      /\ (lapses' = {} => Pending = {})
  BY DEF ChangeForm, Pending
<1>. QED  BY <1>1, <1>2, <1>3 DEF PanelInv, FormsAgree

LEMMA FormKeepsPanel ==
    ASSUME PanelInv,
           \/ OpenPanel \/ ClosePanel \/ LoadProfile \/ ClearSubscriber \/ StartEdit
           \/ CancelEdit \/ SaveEdit \/ SavePayload \/ \E r \in Found : SelectSubscriber(r)
    PROVE  PanelInv'
<1>1. PanelTypeOK /\ form.who \in Whom \cup {NoOne} /\ draft \in Whom \cup {NoOne}
      /\ Default \in Whom \cup {NoOne} /\ form \in Form
  BY PanelTypes DEF PanelInv, Form
<1>2. CASE OpenPanel
  BY <1>2 DEF OpenPanel, PanelInv, PanelTypeOK, SendsGrow, PollsFollow, FormsAgree, Pending
<1>3. CASE ClosePanel
  <2>1. /\ form' \in Form /\ draft' = NoOne /\ mutation' = 0 /\ shown' = 0
        /\ drawer' = FALSE /\ lapses' \in {{}, {"left"}}
        /\ lapses' = {} => Pending = {}
        /\ UNCHANGED <<profiled, polls, polled>>
    BY <1>1, <1>3, PanelConstants DEF ClosePanel, Form
  <2>2. /\ sends' \in [SendIds -> SendRecord]
        /\ \A n \in SendIds : /\ sends'[n].at = sends[n].at /\ sends'[n].form = sends[n].form
                              /\ sends'[n].final = sends[n].final
                              /\ sends'[n].attempts = sends[n].attempts
                              /\ ~sends'[n].watched
    <3>1. sends \in [SendIds -> SendRecord]
          /\ sends' = [n \in SendIds |-> [sends[n] EXCEPT !.watched = FALSE]]
      BY <1>1, <1>3, PanelTypes DEF ClosePanel
    <3>. QED  BY <3>1 DEF SendRecord
  <2>3. PanelTypeOK'
    BY <1>1, <2>1, <2>2 DEF PanelTypeOK, SendRecord
  <2>4. Pending' = Pending
    BY <2>2 DEF Pending
  <2>5. SendsGrow' /\ PollsFollow'
    BY <2>1, <2>2, SendsStay DEF PanelInv
  <2>. QED  BY <2>1, <2>2, <2>3, <2>4, <2>5 DEF PanelInv, FormsAgree, Pending
<1>4. CASE LoadProfile
  <2>1. form' \in Form
    BY <1>1, <1>4 DEF LoadProfile, Form, Whom
  <2>2. PanelTypeOK'
    BY <1>1, <1>4, <2>1 DEF LoadProfile, PanelTypeOK
  <2>3. SendsGrow' /\ PollsFollow'
    BY <1>4, SendsStay DEF PanelInv, LoadProfile
  <2>4. ASSUME NEW n \in SendIds, sends[n].at # "none", sends[n].form = form
        PROVE  form' = form
    BY <1>4, <2>4 DEF LoadProfile, PanelInv, SendsGrow
  <2>5. /\ \A n \in Pending : sends[n].at # "none"
        /\ shown # 0 => shown \in SendIds /\ sends[shown].at = "answered"
    BY <1>1, PanelTypes DEF Pending, OnItsWay
  <2>6. Pending' = Pending /\ UNCHANGED <<shown, sends, lapses, mutation>>
    BY <1>4 DEF Pending, LoadProfile
  <2>7. FormsAgree'
    BY <2>4, <2>5, <2>6 DEF FormsAgree, PanelInv, Pending
  <2>. QED  BY <2>2, <2>3, <2>7 DEF PanelInv
<1>5. CASE ClearSubscriber
  BY <1>1, <1>5, ChangeKeepsPanel DEF ClearSubscriber
<1>6. CASE StartEdit \/ CancelEdit
  <2>1. draft' \in Whom \cup {NoOne}
        /\ UNCHANGED <<drawer, form, profiled, mutation, shown, sends, polls, polled, lapses>>
    BY <1>1, <1>6 DEF StartEdit, CancelEdit
  <2>2. PanelTypeOK'
    BY <1>1, <2>1 DEF PanelTypeOK
  <2>3. SendsGrow' /\ PollsFollow' /\ FormsAgree'
    BY <2>1 DEF PanelInv, SendsGrow, PollsFollow, FormsAgree, Pending
  <2>. QED  BY <2>2, <2>3 DEF PanelInv
<1>7. CASE SaveEdit
  BY <1>1, <1>7, ChangeKeepsPanel DEF SaveEdit
<1>8. CASE SavePayload
  BY <1>1, <1>8, ChangeKeepsPanel DEF SavePayload
<1>9. CASE \E r \in Found : SelectSubscriber(r)
  BY <1>1, <1>9, ChangeKeepsPanel DEF SelectSubscriber, Whom
<1>. QED  BY <1>2, <1>3, <1>4, <1>5, <1>6, <1>7, <1>8, <1>9

\* One send moves on, and keeps its form.
LEMMA SendMoves ==
    ASSUME PanelInv, NEW n \in SendIds, NEW r \in SendRecord, sends' = [sends EXCEPT ![n] = r],
           sends[n].at # "none", r.at # "none", r.form = sends[n].form,
           r.watched = sends[n].watched,
           sends[n].at = "answered" => r.at = "answered",
           sends[n].final => r.final, r.final => r.attempts = Attempts,
           r.at \in OnItsWay => sends[n].at \in OnItsWay,
           shown' \in {shown, n}, shown' = n /\ shown # n => r.at = "answered" /\ n \in Pending /\ r.watched,
           UNCHANGED <<drawer, form, draft, profiled, mutation, polls, polled, lapses>>
    PROVE  PanelInv'
<1>1. PanelTypeOK /\ sends \in [SendIds -> SendRecord]
  BY PanelTypes DEF PanelInv
<1>2. /\ sends' \in [SendIds -> SendRecord] /\ sends'[n] = r
      /\ \A m \in SendIds : m # n => sends'[m] = sends[m]
  BY <1>1
<1>3. PanelTypeOK'
  <2>1. shown' # 0 => sends'[shown'].at = "answered"
    BY <1>1, <1>2 DEF PanelTypeOK
  <2>2. mutation' # 0 => sends'[mutation'].at # "none"
    BY <1>1, <1>2 DEF PanelTypeOK
  <2>3. shown' \in SendIds \cup {0}
    BY <1>1 DEF PanelTypeOK
  <2>. QED  BY <1>1, <1>2, <2>1, <2>2, <2>3 DEF PanelTypeOK, SendRecord
<1>4. SendsGrow'
  BY <1>2 DEF PanelInv, SendsGrow
<1>5. PollsFollow'
  BY <1>2 DEF PanelInv, PollsFollow
<1>6. Pending' \subseteq Pending
  BY <1>2 DEF Pending
<1>7. \A m \in SendIds : sends'[m].form = sends[m].form /\ sends'[m].watched = sends[m].watched
  BY <1>2
<1>8. FormsAgree'
  <2>1. "changed" \notin lapses /\ shown' # 0 => sends'[shown'].form = form'
    BY <1>1, <1>7 DEF PanelInv, FormsAgree, PanelTypeOK
  <2>2. "changed" \notin lapses => \A m \in Pending' : sends'[m].watched => sends'[m].form = form'
    BY <1>6, <1>7 DEF PanelInv, FormsAgree, Pending
  <2>3. lapses' = {} => Pending' \subseteq {mutation'}
    BY <1>6 DEF PanelInv, FormsAgree
  <2>. QED  BY <2>1, <2>2, <2>3 DEF FormsAgree
<1>. QED  BY <1>3, <1>4, <1>5, <1>8 DEF PanelInv

LEMMA SendKeepsPanel ==
    ASSUME PanelInv, NEW n \in SendIds, SendForm(n)
    PROVE  PanelInv'
<1>1. PanelTypeOK /\ sends \in [SendIds -> SendRecord] /\ form \in Form
  BY PanelTypes DEF PanelInv
<1>. DEFINE r == [NoSend EXCEPT !.at = "asked", !.form = form, !.watched = TRUE]
<1>2. /\ r \in SendRecord /\ r.at = "asked" /\ r.form = form /\ ~r.final
  <2>1. NoSend \in SendRecord /\ ~NoSend.final
    BY PanelConstants DEF NoSend, SendRecord, Form, OnItsWay
  <2>. QED  BY <1>1, <2>1 DEF SendRecord, OnItsWay
<1>3. sends' = [sends EXCEPT ![n] = r]
  BY DEF SendForm
<1>. HIDE DEF r
<1>4. /\ sends' \in [SendIds -> SendRecord] /\ sends'[n] = r
      /\ \A m \in SendIds : m # n => sends'[m] = sends[m]
  BY <1>1, <1>2, <1>3
<1>5. /\ sends[n].at = "none" /\ form.who # NoOne /\ mutation' = n
      /\ mutation # 0 => sends[mutation].at \notin OnItsWay
      /\ UNCHANGED <<drawer, form, draft, profiled, shown, polls, polled, lapses>>
  BY DEF SendForm, Enabled
<1>6. PanelTypeOK'
  BY <1>1, <1>2, <1>4, <1>5 DEF PanelTypeOK, SendRecord
<1>7. SendsGrow' /\ PollsFollow'
  BY <1>2, <1>4, <1>5 DEF PanelInv, SendsGrow, PollsFollow
<1>8. Pending' \subseteq Pending \cup {n}
  BY <1>4 DEF Pending
<1>9. lapses = {} => Pending = {}
  <2>1. 0 \notin SendIds
    BY DEF SendIds
  <2>. QED  BY <1>5, <2>1 DEF PanelInv, FormsAgree, Pending
<1>10. FormsAgree'
  <2>1. "changed" \notin lapses => \A m \in Pending' : sends'[m].watched => sends'[m].form = form'
    BY <1>2, <1>4, <1>5, <1>8 DEF PanelInv, FormsAgree, Pending
  <2>2. "changed" \notin lapses /\ shown' # 0 => sends'[shown'].form = form'
    BY <1>1, <1>4, <1>5 DEF PanelInv, FormsAgree, PanelTypeOK
  <2>. QED  BY <1>5, <1>8, <1>9, <2>1, <2>2 DEF FormsAgree
<1>. QED  BY <1>6, <1>7, <1>10 DEF PanelInv

LEMMA SendsKeepPanel ==
    ASSUME PanelInv, NEW n \in SendIds,
           AcceptSend(n) \/ SendAnswered(n) \/ SendRefused(n) \/ Deliver(n)
    PROVE  PanelInv'
<1>1. sends[n] \in SendRecord /\ sends \in [SendIds -> SendRecord]
  BY PanelTypes DEF PanelInv
<1>2. CASE AcceptSend(n)
  <2>. DEFINE r == [sends[n] EXCEPT !.at = "accepted"]
  <2>1. /\ r \in SendRecord /\ r.at = "accepted" /\ r.form = sends[n].form
        /\ r.watched = sends[n].watched /\ r.final = sends[n].final
        /\ r.attempts = sends[n].attempts
    BY <1>1 DEF SendRecord, OnItsWay
  <2>2. sends' = [sends EXCEPT ![n] = r]
    BY <1>1, <1>2 DEF AcceptSend
  <2>. HIDE DEF r
  <2>. QED  BY <1>2, <2>1, <2>2, SendMoves DEF AcceptSend, OnItsWay, PanelInv, SendsGrow
<1>3. CASE SendAnswered(n)
  <2>. DEFINE r == [sends[n] EXCEPT !.at = "answered"]
  <2>1. /\ r \in SendRecord /\ r.at = "answered" /\ r.form = sends[n].form
        /\ r.watched = sends[n].watched /\ r.final = sends[n].final
        /\ r.attempts = sends[n].attempts
    BY <1>1 DEF SendRecord, OnItsWay
  <2>2. sends' = [sends EXCEPT ![n] = r]
    BY <1>1, <1>3 DEF SendAnswered
  <2>. HIDE DEF r
  <2>3. n \in Pending
    BY <1>3 DEF SendAnswered, Pending, OnItsWay
  <2>. QED  BY <1>3, <2>1, <2>2, <2>3, SendMoves DEF SendAnswered, OnItsWay, PanelInv, SendsGrow
<1>4. CASE SendRefused(n)
  <2>. DEFINE r == [sends[n] EXCEPT !.at = "failed"]
  <2>1. /\ r \in SendRecord /\ r.at = "failed" /\ r.form = sends[n].form
        /\ r.watched = sends[n].watched /\ r.final = sends[n].final
        /\ r.attempts = sends[n].attempts
    BY <1>1 DEF SendRecord, OnItsWay
  <2>2. sends' = [sends EXCEPT ![n] = r]
    BY <1>1, <1>4 DEF SendRefused
  <2>. HIDE DEF r
  <2>. QED  BY <1>4, <2>1, <2>2, SendMoves DEF SendRefused, OnItsWay, PanelInv, SendsGrow
<1>5. CASE Deliver(n)
  <2>. DEFINE r == IF sends[n].attempts < Attempts
                   THEN [sends[n] EXCEPT !.attempts = sends[n].attempts + 1]
                   ELSE [sends[n] EXCEPT !.final = TRUE]
  <2>1. sends[n].attempts \in 0..Attempts /\ ~sends[n].final
    BY <1>1, <1>5 DEF SendRecord, Deliver
  <2>2. /\ r \in SendRecord /\ r.at = sends[n].at /\ r.form = sends[n].form
        /\ r.watched = sends[n].watched /\ (r.final => r.attempts = Attempts)
    <3>1. CASE sends[n].attempts < Attempts
      <4>1. sends[n].attempts + 1 \in 0..Attempts
        BY <2>1, <3>1, PanelConstants
      <4>. QED  BY <1>1, <2>1, <3>1, <4>1 DEF SendRecord
    <3>2. CASE ~(sends[n].attempts < Attempts)
      <4>1. sends[n].attempts = Attempts
        BY <2>1, <3>2, PanelConstants
      <4>. QED  BY <1>1, <3>2, <4>1 DEF SendRecord
    <3>. QED  BY <3>1, <3>2
  <2>3. sends' = [sends EXCEPT ![n] = r]
    <3>1. CASE sends[n].attempts < Attempts
      BY <1>1, <1>5, <3>1 DEF Deliver
    <3>2. CASE ~(sends[n].attempts < Attempts)
      BY <1>1, <1>5, <3>2 DEF Deliver
    <3>. QED  BY <3>1, <3>2
  <2>. HIDE DEF r
  <2>4. sends[n].at # "none" /\ UNCHANGED <<drawer, form, draft, profiled, mutation, shown, polls, polled, lapses>>
    BY <1>5 DEF Deliver
  <2>. QED  BY <2>1, <2>2, <2>3, <2>4, SendMoves
<1>. QED  BY <1>2, <1>3, <1>4, <1>5

\* One poll moves on.
LEMMA PollMoves ==
    ASSUME PanelInv, NEW n \in SendIds, NEW r \in PollRecord, NEW v \in View,
           polls' = [polls EXCEPT ![n] = r], polled' = [polled EXCEPT ![n] = v],
           r.at # "idle" => sends[n].at = "answered",
           r.at \in {"attempts", "answer"} /\ r.view.final => sends[n].final,
           r.at = "answer" /\ r.view.final /\ ~r.view.unread => r.view.events = Attempts,
           v.final /\ ~v.unread => v.events = Attempts,
           UNCHANGED <<drawer, form, draft, profiled, mutation, shown, sends, lapses>>
    PROVE  PanelInv'
<1>1. PanelTypeOK /\ polls \in [SendIds -> PollRecord] /\ polled \in [SendIds -> View]
  BY PanelTypes DEF PanelInv
<1>2. /\ polls' \in [SendIds -> PollRecord] /\ polled' \in [SendIds -> View]
      /\ polls'[n] = r /\ polled'[n] = v
      /\ \A m \in SendIds : m # n => polls'[m] = polls[m] /\ polled'[m] = polled[m]
  BY <1>1
<1>3. PanelTypeOK'
  BY <1>1, <1>2 DEF PanelTypeOK, PollRecord
<1>4. SendsGrow' /\ FormsAgree'
  BY DEF PanelInv, SendsGrow, FormsAgree, Pending
<1>5. PollsFollow'
  BY <1>2 DEF PanelInv, PollsFollow
<1>. QED  BY <1>3, <1>4, <1>5 DEF PanelInv

LEMMA PollsKeepPanel ==
    ASSUME PanelInv, NEW n \in SendIds,
           AskPoll(n) \/ ReadStatus(n) \/ ReadAttempts(n) \/ PollReturns(n) \/ PollFails(n)
    PROVE  PanelInv'
<1>1. /\ polls[n] \in PollRecord /\ polls \in [SendIds -> PollRecord] /\ polled[n] \in View
      /\ sends[n].final \in BOOLEAN /\ sends[n].attempts \in 0..Attempts
      /\ polls[n].view \in View
      /\ polled \in [SendIds -> View] /\ (shown # 0 => sends[shown].at = "answered")
  BY PanelTypes DEF PanelInv, SendRecord, PollRecord
<1>2. /\ polls[n].at # "idle" => sends[n].at = "answered"
      /\ polls[n].at \in {"attempts", "answer"} /\ polls[n].view.final => sends[n].final
      /\ polls[n].at = "answer" /\ polls[n].view.final /\ ~polls[n].view.unread =>
            polls[n].view.events = Attempts
      /\ polled[n].final /\ ~polled[n].unread => polled[n].events = Attempts
      /\ sends[n].final => sends[n].attempts = Attempts
  BY DEF PanelInv, PollsFollow, SendsGrow
<1>3. polled = [polled EXCEPT ![n] = polled[n]]
  BY <1>1
<1>4. CASE AskPoll(n)
  <2>. DEFINE r == [polls[n] EXCEPT !.at = "status"]
  <2>1. r \in PollRecord /\ r.at = "status"
    BY <1>1 DEF PollRecord
  <2>2. polls' = [polls EXCEPT ![n] = r] /\ sends[n].at = "answered"
    BY <1>1, <1>4 DEF AskPoll, SendIds
  <2>. HIDE DEF r
  <2>3. /\ polled' = [polled EXCEPT ![n] = polled[n]]
        /\ UNCHANGED <<drawer, form, draft, profiled, mutation, shown, sends, lapses>>
    BY <1>3, <1>4 DEF AskPoll
  <2>4. r.at \notin {"attempts", "answer"}
    BY <2>1
  <2>. QED  BY <1>1, <1>2, <2>1, <2>2, <2>3, <2>4, PollMoves
<1>5. CASE ReadStatus(n)
  <2>. DEFINE v == [polls[n].view EXCEPT !.final = sends[n].final]
              r == [polls[n] EXCEPT !.at = "attempts", !.view = v]
  <2>1. v \in View /\ v.final = sends[n].final
    BY <1>1 DEF View
  <2>2. polls' = [polls EXCEPT ![n] = r]
    BY <1>1, <1>5 DEF ReadStatus, PollRecord
  <2>. HIDE DEF v
  <2>3. r \in PollRecord /\ r.at = "attempts" /\ r.view = v
    BY <1>1, <2>1 DEF PollRecord
  <2>. HIDE DEF r
  <2>4. /\ polled' = [polled EXCEPT ![n] = polled[n]] /\ sends[n].at = "answered"
        /\ UNCHANGED <<drawer, form, draft, profiled, mutation, shown, sends, lapses>>
    BY <1>2, <1>3, <1>5 DEF ReadStatus
  <2>5. r.at \in {"attempts", "answer"} /\ r.view.final => sends[n].final
    BY <2>1, <2>3
  <2>6. ~(r.at = "answer")
    BY <2>3
  <2>. QED  BY <1>1, <1>2, <2>2, <2>3, <2>4, <2>5, <2>6, PollMoves
<1>6. CASE ReadAttempts(n)
  <2>1. PICK v \in View :
          /\ polls' = [polls EXCEPT ![n] = [polls[n] EXCEPT !.at = "answer", !.view = v]]
          /\ v.final = polls[n].view.final
          /\ v.unread \/ v.events = sends[n].attempts
    <3>. DEFINE w == [polls[n].view EXCEPT !.events = sends[n].attempts]
                u == [polls[n].view EXCEPT !.unread = TRUE]
    <3>1. /\ w \in View /\ w.final = polls[n].view.final /\ w.events = sends[n].attempts
          /\ u \in View /\ u.final = polls[n].view.final /\ u.unread
      BY <1>1 DEF View
    <3>2. \/ polls' = [polls EXCEPT ![n] = [polls[n] EXCEPT !.at = "answer", !.view = w]]
          \/ polls' = [polls EXCEPT ![n] = [polls[n] EXCEPT !.at = "answer", !.view = u]]
      BY <1>1, <1>6 DEF ReadAttempts, PollRecord
    <3>. HIDE DEF w, u
    <3>. QED  BY <3>1, <3>2
  <2>. DEFINE r == [polls[n] EXCEPT !.at = "answer", !.view = v]
  <2>2. r \in PollRecord /\ r.at = "answer" /\ r.view = v
    BY <1>1 DEF PollRecord
  <2>3. polls' = [polls EXCEPT ![n] = r]
    BY <2>1
  <2>. HIDE DEF r
  <2>4. /\ polled' = [polled EXCEPT ![n] = polled[n]]
        /\ sends[n].at = "answered" /\ polls[n].at = "attempts"
        /\ UNCHANGED <<drawer, form, draft, profiled, mutation, shown, sends, lapses>>
    BY <1>2, <1>3, <1>6 DEF ReadAttempts
  <2>5. /\ r.view.final => sends[n].final
        /\ r.view.final /\ ~r.view.unread => r.view.events = Attempts
    BY <1>2, <2>1, <2>2, <2>4
  <2>. QED  BY <1>1, <1>2, <2>2, <2>3, <2>4, <2>5, PollMoves
<1>7. NoPoll \in PollRecord /\ NoPoll.at = "idle"
  BY PanelConstants DEF NoPoll, Unknown, PollRecord, View
<1>8. CASE PollReturns(n)
  <2>1. /\ polls' = [polls EXCEPT ![n] = NoPoll] /\ polled' = [polled EXCEPT ![n] = polls[n].view]
        /\ polls[n].at = "answer"
    BY <1>8 DEF PollReturns
  <2>2. UNCHANGED <<drawer, form, draft, profiled, mutation, shown, sends, lapses>>
    BY <1>8 DEF PollReturns
  <2>3. polls[n].view.final /\ ~polls[n].view.unread => polls[n].view.events = Attempts
    BY <1>2, <2>1
  <2>4. NoPoll.at \notin {"attempts", "answer"}
    BY <1>7
  <2>. QED  BY <1>1, <1>7, <2>1, <2>2, <2>3, <2>4, PollMoves
<1>9. CASE PollFails(n)
  <2>1. /\ polls' = [polls EXCEPT ![n] = NoPoll] /\ polled' = [polled EXCEPT ![n] = polled[n]]
        /\ UNCHANGED <<drawer, form, draft, profiled, mutation, shown, sends, lapses>>
    BY <1>3, <1>9 DEF PollFails
  <2>2. NoPoll.at \notin {"attempts", "answer"}
    BY <1>7
  <2>. QED  BY <1>1, <1>2, <1>7, <2>1, <2>2, PollMoves
<1>. QED  BY <1>4, <1>5, <1>6, <1>8, <1>9

LEMMA PanelKept ==
    ASSUME PanelInv, [PanelNext]_panelVars
    PROVE  PanelInv'
<1>1. CASE UNCHANGED panelVars
  BY <1>1 DEF panelVars, PanelInv, PanelTypeOK, SendsGrow, PollsFollow, FormsAgree, Pending
<1>. QED  BY <1>1, FormKeepsPanel, SendKeepsPanel, SendsKeepPanel, PollsKeepPanel DEF PanelNext

\* What is on its way is at most the one send that the button observes.
LEMMA OneOnItsWay ==
    ASSUME PanelInv, lapses = {}
    PROVE  Cardinality(Pending) <= 1
<1>1. Pending \subseteq {mutation}
  BY DEF PanelInv, FormsAgree
<1>2. CASE Pending = {}
  BY <1>2, FS_EmptySet
<1>3. CASE Pending = {mutation}
  <2>1. Cardinality({mutation}) = 1
    BY FS_Singleton
  <2>. QED  BY <1>3, <2>1
<1>. QED  BY <1>1, <1>2, <1>3

\* The panel for a test send: PanelShowsOwnSend.
THEOREM PanelShowsIt == BrowserSpec => []PanelSound
<1>. DEFINE Inv == focus = "panel" => PanelInv
<1>1. BrowserInit => Inv
  BY PanelAtFirst DEF BrowserInit
<1>2. Inv /\ [BrowserNext]_browserVars => Inv'
  BY OneMoves, PanelKept
<1>3. Inv => PanelSound
  BY OneOnItsWay DEF PanelInv, FormsAgree, PollsFollow, PanelSound, PanelShowsOwnSend
<1>. QED  BY <1>1, <1>2, <1>3, PTL DEF BrowserSpec
----------------------------------------------------------------------------
(***************************************************************************)
(* The saving of a draft.                                                  *)
(***************************************************************************)

Doc        == [draft: SUBSET Nat, setup: SUBSET Nat]
PageRecord == [at: {"builder", "channel", "away"}, loaded: BOOLEAN, doc: Doc, synced: Nat]
SaveRecord == [of: {"timer", "configure"}, doc: Doc, mine: BOOLEAN, applied: BOOLEAN]
FetchRecord == [at: {"none", "asked", "read"}, doc: Doc, rev: Nat]

AutosaveTyped ==
    /\ server \in [doc: Doc, rev: Nat \ {0}]
    /\ page \in PageRecord
    /\ armed \in BOOLEAN
    /\ saves \subseteq SaveRecord
    /\ cache \in [doc: Doc, rev: Nat, stale: BOOLEAN]
    /\ fetch \in FetchRecord
    /\ edited \in Nat

\* The timer runs, and answers are heard, only where a document is loaded.
PageOwns ==
    /\ page.at = "away" => page = Closed
    /\ armed \/ (\E s \in saves : s.mine) => page.loaded

\* No copy of the graph has an edit that was not made.
DraftsKnown ==
    /\ server.doc.draft \subseteq 1..edited /\ page.doc.draft \subseteq 1..edited
    /\ cache.doc.draft \subseteq 1..edited /\ fetch.doc.draft \subseteq 1..edited
    /\ \A s \in saves : s.doc.draft \subseteq 1..edited

\* No copy is newer than the row, and one of its age is the row.
RevisionsKnown ==
    /\ cache.rev <= server.rev /\ (cache.rev = server.rev => cache.doc = server.doc)
    /\ fetch.rev <= server.rev /\ (fetch.rev = server.rev => fetch.doc = server.doc)
    /\ page.synced <= server.rev

NoneApplied == \A s \in saves : ~s.applied
AllApplied  == \A s \in saves : s.applied

\* The builder shows a version of the workflow, and which it is.
Showing == page.at = "builder" /\ page.loaded

\* If no request failed and no answer overtook a fetch: what was fetched, what is cached as
\* fresh, and what the builder shows with no fetch to come is as new as the row, but for a
\* save applied and not answered yet.  What the builder shows of that age is the row's
\* graph, but for an edit that waits, or that a late answer will find missing.
CopiesFresh ==
    trouble \cap {"failed", "overtaken"} = {} =>
        /\ fetch.at = "read" /\ NoneApplied => fetch.rev = server.rev
        /\ ~cache.stale /\ NoneApplied => cache.rev = server.rev
        /\ Showing /\ fetch.at = "none" /\ NoneApplied => page.synced = server.rev
        /\ Showing /\ page.synced = server.rev =>
            /\ ~armed /\ AllApplied => page.doc.draft = server.doc.draft
            /\ \/ page.doc.draft = server.doc.draft
               \/ \E e \in page.doc.draft : \A s \in saves : s.applied => e \notin s.doc.draft

Mine == {s \in saves : s.mine}

\* If moreover no edit was made in haste: every save of the builder has what it shows, also
\* what is fetched while one is in flight; and an edit waits only where nothing is fetched
\* and no answer can set the timer again.
EditsWait ==
    trouble \cap {"failed", "overtaken", "hasty"} = {} /\ page.at = "builder" =>
        /\ \A s \in Mine : s.doc = page.doc /\ (s.applied => server.doc = page.doc)
        /\ Mine # {} \/ armed => Mine = saves
        /\ Mine # {} /\ fetch.at # "none" => server.doc = page.doc
        /\ Mine # {} /\ fetch.at = "read" => fetch.doc = page.doc
        /\ armed => fetch.at = "none" /\ \A s \in saves : s.of # "timer"
        /\ page.loaded /\ page.synced = server.rev /\ ~armed /\ AllApplied =>
            page.doc = server.doc

Holds(d) == d.draft \cup d.setup

\* If nothing went wrong at all: the page has every edit until it is saved, and from then
\* on the row has them.
EditsHeld ==
    trouble = {} =>
        /\ \A s \in saves : s.mine /\ s.doc = page.doc /\ (s.applied => server.doc = page.doc)
        /\ armed \/ saves # {} => 1..edited \subseteq Holds(page.doc)
        /\ ~armed /\ saves = {} => 1..edited \subseteq Holds(server.doc)
        /\ page.at = "channel" /\ ~armed /\ saves = {} => page.doc = server.doc

AutosaveInv ==
    /\ AutosaveTyped /\ PageOwns /\ DraftsKnown /\ RevisionsKnown
    /\ CopiesFresh /\ EditsWait /\ EditsHeld

LEMMA AutosaveAtFirst == AutosaveInit => AutosaveInv
<1>. SUFFICES ASSUME AutosaveInit
              PROVE  AutosaveInv
  OBVIOUS
<1>1. AutosaveTyped
  <2>1. Empty \in Doc
    BY DEF Empty, Doc
  <2>2. Closed \in PageRecord /\ NoFetch \in FetchRecord
    BY <2>1 DEF Closed, NoFetch, PageRecord, FetchRecord
  <2>3. server \in [doc: Doc, rev: Nat \ {0}] /\ cache \in [doc: Doc, rev: Nat, stale: BOOLEAN]
    BY <2>1 DEF AutosaveInit
  <2>. QED  BY <2>2, <2>3 DEF AutosaveInit, AutosaveTyped, Closed
<1>2. PageOwns /\ DraftsKnown /\ RevisionsKnown
  BY DEF AutosaveInit, PageOwns, DraftsKnown, RevisionsKnown, Empty, Closed, NoFetch
<1>3. CopiesFresh /\ EditsWait
  BY DEF AutosaveInit, CopiesFresh, EditsWait, Showing, Closed, NoFetch
<1>4. EditsHeld
  BY DEF AutosaveInit, EditsHeld, Closed
<1>. QED  BY <1>1, <1>2, <1>3, <1>4 DEF AutosaveInv
----------------------------------------------------------------------------
(* Pages. *)

LEMMA SyncedTyped ==
    ASSUME NEW v, v.doc \in Doc, v.rev \in Nat
    PROVE  /\ Synced(v) \in PageRecord
           /\ Synced(v).at = "builder" /\ Synced(v).loaded
           /\ Synced(v).doc = v.doc /\ Synced(v).synced = v.rev
BY DEF Synced, PageRecord

LEMMA OpenBuilderKeeps ==
    ASSUME AutosaveInv, OpenBuilder
    PROVE  AutosaveInv'
<1>1. AutosaveTyped /\ PageOwns /\ DraftsKnown /\ RevisionsKnown
  BY DEF AutosaveInv
<1>2. /\ page.at = "away" /\ ~armed /\ Mine = {} /\ UNCHANGED <<server, armed, saves, cache, edited, trouble>>
      /\ cache.doc \in Doc /\ cache.rev \in Nat
  BY <1>1 DEF OpenBuilder, AutosaveTyped, PageOwns, Closed, Mine
<1>3. /\ page' \in PageRecord /\ page'.at = "builder"
      /\ \/ ~page'.loaded /\ page'.doc = Empty /\ page'.synced = 0
         \/ page'.loaded /\ page'.doc = cache.doc /\ page'.synced = cache.rev
  BY <1>2, SyncedTyped DEF OpenBuilder, Closed, Empty, Doc, PageRecord
<1>4. /\ fetch' \in FetchRecord
      /\ \/ fetch' = Asked
         \/ fetch' = fetch /\ (cache.stale => fetch.at # "none")
  BY <1>1 DEF OpenBuilder, AutosaveTyped, Asked, NoFetch, FetchRecord, Empty, Doc
<1>5. /\ Asked.at = "asked" /\ Asked.rev = 0 /\ Asked.doc = Empty /\ server.rev # 0 /\ Empty.draft = {}
      /\ server.rev \in Nat
  BY <1>1 DEF Asked, NoFetch, AutosaveTyped, Empty
<1>6. AutosaveTyped'
  BY <1>1, <1>2, <1>3, <1>4 DEF AutosaveTyped
<1>7. PageOwns' /\ DraftsKnown' /\ RevisionsKnown'
  BY <1>1, <1>2, <1>3, <1>4, <1>5 DEF PageOwns, DraftsKnown, RevisionsKnown, Mine
<1>8. CopiesFresh'
  BY <1>1, <1>2, <1>3, <1>4, <1>5
     DEF AutosaveInv, CopiesFresh, Showing, NoneApplied, AllApplied, RevisionsKnown
<1>9. EditsWait'
  BY <1>1, <1>2, <1>3, <1>4, <1>5 DEF EditsWait, Mine, RevisionsKnown
<1>10. EditsHeld'
  BY <1>2, <1>3 DEF AutosaveInv, EditsHeld, Mine
<1>. QED  BY <1>6, <1>7, <1>8, <1>9, <1>10 DEF AutosaveInv

LEMMA OpenChannelKeeps ==
    ASSUME AutosaveInv, OpenChannel
    PROVE  AutosaveInv'
<1>1. AutosaveTyped /\ PageOwns /\ DraftsKnown /\ RevisionsKnown
  BY DEF AutosaveInv
<1>2. /\ page.at = "away" /\ ~armed /\ \A s \in saves : ~s.mine
      /\ UNCHANGED <<server, armed, saves, cache, fetch, edited, trouble>>
      /\ server.doc \in Doc /\ server.rev \in Nat
  BY <1>1 DEF OpenChannel, AutosaveTyped, PageOwns, Closed
<1>3. /\ page' \in PageRecord /\ page'.at = "channel" /\ page'.loaded
      /\ page'.doc = server.doc /\ page'.synced = server.rev
  BY <1>2, SyncedTyped DEF OpenChannel, PageRecord
<1>4. AutosaveTyped'
  BY <1>1, <1>2, <1>3 DEF AutosaveTyped
<1>5. PageOwns' /\ DraftsKnown' /\ RevisionsKnown'
  BY <1>1, <1>2, <1>3 DEF PageOwns, DraftsKnown, RevisionsKnown
<1>6. CopiesFresh'
  BY <1>2, <1>3 DEF AutosaveInv, CopiesFresh, Showing, NoneApplied
<1>7. EditsWait' /\ EditsHeld'
  BY <1>2, <1>3 DEF AutosaveInv, EditsWait, EditsHeld
<1>. QED  BY <1>4, <1>5, <1>6, <1>7 DEF AutosaveInv

\* What is left behind when a page goes: its saves, which nobody waits for.
LEMMA LeaveLeaves ==
    ASSUME AutosaveTyped, NEW left \in SUBSET saves, Leave(left)
    PROVE  /\ page' = Closed /\ Closed \in PageRecord /\ ~armed' /\ armed' \in BOOLEAN
           /\ Closed.at = "away" /\ ~Closed.loaded /\ Closed.doc.draft = {} /\ Closed.synced = 0
           /\ saves' \subseteq SaveRecord
           /\ \A t \in saves' :
                ~t.mine /\ \E s \in left : t.doc = s.doc /\ t.applied = s.applied
           /\ \A s \in left : \E t \in saves' : t.applied = s.applied
           /\ left = {} => saves' = {}
<1>1. page' = Closed /\ ~armed' /\ armed' \in BOOLEAN
      /\ saves' = {[s EXCEPT !.mine = FALSE] : s \in left}
  BY DEF Leave
<1>2. /\ Closed \in PageRecord /\ Closed.at = "away" /\ ~Closed.loaded /\ Closed.synced = 0
      /\ Closed.doc.draft = {}
  <2>1. Empty \in Doc
    BY DEF Empty, Doc
  <2>. QED  BY <2>1 DEF Closed, PageRecord, Empty
<1>3. ASSUME NEW s \in left
      PROVE  /\ [s EXCEPT !.mine = FALSE] \in SaveRecord
             /\ ~[s EXCEPT !.mine = FALSE].mine
             /\ [s EXCEPT !.mine = FALSE].doc = s.doc
             /\ [s EXCEPT !.mine = FALSE].applied = s.applied
  <2>1. s \in SaveRecord
    BY DEF AutosaveTyped
  <2>. QED  BY <2>1 DEF SaveRecord
<1>. QED  BY <1>1, <1>2, <1>3

LEMMA ClosePageKeeps ==
    ASSUME AutosaveInv, ClosePage
    PROVE  AutosaveInv'
<1>1. AutosaveTyped /\ PageOwns /\ DraftsKnown /\ RevisionsKnown
  BY DEF AutosaveInv
<1>2. Leave(saves) /\ UNCHANGED <<server, cache, fetch, edited>>
      /\ trouble' \in {trouble, trouble \cup {"left"}}
      /\ (armed \/ saves # {} => "left" \in trouble')
  BY DEF ClosePage
<1>3. /\ page' = Closed /\ Closed \in PageRecord /\ ~armed' /\ armed' \in BOOLEAN
      /\ Closed.at = "away" /\ ~Closed.loaded /\ Closed.doc.draft = {} /\ Closed.synced = 0
      /\ saves' \subseteq SaveRecord
      /\ \A t \in saves' : ~t.mine /\ \E s \in saves : t.doc = s.doc /\ t.applied = s.applied
      /\ \A s \in saves : \E t \in saves' : t.applied = s.applied
      /\ saves = {} => saves' = {}
  BY <1>1, <1>2, LeaveLeaves
<1>4. AutosaveTyped'
  BY <1>1, <1>2, <1>3 DEF AutosaveTyped
<1>5. PageOwns' /\ DraftsKnown'
  BY <1>1, <1>2, <1>3 DEF PageOwns, DraftsKnown
<1>6. RevisionsKnown'
  BY <1>1, <1>2, <1>3 DEF RevisionsKnown, AutosaveTyped
<1>7. CopiesFresh'
  BY <1>2, <1>3 DEF AutosaveInv, CopiesFresh, Showing, NoneApplied
<1>8. EditsWait' /\ EditsHeld'
  BY <1>2, <1>3 DEF AutosaveInv, EditsWait, EditsHeld
<1>. QED  BY <1>4, <1>5, <1>6, <1>7, <1>8 DEF AutosaveInv

\* A page that is calm, with nothing to save and nothing fetched, shows the row.
LEMMA CalmShowsRow ==
    ASSUME AutosaveInv, trouble = {}, page.loaded, saves = {}, ~armed,
           page.at = "builder" => fetch.at = "none"
    PROVE  page.doc = server.doc /\ 1..edited \subseteq Holds(page.doc)
<1>1. page.at \in {"builder", "channel"} /\ trouble \cap {"failed", "overtaken"} = {}
      /\ trouble \cap {"failed", "overtaken", "hasty"} = {}
  BY DEF AutosaveInv, AutosaveTyped, PageOwns, Closed, PageRecord
<1>2. 1..edited \subseteq Holds(server.doc)
  BY DEF AutosaveInv, EditsHeld
<1>3. CASE page.at = "channel"
  BY <1>2, <1>3 DEF AutosaveInv, EditsHeld
<1>4. CASE page.at = "builder"
  <2>1. NoneApplied /\ AllApplied
    BY DEF NoneApplied, AllApplied
  <2>2. page.synced = server.rev
    BY <1>1, <1>4, <2>1 DEF AutosaveInv, CopiesFresh, Showing
  <2>3. page.doc = server.doc
    BY <1>1, <1>4, <2>1, <2>2 DEF AutosaveInv, EditsWait
  <2>. QED  BY <1>2, <2>3
<1>. QED  BY <1>1, <1>3, <1>4

LEMMA HasteIsNoted ==
    ASSUME NEW t, t = trouble \cup Haste, "hasty" \notin t
    PROVE  saves = {} /\ (page.at = "builder" => fetch.at = "none") /\ t = trouble
BY DEF Haste

LEMMA EditPageKeeps ==
    ASSUME AutosaveInv, EditPage
    PROVE  AutosaveInv'
<1>. DEFINE e == edited + 1
<1>1. AutosaveTyped /\ PageOwns /\ DraftsKnown /\ RevisionsKnown
  BY DEF AutosaveInv
<1>2. /\ page.loaded /\ edited' = e /\ armed' /\ armed' \in BOOLEAN /\ trouble' = trouble \cup Haste
      /\ UNCHANGED <<server, saves, cache, fetch, visits>>
  BY DEF EditPage
<1>3. e \in Nat /\ edited \in Nat /\ 1..e = 1..edited \cup {e} /\ e \notin 1..edited
  BY <1>1 DEF AutosaveTyped
<1>4. /\ page' \in PageRecord /\ page'.at = page.at /\ page'.loaded = page.loaded
      /\ page'.synced = page.synced
      /\ Holds(page'.doc) = Holds(page.doc) \cup {e}
      /\ \/ page'.doc.draft = page.doc.draft \cup {e}
         \/ page'.doc.draft = page.doc.draft /\ page.at = "builder"
  <2>1. page \in PageRecord /\ page.doc \in Doc
    BY <1>1 DEF AutosaveTyped, PageRecord
  <2>2. CASE page' = [page EXCEPT !.doc.draft = @ \cup {e}]
    BY <1>3, <2>1, <2>2 DEF PageRecord, Doc, Holds
  <2>3. CASE page.at = "builder" /\ page' = [page EXCEPT !.doc.setup = @ \cup {e}]
    BY <1>3, <2>1, <2>3 DEF PageRecord, Doc, Holds
  <2>. QED  BY <2>2, <2>3 DEF EditPage
<1>. HIDE DEF e
<1>5. AutosaveTyped'
  BY <1>1, <1>2, <1>3, <1>4 DEF AutosaveTyped
<1>6. PageOwns' /\ RevisionsKnown'
  BY <1>1, <1>2, <1>4 DEF PageOwns, RevisionsKnown, Closed
<1>7. DraftsKnown'
  BY <1>1, <1>2, <1>3, <1>4 DEF DraftsKnown
<1>8. CopiesFresh'
  <2>. SUFFICES ASSUME trouble' \cap {"failed", "overtaken"} = {}
                PROVE  CopiesFresh'
    BY DEF CopiesFresh
  <2>1. trouble \cap {"failed", "overtaken"} = {}
    BY <1>2
  <2>2. CASE page'.doc.draft = page.doc.draft
    BY <1>2, <1>4, <2>1, <2>2 DEF AutosaveInv, CopiesFresh, Showing, NoneApplied
  <2>3. CASE page'.doc.draft = page.doc.draft \cup {e}
    <3>1. \A s \in saves : e \notin s.doc.draft
      BY <1>1, <1>3 DEF DraftsKnown
    <3>. QED  BY <1>2, <1>4, <2>1, <2>3, <3>1 DEF AutosaveInv, CopiesFresh, Showing, NoneApplied
  <2>. QED  BY <1>4, <2>2, <2>3
<1>9. EditsWait'
  BY <1>2, <1>4, HasteIsNoted DEF EditsWait, Mine
<1>10. EditsHeld'
  <2>. SUFFICES ASSUME trouble' = {}
                PROVE  EditsHeld'
    BY DEF EditsHeld
  <2>1. saves = {} /\ (page.at = "builder" => fetch.at = "none") /\ trouble = {}
    BY <1>2, HasteIsNoted
  <2>2. 1..edited \subseteq Holds(page.doc)
    BY <1>2, <2>1, CalmShowsRow DEF AutosaveInv, EditsHeld
  <2>. QED  BY <1>2, <1>3, <1>4, <2>1, <2>2 DEF EditsHeld
<1>. QED  BY <1>5, <1>6, <1>7, <1>8, <1>9, <1>10 DEF AutosaveInv
----------------------------------------------------------------------------
(* Saves. *)

LEMMA PutTyped ==
    ASSUME AutosaveTyped, NEW of \in {"timer", "configure"}
    PROVE  /\ Put(of) \in SaveRecord /\ Put(of).of = of /\ Put(of).doc = page.doc
           /\ Put(of).mine /\ ~Put(of).applied
<1>1. page.doc \in Doc
  BY DEF AutosaveTyped, PageRecord
<1>. QED  BY <1>1 DEF Put, SaveRecord

LEMMA PutKeeps ==
    ASSUME AutosaveInv, NEW p \in SaveRecord, saves' = saves \cup {p},
           p.doc = page.doc, p.mine, ~p.applied, page.loaded,
           UNCHANGED <<server, page, cache, fetch, edited>>,
           trouble \subseteq trouble',
           armed' \in BOOLEAN,
           \/ armed /\ ~armed' /\ trouble' = trouble
           \/ /\ armed' = armed /\ p.of = "configure" /\ page.at = "builder"
              /\ trouble' = trouble \cup Haste
    PROVE  AutosaveInv'
<1>1. AutosaveTyped /\ PageOwns /\ DraftsKnown /\ RevisionsKnown
  BY DEF AutosaveInv
<1>2. AutosaveTyped'
  BY <1>1 DEF AutosaveTyped
<1>3. PageOwns' /\ DraftsKnown' /\ RevisionsKnown'
  BY <1>1 DEF PageOwns, DraftsKnown, RevisionsKnown, Closed
<1>4. NoneApplied' = NoneApplied /\ ~AllApplied'
  BY DEF NoneApplied, AllApplied
<1>5. CopiesFresh'
  BY <1>4 DEF AutosaveInv, CopiesFresh, Showing
<1>6. EditsWait'
  <2>. SUFFICES ASSUME trouble' \cap {"failed", "overtaken", "hasty"} = {}, page.at = "builder"
                PROVE  EditsWait'
    BY DEF EditsWait
  <2>1. EditsWait /\ trouble \cap {"failed", "overtaken", "hasty"} = {}
    BY DEF AutosaveInv
  <2>2. CASE armed /\ ~armed' /\ trouble' = trouble
    BY <1>4, <2>1, <2>2 DEF EditsWait, Mine
  <2>3. CASE armed' = armed /\ p.of = "configure" /\ trouble' = trouble \cup Haste
    <3>1. saves = {} /\ fetch.at = "none"
      BY <2>3, HasteIsNoted
    <3>. QED  BY <1>4, <2>1, <2>3, <3>1 DEF EditsWait, Mine
  <2>. QED  BY <2>2, <2>3
<1>7. EditsHeld'
  <2>. SUFFICES ASSUME trouble' = {}
                PROVE  EditsHeld'
    BY DEF EditsHeld
  <2>1. EditsHeld /\ trouble = {}
    BY DEF AutosaveInv
  <2>2. 1..edited \subseteq Holds(page.doc)
    <3>1. CASE armed
      BY <2>1, <3>1 DEF EditsHeld
    <3>2. CASE ~armed
      <4>1. saves = {} /\ fetch.at = "none"
        BY <3>2, HasteIsNoted
      <4>. QED  BY <2>1, <3>2, <4>1, CalmShowsRow
    <3>. QED  BY <3>1, <3>2
  <2>. QED  BY <2>1, <2>2 DEF EditsHeld
<1>. QED  BY <1>2, <1>3, <1>5, <1>6, <1>7 DEF AutosaveInv

LEMMA SendSaveKeeps ==
    ASSUME AutosaveInv, SendSave
    PROVE  AutosaveInv'
<1>1. AutosaveTyped /\ page.loaded
  BY DEF AutosaveInv, PageOwns, SendSave
<1>2. PICK p \in SaveRecord : p.doc = page.doc /\ p.mine /\ ~p.applied /\ saves' = saves \cup {p}
  BY <1>1, PutTyped DEF SendSave
<1>. QED  BY <1>1, <1>2, PutKeeps DEF SendSave

LEMMA ConfigureNodeKeeps ==
    ASSUME AutosaveInv, ConfigureNode
    PROVE  AutosaveInv'
<1>1. AutosaveTyped
  BY DEF AutosaveInv
<1>2. PICK p \in SaveRecord :
        p.doc = page.doc /\ p.mine /\ ~p.applied /\ p.of = "configure" /\ saves' = saves \cup {p}
  BY <1>1, PutTyped DEF ConfigureNode
<1>3. armed' \in BOOLEAN
  BY <1>1 DEF ConfigureNode, AutosaveTyped
<1>. QED  BY <1>2, <1>3, PutKeeps DEF ConfigureNode

\* An applied save is the row; what else is in flight stays.
LEMMA ApplySaveKeeps ==
    ASSUME AutosaveInv, NEW s \in saves, ApplySave(s)
    PROVE  AutosaveInv'
<1>. DEFINE a == [s EXCEPT !.applied = TRUE]
<1>1. AutosaveTyped /\ PageOwns /\ DraftsKnown /\ RevisionsKnown /\ s \in SaveRecord
  BY DEF AutosaveInv, AutosaveTyped
<1>2. a \in SaveRecord /\ a.of = s.of /\ a.doc = s.doc /\ a.mine = s.mine /\ a.applied
  BY <1>1 DEF SaveRecord
<1>3. /\ saves' = (saves \ {s}) \cup {a} /\ ~s.applied
      /\ UNCHANGED <<page, armed, cache, fetch, edited, trouble>>
  BY DEF ApplySave
<1>. HIDE DEF a
<1>4. /\ server'.doc = s.doc /\ server'.rev = server.rev + 1
      /\ server' \in [doc: Doc, rev: Nat \ {0}] /\ server.rev \in Nat
  <2>1. server.rev \in Nat /\ server.rev + 1 \in Nat \ {0} /\ s.doc \in Doc
    BY <1>1 DEF AutosaveTyped, SaveRecord
  <2>. QED  BY <2>1 DEF ApplySave
<1>5. /\ \A t \in saves' : t = a \/ t \in saves
      /\ a \in saves'
      /\ ~NoneApplied'
  BY <1>2, <1>3 DEF NoneApplied
<1>6. AutosaveTyped'
  BY <1>1, <1>2, <1>3, <1>4 DEF AutosaveTyped
<1>7. PageOwns' /\ DraftsKnown'
  BY <1>1, <1>2, <1>3, <1>4, <1>5 DEF PageOwns, DraftsKnown
<1>8. RevisionsKnown' /\ page'.synced # server'.rev
  BY <1>1, <1>3, <1>4 DEF RevisionsKnown, AutosaveTyped, PageRecord, FetchRecord
<1>9. CopiesFresh'
  BY <1>5, <1>8 DEF CopiesFresh
<1>10. EditsWait'
  <2>. SUFFICES ASSUME trouble \cap {"failed", "overtaken", "hasty"} = {}, page.at = "builder"
                PROVE  EditsWait'
    BY <1>3 DEF EditsWait
  <2>1. EditsWait
    BY DEF AutosaveInv
  <2>2. Mine' # {} => Mine # {}
    BY <1>2, <1>3 DEF Mine
  <2>3. Mine' # {} \/ armed => Mine = saves
    BY <2>1, <2>2 DEF EditsWait
  <2>4. Mine' # {} \/ armed => Mine' = saves' /\ s.doc = page.doc /\ \A t \in saves' : t.doc = page.doc
    BY <1>2, <1>3, <2>1, <2>3 DEF Mine, EditsWait
  <2>5. armed => fetch.at = "none" /\ \A t \in saves' : t.of # "timer"
    BY <1>2, <1>5, <2>1 DEF EditsWait
  <2>6. Mine' # {} /\ fetch.at = "read" => fetch.doc = page.doc
    BY <2>1, <2>2 DEF EditsWait
  <2>. QED  BY <1>3, <1>4, <1>8, <2>4, <2>5, <2>6 DEF EditsWait, Mine
<1>11. EditsHeld'
  BY <1>2, <1>3, <1>4, <1>5 DEF AutosaveInv, EditsHeld
<1>. QED  BY <1>6, <1>7, <1>8, <1>9, <1>10, <1>11 DEF AutosaveInv

\* An answer replaces name and description only, and sets the timer if the graph differs.
LEMMA AnswerTaken ==
    ASSUME AutosaveTyped, NEW s \in saves, Answered(s)
    PROVE  /\ page' \in PageRecord /\ armed' \in BOOLEAN
           /\ page'.at = page.at /\ page'.loaded = page.loaded /\ page'.synced = page.synced
           /\ page'.doc.draft = page.doc.draft
           /\ s.doc = page.doc => page' = page
           /\ \/ s.mine /\ page.at = "builder" /\ armed' = (page.doc.draft # s.doc.draft)
              \/ ~(s.mine /\ page.at = "builder") /\ UNCHANGED <<page, armed>>
<1>1. page \in PageRecord /\ page.doc \in Doc /\ s \in SaveRecord /\ s.doc \in Doc
  BY DEF AutosaveTyped, PageRecord, SaveRecord
<1>2. CASE s.mine /\ page.at = "builder"
  <2>. DEFINE r == [page EXCEPT !.doc.setup = s.doc.setup]
  <2>1. page' = r /\ armed' = (page.doc.draft # s.doc.draft)
    BY <1>2 DEF Answered
  <2>2. /\ r \in PageRecord /\ r.at = page.at /\ r.loaded = page.loaded
        /\ r.synced = page.synced /\ r.doc.draft = page.doc.draft
    BY <1>1 DEF PageRecord, Doc
  <2>3. s.doc = page.doc => r = page
    BY <1>1 DEF PageRecord, Doc
  <2>. HIDE DEF r
  <2>. QED  BY <1>2, <2>1, <2>2, <2>3
<1>3. CASE ~(s.mine /\ page.at = "builder")
  BY <1>1, <1>3 DEF Answered, AutosaveTyped
<1>. QED  BY <1>2, <1>3

LEMMA InvalidateMarks ==
    ASSUME AutosaveTyped, Invalidate
    PROVE  /\ cache' \in [doc: Doc, rev: Nat, stale: BOOLEAN] /\ cache'.stale
           /\ cache'.doc = cache.doc /\ cache'.rev = cache.rev
           /\ fetch' \in FetchRecord
           /\ \/ page.at = "builder" /\ fetch'.at = "asked" /\ fetch'.rev = 0 /\ fetch'.doc.draft = {}
              \/ page.at # "builder" /\ fetch' = fetch
<1>1. /\ Asked \in FetchRecord /\ Asked.at = "asked" /\ Asked.rev = 0 /\ Asked.doc.draft = {}
  BY DEF Asked, NoFetch, FetchRecord, Empty, Doc
<1>2. /\ cache' \in [doc: Doc, rev: Nat, stale: BOOLEAN] /\ cache'.stale
      /\ cache'.doc = cache.doc /\ cache'.rev = cache.rev
  BY DEF Invalidate, AutosaveTyped
<1>. QED  BY <1>1, <1>2 DEF Invalidate, AutosaveTyped

LEMMA OvertakingIsNoted ==
    ASSUME NEW t, trouble \cup Overtaken \subseteq t, "overtaken" \notin t
    PROVE  page.at # "builder" => fetch.at = "none"
BY DEF Overtaken

LEMMA SaveReturnsKeeps ==
    ASSUME AutosaveInv, NEW s \in saves, SaveReturns(s)
    PROVE  AutosaveInv'
<1>1. AutosaveTyped /\ PageOwns /\ DraftsKnown /\ RevisionsKnown
  BY DEF AutosaveInv
<1>2. /\ s.of = "timer" /\ s.applied /\ saves' = saves \ {s} /\ trouble' = trouble \cup Overtaken
      /\ UNCHANGED <<server, edited>>
  BY DEF SaveReturns
<1>3. /\ page' \in PageRecord /\ armed' \in BOOLEAN
      /\ page'.at = page.at /\ page'.loaded = page.loaded /\ page'.synced = page.synced
      /\ page'.doc.draft = page.doc.draft
      /\ s.doc = page.doc => page' = page
      /\ \/ s.mine /\ page.at = "builder" /\ armed' = (page.doc.draft # s.doc.draft)
         \/ ~(s.mine /\ page.at = "builder") /\ UNCHANGED <<page, armed>>
  BY <1>1, AnswerTaken DEF SaveReturns
<1>4. /\ cache' \in [doc: Doc, rev: Nat, stale: BOOLEAN] /\ cache'.stale
      /\ cache'.doc = cache.doc /\ cache'.rev = cache.rev
      /\ fetch' \in FetchRecord
      /\ \/ page.at = "builder" /\ fetch'.at = "asked" /\ fetch'.rev = 0 /\ fetch'.doc.draft = {}
         \/ page.at # "builder" /\ fetch' = fetch
  BY <1>1, InvalidateMarks DEF SaveReturns
<1>5. AutosaveTyped'
  BY <1>1, <1>2, <1>3, <1>4 DEF AutosaveTyped
<1>6. PageOwns'
  BY <1>1, <1>2, <1>3 DEF PageOwns, Closed
<1>7. DraftsKnown'
  BY <1>1, <1>2, <1>3, <1>4 DEF DraftsKnown
<1>8. RevisionsKnown'
  <2>1. server.rev # 0 /\ server.rev \in Nat
    BY <1>1 DEF AutosaveTyped
  <2>. QED  BY <1>1, <1>2, <1>3, <1>4, <2>1 DEF RevisionsKnown
<1>9. AllApplied' => AllApplied
  BY <1>2 DEF AllApplied
<1>10. CopiesFresh'
  <2>. SUFFICES ASSUME trouble' \cap {"failed", "overtaken"} = {}
                PROVE  CopiesFresh'
    BY DEF CopiesFresh
  <2>1. trouble \cap {"failed", "overtaken"} = {} /\ (page.at # "builder" => fetch.at = "none")
    BY <1>2, OvertakingIsNoted
  <2>2. fetch'.at # "read"
    BY <1>4, <2>1
  <2>3. Showing' => Showing /\ fetch'.at # "none"
    BY <1>3, <1>4 DEF Showing
  <2>4. ASSUME Showing', page'.synced = server'.rev
        PROVE  \/ page.doc.draft = server.doc.draft
               \/ \E e \in page.doc.draft : \A t \in saves : t.applied => e \notin t.doc.draft
    BY <1>2, <1>3, <2>1, <2>3, <2>4 DEF AutosaveInv, CopiesFresh
  <2>5. ASSUME Showing', page'.synced = server'.rev, ~armed', AllApplied'
        PROVE  page'.doc.draft = server'.doc.draft
    <3>1. CASE s.mine /\ page.at = "builder" /\ armed' = (page.doc.draft # s.doc.draft)
      BY <1>2, <1>3, <2>4, <2>5, <3>1
    <3>2. CASE UNCHANGED <<page, armed>>
      BY <1>2, <1>9, <2>1, <2>3, <2>5, <3>2 DEF AutosaveInv, CopiesFresh
    <3>. QED  BY <1>3, <3>1, <3>2
  <2>. QED  BY <1>2, <1>3, <1>4, <2>2, <2>3, <2>4, <2>5 DEF CopiesFresh
<1>11. EditsWait'
  <2>. SUFFICES ASSUME trouble' \cap {"failed", "overtaken", "hasty"} = {}, page.at = "builder"
                PROVE  EditsWait'
    BY <1>3 DEF EditsWait
  <2>1. EditsWait /\ trouble \cap {"failed", "overtaken", "hasty"} = {}
    BY <1>2 DEF AutosaveInv
  <2>2. CASE s.mine
    <3>1. ~armed /\ s.doc = page.doc /\ server.doc = page.doc
      BY <1>2, <2>1, <2>2 DEF EditsWait, Mine
    <3>2. ~armed' /\ page' = page
      BY <1>3, <2>2, <3>1
    <3>. QED  BY <1>2, <1>4, <1>9, <2>1, <2>2, <3>1, <3>2 DEF EditsWait, Mine
  <2>3. CASE ~s.mine
    <3>1. ~armed /\ Mine = {} /\ UNCHANGED <<page, armed>>
      BY <1>3, <2>1, <2>3 DEF EditsWait, Mine
    <3>2. Mine' = {}
      BY <1>2, <3>1 DEF Mine
    <3>. QED  BY <1>2, <1>4, <1>9, <2>1, <3>1, <3>2 DEF EditsWait
  <2>. QED  BY <2>2, <2>3
<1>12. EditsHeld'
  <2>. SUFFICES ASSUME trouble' = {}
                PROVE  EditsHeld'
    BY DEF EditsHeld
  <2>1. EditsHeld /\ trouble = {}
    BY <1>2 DEF AutosaveInv
  <2>2. s.doc = page.doc /\ server.doc = page.doc /\ page' = page /\ 1..edited \subseteq Holds(page.doc)
    BY <1>2, <1>3, <2>1 DEF EditsHeld
  <2>. QED  BY <1>2, <2>1, <2>2 DEF EditsHeld
<1>. QED  BY <1>5, <1>6, <1>7, <1>8, <1>10, <1>11, <1>12 DEF AutosaveInv

\* A page that goes without trouble leaves nothing to save: its edits are in the row.
LEMMA ConfigureReturnsKeeps ==
    ASSUME AutosaveInv, NEW s \in saves, ConfigureReturns(s)
    PROVE  AutosaveInv'
<1>1. AutosaveTyped /\ PageOwns /\ DraftsKnown /\ RevisionsKnown /\ (saves \ {s}) \in SUBSET saves
  BY DEF AutosaveInv
<1>2. /\ s.applied /\ Leave(saves \ {s}) /\ Invalidate /\ UNCHANGED <<server, edited>>
      /\ trouble \subseteq trouble' /\ trouble \cup Overtaken \subseteq trouble'
      /\ trouble' = {} => saves = {s}
  BY DEF ConfigureReturns
<1>3. /\ page' = Closed /\ Closed \in PageRecord /\ ~armed' /\ armed' \in BOOLEAN
      /\ Closed.at = "away" /\ ~Closed.loaded /\ Closed.doc.draft = {} /\ Closed.synced = 0
      /\ saves' \subseteq SaveRecord
      /\ \A t \in saves' : ~t.mine /\ \E u \in saves : t.doc = u.doc /\ t.applied = u.applied
      /\ saves \ {s} = {} => saves' = {}
  BY <1>1, <1>2, LeaveLeaves
<1>4. /\ cache' \in [doc: Doc, rev: Nat, stale: BOOLEAN] /\ cache'.stale
      /\ cache'.doc = cache.doc /\ cache'.rev = cache.rev
      /\ fetch' \in FetchRecord
      /\ \/ page.at = "builder" /\ fetch'.at = "asked" /\ fetch'.rev = 0 /\ fetch'.doc.draft = {}
         \/ page.at # "builder" /\ fetch' = fetch
  BY <1>1, <1>2, InvalidateMarks
<1>5. AutosaveTyped'
  BY <1>1, <1>2, <1>3, <1>4 DEF AutosaveTyped
<1>6. PageOwns' /\ DraftsKnown'
  BY <1>1, <1>2, <1>3, <1>4 DEF PageOwns, DraftsKnown
<1>7. RevisionsKnown'
  <2>1. server.rev # 0 /\ server.rev \in Nat
    BY <1>1 DEF AutosaveTyped
  <2>. QED  BY <1>1, <1>2, <1>3, <1>4, <2>1 DEF RevisionsKnown
<1>8. CopiesFresh'
  <2>1. ASSUME trouble' \cap {"failed", "overtaken"} = {}
        PROVE  fetch'.at # "read"
    BY <1>2, <1>4, <2>1, OvertakingIsNoted
  <2>. QED  BY <1>3, <1>4, <2>1 DEF CopiesFresh, Showing
<1>9. EditsWait'
  BY <1>3 DEF EditsWait
<1>10. EditsHeld'
  <2>. SUFFICES ASSUME trouble' = {}
                PROVE  EditsHeld'
    BY DEF EditsHeld
  <2>1. EditsHeld /\ trouble = {} /\ saves' = {}
    BY <1>2, <1>3 DEF AutosaveInv
  <2>2. s.doc = page.doc /\ server.doc = page.doc /\ 1..edited \subseteq Holds(page.doc)
    BY <1>2, <2>1 DEF EditsHeld
  <2>. QED  BY <1>2, <1>3, <2>1, <2>2 DEF EditsHeld
<1>. QED  BY <1>5, <1>6, <1>7, <1>8, <1>9, <1>10 DEF AutosaveInv

LEMMA SaveFailsKeeps ==
    ASSUME AutosaveInv, NEW s \in saves, SaveFails(s)
    PROVE  AutosaveInv'
<1>1. AutosaveTyped /\ PageOwns /\ DraftsKnown /\ RevisionsKnown /\ (saves \ {s}) \in SUBSET saves
  BY DEF AutosaveInv
<1>2. "failed" \in trouble' /\ UNCHANGED <<server, cache, fetch, edited>>
  BY DEF SaveFails
<1>3. CopiesFresh' /\ EditsWait' /\ EditsHeld'
  BY <1>2 DEF CopiesFresh, EditsWait, EditsHeld
<1>4. CASE Leave(saves \ {s})
  <2>1. /\ page' = Closed /\ Closed \in PageRecord /\ ~armed' /\ armed' \in BOOLEAN
        /\ Closed.at = "away" /\ ~Closed.loaded /\ Closed.doc.draft = {} /\ Closed.synced = 0
        /\ saves' \subseteq SaveRecord
        /\ \A t \in saves' : ~t.mine /\ \E u \in saves : t.doc = u.doc /\ t.applied = u.applied
    BY <1>1, <1>4, LeaveLeaves
  <2>2. AutosaveTyped'
    BY <1>1, <1>2, <2>1 DEF AutosaveTyped
  <2>3. PageOwns' /\ DraftsKnown'
    BY <1>1, <1>2, <2>1 DEF PageOwns, DraftsKnown
  <2>4. RevisionsKnown'
    BY <1>1, <1>2, <2>1 DEF RevisionsKnown, AutosaveTyped
  <2>. QED  BY <1>3, <2>2, <2>3, <2>4 DEF AutosaveInv
<1>5. CASE saves' = saves \ {s} /\ UNCHANGED <<page, armed>>
  BY <1>1, <1>2, <1>3, <1>5
     DEF AutosaveInv, AutosaveTyped, PageOwns, DraftsKnown, RevisionsKnown, Closed
<1>. QED  BY <1>4, <1>5 DEF SaveFails
----------------------------------------------------------------------------
(* The query. *)

LEMMA ReadWorkflowKeeps ==
    ASSUME AutosaveInv, ReadWorkflow
    PROVE  AutosaveInv'
<1>1. AutosaveTyped /\ PageOwns /\ DraftsKnown /\ RevisionsKnown
  BY DEF AutosaveInv
<1>2. /\ fetch.at = "asked" /\ fetch'.at = "read" /\ fetch'.doc = server.doc
      /\ fetch'.rev = server.rev /\ fetch' \in FetchRecord
      /\ UNCHANGED <<server, page, armed, saves, cache, edited, trouble>>
  BY <1>1 DEF ReadWorkflow, AutosaveTyped, FetchRecord
<1>3. AutosaveTyped'
  BY <1>1, <1>2 DEF AutosaveTyped
<1>4. PageOwns' /\ DraftsKnown'
  BY <1>1, <1>2 DEF PageOwns, DraftsKnown, Closed
<1>5. RevisionsKnown'
  BY <1>1, <1>2 DEF RevisionsKnown, AutosaveTyped
<1>6. CopiesFresh'
  BY <1>2 DEF AutosaveInv, CopiesFresh, Showing, NoneApplied, AllApplied
<1>7. EditsWait'
  BY <1>2 DEF AutosaveInv, EditsWait, Mine, AllApplied
<1>8. EditsHeld'
  BY <1>2 DEF AutosaveInv, EditsHeld
<1>. QED  BY <1>3, <1>4, <1>5, <1>6, <1>7, <1>8 DEF AutosaveInv

\* What is fetched replaces what the builder shows, unless that is of the same age.
LEMMA FetchReturnsKeeps ==
    ASSUME AutosaveInv, FetchReturns
    PROVE  AutosaveInv'
<1>1. AutosaveTyped /\ PageOwns /\ DraftsKnown /\ RevisionsKnown
  BY DEF AutosaveInv
<1>2. /\ fetch.at = "read" /\ fetch.doc \in Doc /\ fetch.rev \in Nat
      /\ fetch'.at = "none" /\ fetch'.rev = 0 /\ fetch'.doc.draft = {} /\ fetch' \in FetchRecord
      /\ cache' \in [doc: Doc, rev: Nat, stale: BOOLEAN]
      /\ cache'.doc = fetch.doc /\ cache'.rev = fetch.rev /\ ~cache'.stale
      /\ UNCHANGED <<server, saves, edited, trouble>>
  <2>1. fetch.doc \in Doc /\ fetch.rev \in Nat
    BY <1>1 DEF AutosaveTyped, FetchRecord
  <2>2. NoFetch \in FetchRecord /\ NoFetch.at = "none" /\ NoFetch.rev = 0 /\ NoFetch.doc.draft = {}
    BY DEF NoFetch, FetchRecord, Empty, Doc
  <2>. QED  BY <2>1, <2>2 DEF FetchReturns
<1>3. \/ /\ page.at = "builder" /\ page' \in PageRecord /\ page'.at = "builder" /\ page'.loaded
         /\ page'.doc = fetch.doc /\ page'.synced = fetch.rev /\ armed' = FALSE
      \/ /\ page.at = "builder" => page.synced = fetch.rev
         /\ UNCHANGED <<page, armed>>
  BY <1>2, SyncedTyped DEF FetchReturns
<1>4. AutosaveTyped'
  BY <1>1, <1>2, <1>3 DEF AutosaveTyped
<1>5. PageOwns'
  BY <1>1, <1>2, <1>3 DEF PageOwns, Closed
<1>6. DraftsKnown'
  BY <1>1, <1>2, <1>3 DEF DraftsKnown
<1>7. RevisionsKnown'
  BY <1>1, <1>2, <1>3 DEF RevisionsKnown, AutosaveTyped
<1>8. CopiesFresh'
  <2>. SUFFICES ASSUME trouble \cap {"failed", "overtaken"} = {}
                PROVE  CopiesFresh'
    BY <1>2 DEF CopiesFresh
  <2>1. NoneApplied' = NoneApplied /\ AllApplied' = AllApplied
    BY <1>2 DEF NoneApplied, AllApplied
  <2>2. NoneApplied => fetch.rev = server.rev
    BY <1>2 DEF AutosaveInv, CopiesFresh
  <2>3. fetch.rev = server.rev => fetch.doc = server.doc
    BY <1>1 DEF RevisionsKnown
  <2>4. CASE page'.doc = fetch.doc /\ page'.synced = fetch.rev
    BY <1>2, <2>1, <2>2, <2>3, <2>4 DEF CopiesFresh
  <2>5. CASE (page.at = "builder" => page.synced = fetch.rev) /\ UNCHANGED <<page, armed>>
    BY <1>2, <2>1, <2>2, <2>5 DEF AutosaveInv, CopiesFresh, Showing
  <2>. QED  BY <1>3, <2>4, <2>5
<1>9. EditsWait'
  <2>. SUFFICES ASSUME trouble \cap {"failed", "overtaken", "hasty"} = {}, page.at = "builder"
                PROVE  EditsWait'
    BY <1>2, <1>3 DEF EditsWait
  <2>1. EditsWait
    BY DEF AutosaveInv
  <2>2. ~armed /\ ~armed'
    BY <1>2, <1>3, <2>1 DEF EditsWait
  <2>3. Mine' = Mine /\ AllApplied' = AllApplied
    BY <1>2 DEF Mine, AllApplied
  <2>4. Mine # {} => page'.doc = page.doc
    BY <1>2, <1>3, <2>1 DEF EditsWait
  <2>5. page'.synced = server.rev /\ AllApplied /\ page'.loaded => page'.doc = server.doc
    BY <1>1, <1>3, <2>1, <2>2 DEF EditsWait, RevisionsKnown
  <2>. QED  BY <1>2, <2>1, <2>2, <2>3, <2>4, <2>5 DEF EditsWait, Mine
<1>10. EditsHeld'
  <2>. SUFFICES ASSUME trouble = {}
                PROVE  EditsHeld'
    BY <1>2 DEF EditsHeld
  <2>1. EditsHeld /\ EditsWait /\ trouble \cap {"failed", "overtaken", "hasty"} = {}
    BY DEF AutosaveInv
  <2>2. CASE UNCHANGED <<page, armed>>
    BY <1>2, <2>1, <2>2 DEF EditsHeld
  <2>3. CASE page.at = "builder" /\ page'.at = "builder" /\ page'.doc = fetch.doc /\ armed' = FALSE
    <3>1. ~armed
      BY <1>2, <2>1, <2>3 DEF EditsWait
    <3>2. saves # {} => page'.doc = page.doc
      BY <1>2, <2>1, <2>3 DEF EditsWait, EditsHeld, Mine
    <3>. QED  BY <1>2, <2>1, <2>3, <3>1, <3>2 DEF EditsHeld
  <2>. QED  BY <1>3, <2>2, <2>3
<1>. QED  BY <1>4, <1>5, <1>6, <1>7, <1>8, <1>9, <1>10 DEF AutosaveInv

LEMMA FetchFailsKeeps ==
    ASSUME AutosaveInv, FetchFails
    PROVE  AutosaveInv'
<1>1. AutosaveTyped /\ PageOwns /\ DraftsKnown /\ RevisionsKnown
  BY DEF AutosaveInv
<1>2. /\ NoFetch \in FetchRecord /\ NoFetch.rev = 0 /\ NoFetch.doc.draft = {}
      /\ server.rev \in Nat \ {0}
  BY <1>1 DEF NoFetch, FetchRecord, Empty, Doc, AutosaveTyped
<1>3. /\ fetch' = NoFetch /\ "failed" \in trouble'
      /\ UNCHANGED <<server, page, armed, saves, cache, edited>>
  BY DEF FetchFails
<1>4. CopiesFresh' /\ EditsWait' /\ EditsHeld'
  BY <1>3 DEF CopiesFresh, EditsWait, EditsHeld
<1>5. AutosaveTyped'
  BY <1>1, <1>2, <1>3 DEF AutosaveTyped
<1>6. PageOwns' /\ DraftsKnown' /\ RevisionsKnown'
  BY <1>1, <1>2, <1>3 DEF PageOwns, DraftsKnown, RevisionsKnown, Closed
<1>. QED  BY <1>4, <1>5, <1>6 DEF AutosaveInv
----------------------------------------------------------------------------
LEMMA AutosaveKept ==
    ASSUME AutosaveInv, [AutosaveNext]_autosaveVars
    PROVE  AutosaveInv'
<1>1. CASE UNCHANGED autosaveVars
  BY <1>1 DEF autosaveVars, AutosaveInv, AutosaveTyped, PageOwns, DraftsKnown, RevisionsKnown,
              CopiesFresh, EditsWait, EditsHeld, Showing, NoneApplied, AllApplied, Mine, Closed
<1>. QED
  BY <1>1, OpenBuilderKeeps, OpenChannelKeeps, ClosePageKeeps, EditPageKeeps, SendSaveKeeps,
     ConfigureNodeKeeps, ApplySaveKeeps, SaveReturnsKeeps, ConfigureReturnsKeeps,
     SaveFailsKeeps, ReadWorkflowKeeps, FetchReturnsKeeps, FetchFailsKeeps DEF AutosaveNext

LEMMA QuietIsSound ==
    ASSUME AutosaveInv
    PROVE  SettledShowsServer /\ CalmEditsSurvive
<1>1. CalmEditsSurvive
  BY DEF AutosaveInv, EditsHeld, CalmEditsSurvive, AllQuiet, Holds
<1>2. SettledShowsServer
  <2>. SUFFICES ASSUME AllQuiet, page.at = "builder", page.loaded,
                       trouble \cap {"failed", "overtaken"} = {}
                PROVE  /\ page.doc.draft = server.doc.draft
                       /\ "hasty" \notin trouble => page.doc = server.doc
    BY DEF SettledShowsServer
  <2>1. NoneApplied /\ AllApplied /\ Showing /\ fetch.at = "none" /\ ~armed
    BY DEF AllQuiet, NoneApplied, AllApplied, Showing
  <2>2. page.synced = server.rev /\ page.doc.draft = server.doc.draft
    BY <2>1 DEF AutosaveInv, CopiesFresh
  <2>3. ASSUME "hasty" \notin trouble
        PROVE  page.doc = server.doc
    BY <2>1, <2>2, <2>3 DEF AutosaveInv, EditsWait
  <2>. QED  BY <2>2, <2>3
<1>. QED  BY <1>1, <1>2

\* The saving of the builder and channel pages: SettledShowsServer, CalmEditsSurvive.
THEOREM EditsAreSaved == BrowserSpec => []AutosaveSound
<1>. DEFINE Inv == focus = "autosave" => AutosaveInv
<1>1. BrowserInit => Inv
  BY AutosaveAtFirst DEF BrowserInit
<1>2. Inv /\ [BrowserNext]_browserVars => Inv'
  BY OneMoves, AutosaveKept
<1>3. Inv => AutosaveSound
  BY QuietIsSound DEF AutosaveSound
<1>. QED  BY <1>1, <1>2, <1>3, PTL DEF BrowserSpec
----------------------------------------------------------------------------
(***************************************************************************)
(* The bounds of that saving, for its types.                               *)
(***************************************************************************)

\* What is saved and not applied yet.
ToApply == {s \in saves : ~s.applied}

\* The bounds of the saving of a draft; the rest of its types is in AutosaveInv.
AutosaveBounds ==
    /\ edited \in 0..MaxEdits /\ visits \in 0..MaxVisits /\ trouble \subseteq Troubles
    /\ server.doc.setup \subseteq Edits /\ page.doc.setup \subseteq Edits
    /\ cache.doc.setup \subseteq Edits /\ fetch.doc.setup \subseteq Edits
    /\ \A s \in saves : s.doc.setup \subseteq Edits
    /\ IsFiniteSet(ToApply) /\ server.rev + Cardinality(ToApply) <= MaxSaves + 1

\* The saves that a page leaves behind are as many.
LEMMA LeftAreAsMany ==
    ASSUME NEW left, left \subseteq SaveRecord, IsFiniteSet({s \in left : ~s.applied})
    PROVE  LET gone == {[s EXCEPT !.mine = FALSE] : s \in left}
           IN  /\ IsFiniteSet({s \in gone : ~s.applied})
               /\ Cardinality({s \in gone : ~s.applied}) <= Cardinality({s \in left : ~s.applied})
<1>. DEFINE from == {s \in left : ~s.applied}
            gone == {[s EXCEPT !.mine = FALSE] : s \in left}
            to == {s \in gone : ~s.applied}
            f == [s \in from |-> [s EXCEPT !.mine = FALSE]]
<1>1. \A s \in left : [s EXCEPT !.mine = FALSE].applied = s.applied
  BY DEF SaveRecord
<1>2. f \in Surjection(from, to)
  <2>1. \A s \in from : f[s] \in to
    BY <1>1
  <2>2. \A t \in to : \E s \in from : f[s] = t
    BY <1>1
  <2>. HIDE DEF from, to
  <2>3. f \in [from -> to]
    BY <2>1
  <2>. HIDE DEF f
  <2>. QED  BY <2>2, <2>3 DEF Surjection
<1>. HIDE DEF from, to, f
<1>3. IsFiniteSet(from)
  BY DEF from
<1>4. IsFiniteSet(to) /\ Cardinality(to) <= Cardinality(from)
  BY <1>2, <1>3, FS_Surjection
<1>. QED  BY <1>4 DEF from, to

\* Saves may only go.
LEMMA FewerToApply ==
    ASSUME AutosaveInv, AutosaveBounds, UNCHANGED server, ToApply' \subseteq ToApply
    PROVE  IsFiniteSet(ToApply') /\ server'.rev + Cardinality(ToApply') <= MaxSaves + 1
<1>1. IsFiniteSet(ToApply) /\ server.rev \in Nat /\ server.rev + Cardinality(ToApply) <= MaxSaves + 1
  BY DEF AutosaveInv, AutosaveTyped, AutosaveBounds
<1>2. IsFiniteSet(ToApply') /\ Cardinality(ToApply') <= Cardinality(ToApply)
  BY <1>1, FS_Subset
<1>3. Cardinality(ToApply) \in Nat /\ Cardinality(ToApply') \in Nat
  BY <1>1, <1>2, FS_CardinalityType
<1>. QED  BY <1>1, <1>2, <1>3, AutosaveConstants

LEMMA LeaveKeepsBounds ==
    ASSUME AutosaveInv, AutosaveBounds, UNCHANGED server, NEW left \in SUBSET saves, Leave(left)
    PROVE  /\ IsFiniteSet(ToApply') /\ server'.rev + Cardinality(ToApply') <= MaxSaves + 1
           /\ page'.doc.setup \subseteq Edits
           /\ \A s \in saves' : s.doc.setup \subseteq Edits
<1>1. /\ IsFiniteSet(ToApply) /\ server.rev \in Nat /\ server.rev + Cardinality(ToApply) <= MaxSaves + 1
      /\ saves \subseteq SaveRecord
  BY DEF AutosaveInv, AutosaveTyped, AutosaveBounds
<1>. DEFINE still == {s \in left : ~s.applied}
<1>2. IsFiniteSet(still) /\ Cardinality(still) <= Cardinality(ToApply)
  <2>1. still \subseteq ToApply
    BY DEF ToApply
  <2>. HIDE DEF still
  <2>. QED  BY <1>1, <2>1, FS_Subset
<1>3. IsFiniteSet(ToApply') /\ Cardinality(ToApply') <= Cardinality(still)
  <2>1. ToApply' = {s \in {[s EXCEPT !.mine = FALSE] : s \in left} : ~s.applied}
    BY DEF ToApply, Leave
  <2>2. left \subseteq SaveRecord
    BY <1>1
  <2>. QED  BY <1>2, <2>1, <2>2, LeftAreAsMany
<1>4. Cardinality(ToApply) \in Nat /\ Cardinality(ToApply') \in Nat /\ Cardinality(still) \in Nat
  BY <1>1, <1>2, <1>3, FS_CardinalityType
<1>5. \A s \in left : [s EXCEPT !.mine = FALSE].doc = s.doc
  BY <1>1 DEF SaveRecord
<1>6. \A s \in saves' : s.doc.setup \subseteq Edits
  <2>1. saves' = {[s EXCEPT !.mine = FALSE] : s \in left}
    BY DEF Leave
  <2>2. \A s \in left : s.doc.setup \subseteq Edits
    BY DEF AutosaveBounds
  <2>. QED  BY <1>5, <2>1, <2>2
<1>7. page'.doc.setup \subseteq Edits
  BY DEF Leave, Closed, Empty
<1>. HIDE DEF still
<1>. QED  BY <1>1, <1>2, <1>3, <1>4, <1>6, <1>7, AutosaveConstants

\* A PUT is sent only where there is room for it.
LEMMA PutKeepsBounds ==
    ASSUME AutosaveInv, AutosaveBounds, UNCHANGED server, Room,
           NEW of \in {"timer", "configure"}, saves' = saves \cup {Put(of)}
    PROVE  /\ IsFiniteSet(ToApply') /\ server'.rev + Cardinality(ToApply') <= MaxSaves + 1
           /\ \A s \in saves' : s.doc.setup \subseteq Edits
<1>1. /\ IsFiniteSet(ToApply) /\ server.rev \in Nat /\ server.rev + Cardinality(ToApply) <= MaxSaves
  BY DEF AutosaveInv, AutosaveTyped, AutosaveBounds, Room, ToApply
<1>2. ToApply' = ToApply \cup {Put(of)} /\ Put(of).doc = page.doc
  BY DEF ToApply, Put
<1>3. IsFiniteSet(ToApply') /\ Cardinality(ToApply') <= Cardinality(ToApply) + 1
  <2>1. Cardinality(ToApply) \in Nat
    BY <1>1, FS_CardinalityType
  <2>2. IsFiniteSet(ToApply \cup {Put(of)})
        /\ Cardinality(ToApply \cup {Put(of)}) = IF Put(of) \in ToApply THEN Cardinality(ToApply) ELSE Cardinality(ToApply) + 1
    BY <1>1, FS_AddElement
  <2>. QED  BY <1>2, <2>1, <2>2
<1>4. Cardinality(ToApply) \in Nat /\ Cardinality(ToApply') \in Nat
  BY <1>1, <1>3, FS_CardinalityType
<1>5. \A s \in saves' : s.doc.setup \subseteq Edits
  BY <1>2 DEF AutosaveBounds
<1>. QED  BY <1>1, <1>3, <1>4, <1>5, AutosaveConstants

LEMMA ApplyKeepsBounds ==
    ASSUME AutosaveInv, AutosaveBounds, NEW s \in saves, ApplySave(s)
    PROVE  /\ IsFiniteSet(ToApply') /\ server'.rev + Cardinality(ToApply') <= MaxSaves + 1
           /\ server'.doc.setup \subseteq Edits
           /\ \A r \in saves' : r.doc.setup \subseteq Edits
<1>1. /\ IsFiniteSet(ToApply) /\ server.rev \in Nat /\ server.rev + Cardinality(ToApply) <= MaxSaves + 1
      /\ saves \subseteq SaveRecord /\ s \in ToApply
  BY DEF AutosaveInv, AutosaveTyped, AutosaveBounds, ApplySave, ToApply
<1>2. [s EXCEPT !.applied = TRUE].applied = TRUE /\ [s EXCEPT !.applied = TRUE].doc = s.doc
  BY <1>1 DEF SaveRecord
<1>3. ToApply' = ToApply \ {s} /\ server' = [doc |-> s.doc, rev |-> server.rev + 1]
  BY <1>2 DEF ToApply, ApplySave
<1>4. IsFiniteSet(ToApply') /\ Cardinality(ToApply') = Cardinality(ToApply) - 1
  BY <1>1, <1>3, FS_RemoveElement
<1>5. Cardinality(ToApply) \in Nat /\ Cardinality(ToApply') \in Nat
  BY <1>1, <1>4, FS_CardinalityType
<1>6. server'.doc.setup \subseteq Edits /\ \A r \in saves' : r.doc.setup \subseteq Edits
  <2>1. s.doc.setup \subseteq Edits /\ server'.doc = s.doc
    BY <1>3 DEF AutosaveBounds
  <2>2. saves' = (saves \ {s}) \cup {[s EXCEPT !.applied = TRUE]}
    BY DEF ApplySave
  <2>3. [s EXCEPT !.applied = TRUE].doc.setup \subseteq Edits
    BY <1>2, <2>1
  <2>. QED  BY <2>1, <2>2, <2>3 DEF AutosaveBounds
<1>7. server'.rev = server.rev + 1
  BY <1>3
<1>. QED  BY <1>1, <1>4, <1>5, <1>6, <1>7, AutosaveConstants

LEMMA BoundsAtFirst == AutosaveInit => AutosaveBounds
<1>. SUFFICES ASSUME AutosaveInit PROVE AutosaveBounds
  OBVIOUS
<1>1. ToApply = {}
  BY DEF AutosaveInit, ToApply
<1>2. IsFiniteSet({}) /\ Cardinality({}) = 0
  BY FS_EmptySet
<1>. QED  BY <1>1, <1>2, AutosaveConstants DEF AutosaveInit, AutosaveBounds, Closed, Empty, NoFetch, Troubles

LEMMA BoundsKept ==
    ASSUME AutosaveInv, AutosaveBounds, [AutosaveNext]_autosaveVars
    PROVE  AutosaveBounds'
<1>0. AutosaveTyped
  BY DEF AutosaveInv
<1>1. CASE UNCHANGED autosaveVars
  BY <1>1 DEF autosaveVars, AutosaveBounds, ToApply
<1>2. CASE OpenBuilder \/ OpenChannel \/ EditPage \/ ReadWorkflow \/ FetchReturns \/ FetchFails
  <2>1. UNCHANGED <<server, saves>>
    BY <1>2 DEF OpenBuilder, OpenChannel, EditPage, ReadWorkflow, FetchReturns, FetchFails
  <2>2. IsFiniteSet(ToApply') /\ server'.rev + Cardinality(ToApply') <= MaxSaves + 1
    <3>1. ToApply' = ToApply
      BY <2>1 DEF ToApply
    <3>. QED  BY <2>1, <3>1, FewerToApply
  <2>3. edited' \in 0..MaxEdits /\ visits' \in 0..MaxVisits /\ trouble' \subseteq Troubles
    BY <1>2, AutosaveConstants
       DEF OpenBuilder, OpenChannel, EditPage, ReadWorkflow, FetchReturns, FetchFails, AutosaveBounds, Troubles, Haste, Edits
  <2>4. /\ page'.doc.setup \subseteq Edits
        /\ cache'.doc.setup \subseteq Edits /\ fetch'.doc.setup \subseteq Edits
    <3>1. CASE OpenBuilder
      BY <3>1 DEF OpenBuilder, Closed, Synced, Asked, NoFetch, Empty, AutosaveBounds
    <3>2. CASE OpenChannel
      BY <3>2 DEF OpenChannel, Synced, AutosaveBounds
    <3>3. CASE EditPage
      BY <1>0, <3>3 DEF EditPage, AutosaveBounds, AutosaveTyped, PageRecord, Doc
    <3>4. CASE ReadWorkflow
      BY <3>4 DEF ReadWorkflow, AutosaveBounds
    <3>5. CASE FetchReturns
      BY <3>5 DEF FetchReturns, Synced, NoFetch, Empty, AutosaveBounds
    <3>6. CASE FetchFails
      BY <3>6 DEF FetchFails, NoFetch, Empty, AutosaveBounds
    <3>. QED  BY <1>2, <3>1, <3>2, <3>3, <3>4, <3>5, <3>6
  <2>. QED  BY <2>1, <2>2, <2>3, <2>4 DEF AutosaveBounds
<1>3. CASE ClosePage
  <2>1. Leave(saves) /\ UNCHANGED <<server, cache, fetch, edited, visits>>
        /\ trouble' \subseteq trouble \cup {"left"}
    BY <1>3 DEF ClosePage
  <2>. QED  BY <2>1, LeaveKeepsBounds DEF AutosaveBounds, Troubles
<1>4. CASE SendSave \/ ConfigureNode
  <2>1. /\ Room /\ \E of \in {"timer", "configure"} : saves' = saves \cup {Put(of)}
        /\ UNCHANGED <<server, page, cache, fetch, edited, visits>>
        /\ trouble' \subseteq trouble \cup {"hasty"}
    BY <1>4 DEF SendSave, ConfigureNode, Haste
  <2>. QED  BY <2>1, PutKeepsBounds DEF AutosaveBounds, Troubles
<1>5. ASSUME NEW s \in saves, ApplySave(s)
      PROVE  AutosaveBounds'
  <2>1. UNCHANGED <<page, armed, cache, fetch, edited, visits, trouble>>
    BY <1>5 DEF ApplySave
  <2>. QED  BY <1>5, <2>1, ApplyKeepsBounds DEF AutosaveBounds
<1>6. ASSUME NEW s \in saves, SaveReturns(s) \/ ConfigureReturns(s) \/ SaveFails(s)
      PROVE  AutosaveBounds'
  <2>1. /\ UNCHANGED <<server, edited, visits>>
        /\ trouble' \subseteq trouble \cup {"overtaken", "left", "failed"}
    BY <1>6 DEF SaveReturns, ConfigureReturns, SaveFails, Overtaken
  <2>2. cache'.doc.setup \subseteq Edits /\ fetch'.doc.setup \subseteq Edits
    <3>1. [cache EXCEPT !.stale = TRUE].doc = cache.doc
      BY <1>0 DEF AutosaveTyped
    <3>2. Asked.doc.setup \subseteq Edits
      BY DEF Asked, NoFetch, Empty
    <3>3. UNCHANGED <<cache, fetch>> \/ Invalidate
      BY <1>6 DEF SaveReturns, ConfigureReturns, SaveFails
    <3>. QED  BY <3>1, <3>2, <3>3 DEF Invalidate, AutosaveBounds
  <2>3. /\ page'.doc.setup \subseteq Edits
        /\ \A r \in saves' : r.doc.setup \subseteq Edits
        /\ IsFiniteSet(ToApply') /\ server'.rev + Cardinality(ToApply') <= MaxSaves + 1
    <3>1. CASE Leave(saves \ {s})
      BY <2>1, <3>1, LeaveKeepsBounds
    <3>2. CASE saves' = saves \ {s} /\ page'.doc.setup \subseteq Edits
      <4>1. ToApply' \subseteq ToApply
        BY <3>2 DEF ToApply
      <4>. QED  BY <2>1, <3>2, <4>1, FewerToApply DEF AutosaveBounds
    <3>3. SaveReturns(s) => saves' = saves \ {s} /\ page'.doc.setup \subseteq Edits
      <4>1. [page EXCEPT !.doc.setup = s.doc.setup].doc.setup = s.doc.setup
        BY <1>0 DEF AutosaveTyped, PageRecord, Doc
      <4>. QED  BY <4>1 DEF SaveReturns, Answered, AutosaveBounds
    <3>4. SaveFails(s) => Leave(saves \ {s}) \/ (saves' = saves \ {s} /\ page'.doc.setup \subseteq Edits)
      BY DEF SaveFails, AutosaveBounds
    <3>. QED  BY <1>6, <3>1, <3>2, <3>3, <3>4 DEF ConfigureReturns
  <2>. QED  BY <2>1, <2>2, <2>3 DEF AutosaveBounds, Troubles
<1>. QED  BY <1>1, <1>2, <1>3, <1>4, <1>5, <1>6 DEF AutosaveNext

LEMMA AutosaveTypes == AutosaveInv /\ AutosaveBounds => AutosaveTypeOK
<1>. SUFFICES ASSUME AutosaveInv, AutosaveBounds PROVE AutosaveTypeOK
  OBVIOUS
<1>1. AutosaveTyped /\ PageOwns /\ DraftsKnown
  BY DEF AutosaveInv
<1>2. 1..edited \subseteq Edits
  BY AutosaveConstants DEF AutosaveBounds, Edits
<1>3. \A d \in Doc : d.draft \subseteq 1..edited /\ d.setup \subseteq Edits => d \in Document
  BY <1>2 DEF Doc, Document
<1>4. server.doc \in Document /\ server.rev \in 1..(MaxSaves + 1)
  <2>1. server.rev \in Nat \ {0} /\ IsFiniteSet(ToApply) /\ server.rev + Cardinality(ToApply) <= MaxSaves + 1
    BY <1>1 DEF AutosaveTyped, AutosaveBounds
  <2>2. Cardinality(ToApply) \in Nat
    BY <2>1, FS_CardinalityType
  <2>. QED  BY <1>1, <1>3, <2>1, <2>2, AutosaveConstants DEF AutosaveTyped, DraftsKnown, AutosaveBounds
<1>5. page.doc \in Document /\ cache.doc \in Document /\ fetch.doc \in Document
  BY <1>1, <1>3 DEF AutosaveTyped, PageRecord, FetchRecord, DraftsKnown, AutosaveBounds
<1>6. \A s \in saves : s.doc \in Document
  BY <1>1, <1>3 DEF AutosaveTyped, SaveRecord, DraftsKnown, AutosaveBounds
<1>7. server \in Version
  BY <1>1, <1>4 DEF AutosaveTyped, Version
<1>8. /\ page \in [at: {"builder", "channel", "away"}, loaded: BOOLEAN, doc: Document, synced: Nat]
      /\ cache \in [doc: Document, rev: Nat, stale: BOOLEAN]
      /\ fetch \in [at: {"none", "asked", "read"}, doc: Document, rev: Nat]
  BY <1>1, <1>5 DEF AutosaveTyped, PageRecord, FetchRecord
<1>9. saves \subseteq [of: {"timer", "configure"}, doc: Document, mine: BOOLEAN, applied: BOOLEAN]
  BY <1>1, <1>6 DEF AutosaveTyped, SaveRecord
<1>10. armed \in BOOLEAN /\ (armed => page.loaded)
  BY <1>1 DEF AutosaveTyped, PageOwns
<1>. QED  BY <1>7, <1>8, <1>9, <1>10 DEF AutosaveTypeOK, AutosaveBounds
----------------------------------------------------------------------------
(***************************************************************************)
(* Natural numbers: a set of them has a least member.                      *)
(***************************************************************************)

LEMMA LeastOne ==
    ASSUME NEW S \in SUBSET Nat, S # {}
    PROVE  \E i \in S : IsLeast(i, S)
<1>. DEFINE Less == {ss \in Nat \X Nat : ss[1] < ss[2]}
<1>1. IsWellFoundedOn(Less, Nat)
  BY NatLessThanWellFounded DEF OpToRel
<1>2. PICK i \in S : \A j \in S : <<j, i>> \notin Less
  <2>. HIDE DEF Less
  <2>. QED  BY <1>1, WFMin
<1>3. ASSUME NEW j \in S
      PROVE  i <= j
  <2>1. i \in Nat /\ j \in Nat /\ ~(j < i)
    BY <1>2
  <2>. QED  BY <2>1
<1>. QED  BY <1>3 DEF IsLeast

\* Induction over the naturals: what holds of 0, and of n + 1 with n, holds of all.
LEMMA CountUp ==
    ASSUME NEW Good \in SUBSET Nat, 0 \in Good, \A n \in Good : n + 1 \in Good
    PROVE  Good = Nat
<1>. SUFFICES ASSUME Nat \ Good # {} PROVE FALSE
  OBVIOUS
<1>1. PICK n \in Nat \ Good : \A m \in Nat \ Good : n <= m
  BY LeastOne DEF IsLeast
<1>2. n # 0 /\ n - 1 \in Nat /\ ~(n <= n - 1) /\ n = (n - 1) + 1
  OBVIOUS
<1>. QED  BY <1>1, <1>2
----------------------------------------------------------------------------
(***************************************************************************)
(* The canvas: its types.                                                  *)
(***************************************************************************)

\* What filters a sequence, one element after the other.
Filters(kept, seq, T, N) ==
    /\ kept = [n \in 0..N |-> kept[n]]
    /\ kept[0] = << >>
    /\ \A n \in 1..N : kept[n] = IF seq[n] \in T THEN Append(kept[n - 1], seq[n]) ELSE kept[n - 1]

\* The recursion of Kept is one.
LEMMA KeptFilters ==
    ASSUME NEW S, NEW seq \in Seq(S), NEW T
    PROVE  \E kept : Filters(kept, seq, T, Len(seq)) /\ Kept(seq, T) = kept[Len(seq)]
<1>1. Len(seq) \in Nat
  OBVIOUS
<1>2. PICK f : Filters(f, seq, T, Len(seq))
  <2>. DEFINE Good == {N \in Nat : \E f : Filters(f, seq, T, N)}
  <2>1. 0 \in Good
    <3>. DEFINE f == [n \in 0..0 |-> << >>]
    <3>1. Filters(f, seq, T, 0)
      BY DEF Filters
    <3>. QED  BY <3>1
  <2>2. ASSUME NEW M \in Good
        PROVE  M + 1 \in Good
    <3>1. M \in Nat
      OBVIOUS
    <3>2. PICK f : Filters(f, seq, T, M)
      OBVIOUS
    <3>. DEFINE last == IF seq[M + 1] \in T THEN Append(f[M], seq[M + 1]) ELSE f[M]
                g == [n \in 0..(M + 1) |-> IF n = M + 1 THEN last ELSE f[n]]
    <3>3. g = [n \in 0..(M + 1) |-> g[n]] /\ g[M + 1] = last /\ \A n \in 0..M : g[n] = f[n]
      BY <3>1
    <3>. HIDE DEF g
    <3>4. ASSUME NEW n \in 1..(M + 1)
          PROVE  g[n] = IF seq[n] \in T THEN Append(g[n - 1], seq[n]) ELSE g[n - 1]
      <4>0. n - 1 \in 0..M
        BY <3>1
      <4>1. g[n - 1] = f[n - 1]
        BY <3>3, <4>0
      <4>2. CASE n = M + 1
        BY <3>1, <3>3, <4>1, <4>2
      <4>3. CASE n # M + 1
        <5>1. n \in 1..M /\ n \in 0..M
          BY <3>1, <4>3
        <5>2. g[n] = f[n]
          BY <3>3, <5>1
        <5>3. f[n] = IF seq[n] \in T THEN Append(f[n - 1], seq[n]) ELSE f[n - 1]
          BY <3>2, <5>1 DEF Filters
        <5>. QED  BY <4>1, <5>2, <5>3
      <4>. QED  BY <4>2, <4>3
    <3>5. Filters(g, seq, T, M + 1)
      <4>1. 0 \in 0..M /\ f[0] = << >>
        BY <3>1, <3>2 DEF Filters
      <4>2. g[0] = << >>
        BY <3>3, <4>1
      <4>. QED  BY <3>3, <3>4, <4>2 DEF Filters
    <3>. QED  BY <3>1, <3>5
  <2>. HIDE DEF Good
  <2>3. Good = Nat
    <3>1. Good \in SUBSET Nat
      BY DEF Good
    <3>. QED  BY <2>1, <2>2, <3>1, CountUp
  <2>. QED  BY <1>1, <2>3 DEF Good
<1>. DEFINE Kind(g, n) == IF n = 0 THEN << >>
                          ELSE IF seq[n] \in T THEN Append(g[n - 1], seq[n]) ELSE g[n - 1]
            kept == CHOOSE g : g = [n \in 0..Len(seq) |-> Kind(g, n)]
<1>3. f = [n \in 0..Len(seq) |-> Kind(f, n)]
  <2>1. ASSUME NEW n \in 0..Len(seq)
        PROVE  f[n] = Kind(f, n)
    <3>1. n = 0 \/ n \in 1..Len(seq)
      BY <1>1
    <3>. QED  BY <1>1, <1>2, <3>1 DEF Filters
  <2>. HIDE DEF Kind
  <2>2. f = [n \in 0..Len(seq) |-> f[n]]
    BY <1>2 DEF Filters
  <2>. QED  BY <2>1, <2>2
<1>4. kept = [n \in 0..Len(seq) |-> Kind(kept, n)]
  BY <1>3
<1>5. Kept(seq, T) = kept[Len(seq)]
  BY DEF Kept
<1>. HIDE DEF kept
<1>6. ASSUME NEW n \in 0..Len(seq)
      PROVE  kept[n] = Kind(kept, n)
  BY <1>4
<1>7. kept = [n \in 0..Len(seq) |-> kept[n]]
  BY <1>4
<1>8. ASSUME NEW n \in 1..Len(seq)
      PROVE  n \in 0..Len(seq) /\ n # 0
  BY <1>1
<1>9. kept[0] = << >>
  BY <1>1, <1>6
<1>. QED  BY <1>5, <1>6, <1>7, <1>8, <1>9 DEF Filters

\* It has the elements of the sequence that belong to T, no others, and one that stands
\* once in the sequence once.
LEMMA KeptOnly ==
    ASSUME NEW S, NEW seq \in Seq(S), NEW T
    PROVE  /\ Kept(seq, T) \in Seq(S)
           /\ {Kept(seq, T)[i] : i \in DOMAIN Kept(seq, T)} = {seq[i] : i \in DOMAIN seq} \cap T
<1>1. Len(seq) \in Nat
  OBVIOUS
<1>2. PICK kept : Filters(kept, seq, T, Len(seq)) /\ Kept(seq, T) = kept[Len(seq)]
  BY KeptFilters
<1>. DEFINE Some(n) == {seq[i] : i \in 1..n} \cap T
            Is(n) == kept[n] \in Seq(S) /\ {kept[n][i] : i \in 1..Len(kept[n])} = Some(n)
            Good == {n \in Nat : n <= Len(seq) => Is(n)}
<1>3. 0 \in Good
  <2>1. kept[0] = << >>
    BY <1>2 DEF Filters
  <2>2. Some(0) = {}
    OBVIOUS
  <2>. HIDE DEF Some
  <2>3. << >> \in Seq(S) /\ Len(<< >>) = 0
    OBVIOUS
  <2>4. {kept[0][i] : i \in 1..Len(kept[0])} = {}
    BY <2>1, <2>3
  <2>5. Is(0)
    BY <2>1, <2>2, <2>3, <2>4
  <2>. HIDE DEF Is
  <2>. QED  BY <2>5
<1>4. ASSUME NEW m \in Good
      PROVE  m + 1 \in Good
  <2>0. SUFFICES ASSUME m + 1 <= Len(seq) PROVE Is(m + 1)
    <3>1. m + 1 \in Nat
      OBVIOUS
    <3>. HIDE DEF Is
    <3>. QED  BY <3>1
  <2>1. m \in Nat /\ m + 1 \in 1..Len(seq) /\ m <= Len(seq) /\ (m + 1) - 1 = m
    <3>1. m \in Nat
      OBVIOUS
    <3>. HIDE DEF Good
    <3>. QED  BY <1>1, <2>0, <3>1
  <2>2. seq[m + 1] \in S /\ Is(m)
    <3>1. seq[m + 1] \in S
      BY <2>1
    <3>. HIDE DEF Is
    <3>. QED  BY <2>1, <3>1
  <2>3. kept[m + 1] = IF seq[m + 1] \in T THEN Append(kept[m], seq[m + 1]) ELSE kept[m]
    BY <1>2, <2>1 DEF Filters
  <2>4. Some(m + 1) = IF seq[m + 1] \in T THEN Some(m) \cup {seq[m + 1]} ELSE Some(m)
    BY <2>1
  <2>. HIDE DEF Some
  <2>5. CASE seq[m + 1] \in T
    <3>. DEFINE k == kept[m]  x == seq[m + 1]
    <3>1. kept[m + 1] = Append(k, x) /\ k \in Seq(S) /\ x \in S
      BY <2>2, <2>3, <2>5
    <3>. HIDE DEF k, x
    <3>2. Append(k, x) \in Seq(S) /\ Len(Append(k, x)) = Len(k) + 1 /\ Append(k, x)[Len(k) + 1] = x
          /\ \A i \in 1..Len(k) : Append(k, x)[i] = k[i]
      BY <3>1
    <3>3. {Append(k, x)[i] : i \in 1..(Len(k) + 1)} = {k[i] : i \in 1..Len(k)} \cup {x}
      BY <3>1, <3>2
    <3>. QED  BY <2>2, <2>4, <2>5, <3>1, <3>2, <3>3 DEF k, x
  <2>6. CASE seq[m + 1] \notin T
    BY <2>2, <2>3, <2>4, <2>6
  <2>. QED  BY <2>5, <2>6
<1>5. Good = Nat
  <2>. HIDE DEF Is
  <2>1. Good \in SUBSET Nat
    OBVIOUS
  <2>. HIDE DEF Good
  <2>. QED  BY <1>3, <1>4, <2>1, CountUp
<1>6. Is(Len(seq))
  BY <1>1, <1>5
<1>. QED  BY <1>2, <1>6

\* What is left of an edge list.
LEMMA WithoutTyped ==
    ASSUME NEW edges \in Seq(Edge), NEW I
    PROVE  Without(edges, I) \in Seq(Edge)
<1>. DEFINE all == [i \in DOMAIN edges |-> i]
            kept == Kept(all, DOMAIN edges \ I)
<1>1. Len(edges) \in Nat /\ DOMAIN edges = 1..Len(edges)
  OBVIOUS
<1>2. all \in Seq(DOMAIN edges) /\ DOMAIN all = DOMAIN edges
  BY <1>1
<1>. HIDE DEF all
<1>3. kept \in Seq(DOMAIN edges)
  BY <1>2, KeptOnly
<1>4. Without(edges, I) = [k \in DOMAIN kept |-> edges[kept[k]]]
  BY DEF Without, all
<1>. HIDE DEF kept
<1>5. \A k \in DOMAIN kept : edges[kept[k]] \in Edge
  BY <1>3
<1>. QED  BY <1>3, <1>4, <1>5

\* A definition, as far as its types go.
TypedDefinition(d) ==
    /\ d.nodes \in Seq(Steps)
    /\ d.type \in [NodesOf(d) -> StepTypes]
    /\ d.edges \in Seq(Edge)

\* What buildDraftFromCanvas makes of a definition has the same steps.
LEMMA OrderedTyped ==
    ASSUME NEW nodes \in Seq(Steps), NEW type \in [{nodes[i] : i \in DOMAIN nodes} -> StepTypes],
           NEW edges \in Seq(Edge)
    PROVE  TypedDefinition(Ordered([nodes |-> nodes, type |-> type, edges |-> edges]))
<1>. DEFINE d == [nodes |-> nodes, type |-> type, edges |-> edges]
            T == Typed(d, {"trigger"})
            U == Typed(d, StepTypes \ {"trigger"})
            first == Kept(nodes, T)
            rest == Kept(nodes, U)
            S == {nodes[i] : i \in DOMAIN nodes}
<1>1. Ordered(d) = [nodes |-> first \o rest, type |-> type, edges |-> edges]
  <2>1. d.nodes = nodes
    OBVIOUS
  <2>2. Ordered(d) = [d EXCEPT !.nodes = first \o rest]
    BY <2>1 DEF Ordered
  <2>. HIDE DEF first, rest
  <2>. QED  BY <2>2
<1>2. /\ first \in Seq(Steps) /\ {first[i] : i \in DOMAIN first} = S \cap T
      /\ rest \in Seq(Steps) /\ {rest[i] : i \in DOMAIN rest} = S \cap U
  <2>1. ASSUME NEW X
        PROVE  /\ Kept(nodes, X) \in Seq(Steps)
               /\ {Kept(nodes, X)[i] : i \in DOMAIN Kept(nodes, X)} = {nodes[i] : i \in DOMAIN nodes} \cap X
    BY KeptOnly
  <2>. HIDE DEF T, U
  <2>. QED  BY <2>1
<1>3. (S \cap T) \cup (S \cap U) = S
  BY DEF Typed, NodesOf, StepTypes
<1>. HIDE DEF first, rest, S
<1>4. first \o rest \in Seq(Steps)
      /\ {(first \o rest)[i] : i \in DOMAIN (first \o rest)}
            = {first[i] : i \in DOMAIN first} \cup {rest[i] : i \in DOMAIN rest}
  <2>. DEFINE f == first  r == rest
  <2>. HIDE DEF f, r
  <2>1. f \in Seq(Steps) /\ r \in Seq(Steps)
    BY <1>2 DEF f, r
  <2>2. /\ f \o r \in Seq(Steps)
        /\ DOMAIN f = 1..Len(f) /\ DOMAIN r = 1..Len(r) /\ DOMAIN (f \o r) = 1..(Len(f) + Len(r))
        /\ Len(f) \in Nat /\ Len(r) \in Nat
        /\ \A i \in 1..Len(f) : (f \o r)[i] = f[i]
        /\ \A i \in 1..(Len(f) + Len(r)) : i > Len(f) => (f \o r)[i] = r[i - Len(f)]
    BY <2>1
  <2>3. \A i \in DOMAIN r : (f \o r)[Len(f) + i] = r[i] /\ Len(f) + i \in DOMAIN (f \o r)
    BY <2>2
  <2>4. \A i \in DOMAIN (f \o r) : i \in DOMAIN f \/ i - Len(f) \in DOMAIN r
    BY <2>2
  <2>5. {(f \o r)[i] : i \in DOMAIN (f \o r)} \subseteq {f[i] : i \in DOMAIN f} \cup {r[i] : i \in DOMAIN r}
    BY <2>2, <2>4
  <2>6. {f[i] : i \in DOMAIN f} \subseteq {(f \o r)[i] : i \in DOMAIN (f \o r)}
    BY <2>2
  <2>7. {r[i] : i \in DOMAIN r} \subseteq {(f \o r)[i] : i \in DOMAIN (f \o r)}
    BY <2>3
  <2>. QED  BY <2>2, <2>5, <2>6, <2>7 DEF f, r
<1>5. {(first \o rest)[i] : i \in DOMAIN (first \o rest)} = S
  BY <1>2, <1>3, <1>4
<1>. DEFINE e == Ordered(d)
<1>6. e.nodes = first \o rest /\ e.type = type /\ e.edges = edges
  BY <1>1
<1>7. TypedDefinition(e)
  <2>. HIDE DEF e
  <2>. QED  BY <1>4, <1>5, <1>6 DEF TypedDefinition, NodesOf, S
<1>. QED  BY <1>7

\* A canvas that grows by a step.
LEMMA WithStepTyped ==
    ASSUME BuilderTypeOK, NEW n \in Steps, NEW t \in StepTypes, NEW edges \in Seq(Edge),
           Becomes(WithStep(n, t, edges))
    PROVE  BuilderTypeOK'
<1>. DEFINE nodes == Append(canvas.nodes, n)
            type == [m \in NodesOf(canvas) \cup {n} |-> IF m = n THEN t ELSE canvas.type[m]]
<1>1. nodes \in Seq(Steps) /\ {nodes[i] : i \in DOMAIN nodes} = NodesOf(canvas) \cup {n}
  <2>. DEFINE k == canvas.nodes
  <2>1. k \in Seq(Steps)
    BY DEF BuilderTypeOK
  <2>. HIDE DEF k
  <2>2. Append(k, n) \in Seq(Steps) /\ Len(Append(k, n)) = Len(k) + 1 /\ Append(k, n)[Len(k) + 1] = n
        /\ \A i \in 1..Len(k) : Append(k, n)[i] = k[i]
    BY <2>1
  <2>3. {Append(k, n)[i] : i \in 1..(Len(k) + 1)} = {k[i] : i \in 1..Len(k)} \cup {n}
    BY <2>1, <2>2
  <2>4. DOMAIN k = 1..Len(k) /\ DOMAIN Append(k, n) = 1..(Len(k) + 1)
    BY <2>1, <2>2
  <2>. QED  BY <2>2, <2>3, <2>4 DEF k, NodesOf
<1>2. type \in [{nodes[i] : i \in DOMAIN nodes} -> StepTypes]
  BY <1>1 DEF BuilderTypeOK
<1>. HIDE DEF nodes, type
<1>3. TypedDefinition(Ordered([nodes |-> nodes, type |-> type, edges |-> edges]))
  BY <1>1, <1>2, OrderedTyped
<1>4. canvas' = Ordered([nodes |-> nodes, type |-> type, edges |-> edges]) /\ opened' = opened
  BY DEF Becomes, WithStep, nodes, type
<1>. QED  BY <1>3, <1>4 DEF BuilderTypeOK, TypedDefinition, NodesOf

LEMMA LinkTyped ==
    ASSUME NEW a \in Steps, NEW b \in Steps
    PROVE  Link(a, b) \in Edge
BY DEF Link, Edge, Branches

\* The steps of the builder keep its types.
LEMMA OpenTyped ==
    ASSUME BuilderTypeOK, Open
    PROVE  BuilderTypeOK'
<1>1. canvas' = WithTrigger(canvas) /\ opened' = TRUE /\ canvas.nodes # << >>
  BY DEF Open, ServerAccepts, WellFormed
<1>2. CASE Typed(canvas, {"trigger"}) # {}
  <2>1. canvas' = canvas
    BY <1>1, <1>2 DEF WithTrigger
  <2>. QED  BY <1>1, <2>1 DEF BuilderTypeOK, NodesOf
<1>3. CASE Typed(canvas, {"trigger"}) = {}
  <2>. DEFINE k == canvas.nodes
              nodes == <<Trigger>> \o k
              type == [n \in NodesOf(canvas) \cup {Trigger} |-> IF n = Trigger THEN "trigger" ELSE canvas.type[n]]
              edges == <<Link(Trigger, k[1])>> \o canvas.edges
  <2>1. canvas' = [nodes |-> nodes, type |-> type, edges |-> edges]
    BY <1>1, <1>3 DEF WithTrigger
  <2>2. k \in Seq(Steps) /\ k # << >> /\ Trigger \in Steps
    BY <1>1, BuilderAssumption DEF BuilderTypeOK
  <2>3. nodes \in Seq(Steps) /\ {nodes[i] : i \in DOMAIN nodes} = NodesOf(canvas) \cup {Trigger}
    <3>. DEFINE l == k
    <3>. HIDE DEF l
    <3>1. l \in Seq(Steps) /\ Trigger \in Steps
      BY <2>2 DEF l
    <3>2. /\ <<Trigger>> \o l \in Seq(Steps)
          /\ DOMAIN l = 1..Len(l) /\ DOMAIN (<<Trigger>> \o l) = 1..(Len(l) + 1) /\ Len(l) \in Nat
          /\ (<<Trigger>> \o l)[1] = Trigger
          /\ \A i \in 1..(Len(l) + 1) : i > 1 => (<<Trigger>> \o l)[i] = l[i - 1]
      BY <3>1
    <3>3. \A i \in 1..Len(l) : (<<Trigger>> \o l)[i + 1] = l[i] /\ i + 1 \in 1..(Len(l) + 1)
      BY <3>2
    <3>4. \A i \in 1..(Len(l) + 1) : i = 1 \/ i - 1 \in 1..Len(l)
      BY <3>2
    <3>5. {(<<Trigger>> \o l)[i] : i \in 1..(Len(l) + 1)} = {l[i] : i \in 1..Len(l)} \cup {Trigger}
      <4>1. ASSUME NEW i \in 1..(Len(l) + 1)
            PROVE  (<<Trigger>> \o l)[i] \in {l[j] : j \in 1..Len(l)} \cup {Trigger}
        BY <3>2, <3>4
      <4>3. \A i \in 1..Len(l) : l[i] \in {(<<Trigger>> \o l)[j] : j \in 1..(Len(l) + 1)}
        BY <3>3
      <4>4. Trigger \in {(<<Trigger>> \o l)[j] : j \in 1..(Len(l) + 1)}
        <5>1. 1 \in 1..(Len(l) + 1)
          BY <3>2
        <5>. QED  BY <3>2, <5>1
      <4>. QED  BY <4>1, <4>3, <4>4
    <3>. QED  BY <3>2, <3>5 DEF l, NodesOf
  <2>4. type \in [{nodes[i] : i \in DOMAIN nodes} -> StepTypes]
    BY <2>3 DEF BuilderTypeOK, StepTypes
  <2>5. edges \in Seq(Edge)
    <3>1. k[1] \in Steps
      BY <2>2
    <3>2. Link(Trigger, k[1]) \in Edge
      BY <2>2, <3>1, LinkTyped
    <3>. QED  BY <3>2 DEF BuilderTypeOK
  <2>. HIDE DEF nodes, type, edges
  <2>6. canvas'.nodes = nodes /\ canvas'.type = type /\ canvas'.edges = edges
    BY <2>1
  <2>. QED  BY <1>1, <2>3, <2>4, <2>5, <2>6 DEF BuilderTypeOK, NodesOf
<1>. QED  BY <1>2, <1>3

LEMMA EndsTyped ==
    ASSUME BuilderTypeOK, NEW i \in DOMAIN canvas.edges
    PROVE  canvas.edges[i].source \in Steps /\ canvas.edges[i].target \in Steps
<1>1. canvas.edges[i] \in Edge
  BY DEF BuilderTypeOK
<1>. QED  BY <1>1 DEF Edge

LEMMA InsertOnEdgeTyped ==
    ASSUME BuilderTypeOK, NEW n \in Steps, NEW t \in {"notification", "delay"},
           NEW i \in DOMAIN canvas.edges, InsertOnEdge(i, n, t)
    PROVE  BuilderTypeOK'
<1>. DEFINE edges == Without(canvas.edges, {i})
                    \o <<Link(canvas.edges[i].source, n), Link(n, canvas.edges[i].target)>>
<1>1. edges \in Seq(Edge)
  <2>1. Without(canvas.edges, {i}) \in Seq(Edge)
    BY WithoutTyped DEF BuilderTypeOK
  <2>2. Link(canvas.edges[i].source, n) \in Edge /\ Link(n, canvas.edges[i].target) \in Edge
    BY EndsTyped, LinkTyped
  <2>. QED  BY <2>1, <2>2
<1>2. Becomes(WithStep(n, t, edges)) /\ t \in StepTypes
  BY DEF InsertOnEdge, StepTypes
<1>. HIDE DEF edges
<1>. QED  BY <1>1, <1>2, WithStepTyped

LEMMA InsertAtEndTyped ==
    ASSUME BuilderTypeOK, NEW n \in Steps, NEW t \in {"notification", "delay"},
           NEW last \in Steps, InsertAtEnd(last, n, t)
    PROVE  BuilderTypeOK'
<1>. DEFINE edges == Append(canvas.edges, Link(last, n))
<1>1. edges \in Seq(Edge)
  <2>1. Link(last, n) \in Edge
    BY LinkTyped
  <2>. QED  BY <2>1 DEF BuilderTypeOK
<1>2. Becomes(WithStep(n, t, edges)) /\ t \in StepTypes
  BY DEF InsertAtEnd, StepTypes
<1>. HIDE DEF edges
<1>. QED  BY <1>1, <1>2, WithStepTyped

LEMMA DuplicateNodeTyped ==
    ASSUME BuilderTypeOK, NEW n \in Steps, NEW s \in Steps, DuplicateNode(s, n)
    PROVE  BuilderTypeOK'
<1>. DEFINE out == Out(canvas, s)
            rest == Append(Without(canvas.edges, out), Link(s, n))
            first == CHOOSE i \in out : IsLeast(i, out)
            edges == IF out = {} THEN rest ELSE Append(rest, Link(n, canvas.edges[first].target))
<1>1. rest \in Seq(Edge)
  <2>1. Without(canvas.edges, out) \in Seq(Edge)
    BY WithoutTyped DEF BuilderTypeOK
  <2>2. Link(s, n) \in Edge
    BY LinkTyped
  <2>. QED  BY <2>1, <2>2
<1>2. edges \in Seq(Edge)
  <2>1. CASE out = {}
    BY <1>1, <2>1
  <2>2. CASE out # {}
    <3>1. out \in SUBSET Nat /\ out \subseteq DOMAIN canvas.edges
      BY DEF Out, BuilderTypeOK
    <3>2. first \in out
      <4>. HIDE DEF out
      <4>. QED  BY <2>2, <3>1, LeastOne
    <3>3. Link(n, canvas.edges[first].target) \in Edge
      BY <3>1, <3>2, EndsTyped, LinkTyped
    <3>. HIDE DEF rest, first
    <3>. QED  BY <1>1, <2>2, <3>3
  <2>. QED  BY <2>1, <2>2
<1>3. Becomes(WithStep(n, canvas.type[s], edges)) /\ s \in NodesOf(canvas)
  BY DEF DuplicateNode
<1>4. canvas.type[s] \in StepTypes
  BY <1>3 DEF BuilderTypeOK
<1>. HIDE DEF edges
<1>. QED  BY <1>2, <1>3, <1>4, WithStepTyped

LEMMA RemoveNodeTyped ==
    ASSUME BuilderTypeOK, NEW s \in Steps, RemoveNode(s)
    PROVE  BuilderTypeOK'
<1>. DEFINE in == In(canvas, s)
            out == Out(canvas, s)
            rest == Without(canvas.edges, in \cup out)
            join == {Link(canvas.edges[i].source, canvas.edges[o].target) : i \in in, o \in out}
            joins == Cardinality(in) = 1 /\ Cardinality(out) = 1 /\ \A e \in join : e.source # e.target
            nodes == Kept(canvas.nodes, NodesOf(canvas) \ {s})
            type == [n \in NodesOf(canvas) \ {s} |-> canvas.type[n]]
            edges == IF joins THEN Append(rest, CHOOSE e \in join : TRUE) ELSE rest
<1>1. canvas' = Ordered([nodes |-> nodes, type |-> type, edges |-> edges]) /\ opened' = opened
  BY DEF RemoveNode, Becomes
<1>2. rest \in Seq(Edge)
  BY WithoutTyped DEF BuilderTypeOK
<1>3. edges \in Seq(Edge)
  <2>1. CASE joins
    <3>1. in # {} /\ out # {}
      BY <2>1, FS_EmptySet
    <3>2. (CHOOSE e \in join : TRUE) \in join
      BY <3>1
    <3>3. in \subseteq DOMAIN canvas.edges /\ out \subseteq DOMAIN canvas.edges
      BY DEF In, Out
    <3>4. join \subseteq Edge
      BY <3>3, EndsTyped, LinkTyped
    <3>. HIDE DEF rest, join, joins
    <3>. QED  BY <1>2, <2>1, <3>2, <3>4
  <2>2. CASE ~joins
    <3>. HIDE DEF rest, join, joins
    <3>. QED  BY <1>2, <2>2
  <2>. QED  BY <2>1, <2>2
<1>4. nodes \in Seq(Steps) /\ {nodes[i] : i \in DOMAIN nodes} = NodesOf(canvas) \ {s}
  <2>1. canvas.nodes \in Seq(Steps)
    BY DEF BuilderTypeOK
  <2>2. ASSUME NEW X
        PROVE  /\ Kept(canvas.nodes, X) \in Seq(Steps)
               /\ {Kept(canvas.nodes, X)[i] : i \in DOMAIN Kept(canvas.nodes, X)}
                      = {canvas.nodes[i] : i \in DOMAIN canvas.nodes} \cap X
    <3>. DEFINE k == canvas.nodes
    <3>. HIDE DEF k
    <3>1. k \in Seq(Steps)
      BY <2>1 DEF k
    <3>. SUFFICES /\ Kept(k, X) \in Seq(Steps)
                  /\ {Kept(k, X)[i] : i \in DOMAIN Kept(k, X)} = {k[i] : i \in DOMAIN k} \cap X
      BY DEF k
    <3>. QED  BY <3>1, KeptOnly
  <2>. QED  BY <2>2 DEF NodesOf
<1>5. type \in [{nodes[i] : i \in DOMAIN nodes} -> StepTypes]
  <2>. HIDE DEF nodes
  <2>. QED  BY <1>4 DEF BuilderTypeOK
<1>. HIDE DEF nodes, type, edges
<1>6. TypedDefinition(Ordered([nodes |-> nodes, type |-> type, edges |-> edges]))
  BY <1>3, <1>4, <1>5, OrderedTyped
<1>. QED  BY <1>1, <1>6 DEF BuilderTypeOK, TypedDefinition, NodesOf

LEMMA BuilderAtFirst == BuilderInit => BuilderTypeOK
<1>. SUFFICES ASSUME BuilderInit PROVE BuilderTypeOK
  OBVIOUS
<1>1. PICK type \in [SubmittedSteps -> StepTypes \ {"delay"}] :
        LET from == [source : SubmittedSteps, target : SubmittedSteps, branch : {""}]
                    \cup [source : {n \in SubmittedSteps : type[n] = "condition"},
                          target : SubmittedSteps, branch : {"true"}]
        IN  \E edges \in UNION {[1..k -> from] : k \in 0..MaxEdges} :
                canvas = [nodes |-> Submitted, type |-> type, edges |-> edges]
  BY DEF BuilderInit, Definitions
<1>2. SubmittedSteps \subseteq Steps /\ Submitted \in Seq(Steps)
  BY BuilderAssumption DEF SubmittedSteps
<1>3. PICK k \in 0..MaxEdges : \E edges \in [1..k -> Edge] :
        canvas = [nodes |-> Submitted, type |-> type, edges |-> edges]
  <2>. DEFINE from == [source : SubmittedSteps, target : SubmittedSteps, branch : {""}]
                    \cup [source : {n \in SubmittedSteps : type[n] = "condition"},
                          target : SubmittedSteps, branch : {"true"}]
  <2>1. from \subseteq Edge
    BY <1>2 DEF Edge, Branches
  <2>2. \E edges \in UNION {[1..k -> from] : k \in 0..MaxEdges} :
           canvas = [nodes |-> Submitted, type |-> type, edges |-> edges]
    BY <1>1
  <2>. HIDE DEF from
  <2>3. PICK k \in 0..MaxEdges : \E edges \in [1..k -> from] :
           canvas = [nodes |-> Submitted, type |-> type, edges |-> edges]
    BY <2>2
  <2>4. [1..k -> from] \subseteq [1..k -> Edge]
    BY <2>1
  <2>. QED  BY <2>3, <2>4
<1>4. PICK edges \in [1..k -> Edge] : canvas = [nodes |-> Submitted, type |-> type, edges |-> edges]
  BY <1>3
<1>5. edges \in Seq(Edge)
  BY BuilderAssumption
<1>. QED  BY <1>2, <1>4, <1>5 DEF BuilderInit, BuilderTypeOK, NodesOf, SubmittedSteps

LEMMA BuilderKept ==
    ASSUME BuilderTypeOK, [BuilderNext]_builderVars
    PROVE  BuilderTypeOK'
<1>1. CASE UNCHANGED builderVars
  BY <1>1 DEF builderVars, BuilderTypeOK, NodesOf
<1>. QED  BY <1>1, OpenTyped, InsertOnEdgeTyped, InsertAtEndTyped, DuplicateNodeTyped, RemoveNodeTyped
          DEF BuilderNext
----------------------------------------------------------------------------
(***************************************************************************)
(* The search for a cycle.                                                 *)
(***************************************************************************)

\* A call of the search, and its steps: the node it visits next, the call for the nodes
\* under that one, what the visit comes to, and the call for the rest.
Calls(N) == [left : SUBSET N, visiting : SUBSET N, visited : SUBSET N, cycle : BOOLEAN]
NextOne(c) == CHOOSE m \in c.left : TRUE
Under(d, c) == [c EXCEPT !.left = Adjacent(d, NextOne(c)), !.visiting = @ \cup {NextOne(c)}]
Visit(c, under) ==
    LET n == NextOne(c)
    IN  IF n \in c.visited THEN c
        ELSE IF n \in c.visiting THEN [c EXCEPT !.cycle = TRUE]
        ELSE IF under.cycle THEN under
        ELSE [under EXCEPT !.visiting = @ \ {n}, !.visited = @ \cup {n}]
Rest(c, visit) == [visit EXCEPT !.left = c.left \ {NextOne(c)}]
Search(d, f, c) ==
    IF c.left = {} \/ c.cycle THEN c ELSE f[Rest(c, Visit(c, f[Under(d, c)]))]

\* A graph whose edges stay within its finitely many nodes.
Graph(d, N) == IsFiniteSet(N) /\ \A n \in N : Adjacent(d, n) \subseteq N

\* The path leaves room for so many calls.
Size(N, c) == Cardinality(N \ c.visiting) * (Cardinality(N) + 1) + Cardinality(c.left)

\* A search that found no cycle leaves the path as it was.
Restores(c, r) == r.cycle \/ r.visiting = c.visiting

LEMMA SizeTyped ==
    ASSUME NEW N, IsFiniteSet(N), NEW c \in Calls(N)
    PROVE  /\ Size(N, c) \in Nat
           /\ Cardinality(N) \in Nat /\ Cardinality(N \ c.visiting) \in Nat /\ Cardinality(c.left) \in Nat
           /\ Cardinality(N \ c.visiting) <= Cardinality(N) /\ Cardinality(c.left) <= Cardinality(N)
<1>1. c.left \in SUBSET N /\ N \ c.visiting \in SUBSET N
  BY DEF Calls
<1>2. /\ IsFiniteSet(c.left) /\ Cardinality(c.left) <= Cardinality(N)
      /\ IsFiniteSet(N \ c.visiting) /\ Cardinality(N \ c.visiting) <= Cardinality(N)
  BY <1>1, FS_Subset
<1>3. Cardinality(N) \in Nat /\ Cardinality(N \ c.visiting) \in Nat /\ Cardinality(c.left) \in Nat
  BY <1>2, FS_CardinalityType
<1>4. Size(N, c) \in Nat
  <2>. DEFINE a == Cardinality(N \ c.visiting)  b == Cardinality(N)  e == Cardinality(c.left)
  <2>1. a \in Nat /\ b \in Nat /\ e \in Nat
    BY <1>3
  <2>. HIDE DEF a, b, e
  <2>2. a * (b + 1) + e \in Nat
    BY <2>1
  <2>. QED  BY <2>2 DEF Size, a, b, e
<1>. QED  BY <1>2, <1>3, <1>4

\* A call goes on with the node it takes, for a smaller call.
LEMMA UnderIsSmaller ==
    ASSUME NEW d, NEW N, Graph(d, N), NEW c \in Calls(N), c.left # {}
    PROVE  /\ NextOne(c) \in c.left /\ NextOne(c) \in N
           /\ Under(d, c) \in Calls(N)
           /\ Under(d, c).left = Adjacent(d, NextOne(c))
           /\ Under(d, c).visiting = c.visiting \cup {NextOne(c)}
           /\ Under(d, c).visited = c.visited /\ Under(d, c).cycle = c.cycle
           /\ NextOne(c) \notin c.visiting => Size(N, Under(d, c)) < Size(N, c)
<1>. DEFINE n == NextOne(c)
<1>1. n \in c.left
  BY DEF NextOne
<1>2. n \in N /\ Adjacent(d, n) \subseteq N /\ IsFiniteSet(N)
  BY <1>1 DEF Calls, Graph
<1>. HIDE DEF n
<1>3. Under(d, c) = [c EXCEPT !.left = Adjacent(d, n), !.visiting = @ \cup {n}]
  BY DEF Under, n
<1>4. /\ Under(d, c) \in Calls(N)
      /\ Under(d, c).left = Adjacent(d, n) /\ Under(d, c).visiting = c.visiting \cup {n}
      /\ Under(d, c).visited = c.visited /\ Under(d, c).cycle = c.cycle
  BY <1>2, <1>3 DEF Calls
<1>5. ASSUME n \notin c.visiting
      PROVE  Size(N, Under(d, c)) < Size(N, c)
  <2>. DEFINE U == Under(d, c)
              a == Cardinality(N \ c.visiting)  b == Cardinality(N)
              e == Cardinality(c.left)  h == Cardinality(U.left)
  <2>1. Cardinality(N \ U.visiting) = a - 1
    <3>1. N \ U.visiting = (N \ c.visiting) \ {n} /\ n \in N \ c.visiting
      BY <1>2, <1>4, <1>5
    <3>2. IsFiniteSet(N \ c.visiting)
      BY <1>2, FS_Subset
    <3>. QED  BY <3>1, <3>2, FS_RemoveElement
  <2>2. a \in Nat /\ b \in Nat /\ e \in Nat /\ h \in Nat /\ h <= b /\ a - 1 \in Nat
    BY <1>2, <1>4, <2>1, SizeTyped
  <2>3. Size(N, U) = (a - 1) * (b + 1) + h /\ Size(N, c) = a * (b + 1) + e
    BY <2>1 DEF Size
  <2>. HIDE DEF a, b, e, h, U
  <2>4. (a - 1) * (b + 1) + (b + 1) = a * (b + 1)
    BY <2>2
  <2>5. (a - 1) * (b + 1) \in Nat
    BY <2>2
  <2>. QED  BY <2>2, <2>3, <2>4, <2>5 DEF U
<1>. QED  BY <1>1, <1>2, <1>4, <1>5 DEF n

LEMMA RestIsSmaller ==
    ASSUME NEW d, NEW N, Graph(d, N), NEW c \in Calls(N), c.left # {}, NEW v \in Calls(N)
    PROVE  /\ Rest(c, v) \in Calls(N)
           /\ Rest(c, v).left = c.left \ {NextOne(c)} /\ Rest(c, v).visiting = v.visiting
           /\ Rest(c, v).visited = v.visited /\ Rest(c, v).cycle = v.cycle
           /\ v.visiting = c.visiting => Size(N, Rest(c, v)) < Size(N, c)
<1>. DEFINE n == NextOne(c)
<1>1. n \in c.left /\ IsFiniteSet(N)
  BY UnderIsSmaller DEF Graph
<1>. HIDE DEF n
<1>2. Rest(c, v) = [v EXCEPT !.left = c.left \ {n}]
  BY DEF Rest, n
<1>3. /\ Rest(c, v) \in Calls(N)
      /\ Rest(c, v).left = c.left \ {n} /\ Rest(c, v).visiting = v.visiting
      /\ Rest(c, v).visited = v.visited /\ Rest(c, v).cycle = v.cycle
  BY <1>2 DEF Calls
<1>4. ASSUME v.visiting = c.visiting
      PROVE  Size(N, Rest(c, v)) < Size(N, c)
  <2>. DEFINE a == Cardinality(N \ c.visiting)  b == Cardinality(N)  e == Cardinality(c.left)
  <2>1. Cardinality(Rest(c, v).left) = e - 1
    <3>1. c.left \in SUBSET N
      BY DEF Calls
    <3>2. IsFiniteSet(c.left)
      BY <1>1, <3>1, FS_Subset
    <3>. QED  BY <1>1, <1>3, <3>2, FS_RemoveElement
  <2>2. a \in Nat /\ b \in Nat /\ e \in Nat /\ e - 1 \in Nat
    BY <1>1, <1>3, <2>1, SizeTyped
  <2>3. Size(N, Rest(c, v)) = a * (b + 1) + (e - 1) /\ Size(N, c) = a * (b + 1) + e
    BY <1>3, <1>4, <2>1 DEF Size
  <2>. HIDE DEF a, b, e
  <2>4. a * (b + 1) \in Nat
    BY <2>2
  <2>. QED  BY <2>2, <2>3, <2>4
<1>. QED  BY <1>3, <1>4 DEF n

\* The calls that need less than so much room, and those that are over.
Lower(N, m) == {c \in Calls(N) : c.cycle \/ Size(N, c) < m}

\* What a search answers to a call, once it answers all that need less room.
Answers(d, f, c) == f[c] = Search(d, f, c) /\ Restores(c, f[c])

LEMMA SearchStep ==
    ASSUME NEW d, NEW N, Graph(d, N), NEW m \in Nat, NEW f,
           \A c \in Lower(N, m) : f[c] \in Calls(N) /\ Answers(d, f, c),
           NEW c \in Calls(N), c.cycle \/ Size(N, c) <= m
    PROVE  /\ Search(d, f, c) \in Calls(N)
           /\ Restores(c, Search(d, f, c))
           /\ \A g : (\A b \in Lower(N, m) : g[b] = f[b]) => Search(d, g, c) = Search(d, f, c)
<1>1. CASE c.left = {} \/ c.cycle
  <2>1. ASSUME NEW g PROVE Search(d, g, c) = c
    BY <1>1 DEF Search
  <2>. QED  BY <2>1 DEF Restores
<1>2. CASE c.left # {} /\ ~c.cycle
  <2>. DEFINE n == NextOne(c)  u == Under(d, c)
  <2>1. n \in N /\ u \in Calls(N) /\ u.visiting = c.visiting \cup {n}
        /\ (n \notin c.visiting => u \in Lower(N, m))
    <3>1. n \notin c.visiting => Size(N, u) < Size(N, c)
      BY <1>2, UnderIsSmaller
    <3>2. u \in Calls(N) /\ Size(N, u) \in Nat /\ Size(N, c) \in Nat
      BY <1>2, UnderIsSmaller, SizeTyped DEF Graph
    <3>3. n \notin c.visiting => Size(N, u) < m
      BY <1>2, <3>1, <3>2
    <3>. QED  BY <1>2, <3>2, <3>3, UnderIsSmaller DEF Lower
  <2>2. ASSUME NEW g, \A b \in Lower(N, m) : g[b] = f[b]
        PROVE  /\ Visit(c, g[u]) = Visit(c, f[u])
               /\ Visit(c, g[u]) \in Calls(N)
               /\ Visit(c, g[u]).cycle \/ Visit(c, g[u]).visiting = c.visiting
    <3>. HIDE DEF u
    <3>1. CASE n \in c.visited \/ n \in c.visiting
      BY <2>1, <3>1 DEF Visit, Calls
    <3>2. CASE n \notin c.visited /\ n \notin c.visiting
      <4>1. g[u] = f[u] /\ f[u] \in Calls(N) /\ Restores(u, f[u])
        BY <2>1, <2>2, <3>2 DEF Answers
      <4>. DEFINE r == f[u]
      <4>2. Visit(c, r) = IF r.cycle THEN r ELSE [r EXCEPT !.visiting = @ \ {n}, !.visited = @ \cup {n}]
        BY <3>2 DEF Visit
      <4>3. r \in Calls(N) /\ (r.cycle \/ r.visiting = c.visiting \cup {n})
        BY <2>1, <4>1 DEF Restores
      <4>. HIDE DEF r, n
      <4>4. Visit(c, r) \in Calls(N) /\ (Visit(c, r).cycle \/ Visit(c, r).visiting = c.visiting)
        <5>1. CASE r.cycle
          BY <4>2, <4>3, <5>1
        <5>2. CASE ~r.cycle
          <6>. DEFINE w == [r EXCEPT !.visiting = @ \ {n}, !.visited = @ \cup {n}]
          <6>1. w.visiting = r.visiting \ {n} /\ w \in Calls(N)
            BY <2>1, <4>3 DEF Calls
          <6>2. r.visiting \ {n} = c.visiting
            BY <3>2, <4>3, <5>2
          <6>. HIDE DEF w
          <6>3. w.visiting = c.visiting
            BY <6>1, <6>2
          <6>. QED  BY <4>2, <5>2, <6>1, <6>3 DEF w
        <5>. QED  BY <5>1, <5>2
      <4>. QED  BY <4>1, <4>4 DEF r
    <3>. QED  BY <3>1, <3>2
  <2>. DEFINE v == Visit(c, f[u])
  <2>3. v \in Calls(N) /\ (v.cycle \/ v.visiting = c.visiting)
    BY <2>2
  <2>4. /\ Rest(c, v) \in Calls(N) /\ Rest(c, v).cycle = v.cycle /\ Rest(c, v).visiting = v.visiting
        /\ Rest(c, v) \in Lower(N, m)
    <3>. HIDE DEF v
    <3>1. /\ Rest(c, v) \in Calls(N) /\ Rest(c, v).cycle = v.cycle /\ Rest(c, v).visiting = v.visiting
          /\ v.visiting = c.visiting => Size(N, Rest(c, v)) < Size(N, c)
      BY <1>2, <2>3, RestIsSmaller
    <3>2. Size(N, Rest(c, v)) \in Nat /\ Size(N, c) \in Nat
      BY <3>1, SizeTyped DEF Graph
    <3>. QED  BY <1>2, <2>3, <3>1, <3>2 DEF Lower
  <2>5. ASSUME NEW g, \A b \in Lower(N, m) : g[b] = f[b]
        PROVE  Search(d, g, c) = f[Rest(c, v)]
    <3>1. Search(d, g, c) = g[Rest(c, Visit(c, g[u]))]
      BY <1>2 DEF Search
    <3>. QED  BY <2>2, <2>4, <2>5, <3>1
  <2>. DEFINE r == f[Rest(c, v)]
  <2>6. r \in Calls(N) /\ Restores(Rest(c, v), r)
    BY <2>4 DEF Answers
  <2>. HIDE DEF v, r
  <2>7. Restores(c, r)
    <3>1. CASE v.cycle
      <4>1. f[Rest(c, v)] = Search(d, f, Rest(c, v))
        BY <2>4 DEF Answers
      <4>2. r = Rest(c, v)
        BY <2>4, <3>1, <4>1 DEF Search, r
      <4>. QED  BY <2>4, <3>1, <4>2 DEF Restores
    <3>2. CASE ~v.cycle
      BY <2>3, <2>4, <2>6, <3>2 DEF Restores
    <3>. QED  BY <3>1, <3>2
  <2>. QED  BY <2>5, <2>6, <2>7 DEF r
<1>. QED  BY <1>1, <1>2

LEMMA RoomEnough ==
    ASSUME NEW N, IsFiniteSet(N)
    PROVE  \E m \in Nat : Lower(N, m) = Calls(N)
<1>. DEFINE b == Cardinality(N)  m == b * (b + 1) + (b + 1)
<1>1. b \in Nat
  BY FS_CardinalityType
<1>2. m \in Nat
  <2>. HIDE DEF b
  <2>. QED  BY <1>1
<1>3. ASSUME NEW c \in Calls(N)
      PROVE  Size(N, c) < m
  <2>. DEFINE a == Cardinality(N \ c.visiting)  e == Cardinality(c.left)
  <2>1. a \in Nat /\ e \in Nat /\ a <= b /\ e <= b
    BY SizeTyped
  <2>2. Size(N, c) = a * (b + 1) + e
    BY DEF Size
  <2>. HIDE DEF a, b, e
  <2>3. a * (b + 1) <= b * (b + 1) /\ a * (b + 1) \in Nat /\ b * (b + 1) \in Nat
    <3>1. (b - a) * (b + 1) \in Nat /\ a * (b + 1) \in Nat /\ b * (b + 1) \in Nat
      BY <1>1, <2>1
    <3>2. (b - a) * (b + 1) = b * (b + 1) - a * (b + 1)
      BY <1>1, <2>1
    <3>. QED  BY <3>1, <3>2
  <2>. DEFINE x == a * (b + 1)  y == b * (b + 1)
  <2>. HIDE DEF x, y
  <2>4. x \in Nat /\ y \in Nat /\ x <= y
    BY <2>3 DEF x, y
  <2>5. x + e < y + (b + 1)
    BY <1>1, <2>1, <2>4
  <2>. QED  BY <2>2, <2>5 DEF x, y
<1>. HIDE DEF m
<1>. QED  BY <1>2, <1>3 DEF Lower

\* A search answers every call, whatever function it is.
LEMMA AnswersAll ==
    ASSUME NEW d, NEW N, Graph(d, N), NEW f, f = [c \in Calls(N) |-> Search(d, f, c)], NEW c \in Calls(N)
    PROVE  f[c] \in Calls(N) /\ Answers(d, f, c)
<1>. DEFINE Good == {m \in Nat : \A b \in Lower(N, m) : f[b] \in Calls(N) /\ Answers(d, f, b)}
<1>1. \A b \in Calls(N) : f[b] = Search(d, f, b)
  OBVIOUS
<1>2. 0 \in Good
  <2>1. ASSUME NEW b \in Lower(N, 0)
        PROVE  f[b] \in Calls(N) /\ Answers(d, f, b)
    <3>1. b \in Calls(N) /\ Size(N, b) \in Nat
      BY SizeTyped DEF Lower, Graph
    <3>2. b.cycle
      BY <3>1 DEF Lower
    <3>. QED  BY <1>1, <3>1, <3>2 DEF Search, Restores, Answers
  <2>. QED  BY <2>1
<1>3. ASSUME NEW m \in Good
      PROVE  m + 1 \in Good
  <2>1. m \in Nat /\ \A b \in Lower(N, m) : f[b] \in Calls(N) /\ Answers(d, f, b)
    OBVIOUS
  <2>2. ASSUME NEW b \in Lower(N, m + 1)
        PROVE  f[b] \in Calls(N) /\ Answers(d, f, b)
    <3>1. b \in Calls(N) /\ Size(N, b) \in Nat
      BY SizeTyped DEF Lower, Graph
    <3>2. b.cycle \/ Size(N, b) <= m
      BY <2>1, <3>1 DEF Lower
    <3>. QED  BY <1>1, <2>1, <3>1, <3>2, SearchStep DEF Answers
  <2>. QED  BY <2>1, <2>2
<1>. HIDE DEF Good
<1>4. Good = Nat
  <2>1. Good \in SUBSET Nat
    BY DEF Good
  <2>. QED  BY <1>2, <1>3, <2>1, CountUp
<1>. QED  BY <1>4, RoomEnough DEF Good, Graph

\* There is a search: what is known of the calls that need less room gives what it answers
\* to one that needs a step more.
LEMMA SearchExists ==
    ASSUME NEW d, NEW N, Graph(d, N)
    PROVE  \E f : f = [c \in Calls(N) |-> Search(d, f, c)]
<1>. DEFINE Knows(f, m) == /\ f \in [Lower(N, m) -> Calls(N)]
                           /\ \A c \in Lower(N, m) : Answers(d, f, c)
            Good == {m \in Nat : \E f : Knows(f, m)}
<1>1. 0 \in Good
  <2>. DEFINE f == [c \in Lower(N, 0) |-> c]
  <2>1. ASSUME NEW c \in Lower(N, 0)
        PROVE  c \in Calls(N) /\ Answers(d, f, c)
    <3>1. c \in Calls(N) /\ Size(N, c) \in Nat
      BY SizeTyped DEF Lower, Graph
    <3>2. c.cycle
      BY <3>1 DEF Lower
    <3>. QED  BY <3>1, <3>2 DEF Search, Restores, Answers
  <2>2. Knows(f, 0)
    BY <2>1
  <2>. HIDE DEF Knows
  <2>. QED  BY <2>2
<1>2. ASSUME NEW m \in Good
      PROVE  m + 1 \in Good
  <2>1. m \in Nat /\ \E f : Knows(f, m)
    <3>. HIDE DEF Knows
    <3>. QED  OBVIOUS
  <2>2. PICK f : Knows(f, m)
    BY <2>1
  <2>. DEFINE g == [c \in Lower(N, m + 1) |-> IF c \in Lower(N, m) THEN f[c] ELSE Search(d, f, c)]
  <2>3. ASSUME NEW c \in Lower(N, m + 1)
        PROVE  c \in Calls(N) /\ (c.cycle \/ Size(N, c) <= m)
    <3>1. c \in Calls(N) /\ Size(N, c) \in Nat
      BY SizeTyped DEF Lower, Graph
    <3>. QED  BY <2>1, <3>1 DEF Lower
  <2>4. Lower(N, m) \subseteq Lower(N, m + 1)
    <3>1. ASSUME NEW c \in Lower(N, m)
          PROVE  c \in Lower(N, m + 1)
      <4>1. c \in Calls(N) /\ Size(N, c) \in Nat
        BY SizeTyped DEF Lower, Graph
      <4>. QED  BY <2>1, <4>1 DEF Lower
    <3>. QED  BY <3>1
  <2>5. ASSUME NEW c \in Lower(N, m + 1)
        PROVE  g[c] \in Calls(N) /\ Answers(d, g, c)
    <3>1. \A b \in Lower(N, m) : f[b] \in Calls(N) /\ Answers(d, f, b)
      BY <2>2
    <3>2. g[c] = Search(d, f, c)
      BY <3>1 DEF Answers
    <3>3. \A b \in Lower(N, m) : g[b] = f[b]
      BY <2>4
    <3>. HIDE DEF g
    <3>4. /\ Search(d, f, c) \in Calls(N) /\ Restores(c, Search(d, f, c))
          /\ Search(d, g, c) = Search(d, f, c)
      <4>1. m \in Nat /\ c \in Calls(N) /\ (c.cycle \/ Size(N, c) <= m)
        BY <2>1, <2>3
      <4>. HIDE DEF Knows, Good
      <4>2. /\ Search(d, f, c) \in Calls(N) /\ Restores(c, Search(d, f, c))
            /\ \A h : (\A b \in Lower(N, m) : h[b] = f[b]) => Search(d, h, c) = Search(d, f, c)
        BY <3>1, <4>1, SearchStep
      <4>. QED  BY <3>3, <4>2
    <3>. QED  BY <3>2, <3>4 DEF Answers
  <2>6. Knows(g, m + 1)
    <3>1. g \in [Lower(N, m + 1) -> Calls(N)]
      <4>1. g = [c \in Lower(N, m + 1) |-> g[c]]
        OBVIOUS
      <4>. HIDE DEF g
      <4>. QED  BY <2>5, <4>1
    <3>. HIDE DEF g
    <3>. QED  BY <2>5, <3>1
  <2>. HIDE DEF Knows
  <2>. QED  BY <2>1, <2>6
<1>3. Good = Nat
  <2>. HIDE DEF Knows
  <2>1. Good \in SUBSET Nat
    OBVIOUS
  <2>. HIDE DEF Good
  <2>. QED  BY <1>1, <1>2, <2>1, CountUp
<1>4. PICK m \in Nat : Lower(N, m) = Calls(N)
  BY RoomEnough DEF Graph
<1>5. PICK f : Knows(f, m)
  BY <1>3
<1>6. f = [c \in Calls(N) |-> f[c]] /\ \A c \in Calls(N) : f[c] = Search(d, f, c)
  BY <1>4, <1>5 DEF Answers
<1>. QED  BY <1>6

\* Nodes each with a successor among them, and what was searched without finding any: the
\* nodes behind it and no such nodes.
Loops(d, S) == S # {} /\ \A n \in S : Adjacent(d, n) \cap S # {}
Explored(d, V) ==
    /\ \A n \in V : Adjacent(d, n) \subseteq V
    /\ ~ \E S \in SUBSET V : Loops(d, S)

\* The nodes of a path lead to each other or to all that is left.
Leads(d, V, L) == \A n \in V : Adjacent(d, n) \cap V # {} \/ L \subseteq Adjacent(d, n)

\* What a call may count on, and what the answer says.
Ready(d, c) ==
    /\ ~c.cycle /\ c.visiting \cap c.visited = {}
    /\ Explored(d, c.visited) /\ Leads(d, c.visiting, c.left)
Decides(d, N, c, r) ==
    /\ r.cycle => \E S \in SUBSET N : Loops(d, S)
    /\ ~r.cycle => /\ r.visiting = c.visiting /\ r.visiting \cap r.visited = {}
                   /\ c.visited \cup c.left \subseteq r.visited /\ Explored(d, r.visited)

LEMMA ExploredGrows ==
    ASSUME NEW d, NEW V, Explored(d, V), NEW n, n \notin V, Adjacent(d, n) \subseteq V
    PROVE  Explored(d, V \cup {n})
<1>1. ASSUME NEW S \in SUBSET (V \cup {n}), Loops(d, S)
      PROVE  FALSE
  <2>1. ASSUME NEW m \in S
        PROVE  Adjacent(d, m) \cap S \cap V # {}
    <3>1. Adjacent(d, m) \subseteq V
      BY DEF Explored
    <3>. QED  BY <1>1, <3>1 DEF Loops
  <2>2. S \cap V # {}
    BY <1>1, <2>1 DEF Loops
  <2>3. \A m \in S \cap V : Adjacent(d, m) \cap (S \cap V) # {}
    BY <2>1
  <2>. QED  BY <2>2, <2>3 DEF Explored, Loops
<1>. QED  BY <1>1 DEF Explored

\* What a visit comes to.
LEMMA VisitDecides ==
    ASSUME NEW d, NEW N, Graph(d, N), NEW m \in Nat, NEW f,
           \A b \in Lower(N, m) : f[b] \in Calls(N) /\ (Ready(d, b) => Decides(d, N, b, f[b])),
           NEW c \in Calls(N), Ready(d, c), c.left # {}, Size(N, c) <= m
    PROVE  LET v == Visit(c, f[Under(d, c)])
           IN  /\ v \in Calls(N)
               /\ v.cycle => \E S \in SUBSET N : Loops(d, S)
               /\ ~v.cycle => /\ v.visiting = c.visiting /\ v.visiting \cap v.visited = {}
                              /\ c.visited \cup {NextOne(c)} \subseteq v.visited /\ Explored(d, v.visited)
<1>. DEFINE n == NextOne(c)  u == Under(d, c)  v == Visit(c, f[u])
<1>1. /\ n \in c.left /\ n \in N
      /\ u \in Calls(N) /\ u.left = Adjacent(d, n) /\ u.visiting = c.visiting \cup {n}
      /\ u.visited = c.visited /\ u.cycle = c.cycle
  BY UnderIsSmaller
<1>2. CASE n \in c.visited
  <2>1. v = c
    BY <1>2 DEF Visit
  <2>. HIDE DEF v
  <2>. QED  BY <1>2, <2>1 DEF Ready, v
<1>3. CASE n \notin c.visited /\ n \in c.visiting
  <2>1. v = [c EXCEPT !.cycle = TRUE]
    BY <1>3 DEF Visit
  <2>. HIDE DEF v, n
  <2>2. v \in Calls(N) /\ v.cycle
    BY <2>1 DEF Calls
  <2>3. Loops(d, c.visiting)
    BY <1>1, <1>3 DEF Ready, Leads, Loops
  <2>4. c.visiting \in SUBSET N
    BY DEF Calls
  <2>. QED  BY <2>2, <2>3, <2>4 DEF v
<1>4. CASE n \notin c.visited /\ n \notin c.visiting
  <2>. DEFINE r == f[u]
  <2>. HIDE DEF n
  <2>1. u \in Lower(N, m)
    <3>1. Size(N, u) < Size(N, c)
      BY <1>4, UnderIsSmaller DEF n
    <3>2. Size(N, u) \in Nat /\ Size(N, c) \in Nat
      BY <1>1, SizeTyped DEF Graph
    <3>3. Size(N, u) < m
      BY <3>1, <3>2
    <3>. QED  BY <1>1, <3>3 DEF Lower
  <2>2. Ready(d, u)
    <3>1. Leads(d, u.visiting, u.left)
      BY <1>1 DEF Ready, Leads
    <3>. QED  BY <1>1, <1>4, <3>1 DEF Ready
  <2>3. r \in Calls(N) /\ Decides(d, N, u, r)
    BY <2>1, <2>2
  <2>4. v = IF r.cycle THEN r ELSE [r EXCEPT !.visiting = @ \ {n}, !.visited = @ \cup {n}]
    BY <1>4 DEF Visit, n
  <2>. HIDE DEF v, r, u
  <2>5. CASE r.cycle
    BY <2>3, <2>4, <2>5 DEF Decides, v, u, r
  <2>6. CASE ~r.cycle
    <3>1. /\ v \in Calls(N) /\ ~v.cycle
          /\ v.visiting = r.visiting \ {n} /\ v.visited = r.visited \cup {n}
      BY <1>1, <2>3, <2>4, <2>6 DEF Calls
    <3>2. /\ r.visiting = c.visiting \cup {n} /\ r.visiting \cap r.visited = {}
          /\ c.visited \cup Adjacent(d, n) \subseteq r.visited /\ Explored(d, r.visited)
      BY <1>1, <2>3, <2>6 DEF Decides
    <3>3. v.visiting = c.visiting /\ v.visiting \cap v.visited = {} /\ c.visited \cup {n} \subseteq v.visited
      BY <1>4, <3>1, <3>2
    <3>4. Explored(d, v.visited)
      BY <3>1, <3>2, ExploredGrows
    <3>. QED  BY <3>1, <3>3, <3>4 DEF v, n, r, u
  <2>. QED  BY <2>5, <2>6
<1>. QED  BY <1>2, <1>3, <1>4

\* A search from a path that leads to what is left finds a cycle, or none and has explored it.
LEMMA SearchDecides ==
    ASSUME NEW d, NEW N, Graph(d, N), NEW f, f = [c \in Calls(N) |-> Search(d, f, c)],
           NEW c \in Calls(N), Ready(d, c)
    PROVE  Decides(d, N, c, f[c])
<1>. DEFINE Good == {m \in Nat : \A b \in Lower(N, m) : Ready(d, b) => Decides(d, N, b, f[b])}
<1>1. \A b \in Calls(N) : f[b] \in Calls(N) /\ f[b] = Search(d, f, b)
  BY AnswersAll DEF Answers
<1>2. 0 \in Good
  <2>1. ASSUME NEW b \in Lower(N, 0), Ready(d, b)
        PROVE  FALSE
    <3>1. b \in Calls(N) /\ Size(N, b) \in Nat
      BY SizeTyped DEF Lower, Graph
    <3>. QED  BY <2>1, <3>1 DEF Lower, Ready
  <2>. QED  BY <2>1
<1>3. ASSUME NEW m \in Good
      PROVE  m + 1 \in Good
  <2>1. m \in Nat /\ \A b \in Lower(N, m) : f[b] \in Calls(N) /\ (Ready(d, b) => Decides(d, N, b, f[b]))
    BY <1>1 DEF Lower
  <2>2. ASSUME NEW b \in Lower(N, m + 1), Ready(d, b)
        PROVE  Decides(d, N, b, f[b])
    <3>1. b \in Calls(N) /\ Size(N, b) \in Nat
      BY SizeTyped DEF Lower, Graph
    <3>2. Size(N, b) <= m
      BY <2>1, <2>2, <3>1 DEF Lower, Ready
    <3>3. CASE b.left = {}
      <4>1. f[b] = b
        BY <1>1, <3>1, <3>3 DEF Search
      <4>. QED  BY <2>2, <3>3, <4>1 DEF Decides, Ready
    <3>4. CASE b.left # {}
      <4>. DEFINE v == Visit(b, f[Under(d, b)])  r == Rest(b, v)  n == NextOne(b)
      <4>1. f[b] = f[r]
        BY <1>1, <2>2, <3>1, <3>4 DEF Search, Ready
      <4>. HIDE DEF Good
      <4>2. /\ v \in Calls(N)
            /\ v.cycle => \E S \in SUBSET N : Loops(d, S)
            /\ ~v.cycle => /\ v.visiting = b.visiting /\ v.visiting \cap v.visited = {}
                           /\ b.visited \cup {n} \subseteq v.visited /\ Explored(d, v.visited)
        BY <2>1, <2>2, <3>1, <3>2, <3>4, VisitDecides
      <4>. HIDE DEF v
      <4>3. /\ r \in Calls(N) /\ r.left = b.left \ {n} /\ r.visiting = v.visiting
            /\ r.visited = v.visited /\ r.cycle = v.cycle
            /\ v.visiting = b.visiting => Size(N, r) < Size(N, b)
        BY <3>1, <3>4, <4>2, RestIsSmaller
      <4>. HIDE DEF r, n
      <4>4. CASE v.cycle
        <5>1. f[r] = r
          BY <1>1, <4>3, <4>4 DEF Search
        <5>. QED  BY <4>1, <4>2, <4>3, <4>4, <5>1 DEF Decides
      <4>5. CASE ~v.cycle
        <5>1. r \in Lower(N, m)
          <6>1. Size(N, r) \in Nat
            BY <4>3, SizeTyped DEF Graph
          <6>2. Size(N, r) < m
            BY <2>1, <3>1, <3>2, <4>2, <4>3, <4>5, <6>1
          <6>. QED  BY <4>3, <6>2 DEF Lower
        <5>2. Ready(d, r)
          <6>1. Leads(d, r.visiting, r.left)
            BY <2>2, <4>2, <4>3, <4>5 DEF Ready, Leads
          <6>. QED  BY <4>2, <4>3, <4>5, <6>1 DEF Ready
        <5>3. Decides(d, N, r, f[r])
          BY <2>1, <5>1, <5>2
        <5>. QED  BY <4>1, <4>2, <4>3, <4>5, <5>3 DEF Decides
      <4>. QED  BY <4>4, <4>5
    <3>. QED  BY <3>3, <3>4
  <2>. QED  BY <2>1, <2>2
<1>. HIDE DEF Good
<1>4. Good = Nat
  <2>1. Good \in SUBSET Nat
    BY DEF Good
  <2>. QED  BY <1>2, <1>3, <2>1, CountUp
<1>. QED  BY <1>4, RoomEnough DEF Good, Graph

\* hasCycle: its search over the nodes of a definition finds a cycle if and only if some of
\* its steps each have a successor among them.
LEMMA HasCycleFinds ==
    ASSUME NEW d, IsFiniteSet(NodesOf(d)),
           \A i \in DOMAIN d.edges : d.edges[i].target \in NodesOf(d)
    PROVE  HasCycle(d) <=> Cyclic(d)
<1>. DEFINE N == NodesOf(d)
            f == CHOOSE g : g = [c \in Calls(N) |-> Search(d, g, c)]
            start == [left |-> N, visiting |-> {}, visited |-> {}, cycle |-> FALSE]
<1>1. Graph(d, N) /\ N \cup {d.edges[i].target : i \in DOMAIN d.edges} = N
  BY DEF Graph, Adjacent, Out
<1>2. HasCycle(d) <=> f[start].cycle
  BY <1>1 DEF HasCycle, Calls, Search, Rest, Visit, Under, NextOne
<1>. HIDE DEF N
<1>3. f = [c \in Calls(N) |-> Search(d, f, c)]
  BY <1>1, SearchExists
<1>4. start \in Calls(N) /\ Ready(d, start)
  BY DEF Calls, Ready, Explored, Leads, Loops
<1>. HIDE DEF f
<1>5. f[start] \in Calls(N) /\ Decides(d, N, start, f[start])
  <2>. HIDE DEF start
  <2>. QED  BY <1>1, <1>3, <1>4, AnswersAll, SearchDecides
<1>6. Cyclic(d) <=> \E S \in SUBSET N : Loops(d, S)
  BY DEF Cyclic, Loops, N
<1>7. CASE f[start].cycle
  BY <1>2, <1>5, <1>6, <1>7 DEF Decides
<1>8. CASE ~f[start].cycle
  <2>1. N \subseteq f[start].visited /\ Explored(d, f[start].visited)
    BY <1>5, <1>8 DEF Decides
  <2>. QED  BY <1>2, <1>6, <1>8, <2>1 DEF Explored
<1>. QED  BY <1>7, <1>8
----------------------------------------------------------------------------

(***************************************************************************)
(* What a filter picks.                                                    *)
(***************************************************************************)

\* The elements of a sequence, and one without equal elements.
Items(seq) == {seq[i] : i \in DOMAIN seq}
Distinct(seq) == \A i, j \in DOMAIN seq : seq[i] = seq[j] => i = j

\* The places, among the first n of a sequence, that a filter takes: in their order, those
\* whose element belongs to T.
Picks(g, seq, T, n, picked) ==
    /\ g \in [1..Len(picked) -> 1..n]
    /\ \A a, b \in 1..Len(picked) : a < b => g[a] < g[b]
    /\ {g[a] : a \in 1..Len(picked)} = {i \in 1..n : seq[i] \in T}
    /\ \A a \in 1..Len(picked) : picked[a] = seq[g[a]]

LEMMA KeptPicks ==
    ASSUME NEW S, NEW seq \in Seq(S), NEW T
    PROVE  Kept(seq, T) \in Seq(S) /\ \E g : Picks(g, seq, T, Len(seq), Kept(seq, T))
<1>1. Len(seq) \in Nat
  OBVIOUS
<1>2. PICK kept : Filters(kept, seq, T, Len(seq)) /\ Kept(seq, T) = kept[Len(seq)]
  BY KeptFilters
<1>. DEFINE Is(n) == kept[n] \in Seq(S) /\ \E g : Picks(g, seq, T, n, kept[n])
            Good == {n \in Nat : n <= Len(seq) => Is(n)}
<1>3. 0 \in Good
  <2>1. kept[0] = << >>
    BY <1>2 DEF Filters
  <2>. DEFINE g == [i \in 1..0 |-> 0]
  <2>2. Len(kept[0]) = 0 /\ kept[0] \in Seq(S)
    BY <2>1
  <2>3. 1..0 = {} /\ {i \in 1..0 : seq[i] \in T} = {}
    OBVIOUS
  <2>4. Picks(g, seq, T, 0, kept[0])
    BY <2>2, <2>3 DEF Picks
  <2>5. Is(0)
    BY <2>2, <2>4
  <2>. HIDE DEF Is
  <2>. QED  BY <2>5
<1>4. ASSUME NEW m \in Good
      PROVE  m + 1 \in Good
  <2>0. SUFFICES ASSUME m + 1 <= Len(seq) PROVE Is(m + 1)
    <3>1. m + 1 \in Nat
      OBVIOUS
    <3>. HIDE DEF Is
    <3>. QED  BY <3>1
  <2>1. m \in Nat /\ m + 1 \in 1..Len(seq) /\ m <= Len(seq) /\ (m + 1) - 1 = m
    <3>1. m \in Nat
      OBVIOUS
    <3>. HIDE DEF Good
    <3>. QED  BY <1>1, <2>0, <3>1
  <2>. DEFINE k == kept[m]  x == seq[m + 1]
  <2>2. x \in S /\ Is(m)
    <3>1. x \in S
      BY <2>1
    <3>. HIDE DEF Is
    <3>. QED  BY <2>1, <3>1
  <2>3. kept[m + 1] = IF x \in T THEN Append(k, x) ELSE k
    BY <1>2, <2>1 DEF Filters
  <2>4. k \in Seq(S) /\ Len(k) \in Nat
    BY <2>2
  <2>5. PICK g : Picks(g, seq, T, m, k)
    BY <2>2
  <2>6. {i \in 1..(m + 1) : seq[i] \in T}
            = IF x \in T THEN {i \in 1..m : seq[i] \in T} \cup {m + 1} ELSE {i \in 1..m : seq[i] \in T}
    BY <2>1
  <2>. HIDE DEF k, x
  <2>7. CASE x \in T
    <3>. DEFINE l == Len(k)
                h == [a \in 1..(l + 1) |-> IF a = l + 1 THEN m + 1 ELSE g[a]]
                K == Append(k, x)
    <3>1. K \in Seq(S) /\ Len(K) = l + 1 /\ K[l + 1] = x /\ \A a \in 1..l : K[a] = k[a]
      BY <2>2, <2>4 DEF x
    <3>2. l \in Nat /\ h[l + 1] = m + 1 /\ \A a \in 1..l : h[a] = g[a] /\ a \in 1..(l + 1)
      BY <2>4
    <3>3. \A a \in 1..(l + 1) : a \in 1..l \/ a = l + 1
      BY <3>2
    <3>4. g \in [1..l -> 1..m] /\ (\A a, b \in 1..l : a < b => g[a] < g[b])
          /\ {g[a] : a \in 1..l} = {i \in 1..m : seq[i] \in T} /\ \A a \in 1..l : k[a] = seq[g[a]]
      BY <2>5 DEF Picks
    <3>5. h \in [1..(l + 1) -> 1..(m + 1)]
      BY <2>1, <3>2, <3>3, <3>4
    <3>. HIDE DEF h, K, l
    <3>6. ASSUME NEW a \in 1..(l + 1), NEW b \in 1..(l + 1), a < b
          PROVE  h[a] < h[b]
      <4>1. a \in 1..l
        BY <3>2, <3>3, <3>6
      <4>2. CASE b = l + 1
        <5>1. g[a] \in 1..m
          BY <3>4, <4>1
        <5>2. g[a] < m + 1
          BY <2>1, <5>1
        <5>. QED  BY <3>2, <4>1, <4>2, <5>2
      <4>3. CASE b \in 1..l
        BY <3>2, <3>4, <3>6, <4>1, <4>3
      <4>. QED  BY <3>3, <4>2, <4>3
    <3>7. {h[a] : a \in 1..(l + 1)} = {g[a] : a \in 1..l} \cup {m + 1}
      <4>1. l + 1 \in 1..(l + 1)
        BY <3>2
      <4>. QED  BY <3>2, <3>3, <4>1
    <3>8. \A a \in 1..(l + 1) : K[a] = seq[h[a]]
      BY <3>1, <3>2, <3>3, <3>4 DEF x
    <3>9. Picks(h, seq, T, m + 1, K)
      BY <2>6, <2>7, <3>1, <3>4, <3>5, <3>6, <3>7, <3>8 DEF Picks
    <3>10. kept[m + 1] = K
      BY <2>3, <2>7 DEF K
    <3>. QED  BY <3>1, <3>9, <3>10
  <2>8. CASE x \notin T
    <3>1. g \in [1..Len(k) -> 1..(m + 1)]
      <4>1. 1..m \subseteq 1..(m + 1)
        BY <2>1
      <4>2. g \in [1..Len(k) -> 1..m]
        BY <2>5 DEF Picks
      <4>. QED  BY <4>1, <4>2
    <3>2. Picks(g, seq, T, m + 1, k)
      BY <2>5, <2>6, <2>8, <3>1 DEF Picks
    <3>. QED  BY <2>3, <2>4, <2>8, <3>2
  <2>. QED  BY <2>7, <2>8
<1>5. Good = Nat
  <2>. HIDE DEF Is
  <2>1. Good \in SUBSET Nat
    OBVIOUS
  <2>. HIDE DEF Good
  <2>. QED  BY <1>3, <1>4, <2>1, CountUp
<1>6. Is(Len(seq))
  BY <1>1, <1>5
<1>. QED  BY <1>2, <1>6

\* Two places of what is kept come from two of the sequence, and as many are kept as belong.
LEMMA KeptDistinct ==
    ASSUME NEW S, NEW seq \in Seq(S), NEW T
    PROVE  /\ Distinct(seq) => Distinct(Kept(seq, T))
           /\ Len(Kept(seq, T)) = Cardinality({i \in DOMAIN seq : seq[i] \in T})
<1>. DEFINE k == Kept(seq, T)
<1>1. k \in Seq(S) /\ \E g : Picks(g, seq, T, Len(seq), k)
  BY KeptPicks
<1>. HIDE DEF k
<1>2. PICK g : Picks(g, seq, T, Len(seq), k)
  BY <1>1
<1>3. DOMAIN k = 1..Len(k) /\ Len(k) \in Nat /\ DOMAIN seq = 1..Len(seq) /\ Len(seq) \in Nat
  BY <1>1
<1>4. \A a, b \in 1..Len(k) : g[a] = g[b] => a = b
  <2>1. ASSUME NEW a \in 1..Len(k), NEW b \in 1..Len(k), g[a] = g[b], a # b
        PROVE  FALSE
    <3>1. g[a] \in Int /\ g[b] \in Int
      BY <1>2, <1>3 DEF Picks
    <3>2. a < b \/ b < a
      BY <1>3, <2>1
    <3>. QED  BY <1>2, <2>1, <3>1, <3>2 DEF Picks
  <2>. QED  BY <2>1
<1>5. ASSUME Distinct(seq), NEW a \in DOMAIN k, NEW b \in DOMAIN k, k[a] = k[b]
      PROVE  a = b
  <2>1. k[a] = seq[g[a]] /\ k[b] = seq[g[b]] /\ g[a] \in DOMAIN seq /\ g[b] \in DOMAIN seq
    BY <1>2, <1>3 DEF Picks
  <2>. QED  BY <1>3, <1>4, <1>5, <2>1 DEF Distinct
<1>6. Len(k) = Cardinality({i \in DOMAIN seq : seq[i] \in T})
  <2>. DEFINE I == {i \in DOMAIN seq : seq[i] \in T}
  <2>1. g \in Bijection(1..Len(k), I)
    <3>1. g \in [1..Len(k) -> 1..Len(seq)] /\ {g[a] : a \in 1..Len(k)} = I
      BY <1>2, <1>3 DEF Picks
    <3>. HIDE DEF I
    <3>2. g \in [1..Len(k) -> I]
      BY <3>1
    <3>3. \A i \in I : \E a \in 1..Len(k) : g[a] = i
      BY <3>1
    <3>. QED  BY <1>4, <3>2, <3>3, Fun_IsBij
  <2>. HIDE DEF I
  <2>2. ExistsBijection(1..Len(k), I)
    BY <2>1 DEF ExistsBijection
  <2>. QED  BY <1>3, <2>2, FS_CountingElements DEF I
<1>7. Distinct(seq) => Distinct(k)
  BY <1>5 DEF Distinct
<1>. QED  BY <1>6, <1>7 DEF k

----------------------------------------------------------------------------
(***************************************************************************)
(* The edits of the canvas, as what they do to the steps and the edges.    *)
(***************************************************************************)

LEMMA ItemsFinite ==
    ASSUME NEW S, NEW seq \in Seq(S)
    PROVE  /\ IsFiniteSet(Items(seq)) /\ Items(seq) \subseteq S
           /\ Distinct(seq) => Cardinality(Items(seq)) = Len(seq)
           /\ DOMAIN seq = 1..Len(seq) /\ Len(seq) \in Nat
<1>1. DOMAIN seq = 1..Len(seq) /\ Len(seq) \in Nat /\ seq \in [1..Len(seq) -> S]
  OBVIOUS
<1>2. IsFiniteSet(1..Len(seq))
  BY <1>1, FS_Interval
<1>3. IsFiniteSet(Items(seq))
  <2>1. seq \in Surjection(1..Len(seq), Items(seq))
    <3>1. seq \in [1..Len(seq) -> Items(seq)] /\ \A x \in Items(seq) : \E i \in 1..Len(seq) : seq[i] = x
      BY <1>1 DEF Items
    <3>. QED  BY <3>1, Fun_IsSurj
  <2>. QED  BY <1>2, <2>1, FS_Surjection
<1>4. ASSUME Distinct(seq)
      PROVE  Cardinality(Items(seq)) = Len(seq)
  <2>1. seq \in [1..Len(seq) -> Items(seq)]
    BY <1>1 DEF Items
  <2>2. \A x \in Items(seq) : \E i \in 1..Len(seq) : seq[i] = x
    BY <1>1 DEF Items
  <2>3. \A i, j \in 1..Len(seq) : seq[i] = seq[j] => i = j
    BY <1>1, <1>4 DEF Distinct
  <2>4. seq \in Bijection(1..Len(seq), Items(seq))
    BY <2>1, <2>2, <2>3, Fun_IsBij
  <2>5. ExistsBijection(1..Len(seq), Items(seq))
    BY <2>4 DEF ExistsBijection
  <2>. QED  BY <1>1, <2>5, FS_CountingElements
<1>5. Items(seq) \subseteq S
  BY <1>1 DEF Items
<1>. QED  BY <1>1, <1>3, <1>4, <1>5

LEMMA ItemsAppend ==
    ASSUME NEW S, NEW seq \in Seq(S), NEW x \in S
    PROVE  /\ Append(seq, x) \in Seq(S) /\ Len(Append(seq, x)) = Len(seq) + 1
           /\ Items(Append(seq, x)) = Items(seq) \cup {x}
           /\ Distinct(seq) /\ x \notin Items(seq) => Distinct(Append(seq, x))
<1>. DEFINE t == Append(seq, x)
<1>1. /\ t \in Seq(S) /\ Len(t) = Len(seq) + 1 /\ Len(seq) \in Nat
      /\ DOMAIN seq = 1..Len(seq) /\ DOMAIN t = 1..(Len(seq) + 1)
      /\ t[Len(seq) + 1] = x /\ \A i \in 1..Len(seq) : t[i] = seq[i]
  OBVIOUS
<1>. HIDE DEF t
<1>2. 1..(Len(seq) + 1) = 1..Len(seq) \cup {Len(seq) + 1}
  BY <1>1
<1>3. Items(t) = Items(seq) \cup {x}
  BY <1>1, <1>2 DEF Items
<1>4. ASSUME Distinct(seq), x \notin Items(seq)
      PROVE  Distinct(t)
  BY <1>1, <1>2, <1>4 DEF Distinct, Items
<1>. QED  BY <1>1, <1>3, <1>4 DEF t

LEMMA ItemsConcat ==
    ASSUME NEW S, NEW s \in Seq(S), NEW t \in Seq(S)
    PROVE  /\ s \o t \in Seq(S) /\ Len(s \o t) = Len(s) + Len(t)
           /\ Items(s \o t) = Items(s) \cup Items(t)
           /\ Distinct(s) /\ Distinct(t) /\ Items(s) \cap Items(t) = {} => Distinct(s \o t)
<1>. DEFINE u == s \o t  m == Len(s)  n == Len(t)
<1>1. /\ u \in Seq(S) /\ Len(u) = m + n /\ m \in Nat /\ n \in Nat
      /\ DOMAIN s = 1..m /\ DOMAIN t = 1..n /\ DOMAIN u = 1..(m + n)
      /\ \A i \in 1..m : u[i] = s[i]
      /\ \A i \in 1..(m + n) : i > m => u[i] = t[i - m]
  OBVIOUS
<1>. HIDE DEF u, m, n
<1>2. \A i \in 1..n : u[m + i] = t[i] /\ m + i \in 1..(m + n)
  BY <1>1
<1>3. ASSUME NEW i \in 1..(m + n)
      PROVE  \/ i \in 1..m /\ u[i] = s[i]
             \/ i - m \in 1..n /\ u[i] = t[i - m] /\ ~(i \in 1..m)
  BY <1>1
<1>4. Items(u) \subseteq Items(s) \cup Items(t)
  BY <1>1, <1>3 DEF Items
<1>5. Items(s) \subseteq Items(u) /\ Items(t) \subseteq Items(u)
  <2>1. \A i \in 1..m : i \in 1..(m + n)
    BY <1>1
  <2>2. Items(s) \subseteq Items(u)
    BY <1>1, <2>1 DEF Items
  <2>3. ASSUME NEW i \in 1..n
        PROVE  t[i] \in Items(u)
    BY <1>1, <1>2 DEF Items
  <2>. QED  BY <1>1, <2>2, <2>3 DEF Items
<1>6. ASSUME Distinct(s), Distinct(t), Items(s) \cap Items(t) = {},
             NEW i \in 1..(m + n), NEW j \in 1..(m + n), u[i] = u[j]
      PROVE  i = j
  <2>1. CASE i \in 1..m /\ j \in 1..m
    BY <1>1, <1>6, <2>1 DEF Distinct
  <2>2. CASE i - m \in 1..n /\ u[i] = t[i - m] /\ j - m \in 1..n /\ u[j] = t[j - m]
    <3>1. i - m = j - m
      BY <1>1, <1>6, <2>2 DEF Distinct
    <3>. QED  BY <1>1, <3>1
  <2>3. CASE \/ i \in 1..m /\ u[i] = s[i] /\ j - m \in 1..n /\ u[j] = t[j - m]
             \/ j \in 1..m /\ u[j] = s[j] /\ i - m \in 1..n /\ u[i] = t[i - m]
    BY <1>1, <1>6, <2>3 DEF Items
  <2>. QED  BY <1>3, <2>1, <2>2, <2>3
<1>7. Distinct(s) /\ Distinct(t) /\ Items(s) \cap Items(t) = {} => Distinct(u)
  BY <1>1, <1>6 DEF Distinct
<1>. QED  BY <1>1, <1>4, <1>5, <1>7 DEF u, m, n

LEMMA ItemsOne ==
    ASSUME NEW S, NEW x \in S
    PROVE  <<x>> \in Seq(S) /\ Len(<<x>>) = 1 /\ Items(<<x>>) = {x} /\ Distinct(<<x>>)
<1>1. <<x>> \in Seq(S) /\ Len(<<x>>) = 1 /\ DOMAIN <<x>> = {1} /\ <<x>>[1] = x
  OBVIOUS
<1>. QED  BY <1>1 DEF Items, Distinct

LEMMA ItemsKept ==
    ASSUME NEW S, NEW seq \in Seq(S), NEW T
    PROVE  /\ Kept(seq, T) \in Seq(S) /\ Items(Kept(seq, T)) = Items(seq) \cap T
           /\ Len(Kept(seq, T)) = Cardinality({i \in DOMAIN seq : seq[i] \in T})
           /\ Distinct(seq) => Distinct(Kept(seq, T))
<1>. DEFINE k == Kept(seq, T)
<1>1. k \in Seq(S) /\ {k[i] : i \in DOMAIN k} = {seq[i] : i \in DOMAIN seq} \cap T
  BY KeptOnly
<1>2. /\ Distinct(seq) => Distinct(k)
      /\ Len(k) = Cardinality({i \in DOMAIN seq : seq[i] \in T})
  BY KeptDistinct
<1>. HIDE DEF k
<1>3. Items(k) = Items(seq) \cap T
  BY <1>1 DEF Items
<1>. QED  BY <1>1, <1>2, <1>3 DEF k

\* The edges at the other positions are left.
LEMMA ItemsWithout ==
    ASSUME NEW edges \in Seq(Edge), NEW I
    PROVE  /\ Without(edges, I) \in Seq(Edge)
           /\ Items(Without(edges, I)) = {edges[i] : i \in DOMAIN edges \ I}
           /\ Len(Without(edges, I)) = Cardinality(DOMAIN edges \ I)
<1>. DEFINE all == [i \in DOMAIN edges |-> i]
            kept == Kept(all, DOMAIN edges \ I)
<1>1. Len(edges) \in Nat /\ DOMAIN edges = 1..Len(edges)
  OBVIOUS
<1>2. all \in Seq(DOMAIN edges) /\ DOMAIN all = DOMAIN edges /\ \A i \in DOMAIN edges : all[i] = i
  BY <1>1
<1>. HIDE DEF all
<1>3. kept \in Seq(DOMAIN edges) /\ Items(kept) = DOMAIN edges \ I /\ Len(kept) = Cardinality(DOMAIN edges \ I)
  <2>. DEFINE J == DOMAIN edges \ I
  <2>1. J \subseteq DOMAIN edges
    OBVIOUS
  <2>. HIDE DEF J
  <2>. DEFINE k == Kept(all, J)  K == {i \in DOMAIN all : all[i] \in J}
  <2>2. k \in Seq(DOMAIN edges) /\ Items(k) = Items(all) \cap J /\ Len(k) = Cardinality(K)
    BY <1>2, ItemsKept
  <2>3. Items(all) = DOMAIN edges
    BY <1>2 DEF Items
  <2>4. K = J
    BY <1>2, <2>1
  <2>. HIDE DEF k, K
  <2>5. k \in Seq(DOMAIN edges) /\ Items(k) = J /\ Len(k) = Cardinality(J)
    BY <2>1, <2>2, <2>3, <2>4
  <2>. QED  BY <2>5 DEF J, k
<1>4. Without(edges, I) = [k \in DOMAIN kept |-> edges[kept[k]]]
  BY DEF Without, all
<1>. HIDE DEF kept
<1>5. \A k \in DOMAIN kept : edges[kept[k]] \in Edge
  BY <1>3
<1>6. DOMAIN kept = 1..Len(kept) /\ Len(kept) \in Nat
  BY <1>3
<1>. DEFINE w == [k \in DOMAIN kept |-> edges[kept[k]]]
<1>7. w \in Seq(Edge) /\ DOMAIN w = 1..Len(kept) /\ Len(w) = Len(kept) /\ \A k \in 1..Len(kept) : w[k] = edges[kept[k]]
  BY <1>5, <1>6
<1>8. Items(w) = {edges[i] : i \in DOMAIN edges \ I}
  <2>. HIDE DEF w
  <2>1. \A i \in DOMAIN edges \ I : \E k \in 1..Len(kept) : kept[k] = i
    BY <1>3, <1>6 DEF Items
  <2>2. \A k \in 1..Len(kept) : kept[k] \in DOMAIN edges \ I
    BY <1>3, <1>6 DEF Items
  <2>3. ASSUME NEW k \in 1..Len(kept)
        PROVE  w[k] \in {edges[i] : i \in DOMAIN edges \ I}
    BY <1>7, <2>2
  <2>4. ASSUME NEW i \in DOMAIN edges \ I
        PROVE  \E k \in 1..Len(kept) : w[k] = edges[i]
    BY <1>7, <2>1
  <2>5. Items(w) = {w[k] : k \in 1..Len(kept)}
    BY <1>7 DEF Items
  <2>. QED  BY <2>3, <2>4, <2>5
<1>. QED  BY <1>3, <1>4, <1>7, <1>8

\* A definition as the canvas holds it: no id occurs twice, and edges join its steps.
Neat(d) ==
    /\ TypedDefinition(d) /\ Distinct(d.nodes)
    /\ \A x \in Items(d.edges) : x.source \in NodesOf(d) /\ x.target \in NodesOf(d)

LEMMA AdjacentItems ==
    ASSUME NEW d, NEW a, NEW b
    PROVE  b \in Adjacent(d, a) <=> \E x \in Items(d.edges) : x.source = a /\ x.target = b
BY DEF Adjacent, Out, Items

LEMMA NeatFinite ==
    ASSUME NEW d, Neat(d)
    PROVE  /\ IsFiniteSet(NodesOf(d)) /\ NodesOf(d) = Items(d.nodes) /\ NodesOf(d) \subseteq Steps
           /\ Cardinality(NodesOf(d)) = Len(d.nodes) /\ Len(d.nodes) \in Nat
           /\ \A a : Adjacent(d, a) \subseteq NodesOf(d)
           /\ \A a : Adjacent(d, a) # {} => a \in NodesOf(d)
           /\ HasCycle(d) <=> Cyclic(d)
<1>. DEFINE k == d.nodes
<1>1. k \in Seq(Steps) /\ Distinct(k) /\ NodesOf(d) = Items(k)
  BY DEF Neat, TypedDefinition, NodesOf, Items
<1>2. /\ IsFiniteSet(Items(k)) /\ Items(k) \subseteq Steps
      /\ Cardinality(Items(k)) = Len(k) /\ Len(k) \in Nat
  <2>. HIDE DEF k
  <2>. QED  BY <1>1, ItemsFinite
<1>3. \A i \in DOMAIN d.edges : d.edges[i].source \in NodesOf(d) /\ d.edges[i].target \in NodesOf(d)
  BY DEF Neat, Items
<1>4. HasCycle(d) <=> Cyclic(d)
  BY <1>1, <1>2, <1>3, HasCycleFinds
<1>. QED  BY <1>1, <1>2, <1>3, <1>4 DEF Adjacent, Out

\* buildDraftFromCanvas changes the order of the steps only.
LEMMA OrderedKeeps ==
    ASSUME NEW d, d = [nodes |-> d.nodes, type |-> d.type, edges |-> d.edges], Neat(d)
    PROVE  LET e == Ordered(d)
           IN  /\ Neat(e) /\ NodesOf(e) = NodesOf(d) /\ e.type = d.type /\ e.edges = d.edges
               /\ Len(e.nodes) = Len(d.nodes)
<1>. DEFINE k == d.nodes
            T == Typed(d, {"trigger"})
            U == Typed(d, StepTypes \ {"trigger"})
            e == Ordered(d)
<1>1. e.nodes = Kept(k, T) \o Kept(k, U) /\ e.type = d.type /\ e.edges = d.edges
  <2>. DEFINE new == Kept(k, T) \o Kept(k, U)
  <2>1. Ordered(d) = [d EXCEPT !.nodes = new]
    BY DEF Ordered
  <2>. HIDE DEF new
  <2>. QED  BY <2>1 DEF new
<1>2. k \in Seq(Steps) /\ Distinct(k) /\ NodesOf(d) = Items(k)
  BY DEF Neat, TypedDefinition, NodesOf, Items
<1>3. T \cup U = NodesOf(d) /\ T \cap U = {} /\ T \subseteq NodesOf(d) /\ U \subseteq NodesOf(d)
  BY DEF Neat, TypedDefinition, Typed, StepTypes
<1>. HIDE DEF T, U, k, e
<1>4. /\ Kept(k, T) \in Seq(Steps) /\ Items(Kept(k, T)) = T /\ Distinct(Kept(k, T))
      /\ Kept(k, U) \in Seq(Steps) /\ Items(Kept(k, U)) = U /\ Distinct(Kept(k, U))
  <2>1. ASSUME NEW X, X \subseteq NodesOf(d)
        PROVE  Kept(k, X) \in Seq(Steps) /\ Items(Kept(k, X)) = X /\ Distinct(Kept(k, X))
    <3>1. Kept(k, X) \in Seq(Steps) /\ Items(Kept(k, X)) = Items(k) \cap X /\ Distinct(Kept(k, X))
      BY <1>2, ItemsKept
    <3>. QED  BY <1>2, <2>1, <3>1
  <2>. QED  BY <1>3, <2>1
<1>5. e.nodes \in Seq(Steps) /\ Items(e.nodes) = NodesOf(d) /\ Distinct(e.nodes)
  <2>. DEFINE s == Kept(k, T)  t == Kept(k, U)
  <2>. HIDE DEF s, t
  <2>1. s \in Seq(Steps) /\ t \in Seq(Steps) /\ Items(s) = T /\ Items(t) = U /\ Distinct(s) /\ Distinct(t)
    BY <1>4 DEF s, t
  <2>2. s \o t \in Seq(Steps) /\ Items(s \o t) = Items(s) \cup Items(t) /\ Distinct(s \o t)
    BY <1>3, <2>1, ItemsConcat
  <2>. QED  BY <1>1, <1>3, <2>1, <2>2 DEF s, t
<1>6. NodesOf(e) = NodesOf(d)
  BY <1>5 DEF NodesOf, Items
<1>7. Neat(e)
  BY <1>1, <1>5, <1>6 DEF Neat, TypedDefinition
<1>8. Len(e.nodes) = Len(d.nodes)
  BY <1>6, <1>7, NeatFinite
<1>. QED  BY <1>1, <1>6, <1>7, <1>8 DEF e

\* A step that only leads where those that lead to it led is on no new cycle.
LEMMA GrowsAcyclic ==
    ASSUME NEW d, NEW e, NEW n, n \notin NodesOf(d), NodesOf(e) = NodesOf(d) \cup {n}, n \notin Adjacent(e, n),
           \A a \in NodesOf(d) : /\ Adjacent(e, a) \subseteq Adjacent(d, a) \cup {n}
                                 /\ n \in Adjacent(e, a) => Adjacent(e, n) \subseteq Adjacent(d, a),
           ~Cyclic(d)
    PROVE  ~Cyclic(e)
<1>. SUFFICES ASSUME NEW S \in SUBSET NodesOf(e), Loops(e, S)
              PROVE  \E C \in SUBSET NodesOf(d) : Loops(d, C)
  BY DEF Cyclic, Loops
<1>1. n \in S => Adjacent(e, n) \cap (S \ {n}) # {}
  BY DEF Loops
<1>2. S \ {n} # {}
  BY <1>1 DEF Loops
<1>3. ASSUME NEW a \in S \ {n}
      PROVE  Adjacent(d, a) \cap (S \ {n}) # {}
  <2>1. PICK b \in S : b \in Adjacent(e, a)
    BY DEF Loops
  <2>2. CASE b = n
    BY <1>1, <2>1, <2>2
  <2>3. CASE b # n
    BY <2>1, <2>3
  <2>. QED  BY <2>2, <2>3
<1>4. S \ {n} \in SUBSET NodesOf(d)
  OBVIOUS
<1>. QED  BY <1>2, <1>3, <1>4 DEF Loops

\* Nor is one without a step, whose neighbours may be joined.
LEMMA ShrinksAcyclic ==
    ASSUME NEW d, NEW e, NEW n \in NodesOf(d), NodesOf(e) = NodesOf(d) \ {n},
           \A a \in NodesOf(e) : \A b \in Adjacent(e, a) :
               b \in Adjacent(d, a) \/ (n \in Adjacent(d, a) /\ b \in Adjacent(d, n)),
           ~Cyclic(d)
    PROVE  ~Cyclic(e)
<1>. SUFFICES ASSUME NEW S \in SUBSET NodesOf(e), Loops(e, S)
              PROVE  \E C \in SUBSET NodesOf(d) : Loops(d, C)
  BY DEF Cyclic, Loops
<1>1. CASE Adjacent(d, n) \cap S # {}
  <2>1. Loops(d, S \cup {n})
    BY <1>1 DEF Loops
  <2>. QED  BY <2>1
<1>2. CASE Adjacent(d, n) \cap S = {}
  <2>1. Loops(d, S)
    BY <1>2 DEF Loops
  <2>. QED  BY <2>1
<1>. QED  BY <1>1, <1>2

\* Without a cycle some step is entered by no edge: in a smallest set of steps each entered
\* from within the set, each would lead into it as well.
LEMMA StartExists ==
    ASSUME NEW d, Neat(d), NodesOf(d) # {}, ~Cyclic(d)
    PROVE  \E n \in NodesOf(d) : \A a : n \notin Adjacent(d, a)
<1>. DEFINE Fed(S) == S # {} /\ \A n \in S : \E a \in S : n \in Adjacent(d, a)
            Sizes == {Cardinality(S) : S \in {S \in SUBSET NodesOf(d) : Fed(S)}}
<1>1. ASSUME NEW S \in SUBSET NodesOf(d)
      PROVE  IsFiniteSet(S) /\ Cardinality(S) \in Nat
  BY NeatFinite, FS_Subset, FS_CardinalityType
<1>. SUFFICES ASSUME \A n \in NodesOf(d) : \E a : n \in Adjacent(d, a)
              PROVE  FALSE
  OBVIOUS
<1>2. Fed(NodesOf(d))
  BY NeatFinite
<1>3. Sizes \in SUBSET Nat /\ Sizes # {}
  BY <1>1, <1>2
<1>4. PICK S \in SUBSET NodesOf(d) : Fed(S) /\ \A R \in SUBSET NodesOf(d) : Fed(R) => Cardinality(S) <= Cardinality(R)
  <2>1. PICK k \in Sizes : IsLeast(k, Sizes)
    <3>. HIDE DEF Sizes
    <3>. QED  BY <1>3, LeastOne
  <2>. QED  BY <2>1 DEF IsLeast
<1>5. ASSUME NEW n \in S, Adjacent(d, n) \cap S = {}
      PROVE  FALSE
  <2>1. Fed(S \ {n})
    BY <1>4, <1>5
  <2>2. Cardinality(S \ {n}) = Cardinality(S) - 1
    BY <1>1, FS_RemoveElement
  <2>3. Cardinality(S) <= Cardinality(S \ {n}) /\ Cardinality(S) \in Nat
    BY <1>1, <1>4, <2>1
  <2>. QED  BY <2>2, <2>3
<1>. QED  BY <1>4, <1>5 DEF Cyclic

\* The API accepts a canvas with a step and without a cycle.
LEMMA NeatAccepted ==
    ASSUME NEW d, Neat(d), d.nodes # << >>, ~Cyclic(d)
    PROVE  ServerAccepts(d)
<1>1. NodesOf(d) # {}
  <2>. DEFINE k == d.nodes
  <2>1. k \in Seq(Steps) /\ k # << >>
    BY DEF Neat, TypedDefinition
  <2>. HIDE DEF k
  <2>2. 1 \in DOMAIN k
    BY <2>1
  <2>. QED  BY <2>2 DEF NodesOf, k
<1>2. PICK n \in NodesOf(d) : \A a : n \notin Adjacent(d, a)
  BY <1>1, StartExists
<1>3. \A i \in DOMAIN d.edges : d.edges[i].target # n
  BY <1>2 DEF Adjacent, Out
<1>4. \A i \in DOMAIN d.edges : d.edges[i].source \in NodesOf(d) /\ d.edges[i].target \in NodesOf(d)
  BY DEF Neat, Items
<1>. QED  BY <1>2, <1>3, <1>4, NeatFinite DEF ServerAccepts, WellFormed, Neat, TypedDefinition, Distinct

\* The canvas after an edit that adds step n: its type, the edges there are and their number.
Grown(n, t, links, k) ==
    /\ Neat(canvas') /\ opened' = opened
    /\ n \notin NodesOf(canvas) /\ NodesOf(canvas') = NodesOf(canvas) \cup {n}
    /\ Len(canvas'.nodes) = Len(canvas.nodes) + 1
    /\ \A m \in NodesOf(canvas) : canvas'.type[m] = canvas.type[m]
    /\ canvas'.type[n] = t
    /\ canvas'.edges \in Seq(Edge) /\ Items(canvas'.edges) = links /\ Len(canvas'.edges) = k

LEMMA Grows ==
    ASSUME Neat(canvas), NEW n \in Steps, NewStep(n), NEW t \in StepTypes, NEW edges \in Seq(Edge),
           \A x \in Items(edges) : {x.source, x.target} \subseteq NodesOf(canvas) \cup {n},
           Becomes(WithStep(n, t, edges))
    PROVE  Grown(n, t, Items(edges), Len(edges))
<1>. DEFINE k == canvas.nodes
            nodes == Append(k, n)
            type == [m \in NodesOf(canvas) \cup {n} |-> IF m = n THEN t ELSE canvas.type[m]]
            d == [nodes |-> nodes, type |-> type, edges |-> edges]
<1>1. canvas' = Ordered(d) /\ opened' = opened /\ n \notin NodesOf(canvas)
  BY DEF Becomes, WithStep, NewStep
<1>2. k \in Seq(Steps) /\ Distinct(k) /\ NodesOf(canvas) = Items(k) /\ canvas.type \in [NodesOf(canvas) -> StepTypes]
  BY DEF Neat, TypedDefinition, NodesOf, Items
<1>3. /\ nodes \in Seq(Steps) /\ Len(nodes) = Len(k) + 1 /\ Distinct(nodes)
      /\ Items(nodes) = NodesOf(canvas) \cup {n}
  <2>. HIDE DEF k
  <2>. QED  BY <1>1, <1>2, ItemsAppend
<1>4. /\ type \in [NodesOf(canvas) \cup {n} -> StepTypes] /\ type[n] = t
      /\ \A m \in NodesOf(canvas) : type[m] = canvas.type[m]
  BY <1>1, <1>2
<1>. HIDE DEF nodes, type
<1>5. d.nodes = nodes /\ d.type = type /\ d.edges = edges /\ NodesOf(d) = Items(nodes)
  BY DEF NodesOf, Items
<1>6. d = [nodes |-> d.nodes, type |-> d.type, edges |-> d.edges]
  OBVIOUS
<1>. HIDE DEF d
<1>7. Neat(d)
  BY <1>3, <1>4, <1>5 DEF Neat, TypedDefinition
<1>8. /\ Neat(canvas') /\ NodesOf(canvas') = NodesOf(d) /\ canvas'.type = type /\ canvas'.edges = edges
      /\ Len(canvas'.nodes) = Len(nodes)
  BY <1>1, <1>5, <1>6, <1>7, OrderedKeeps
<1>. QED  BY <1>1, <1>3, <1>4, <1>5, <1>8 DEF Grown

\* An edge is given by its ends, for those that an edit draws have no label.
LEMMA LinkEnds ==
    ASSUME NEW a, NEW b
    PROVE  Link(a, b).source = a /\ Link(a, b).target = b
BY DEF Link

LEMMA NeatEnds ==
    ASSUME NEW d, Neat(d), NEW i \in DOMAIN d.edges
    PROVE  /\ d.edges[i] \in Edge /\ d.edges[i] \in Items(d.edges)
           /\ d.edges[i].source \in NodesOf(d) /\ d.edges[i].target \in NodesOf(d)
           /\ d.edges[i].source \in Steps /\ d.edges[i].target \in Steps
<1>1. d.edges[i] \in Edge /\ d.edges[i] \in Items(d.edges)
  BY DEF Neat, TypedDefinition, Items
<1>2. d.edges[i].source \in NodesOf(d) /\ d.edges[i].target \in NodesOf(d)
  BY <1>1 DEF Neat
<1>. QED  BY <1>1, <1>2, NeatFinite

\* The edges that an edit leaves.
OtherEdges(I) == {canvas.edges[j] : j \in DOMAIN canvas.edges \ I}

LEMMA OthersLeft ==
    ASSUME Neat(canvas), NEW I \in SUBSET DOMAIN canvas.edges
    PROVE  /\ Without(canvas.edges, I) \in Seq(Edge)
           /\ Items(Without(canvas.edges, I)) = OtherEdges(I)
           /\ Len(Without(canvas.edges, I)) = Len(canvas.edges) - Cardinality(I)
           /\ IsFiniteSet(I) /\ Cardinality(I) \in Nat /\ Len(canvas.edges) \in Nat
           /\ \A x \in OtherEdges(I) : x \in Items(canvas.edges) /\ x \in Edge
                                   /\ x.source \in NodesOf(canvas) /\ x.target \in NodesOf(canvas)
<1>. DEFINE s == canvas.edges
<1>1. s \in Seq(Edge)
  BY DEF Neat, TypedDefinition
<1>2. /\ Without(s, I) \in Seq(Edge) /\ Items(Without(s, I)) = {s[i] : i \in DOMAIN s \ I}
      /\ Len(Without(s, I)) = Cardinality(DOMAIN s \ I)
  <2>. HIDE DEF s
  <2>. QED  BY <1>1, ItemsWithout
<1>3. /\ Cardinality(DOMAIN s \ I) = Len(s) - Cardinality(I) /\ Len(s) \in Nat
      /\ IsFiniteSet(I) /\ Cardinality(I) \in Nat
  <2>1. I \in SUBSET DOMAIN s
    OBVIOUS
  <2>. HIDE DEF s
  <2>2. DOMAIN s = 1..Len(s) /\ Len(s) \in Nat
    BY <1>1
  <2>3. IsFiniteSet(DOMAIN s) /\ Cardinality(DOMAIN s) = Len(s)
    <3>. DEFINE m == Len(s)
    <3>. HIDE DEF m
    <3>1. m \in Nat /\ DOMAIN s = 1..m
      BY <2>2 DEF m
    <3>2. IsFiniteSet(1..m) /\ Cardinality(1..m) = m
      BY <3>1, FS_Interval
    <3>. QED  BY <3>1, <3>2 DEF m
  <2>4. IsFiniteSet(I) /\ Cardinality(I) \in Nat
    BY <2>1, <2>3, FS_Subset, FS_CardinalityType
  <2>5. Cardinality(DOMAIN s \ I) = Cardinality(DOMAIN s) - Cardinality(DOMAIN s \cap I)
    BY <2>3, FS_Difference
  <2>6. DOMAIN s \cap I = I
    BY <2>1
  <2>. QED  BY <2>2, <2>3, <2>4, <2>5, <2>6
<1>4. \A x \in OtherEdges(I) : x \in Items(canvas.edges) /\ x \in Edge
                           /\ x.source \in NodesOf(canvas) /\ x.target \in NodesOf(canvas)
  BY NeatEnds DEF OtherEdges
<1>. QED  BY <1>2, <1>3, <1>4 DEF OtherEdges

LEMMA InsertedOnEdge ==
    ASSUME Neat(canvas), NEW n \in Steps, NEW t \in {"notification", "delay"},
           NEW i \in DOMAIN canvas.edges, InsertOnEdge(i, n, t)
    PROVE  Grown(n, t, OtherEdges({i}) \cup {Link(canvas.edges[i].source, n), Link(n, canvas.edges[i].target)},
                 Len(canvas.edges) + 1)
<1>. DEFINE a == canvas.edges[i].source  b == canvas.edges[i].target
            rest == Without(canvas.edges, {i})
            edges == rest \o <<Link(a, n), Link(n, b)>>
<1>1. a \in NodesOf(canvas) /\ b \in NodesOf(canvas) /\ a \in Steps /\ b \in Steps
  BY NeatEnds
<1>2. /\ rest \in Seq(Edge) /\ Items(rest) = OtherEdges({i}) /\ Len(rest) = Len(canvas.edges) - 1
      /\ Len(canvas.edges) \in Nat
      /\ \A x \in OtherEdges({i}) : x.source \in NodesOf(canvas) /\ x.target \in NodesOf(canvas)
  BY OthersLeft, FS_Singleton
<1>3. Becomes(WithStep(n, t, edges)) /\ NewStep(n) /\ t \in StepTypes
  BY DEF InsertOnEdge, StepTypes
<1>4. Link(a, n) \in Edge /\ Link(n, b) \in Edge
  BY <1>1, LinkTyped
<1>. HIDE DEF a, b, rest
<1>5. /\ edges \in Seq(Edge) /\ Len(edges) = Len(rest) + 2
      /\ Items(edges) = Items(rest) \cup {Link(a, n), Link(n, b)}
  <2>. DEFINE x == Link(a, n)  y == Link(n, b)  two == <<x, y>>
  <2>1. x \in Edge /\ y \in Edge
    BY <1>4
  <2>. HIDE DEF x, y
  <2>2. two \in Seq(Edge) /\ Len(two) = 2 /\ Items(two) = {x, y}
    <3>1. two \in Seq(Edge) /\ Len(two) = 2 /\ DOMAIN two = {1, 2} /\ two[1] = x /\ two[2] = y
      BY <2>1
    <3>. QED  BY <3>1 DEF Items
  <2>. HIDE DEF two
  <2>. DEFINE w == rest \o two
  <2>3. w \in Seq(Edge) /\ Len(w) = Len(rest) + Len(two) /\ Items(w) = Items(rest) \cup Items(two)
    <3>1. rest \in Seq(Edge)
      BY <1>2
    <3>. QED  BY <2>2, <3>1, ItemsConcat
  <2>4. w \in Seq(Edge) /\ Len(w) = Len(rest) + 2 /\ Items(w) = Items(rest) \cup {x, y}
    <3>. HIDE DEF w
    <3>. QED  BY <2>2, <2>3
  <2>5. edges = w
    BY DEF two, x, y
  <2>. HIDE DEF edges, w
  <2>. QED  BY <2>4, <2>5 DEF x, y
<1>. HIDE DEF edges
<1>6. \A x \in Items(edges) : {x.source, x.target} \subseteq NodesOf(canvas) \cup {n}
  BY <1>1, <1>2, <1>5, LinkEnds DEF a, b
<1>7. Len(edges) = Len(canvas.edges) + 1
  BY <1>2, <1>5
<1>8. Grown(n, t, Items(edges), Len(edges))
  BY <1>3, <1>5, <1>6, Grows
<1>. QED  BY <1>2, <1>5, <1>7, <1>8 DEF a, b

LEMMA InsertedAtEnd ==
    ASSUME Neat(canvas), NEW n \in Steps, NEW t \in {"notification", "delay"},
           NEW last \in Steps, InsertAtEnd(last, n, t)
    PROVE  Grown(n, t, Items(canvas.edges) \cup {Link(last, n)}, Len(canvas.edges) + 1)
<1>. DEFINE s == canvas.edges  edges == Append(s, Link(last, n))
<1>1. Becomes(WithStep(n, t, edges)) /\ NewStep(n) /\ t \in StepTypes /\ last \in NodesOf(canvas)
  BY DEF InsertAtEnd, StepTypes
<1>2. s \in Seq(Edge) /\ Link(last, n) \in Edge
  BY LinkTyped DEF Neat, TypedDefinition
<1>3. \A x \in Items(s) : x.source \in NodesOf(canvas) /\ x.target \in NodesOf(canvas)
  BY DEF Neat
<1>. HIDE DEF s
<1>4. edges \in Seq(Edge) /\ Items(edges) = Items(s) \cup {Link(last, n)} /\ Len(edges) = Len(s) + 1
  BY <1>2, ItemsAppend
<1>5. \A x \in Items(edges) : {x.source, x.target} \subseteq NodesOf(canvas) \cup {n}
  BY <1>1, <1>3, <1>4, LinkEnds
<1>. HIDE DEF edges
<1>6. Grown(n, t, Items(edges), Len(edges))
  BY <1>1, <1>4, <1>5, Grows
<1>. QED  BY <1>4, <1>6 DEF s

\* The copy of a step leads to at most one of those that the step led to.
LEMMA Duplicated ==
    ASSUME Neat(canvas), NEW n \in Steps, NEW s \in Steps, DuplicateNode(s, n)
    PROVE  LET out == Out(canvas, s)
           IN  /\ s \in NodesOf(canvas) /\ s \notin Typed(canvas, {"trigger"})
               /\ \E T \in SUBSET Adjacent(canvas, s) :
                     /\ T = {} <=> out = {}
                     /\ Cardinality(T) = IF out = {} THEN 0 ELSE 1
                     /\ Grown(n, canvas.type[s],
                              OtherEdges(out) \cup {Link(s, n)} \cup {Link(n, b) : b \in T},
                              Len(canvas.edges) - Cardinality(out) + 1 + Cardinality(T))
<1>. DEFINE out == Out(canvas, s)
            left == Without(canvas.edges, out)
            rest == Append(left, Link(s, n))
            first == CHOOSE i \in out : IsLeast(i, out)
            b == canvas.edges[first].target
            edges == IF out = {} THEN rest ELSE Append(rest, Link(n, b))
            t == canvas.type[s]
<1>1. /\ Becomes(WithStep(n, t, edges)) /\ NewStep(n)
      /\ s \in NodesOf(canvas) /\ s \notin Typed(canvas, {"trigger"})
  BY DEF DuplicateNode
<1>2. t \in StepTypes
  BY <1>1 DEF Neat, TypedDefinition
<1>3. out \in SUBSET DOMAIN canvas.edges /\ Link(s, n) \in Edge
  BY LinkTyped DEF Out
<1>4. /\ left \in Seq(Edge) /\ Items(left) = OtherEdges(out) /\ Len(left) = Len(canvas.edges) - Cardinality(out)
      /\ Len(canvas.edges) \in Nat /\ Cardinality(out) \in Nat
      /\ \A x \in OtherEdges(out) : x.source \in NodesOf(canvas) /\ x.target \in NodesOf(canvas)
  <2>. HIDE DEF out
  <2>. QED  BY <1>3, OthersLeft
<1>. HIDE DEF left
<1>5. rest \in Seq(Edge) /\ Items(rest) = Items(left) \cup {Link(s, n)} /\ Len(rest) = Len(left) + 1
  BY <1>3, <1>4, ItemsAppend
<1>. HIDE DEF rest, t
<1>6. CASE out = {}
  <2>1. edges = rest
    BY <1>6
  <2>. HIDE DEF edges, out
  <2>2. \A x \in Items(rest) : {x.source, x.target} \subseteq NodesOf(canvas) \cup {n}
    BY <1>1, <1>4, <1>5, LinkEnds
  <2>3. Grown(n, t, Items(rest), Len(rest))
    BY <1>1, <1>2, <1>5, <2>1, <2>2, Grows
  <2>4. Items(rest) = OtherEdges(out) \cup {Link(s, n)} \cup {Link(n, c) : c \in {}}
    BY <1>4, <1>5
  <2>5. Len(rest) = Len(canvas.edges) - Cardinality(out) + 1 + Cardinality({}) /\ Cardinality({}) = 0
    BY <1>4, <1>5, FS_EmptySet
  <2>6. Grown(n, t, OtherEdges(out) \cup {Link(s, n)} \cup {Link(n, c) : c \in {}},
                    Len(canvas.edges) - Cardinality(out) + 1 + Cardinality({}))
    BY <2>3, <2>4, <2>5
  <2>. QED  BY <1>1, <1>6, <2>5, <2>6 DEF t, out
<1>7. CASE out # {}
  <2>1. edges = Append(rest, Link(n, b))
    BY <1>7
  <2>2. first \in out
    <3>1. out \in SUBSET Nat
      BY <1>3 DEF Neat, TypedDefinition
    <3>. HIDE DEF out
    <3>. QED  BY <1>7, <3>1, LeastOne
  <2>3. b \in Adjacent(canvas, s)
    BY <2>2 DEF Adjacent
  <2>. HIDE DEF edges, out, b
  <2>4. b \in NodesOf(canvas) /\ b \in Steps
    BY <2>3, NeatFinite
  <2>5. Link(n, b) \in Edge
    BY <2>4, LinkTyped
  <2>6. edges \in Seq(Edge) /\ Items(edges) = Items(rest) \cup {Link(n, b)} /\ Len(edges) = Len(rest) + 1
    BY <1>5, <2>1, <2>5, ItemsAppend
  <2>7. \A x \in Items(edges) : {x.source, x.target} \subseteq NodesOf(canvas) \cup {n}
    BY <1>1, <1>4, <1>5, <2>4, <2>6, LinkEnds
  <2>8. Grown(n, t, Items(edges), Len(edges))
    BY <1>1, <1>2, <2>6, <2>7, Grows
  <2>9. Items(edges) = OtherEdges(out) \cup {Link(s, n)} \cup {Link(n, c) : c \in {b}}
    BY <1>4, <1>5, <2>6
  <2>10. Len(edges) = Len(canvas.edges) - Cardinality(out) + 1 + Cardinality({b}) /\ Cardinality({b}) = 1
    BY <1>4, <1>5, <2>6, FS_Singleton
  <2>11. Grown(n, t, OtherEdges(out) \cup {Link(s, n)} \cup {Link(n, c) : c \in {b}},
                     Len(canvas.edges) - Cardinality(out) + 1 + Cardinality({b}))
    BY <2>8, <2>9, <2>10
  <2>. QED  BY <1>1, <1>7, <2>3, <2>10, <2>11 DEF t, out
<1>. QED  BY <1>6, <1>7

\* The canvas after the removal of a step, with the edges that join its neighbours: one when
\* there is one on each side, and they are two.
Joins(s) == {Link(canvas.edges[i].source, canvas.edges[o].target) : i \in In(canvas, s), o \in Out(canvas, s)}
Shrunk(s, J) ==
    /\ s \in NodesOf(canvas) /\ s \notin Typed(canvas, {"trigger"})
    /\ Neat(canvas') /\ opened' = opened
    /\ NodesOf(canvas') = NodesOf(canvas) \ {s}
    /\ Len(canvas'.nodes) = Len(canvas.nodes) - 1
    /\ \A m \in NodesOf(canvas') : canvas'.type[m] = canvas.type[m]
    /\ J \subseteq Joins(s)
    /\ J = {} \/ (Cardinality(In(canvas, s)) = 1 /\ Cardinality(Out(canvas, s)) = 1 /\ \E x \in Joins(s) : J = {x})
    /\ /\ Cardinality(In(canvas, s)) = 1 /\ Cardinality(Out(canvas, s)) = 1
       /\ \A x \in Joins(s) : x.source # x.target
       => J # {}
    /\ canvas'.edges \in Seq(Edge) /\ Items(canvas'.edges) = OtherEdges(In(canvas, s) \cup Out(canvas, s)) \cup J
    /\ Len(canvas'.edges) = Len(canvas.edges) - Cardinality(In(canvas, s) \cup Out(canvas, s)) + Cardinality(J)

LEMMA Removed ==
    ASSUME Neat(canvas), NEW s \in Steps, RemoveNode(s)
    PROVE  \E J : Shrunk(s, J)
<1>. DEFINE in == In(canvas, s)
            out == Out(canvas, s)
            left == Without(canvas.edges, in \cup out)
            joined == Cardinality(in) = 1 /\ Cardinality(out) = 1 /\ \A x \in Joins(s) : x.source # x.target
            one == CHOOSE x \in Joins(s) : TRUE
            J == IF joined THEN {one} ELSE {}
            nodes == Kept(canvas.nodes, NodesOf(canvas) \ {s})
            type == [n \in NodesOf(canvas) \ {s} |-> canvas.type[n]]
            edges == IF joined THEN Append(left, one) ELSE left
            d == [nodes |-> nodes, type |-> type, edges |-> edges]
<1>1. canvas' = Ordered(d) /\ opened' = opened /\ s \in NodesOf(canvas) /\ s \notin Typed(canvas, {"trigger"})
  BY DEF RemoveNode, Becomes, Joins
<1>2. in \cup out \in SUBSET DOMAIN canvas.edges
  BY DEF In, Out
<1>3. /\ left \in Seq(Edge) /\ Items(left) = OtherEdges(in \cup out)
      /\ Len(left) = Len(canvas.edges) - Cardinality(in \cup out) /\ Len(left) \in Nat
      /\ \A x \in OtherEdges(in \cup out) : x \in Items(canvas.edges)
  <2>. DEFINE I == in \cup out
  <2>. HIDE DEF I
  <2>1. I \in SUBSET DOMAIN canvas.edges
    BY <1>2 DEF I
  <2>2. Without(canvas.edges, I) \in Seq(Edge) /\ Items(Without(canvas.edges, I)) = OtherEdges(I)
        /\ Len(Without(canvas.edges, I)) = Len(canvas.edges) - Cardinality(I)
        /\ \A x \in OtherEdges(I) : x \in Items(canvas.edges)
    BY <2>1, OthersLeft
  <2>3. Len(Without(canvas.edges, I)) \in Nat
    BY <2>2
  <2>. QED  BY <2>2, <2>3 DEF I
<1>4. ASSUME NEW x \in OtherEdges(in \cup out)
      PROVE  x.source \in NodesOf(canvas) \ {s} /\ x.target \in NodesOf(canvas) \ {s}
  <2>1. PICK j \in DOMAIN canvas.edges \ (in \cup out) : x = canvas.edges[j]
    BY DEF OtherEdges
  <2>. QED  BY <2>1, NeatEnds DEF In, Out
<1>5. joined => /\ J = {one} /\ one \in Joins(s) /\ one \in Edge
                /\ one.source \in NodesOf(canvas) \ {s} /\ one.target \in NodesOf(canvas) \ {s}
  <2>. SUFFICES ASSUME joined
                PROVE  /\ one \in Joins(s) /\ one \in Edge
                       /\ one.source \in NodesOf(canvas) \ {s} /\ one.target \in NodesOf(canvas) \ {s}
    OBVIOUS
  <2>1. in # {} /\ out # {}
    BY FS_EmptySet
  <2>2. Joins(s) # {}
    BY <2>1 DEF Joins
  <2>3. one \in Joins(s)
    BY <2>2
  <2>4. PICK i \in in, o \in out : one = Link(canvas.edges[i].source, canvas.edges[o].target)
    <3>. HIDE DEF one
    <3>. QED  BY <2>3 DEF Joins
  <2>. HIDE DEF one
  <2>5. i \in DOMAIN canvas.edges /\ o \in DOMAIN canvas.edges /\ canvas.edges[i].target = s /\ canvas.edges[o].source = s
    BY DEF In, Out
  <2>6. PICK a, b : a = canvas.edges[i].source /\ b = canvas.edges[o].target /\ one = Link(a, b)
    BY <2>4
  <2>7. a \in NodesOf(canvas) /\ b \in NodesOf(canvas) /\ a \in Steps /\ b \in Steps
    BY <2>5, <2>6, NeatEnds
  <2>8. a # s /\ b # s
    <3>1. a = s => i \in out
      BY <2>5, <2>6 DEF Out
    <3>2. b = s => o \in in
      BY <2>5, <2>6 DEF In
    <3>3. ASSUME a = s \/ b = s
          PROVE  FALSE
      <4>1. PICK k \in in \cap out : TRUE
        BY <3>1, <3>2, <3>3
      <4>2. k \in DOMAIN canvas.edges /\ canvas.edges[k].source = s /\ canvas.edges[k].target = s
        BY DEF In, Out
      <4>3. Link(s, s) \in Joins(s)
        BY <4>1, <4>2 DEF Joins
      <4>. QED  BY <4>3, LinkEnds
    <3>. QED  BY <3>3
  <2>. QED  BY <2>3, <2>6, <2>7, <2>8, LinkEnds, LinkTyped
<1>. HIDE DEF left, one, joined
<1>6. /\ edges \in Seq(Edge) /\ Items(edges) = OtherEdges(in \cup out) \cup J
      /\ Len(edges) = Len(left) + Cardinality(J)
  <2>1. CASE joined
    <3>1. Append(left, one) \in Seq(Edge) /\ Items(Append(left, one)) = Items(left) \cup {one}
          /\ Len(Append(left, one)) = Len(left) + 1
      BY <1>3, <1>5, <2>1, ItemsAppend
    <3>2. edges = Append(left, one) /\ J = {one} /\ Cardinality({one}) = 1
      BY <2>1, FS_Singleton
    <3>. HIDE DEF edges, J
    <3>3. edges \in Seq(Edge) /\ Items(edges) = Items(left) \cup {one} /\ Len(edges) = Len(left) + 1
      BY <3>1, <3>2
    <3>. QED  BY <1>3, <3>2, <3>3
  <2>2. CASE ~joined
    <3>1. edges = left /\ J = {} /\ Cardinality({}) = 0
      BY <2>2, FS_EmptySet
    <3>. HIDE DEF edges, J
    <3>. QED  BY <1>3, <3>1
  <2>. QED  BY <2>1, <2>2
<1>7. nodes \in Seq(Steps) /\ Distinct(nodes) /\ Items(nodes) = NodesOf(canvas) \ {s}
  <2>. DEFINE k == canvas.nodes
  <2>1. k \in Seq(Steps) /\ Distinct(k) /\ NodesOf(canvas) = Items(k)
    BY DEF Neat, TypedDefinition, NodesOf, Items
  <2>. HIDE DEF k
  <2>2. ASSUME NEW X PROVE Kept(k, X) \in Seq(Steps) /\ Distinct(Kept(k, X)) /\ Items(Kept(k, X)) = Items(k) \cap X
    BY <2>1, ItemsKept
  <2>. QED  BY <2>1, <2>2 DEF k
<1>8. type \in [NodesOf(canvas) \ {s} -> StepTypes] /\ \A m \in NodesOf(canvas) \ {s} : type[m] = canvas.type[m]
  BY DEF Neat, TypedDefinition
<1>9. d.nodes = nodes /\ d.type = type /\ d.edges = edges /\ NodesOf(d) = NodesOf(canvas) \ {s}
  <2>. HIDE DEF nodes, type, edges
  <2>. QED  BY <1>7 DEF NodesOf, Items
<1>10. \A x \in Items(edges) : x.source \in NodesOf(canvas) \ {s} /\ x.target \in NodesOf(canvas) \ {s}
  <2>. HIDE DEF edges, in, out
  <2>. QED  BY <1>4, <1>5, <1>6
<1>. HIDE DEF nodes, type, edges
<1>11. Neat(d) /\ d = [nodes |-> d.nodes, type |-> d.type, edges |-> d.edges]
  BY <1>6, <1>7, <1>8, <1>9, <1>10 DEF Neat, TypedDefinition
<1>. HIDE DEF d
<1>12. Neat(canvas') /\ NodesOf(canvas') = NodesOf(d) /\ canvas'.type = type /\ canvas'.edges = edges
  BY <1>1, <1>9, <1>11, OrderedKeeps
<1>13. Len(canvas'.nodes) = Len(canvas.nodes) - 1
  <2>1. /\ Cardinality(NodesOf(canvas')) = Len(canvas'.nodes) /\ Cardinality(NodesOf(canvas)) = Len(canvas.nodes)
        /\ IsFiniteSet(NodesOf(canvas)) /\ NodesOf(canvas') = NodesOf(canvas) \ {s}
    BY <1>9, <1>12, NeatFinite
  <2>. QED  BY <1>1, <2>1, FS_RemoveElement
<1>14. /\ J \subseteq Joins(s)
       /\ J = {} \/ (Cardinality(in) = 1 /\ Cardinality(out) = 1 /\ \E x \in Joins(s) : J = {x})
       /\ (Cardinality(in) = 1 /\ Cardinality(out) = 1 /\ \A x \in Joins(s) : x.source # x.target) => J # {}
  BY <1>5 DEF joined
<1>. HIDE DEF J
<1>. QED  BY <1>1, <1>3, <1>6, <1>8, <1>9, <1>12, <1>13, <1>14 DEF Shrunk

\* The canvas after the builder opened a definition: with a step in front if there was no trigger.
Fronted ==
    /\ Neat(canvas')
    /\ \/ canvas' = canvas /\ Typed(canvas, {"trigger"}) # {}
       \/ /\ Trigger \notin NodesOf(canvas) /\ NodesOf(canvas') = NodesOf(canvas) \cup {Trigger}
          /\ canvas'.type[Trigger] = "trigger"
          /\ \E b \in NodesOf(canvas) : Items(canvas'.edges) = Items(canvas.edges) \cup {Link(Trigger, b)}

LEMMA Opens ==
    ASSUME Neat(canvas), Trigger \notin NodesOf(canvas), Open
    PROVE  opened' = TRUE /\ Fronted /\ ~Cyclic(canvas)
<1>. DEFINE k == canvas.nodes  s == canvas.edges
<1>1. canvas' = WithTrigger(canvas) /\ opened' = TRUE /\ k # << >> /\ ~HasCycle(canvas)
  BY DEF Open, ServerAccepts, WellFormed
<1>2. ~Cyclic(canvas)
  BY <1>1, NeatFinite
<1>3. CASE Typed(canvas, {"trigger"}) # {}
  <2>1. canvas' = canvas
    BY <1>1, <1>3 DEF WithTrigger
  <2>. QED  BY <1>1, <1>2, <1>3, <2>1 DEF Fronted
<1>4. CASE Typed(canvas, {"trigger"}) = {}
  <2>. DEFINE nodes == <<Trigger>> \o k
              type == [n \in NodesOf(canvas) \cup {Trigger} |-> IF n = Trigger THEN "trigger" ELSE canvas.type[n]]
              link == Link(Trigger, k[1])
              edges == <<link>> \o s
  <2>1. canvas' = [nodes |-> nodes, type |-> type, edges |-> edges]
    BY <1>1, <1>4 DEF WithTrigger
  <2>2. /\ k \in Seq(Steps) /\ Distinct(k) /\ NodesOf(canvas) = Items(k) /\ Trigger \in Steps
        /\ s \in Seq(Edge) /\ canvas.type \in [NodesOf(canvas) -> StepTypes]
    BY BuilderAssumption DEF Neat, TypedDefinition, NodesOf, Items
  <2>3. k[1] \in Items(k) /\ k[1] \in Steps
    <3>. DEFINE l == k
    <3>. HIDE DEF l
    <3>1. l \in Seq(Steps) /\ l # << >>
      BY <1>1, <2>2 DEF l
    <3>2. 1 \in DOMAIN l /\ l[1] \in Steps
      BY <3>1
    <3>. QED  BY <3>2 DEF Items, l
  <2>4. link \in Edge /\ link.source = Trigger /\ link.target = k[1]
    BY <2>2, <2>3, LinkTyped, LinkEnds
  <2>5. type \in [NodesOf(canvas) \cup {Trigger} -> StepTypes] /\ type[Trigger] = "trigger"
    BY <2>2 DEF StepTypes
  <2>. HIDE DEF link, type, k, s
  <2>6. nodes \in Seq(Steps) /\ Items(nodes) = NodesOf(canvas) \cup {Trigger} /\ Distinct(nodes)
    <3>. DEFINE one == <<Trigger>>
    <3>1. one \in Seq(Steps) /\ Items(one) = {Trigger} /\ Distinct(one)
      BY <2>2, ItemsOne
    <3>. HIDE DEF one
    <3>2. one \o k \in Seq(Steps) /\ Items(one \o k) = Items(one) \cup Items(k) /\ Distinct(one \o k)
      <4>1. Items(one) \cap Items(k) = {}
        BY <2>2, <3>1
      <4>. QED  BY <2>2, <3>1, <4>1, ItemsConcat
    <3>. QED  BY <2>2, <3>1, <3>2 DEF one
  <2>7. edges \in Seq(Edge) /\ Items(edges) = Items(s) \cup {link}
    <3>. DEFINE one == <<link>>
    <3>1. one \in Seq(Edge) /\ Items(one) = {link}
      BY <2>4, ItemsOne
    <3>. HIDE DEF one
    <3>2. one \o s \in Seq(Edge) /\ Items(one \o s) = Items(one) \cup Items(s)
      BY <2>2, <3>1, ItemsConcat
    <3>. QED  BY <3>1, <3>2 DEF one
  <2>. HIDE DEF nodes, edges
  <2>8. canvas'.nodes = nodes /\ canvas'.type = type /\ canvas'.edges = edges
    BY <2>1
  <2>9. NodesOf(canvas') = NodesOf(canvas) \cup {Trigger}
    BY <2>6, <2>8 DEF NodesOf, Items
  <2>10. \A x \in Items(edges) : x.source \in NodesOf(canvas') /\ x.target \in NodesOf(canvas')
    <3>1. \A x \in Items(s) : x.source \in NodesOf(canvas) /\ x.target \in NodesOf(canvas)
      BY DEF Neat, s
    <3>. QED  BY <2>2, <2>3, <2>4, <2>7, <2>9, <3>1
  <2>11. Neat(canvas')
    BY <2>5, <2>6, <2>7, <2>8, <2>9, <2>10 DEF Neat, TypedDefinition
  <2>. QED  BY <1>1, <1>2, <2>2, <2>3, <2>5, <2>7, <2>8, <2>9, <2>11 DEF Fronted, link, s
<1>. QED  BY <1>3, <1>4

\* The canvas is a definition that begins as it was submitted and, once the builder opened it,
\* has a trigger and no cycle.
CanvasInv ==
    /\ Neat(canvas) /\ opened \in BOOLEAN
    /\ ~opened => NodesOf(canvas) = SubmittedSteps
    /\ opened => Typed(canvas, {"trigger"}) # {} /\ ~Cyclic(canvas)

LEMMA CanvasAccepted == CanvasInv => CanvasStaysValid
<1>. SUFFICES ASSUME CanvasInv, opened PROVE ServerAccepts(canvas)
  BY DEF CanvasStaysValid
<1>1. Neat(canvas) /\ ~Cyclic(canvas) /\ NodesOf(canvas) # {}
  BY DEF CanvasInv, Typed
<1>2. canvas.nodes # << >>
  BY <1>1 DEF NodesOf
<1>. QED  BY <1>1, <1>2, NeatAccepted

LEMMA OpenKeeps ==
    ASSUME CanvasInv, Open
    PROVE  CanvasInv'
<1>1. Neat(canvas) /\ Trigger \notin NodesOf(canvas)
  BY BuilderAssumption DEF CanvasInv, Open, SubmittedSteps
<1>2. opened' = TRUE /\ Fronted /\ ~Cyclic(canvas)
  BY <1>1, Opens
<1>3. CASE canvas' = canvas /\ Typed(canvas, {"trigger"}) # {}
  BY <1>1, <1>2, <1>3 DEF CanvasInv
<1>4. CASE /\ NodesOf(canvas') = NodesOf(canvas) \cup {Trigger} /\ canvas'.type[Trigger] = "trigger"
           /\ \E b \in NodesOf(canvas) : Items(canvas'.edges) = Items(canvas.edges) \cup {Link(Trigger, b)}
  <2>1. PICK b \in NodesOf(canvas) : Items(canvas'.edges) = Items(canvas.edges) \cup {Link(Trigger, b)}
    BY <1>4
  <2>2. \A a \in NodesOf(canvas) : Adjacent(canvas', a) \subseteq Adjacent(canvas, a)
    BY <1>1, <2>1, AdjacentItems, LinkEnds
  <2>3. Trigger \notin Adjacent(canvas', Trigger) /\ \A a \in NodesOf(canvas) : Trigger \notin Adjacent(canvas', a)
    <3>1. \A x \in Items(canvas'.edges) : x.target # Trigger
      BY <1>1, <2>1, LinkEnds DEF Neat
    <3>. QED  BY <3>1, AdjacentItems
  <2>4. ~Cyclic(canvas')
    <3>. DEFINE d == canvas  e == canvas'
    <3>. HIDE DEF d, e
    <3>1. /\ Trigger \notin NodesOf(d) /\ NodesOf(e) = NodesOf(d) \cup {Trigger} /\ ~Cyclic(d)
          /\ Trigger \notin Adjacent(e, Trigger)
          /\ \A a \in NodesOf(d) : Adjacent(e, a) \subseteq Adjacent(d, a) /\ Trigger \notin Adjacent(e, a)
      BY <1>1, <1>2, <1>4, <2>2, <2>3 DEF d, e
    <3>2. ~Cyclic(e)
      BY <3>1, GrowsAcyclic
    <3>. QED  BY <3>2 DEF e
  <2>5. Typed(canvas', {"trigger"}) # {}
    BY <1>4 DEF Typed
  <2>. QED  BY <1>2, <2>4, <2>5 DEF CanvasInv, Fronted
<1>. QED  BY <1>2, <1>3, <1>4 DEF Fronted

\* A step that leads only where one before it led.
LEMMA GrownKeeps ==
    ASSUME CanvasInv, opened, NEW n, NEW t, NEW k, NEW a \in NodesOf(canvas), NEW B \in SUBSET Adjacent(canvas, a),
           NEW I \in SUBSET DOMAIN canvas.edges,
           NEW links, Grown(n, t, links, k),
           links = OtherEdges(I) \cup {Link(a, n)} \cup {Link(n, b) : b \in B}
    PROVE  CanvasInv'
<1>1. /\ Neat(canvas) /\ ~Cyclic(canvas) /\ n \notin NodesOf(canvas) /\ NodesOf(canvas') = NodesOf(canvas) \cup {n}
      /\ Items(canvas'.edges) = links /\ Neat(canvas') /\ opened' = opened
  BY DEF CanvasInv, Grown
<1>2. \A x \in OtherEdges(I) : x \in Items(canvas.edges) /\ x.source \in NodesOf(canvas) /\ x.target \in NodesOf(canvas)
  BY <1>1, OthersLeft
<1>3. B \subseteq NodesOf(canvas)
  BY <1>1, NeatFinite
<1>4. ASSUME NEW c, NEW b, b \in Adjacent(canvas', c)
      PROVE  \/ c \in NodesOf(canvas) /\ b \in Adjacent(canvas, c) /\ b # n
             \/ c = a /\ b = n
             \/ c = n /\ b \in B
  <2>1. PICK x \in links : x.source = c /\ x.target = b
    BY <1>1, <1>4, AdjacentItems
  <2>2. CASE x \in OtherEdges(I)
    BY <1>1, <1>2, <2>1, <2>2, AdjacentItems
  <2>3. CASE x \in {Link(a, n)} \cup {Link(n, d) : d \in B}
    BY <2>1, <2>3, LinkEnds
  <2>. QED  BY <2>2, <2>3
<1>5. ~Cyclic(canvas')
  <2>. DEFINE d == canvas  e == canvas'
  <2>. HIDE DEF d, e
  <2>1. /\ n \notin NodesOf(d) /\ NodesOf(e) = NodesOf(d) \cup {n} /\ ~Cyclic(d)
        /\ n \notin Adjacent(e, n)
    BY <1>1, <1>3, <1>4 DEF d, e
  <2>2. Adjacent(e, n) \subseteq B /\ \A c \in NodesOf(d) : n \in Adjacent(e, c) => c = a
    BY <1>1, <1>4 DEF d, e
  <2>3. \A c \in NodesOf(d) : /\ Adjacent(e, c) \subseteq Adjacent(d, c) \cup {n}
                              /\ n \in Adjacent(e, c) => Adjacent(e, n) \subseteq Adjacent(d, c)
    BY <1>1, <1>4, <2>2 DEF d, e
  <2>4. ~Cyclic(e)
    BY <2>1, <2>3, GrowsAcyclic
  <2>. QED  BY <2>4 DEF e
<1>6. Typed(canvas', {"trigger"}) # {}
  BY <1>1 DEF CanvasInv, Typed, Grown
<1>. QED  BY <1>1, <1>5, <1>6 DEF CanvasInv

LEMMA InsertsKeep ==
    ASSUME CanvasInv, NEW n \in Steps, NEW t \in {"notification", "delay"}
    PROVE  /\ \A i \in DOMAIN canvas.edges : InsertOnEdge(i, n, t) => CanvasInv'
           /\ \A last \in Steps : InsertAtEnd(last, n, t) => CanvasInv'
<1>0. Neat(canvas)
  BY DEF CanvasInv
<1>1. ASSUME NEW i \in DOMAIN canvas.edges, InsertOnEdge(i, n, t)
      PROVE  CanvasInv'
  <2>. DEFINE a == canvas.edges[i].source  b == canvas.edges[i].target
              links == OtherEdges({i}) \cup {Link(a, n), Link(n, b)}
  <2>1. Grown(n, t, links, Len(canvas.edges) + 1) /\ opened
    BY <1>0, <1>1, InsertedOnEdge DEF InsertOnEdge, Becomes
  <2>2. a \in NodesOf(canvas) /\ {b} \in SUBSET Adjacent(canvas, a)
    BY <1>0, NeatEnds, AdjacentItems
  <2>3. links = OtherEdges({i}) \cup {Link(a, n)} \cup {Link(n, c) : c \in {b}} /\ {i} \in SUBSET DOMAIN canvas.edges
    OBVIOUS
  <2>. HIDE DEF a, b, links
  <2>. QED  BY <2>1, <2>2, <2>3, GrownKeeps
<1>2. ASSUME NEW last \in Steps, InsertAtEnd(last, n, t)
      PROVE  CanvasInv'
  <2>. DEFINE links == Items(canvas.edges) \cup {Link(last, n)}
  <2>1. Grown(n, t, links, Len(canvas.edges) + 1) /\ opened /\ last \in NodesOf(canvas)
    BY <1>0, <1>2, InsertedAtEnd DEF InsertAtEnd, Becomes
  <2>2. links = OtherEdges({}) \cup {Link(last, n)} \cup {Link(n, c) : c \in {}}
    BY DEF OtherEdges, Items
  <2>. HIDE DEF links
  <2>. QED  BY <2>1, <2>2, GrownKeeps
<1>. QED  BY <1>1, <1>2

LEMMA DuplicateKeeps ==
    ASSUME CanvasInv, NEW n \in Steps, NEW s \in Steps, DuplicateNode(s, n)
    PROVE  CanvasInv'
<1>. DEFINE out == Out(canvas, s)
<1>1. Neat(canvas) /\ opened /\ out \in SUBSET DOMAIN canvas.edges
  BY DEF CanvasInv, DuplicateNode, Becomes, Out
<1>2. /\ s \in NodesOf(canvas)
      /\ \E T \in SUBSET Adjacent(canvas, s) : \E k :
            Grown(n, canvas.type[s], OtherEdges(out) \cup {Link(s, n)} \cup {Link(n, b) : b \in T}, k)
  BY <1>1, Duplicated
<1>. HIDE DEF out
<1>3. PICK T \in SUBSET Adjacent(canvas, s) : \E k :
        Grown(n, canvas.type[s], OtherEdges(out) \cup {Link(s, n)} \cup {Link(n, b) : b \in T}, k)
  BY <1>2
<1>4. PICK k : Grown(n, canvas.type[s], OtherEdges(out) \cup {Link(s, n)} \cup {Link(n, b) : b \in T}, k)
  BY <1>3
<1>. QED  BY <1>1, <1>2, <1>4, GrownKeeps

LEMMA RemoveKeeps ==
    ASSUME CanvasInv, NEW s \in Steps, RemoveNode(s)
    PROVE  CanvasInv'
<1>1. Neat(canvas) /\ opened /\ ~Cyclic(canvas)
  BY DEF CanvasInv, RemoveNode, Becomes
<1>2. PICK J : Shrunk(s, J)
  BY <1>1, Removed
<1>3. /\ NodesOf(canvas') = NodesOf(canvas) \ {s} /\ s \in NodesOf(canvas)
      /\ Items(canvas'.edges) = OtherEdges(In(canvas, s) \cup Out(canvas, s)) \cup J /\ J \subseteq Joins(s)
  BY <1>2 DEF Shrunk
<1>4. ASSUME NEW a \in NodesOf(canvas'), NEW b \in Adjacent(canvas', a)
      PROVE  b \in Adjacent(canvas, a) \/ (s \in Adjacent(canvas, a) /\ b \in Adjacent(canvas, s))
  <2>1. PICK x \in Items(canvas'.edges) : x.source = a /\ x.target = b
    BY AdjacentItems
  <2>2. CASE x \in OtherEdges(In(canvas, s) \cup Out(canvas, s))
    <3>1. x \in Items(canvas.edges)
      BY <2>2 DEF OtherEdges, Items
    <3>. QED  BY <2>1, <3>1, AdjacentItems
  <2>3. CASE x \in Joins(s)
    <3>1. PICK i \in In(canvas, s), o \in Out(canvas, s) : x = Link(canvas.edges[i].source, canvas.edges[o].target)
      BY <2>3 DEF Joins
    <3>2. a = canvas.edges[i].source /\ b = canvas.edges[o].target
      BY <2>1, <3>1, LinkEnds
    <3>. QED  BY <3>2 DEF In, Out, Adjacent
  <2>. QED  BY <1>3, <2>2, <2>3
<1>5. ~Cyclic(canvas')
  <2>. DEFINE d == canvas  e == canvas'
  <2>. HIDE DEF d, e
  <2>1. /\ s \in NodesOf(d) /\ NodesOf(e) = NodesOf(d) \ {s} /\ ~Cyclic(d)
        /\ \A a \in NodesOf(e) : \A b \in Adjacent(e, a) :
               b \in Adjacent(d, a) \/ (s \in Adjacent(d, a) /\ b \in Adjacent(d, s))
    BY <1>1, <1>3, <1>4 DEF d, e
  <2>2. ~Cyclic(e)
    BY <2>1, ShrinksAcyclic
  <2>. QED  BY <2>2 DEF e
<1>6. Typed(canvas', {"trigger"}) # {}
  BY <1>1, <1>2 DEF CanvasInv, Typed, Shrunk
<1>. QED  BY <1>1, <1>2, <1>5, <1>6 DEF CanvasInv, Shrunk

LEMMA CanvasAtFirst == BuilderInit => CanvasInv
<1>. SUFFICES ASSUME BuilderInit PROVE CanvasInv
  OBVIOUS
<1>1. BuilderTypeOK
  BY BuilderAtFirst
<1>2. opened = FALSE /\ canvas \in Definitions
  BY DEF BuilderInit
<1>3. /\ canvas.nodes = Submitted
      /\ \A i \in DOMAIN canvas.edges :
            canvas.edges[i].source \in SubmittedSteps /\ canvas.edges[i].target \in SubmittedSteps
  <2>1. PICK type \in [SubmittedSteps -> StepTypes \ {"delay"}] :
          LET from == [source : SubmittedSteps, target : SubmittedSteps, branch : {""}]
                      \cup [source : {n \in SubmittedSteps : type[n] = "condition"},
                            target : SubmittedSteps, branch : {"true"}]
          IN  \E edges \in UNION {[1..k -> from] : k \in 0..MaxEdges} :
                  canvas = [nodes |-> Submitted, type |-> type, edges |-> edges]
    BY <1>2 DEF Definitions
  <2>. DEFINE from == [source : SubmittedSteps, target : SubmittedSteps, branch : {""}]
                      \cup [source : {n \in SubmittedSteps : type[n] = "condition"},
                            target : SubmittedSteps, branch : {"true"}]
  <2>2. \A x \in from : x.source \in SubmittedSteps /\ x.target \in SubmittedSteps
    OBVIOUS
  <2>3. \E edges \in UNION {[1..k -> from] : k \in 0..MaxEdges} :
           canvas = [nodes |-> Submitted, type |-> type, edges |-> edges]
    BY <2>1
  <2>. HIDE DEF from
  <2>4. PICK k \in 0..MaxEdges : \E edges \in [1..k -> from] :
           canvas = [nodes |-> Submitted, type |-> type, edges |-> edges]
    BY <2>3
  <2>5. PICK edges \in [1..k -> from] : canvas = [nodes |-> Submitted, type |-> type, edges |-> edges]
    BY <2>4
  <2>6. canvas.nodes = Submitted /\ canvas.edges = edges /\ DOMAIN edges = 1..k
    BY <2>5
  <2>. QED  BY <2>2, <2>5, <2>6
<1>4. NodesOf(canvas) = SubmittedSteps
  BY <1>3 DEF NodesOf, SubmittedSteps
<1>5. Distinct(canvas.nodes)
  BY <1>3, BuilderAssumption DEF Distinct
<1>. QED  BY <1>1, <1>2, <1>3, <1>4, <1>5 DEF CanvasInv, Neat, TypedDefinition, BuilderTypeOK, Items

LEMMA CanvasKept ==
    ASSUME CanvasInv, [BuilderNext]_builderVars
    PROVE  CanvasInv'
<1>1. CASE UNCHANGED builderVars
  BY <1>1 DEF builderVars, CanvasInv
<1>. QED  BY <1>1, OpenKeeps, InsertsKeep, DuplicateKeeps, RemoveKeeps DEF BuilderNext

----------------------------------------------------------------------------
(***************************************************************************)
(* The canvas as a path.                                                   *)
(***************************************************************************)

\* What a walk from the nodes S collects in so many rounds.
Walks(v, d, S, K) ==
    /\ v = [k \in 0..K |-> v[k]]
    /\ v[0] = S
    /\ \A k \in 1..K : v[k] = v[k - 1] \cup UNION {Adjacent(d, n) : n \in v[k - 1]}

LEMMA CollectWalks ==
    ASSUME NEW d, NEW S, Len(d.nodes) \in Nat
    PROVE  \E v : Walks(v, d, S, Len(d.nodes)) /\ Collect(d, S) = v[Len(d.nodes)]
<1>. DEFINE L == Len(d.nodes)
            Next1(X) == X \cup UNION {Adjacent(d, n) : n \in X}
            Kind(g, k) == IF k = 0 THEN S ELSE g[k - 1] \cup UNION {Adjacent(d, n) : n \in g[k - 1]}
            v == CHOOSE g : g = [k \in 0..L |-> Kind(g, k)]
            Good == {K \in Nat : \E f : Walks(f, d, S, K)}
<1>0. L \in Nat
  OBVIOUS
<1>1. Collect(d, S) = v[L]
  BY DEF Collect
<1>. HIDE DEF L
<1>2. 0 \in Good
  <2>. DEFINE f == [k \in 0..0 |-> S]
  <2>1. Walks(f, d, S, 0)
    BY DEF Walks
  <2>. QED  BY <2>1
<1>3. ASSUME NEW M \in Good
      PROVE  M + 1 \in Good
  <2>1. M \in Nat
    OBVIOUS
  <2>2. PICK f : Walks(f, d, S, M)
    OBVIOUS
  <2>. DEFINE g == [k \in 0..(M + 1) |-> IF k = M + 1 THEN Next1(f[M]) ELSE f[k]]
  <2>3. g = [k \in 0..(M + 1) |-> g[k]] /\ g[M + 1] = Next1(f[M]) /\ \A k \in 0..M : g[k] = f[k]
    BY <2>1
  <2>. HIDE DEF g, Next1
  <2>4. ASSUME NEW k \in 1..(M + 1)
        PROVE  g[k] = Next1(g[k - 1])
    <3>1. k - 1 \in 0..M
      BY <2>1
    <3>2. g[k - 1] = f[k - 1]
      BY <2>3, <3>1
    <3>3. CASE k = M + 1
      BY <2>1, <2>3, <3>2, <3>3
    <3>4. CASE k # M + 1
      <4>1. k \in 1..M /\ k \in 0..M
        BY <2>1, <3>4
      <4>2. f[k] = Next1(f[k - 1])
        BY <2>2, <4>1 DEF Walks, Next1
      <4>. QED  BY <2>3, <3>2, <4>1, <4>2
    <3>. QED  BY <3>3, <3>4
  <2>5. g[0] = S
    <3>1. 0 \in 0..M /\ f[0] = S
      BY <2>1, <2>2 DEF Walks
    <3>. QED  BY <2>3, <3>1
  <2>6. Walks(g, d, S, M + 1)
    BY <2>3, <2>4, <2>5 DEF Walks, Next1
  <2>. QED  BY <2>1, <2>6
<1>4. Good = Nat
  <2>1. Good \in SUBSET Nat
    OBVIOUS
  <2>. HIDE DEF Good
  <2>. QED  BY <1>2, <1>3, <2>1, CountUp
<1>5. PICK f : Walks(f, d, S, L)
  BY <1>0, <1>4
<1>6. f = [k \in 0..L |-> Kind(f, k)]
  <2>1. ASSUME NEW k \in 0..L
        PROVE  f[k] = Kind(f, k)
    <3>1. k = 0 \/ k \in 1..L
      BY <1>0
    <3>. QED  BY <1>0, <1>5, <3>1 DEF Walks
  <2>. HIDE DEF Kind
  <2>2. f = [k \in 0..L |-> f[k]]
    BY <1>5 DEF Walks
  <2>. QED  BY <2>1, <2>2
<1>7. v = [k \in 0..L |-> Kind(v, k)]
  BY <1>6
<1>. HIDE DEF v
<1>8. ASSUME NEW k \in 0..L
      PROVE  v[k] = Kind(v, k)
  BY <1>7
<1>9. v = [k \in 0..L |-> v[k]]
  BY <1>7
<1>10. \A k \in 1..L : k \in 0..L /\ k # 0
  BY <1>0
<1>11. v[0] = S
  <2>1. Kind(v, 0) = S /\ 0 \in 0..L
    BY <1>0
  <2>. HIDE DEF Kind
  <2>. QED  BY <1>8, <2>1
<1>. QED  BY <1>1, <1>8, <1>9, <1>10, <1>11 DEF Walks, L

\* It collects its first nodes, and leaves no set of nodes that no edge leads out of.
LEMMA CollectStays ==
    ASSUME NEW d, NEW S, Len(d.nodes) \in Nat, NEW R, S \subseteq R, \A n \in R : Adjacent(d, n) \subseteq R
    PROVE  Collect(d, S) \subseteq R
<1>. DEFINE L == Len(d.nodes)
<1>1. PICK v : Walks(v, d, S, L) /\ Collect(d, S) = v[L]
  BY CollectWalks
<1>. DEFINE Good == {k \in Nat : k <= L => v[k] \subseteq R}
<1>2. 0 \in Good
  BY <1>1 DEF Walks
<1>3. ASSUME NEW m \in Good
      PROVE  m + 1 \in Good
  <2>1. SUFFICES ASSUME m + 1 <= L PROVE v[m + 1] \subseteq R
    OBVIOUS
  <2>2. m \in Nat /\ m + 1 \in 1..L /\ m <= L /\ (m + 1) - 1 = m
    BY <2>1
  <2>3. v[m] \subseteq R
    BY <2>2
  <2>4. v[m + 1] = v[m] \cup UNION {Adjacent(d, n) : n \in v[m]}
    BY <1>1, <2>2 DEF Walks
  <2>. QED  BY <2>3, <2>4
<1>4. Good = Nat
  <2>1. Good \in SUBSET Nat
    OBVIOUS
  <2>. HIDE DEF Good
  <2>. QED  BY <1>2, <1>3, <2>1, CountUp
<1>. QED  BY <1>1, <1>4

\* The nodes of d in an order in which its edges lead from each to the next, a trigger first.
Path(d, p) ==
    LET n == Len(d.nodes)
    IN  /\ n \in Nat \ {0} /\ Len(d.edges) = n - 1
        /\ p \in [1..n -> NodesOf(d)]
        /\ \A i, j \in 1..n : p[i] = p[j] => i = j
        /\ \A x \in NodesOf(d) : \E i \in 1..n : p[i] = x
        /\ d.type[p[1]] = "trigger"
        /\ Items(d.edges) = {Link(p[i], p[i + 1]) : i \in 1..(n - 1)}

LEMMA IsPathAs ==
    ASSUME NEW d, Neat(d)
    PROVE  IsPath(d) <=> \E p : Path(d, p)
<1>. DEFINE k == d.nodes  n == Len(k)  N == NodesOf(d)
<1>1. /\ n \in Nat /\ k \in [1..n -> N] /\ (\A i, j \in 1..n : k[i] = k[j] => i = j)
      /\ (\A x \in N : \E i \in 1..n : k[i] = x) /\ Len(d.edges) \in Nat
  <2>1. k \in Seq(Steps) /\ d.edges \in Seq(Edge) /\ Distinct(k) /\ N = {k[i] : i \in DOMAIN k}
    BY DEF Neat, TypedDefinition, NodesOf
  <2>. HIDE DEF k, N
  <2>2. DOMAIN k = 1..n /\ n \in Nat /\ k = [i \in 1..n |-> k[i]]
    BY <2>1
  <2>. HIDE DEF n
  <2>3. k \in [1..n -> N]
    BY <2>1, <2>2
  <2>4. Len(d.edges) \in Nat
    BY <2>1
  <2>. QED  BY <2>1, <2>2, <2>3, <2>4 DEF Distinct
<1>2. Items(d.edges) = {d.edges[i] : i \in DOMAIN d.edges}
  BY DEF Items
<1>. DEFINE Runs(p) == /\ d.type[p[1]] = "trigger"
                       /\ Items(d.edges) = {Link(p[i], p[i + 1]) : i \in 1..(n - 1)}
            Meets(p) == {p[i] : i \in 1..n} = N
<1>3. IsPath(d) <=> Len(d.edges) = n - 1 /\ \E p \in [1..n -> N] : Runs(p) /\ Meets(p)
  BY <1>2 DEF IsPath
<1>4. ASSUME NEW p
      PROVE  Path(d, p) <=> /\ n # 0 /\ Len(d.edges) = n - 1
                            /\ p \in [1..n -> N]
                            /\ \A i, j \in 1..n : p[i] = p[j] => i = j
                            /\ \A x \in N : \E i \in 1..n : p[i] = x
                            /\ Runs(p)
  BY <1>1 DEF Path
<1>. HIDE DEF k, n, N, Runs
<1>5. ASSUME Len(d.edges) = n - 1, NEW p \in [1..n -> N], Runs(p), Meets(p)
      PROVE  Path(d, p)
  <2>1. \A x \in N : \E i \in 1..n : p[i] = x
    BY <1>5
  <2>2. n # 0
    BY <1>1, <1>5
  <2>3. IsFiniteSet(1..n) /\ Cardinality(N) = Cardinality(1..n) /\ IsFiniteSet(N)
    <3>1. k \in Bijection(1..n, N)
      BY <1>1, Fun_IsBij
    <3>2. ExistsBijection(1..n, N)
      BY <3>1 DEF ExistsBijection
    <3>3. IsFiniteSet(1..n) /\ Cardinality(1..n) = n
      BY <1>1, FS_Interval
    <3>4. Cardinality(N) = n
      BY <1>1, <3>2, FS_CountingElements
    <3>. QED  BY <3>3, <3>4, NeatFinite DEF N
  <2>4. p \in Injection(1..n, N)
    <3>1. p \in Surjection(1..n, N)
      BY <2>1, Fun_IsSurj
    <3>. QED  BY <2>3, <3>1, FS_Surjection
  <2>5. \A i, j \in 1..n : p[i] = p[j] => i = j
    BY <2>4, Fun_InjectionProperties
  <2>. QED  BY <1>4, <1>5, <2>1, <2>2, <2>5
<1>6. ASSUME NEW p, Path(d, p)
      PROVE  Len(d.edges) = n - 1 /\ p \in [1..n -> N] /\ Runs(p) /\ Meets(p)
  <2>1. /\ Len(d.edges) = n - 1 /\ p \in [1..n -> N] /\ Runs(p)
        /\ \A x \in N : \E i \in 1..n : p[i] = x
    BY <1>4, <1>6
  <2>. QED  BY <2>1
<1>. HIDE DEF Meets
<1>. QED  BY <1>3, <1>5, <1>6

\* Each of its edges stands once among the edges of d.
LEMMA PathEdges ==
    ASSUME NEW d, Neat(d), NEW p, Path(d, p)
    PROVE  LET n == Len(d.nodes)
           IN  \E at \in [1..(n - 1) -> DOMAIN d.edges] :
                  /\ \A j \in 1..(n - 1) : d.edges[at[j]] = Link(p[j], p[j + 1])
                  /\ \A i \in DOMAIN d.edges : \E j \in 1..(n - 1) : at[j] = i
                  /\ \A i, j \in 1..(n - 1) : at[i] = at[j] => i = j
<1>. DEFINE s == d.edges  n == Len(d.nodes)  g == [j \in 1..(n - 1) |-> Link(p[j], p[j + 1])]
<1>1. /\ n \in Nat \ {0} /\ Len(s) = n - 1 /\ \A i, j \in 1..n : p[i] = p[j] => i = j
      /\ Items(s) = {Link(p[j], p[j + 1]) : j \in 1..(n - 1)}
  BY DEF Path
<1>2. s \in Seq(Edge)
  BY DEF Neat, TypedDefinition
<1>. HIDE DEF s, n
<1>3. DOMAIN s = 1..(n - 1) /\ n - 1 \in Nat /\ s \in [1..(n - 1) -> Edge]
  BY <1>1, <1>2
<1>4. g \in [1..(n - 1) -> Items(s)] /\ \A j \in 1..(n - 1) : g[j] = Link(p[j], p[j + 1])
  BY <1>1
<1>. HIDE DEF g
<1>5. ASSUME NEW i \in 1..(n - 1), NEW j \in 1..(n - 1), g[i] = g[j]
      PROVE  i = j
  <2>1. p[i] = p[j]
    BY <1>4, <1>5, LinkEnds
  <2>2. i \in 1..n /\ j \in 1..n
    BY <1>1
  <2>. QED  BY <1>1, <2>1, <2>2
<1>6. \A x \in Items(s) : \E j \in 1..(n - 1) : g[j] = x
  BY <1>1, <1>4
<1>7. IsFiniteSet(1..(n - 1)) /\ Cardinality(1..(n - 1)) = n - 1 /\ Cardinality(Items(s)) = n - 1
  <2>. DEFINE m == n - 1
  <2>. HIDE DEF m
  <2>1. m \in Nat
    BY <1>3 DEF m
  <2>2. g \in Bijection(1..m, Items(s))
    BY <1>4, <1>5, <1>6, Fun_IsBij DEF m
  <2>3. IsFiniteSet(1..m) /\ Cardinality(1..m) = m
    BY <2>1, FS_Interval
  <2>4. ExistsBijection(1..m, Items(s))
    BY <2>2 DEF ExistsBijection
  <2>. QED  BY <2>1, <2>3, <2>4, FS_CountingElements DEF m
<1>8. \A i, j \in 1..(n - 1) : s[i] = s[j] => i = j
  <2>1. s \in Surjection(1..(n - 1), Items(s))
    <3>1. s \in [1..(n - 1) -> Items(s)] /\ \A x \in Items(s) : \E i \in 1..(n - 1) : s[i] = x
      BY <1>3 DEF Items
    <3>. QED  BY <3>1, Fun_IsSurj
  <2>2. s \in Injection(1..(n - 1), Items(s))
    BY <1>7, <2>1, FS_Surjection
  <2>. QED  BY <2>2, Fun_InjectionProperties
<1>. DEFINE at == [j \in 1..(n - 1) |-> CHOOSE i \in 1..(n - 1) : s[i] = g[j]]
<1>9. ASSUME NEW j \in 1..(n - 1)
      PROVE  at[j] \in 1..(n - 1) /\ s[at[j]] = g[j]
  <2>1. g[j] \in Items(s)
    BY <1>4
  <2>2. \E i \in 1..(n - 1) : s[i] = g[j]
    BY <1>3, <2>1 DEF Items
  <2>. QED  BY <2>2
<1>10. at \in [1..(n - 1) -> 1..(n - 1)]
  BY <1>9
<1>. HIDE DEF at
<1>11. ASSUME NEW i \in 1..(n - 1)
       PROVE  \E j \in 1..(n - 1) : at[j] = i
  <2>1. s[i] \in Items(s)
    BY <1>3 DEF Items
  <2>2. PICK j \in 1..(n - 1) : g[j] = s[i]
    BY <1>6, <2>1
  <2>. QED  BY <1>8, <1>9, <2>2
<1>12. \A i, j \in 1..(n - 1) : at[i] = at[j] => i = j
  BY <1>5, <1>9
<1>13. at \in [1..(n - 1) -> DOMAIN s]
  BY <1>3, <1>10
<1>14. \A j \in 1..(n - 1) : s[at[j]] = Link(p[j], p[j + 1])
  BY <1>4, <1>9
<1>15. \A i \in DOMAIN s : \E j \in 1..(n - 1) : at[j] = i
  BY <1>3, <1>11
<1>. QED  BY <1>12, <1>13, <1>14, <1>15 DEF s, n

\* At the positions I there is the edge from a to b only.
Only(d, I, a, b) == \E i \in DOMAIN d.edges : I = {i} /\ d.edges[i] = Link(a, b)

\* The edges at the nodes of a path.
LEMMA PathShape ==
    ASSUME NEW d, Neat(d), NEW p, Path(d, p), NEW q \in 1..Len(d.nodes)
    PROVE  /\ q = Len(d.nodes) => Out(d, p[q]) = {} /\ Adjacent(d, p[q]) = {}
           /\ q # Len(d.nodes) => Adjacent(d, p[q]) = {p[q + 1]} /\ Only(d, Out(d, p[q]), p[q], p[q + 1])
           /\ q = 1 => In(d, p[q]) = {}
           /\ q # 1 => Only(d, In(d, p[q]), p[q - 1], p[q])
<1>. DEFINE n == Len(d.nodes)
<1>1. n \in Nat \ {0} /\ q \in 1..n /\ \A i, j \in 1..n : p[i] = p[j] => i = j
  BY DEF Path
<1>2. PICK at \in [1..(n - 1) -> DOMAIN d.edges] :
         /\ \A j \in 1..(n - 1) : d.edges[at[j]] = Link(p[j], p[j + 1])
         /\ \A i \in DOMAIN d.edges : \E j \in 1..(n - 1) : at[j] = i
         /\ \A i, j \in 1..(n - 1) : at[i] = at[j] => i = j
  BY PathEdges
<1>. HIDE DEF n
<1>3. ASSUME NEW j \in 1..(n - 1)
      PROVE  /\ at[j] \in DOMAIN d.edges /\ j \in 1..n /\ j + 1 \in 1..n
             /\ d.edges[at[j]].source = p[q] <=> j = q
             /\ d.edges[at[j]].target = p[q] <=> j = q - 1
             /\ d.edges[at[j]].target = p[j + 1]
  <2>1. j \in 1..n /\ j + 1 \in 1..n
    BY <1>1
  <2>2. d.edges[at[j]].source = p[j] /\ d.edges[at[j]].target = p[j + 1]
    BY <1>2, LinkEnds
  <2>3. (p[j] = p[q] <=> j = q) /\ (p[j + 1] = p[q] <=> j = q - 1)
    BY <1>1, <2>1
  <2>. QED  BY <1>2, <2>1, <2>2, <2>3
<1>4. Out(d, p[q]) = {at[j] : j \in {m \in 1..(n - 1) : m = q}}
  <2>1. ASSUME NEW i \in Out(d, p[q]) PROVE i \in {at[j] : j \in {m \in 1..(n - 1) : m = q}}
    <3>1. i \in DOMAIN d.edges /\ d.edges[i].source = p[q]
      BY DEF Out
    <3>2. PICK j \in 1..(n - 1) : at[j] = i
      BY <1>2, <3>1
    <3>. QED  BY <1>3, <3>1, <3>2
  <2>2. ASSUME NEW j \in {m \in 1..(n - 1) : m = q} PROVE at[j] \in Out(d, p[q])
    BY <1>3 DEF Out
  <2>. QED  BY <2>1, <2>2
<1>5. In(d, p[q]) = {at[j] : j \in {m \in 1..(n - 1) : m = q - 1}}
  <2>1. ASSUME NEW i \in In(d, p[q]) PROVE i \in {at[j] : j \in {m \in 1..(n - 1) : m = q - 1}}
    <3>1. i \in DOMAIN d.edges /\ d.edges[i].target = p[q]
      BY DEF In
    <3>2. PICK j \in 1..(n - 1) : at[j] = i
      BY <1>2, <3>1
    <3>. QED  BY <1>3, <3>1, <3>2
  <2>2. ASSUME NEW j \in {m \in 1..(n - 1) : m = q - 1} PROVE at[j] \in In(d, p[q])
    BY <1>3 DEF In
  <2>. QED  BY <2>1, <2>2
<1>6. ASSUME q = n
      PROVE  Out(d, p[q]) = {} /\ Adjacent(d, p[q]) = {}
  <2>1. {m \in 1..(n - 1) : m = q} = {}
    BY <1>1, <1>6
  <2>2. Out(d, p[q]) = {}
    BY <1>4, <2>1
  <2>. QED  BY <2>2 DEF Adjacent
<1>7. ASSUME q # n
      PROVE  /\ Adjacent(d, p[q]) = {p[q + 1]}
             /\ Only(d, Out(d, p[q]), p[q], p[q + 1])
  <2>1. q \in 1..(n - 1) /\ {m \in 1..(n - 1) : m = q} = {q}
    BY <1>1, <1>7
  <2>2. Out(d, p[q]) = {at[q]}
    BY <1>4, <2>1
  <2>3. Adjacent(d, p[q]) = {d.edges[at[q]].target}
    BY <2>2 DEF Adjacent
  <2>. QED  BY <1>2, <1>3, <2>1, <2>2, <2>3 DEF Only
<1>8. ASSUME q = 1
      PROVE  In(d, p[q]) = {}
  <2>1. {m \in 1..(n - 1) : m = q - 1} = {}
    BY <1>8
  <2>. QED  BY <1>5, <2>1
<1>9. ASSUME q # 1
      PROVE  Only(d, In(d, p[q]), p[q - 1], p[q])
  <2>1. q - 1 \in 1..(n - 1) /\ {m \in 1..(n - 1) : m = q - 1} = {q - 1} /\ (q - 1) + 1 = q
    BY <1>1, <1>9
  <2>2. In(d, p[q]) = {at[q - 1]}
    BY <1>5, <2>1
  <2>3. d.edges[at[q - 1]] = Link(p[q - 1], p[q])
    BY <1>2, <2>1
  <2>. QED  BY <1>3, <2>1, <2>2, <2>3 DEF Only
<1>. QED  BY <1>6, <1>7, <1>8, <1>9 DEF n

\* From a node of a path one collects the rest of it.
LEMMA PathCollects ==
    ASSUME NEW d, Neat(d), NEW p, Path(d, p), NEW q \in 1..Len(d.nodes)
    PROVE  Collect(d, {p[q]}) = {p[j] : j \in q..Len(d.nodes)}
<1>. DEFINE n == Len(d.nodes)  R == {p[j] : j \in q..n}
<1>1. n \in Nat \ {0} /\ q \in 1..n /\ \A i, j \in 1..n : p[i] = p[j] => i = j
  BY DEF Path
<1>2. ASSUME NEW j \in 1..n
      PROVE  (j = n => Adjacent(d, p[j]) = {}) /\ (j # n => Adjacent(d, p[j]) = {p[j + 1]})
  BY PathShape
<1>3. PICK v : Walks(v, d, {p[q]}, n) /\ Collect(d, {p[q]}) = v[n]
  BY <1>1, CollectWalks
<1>4. Collect(d, {p[q]}) \subseteq R
  <2>1. p[q] \in R
    BY <1>1
  <2>2. ASSUME NEW x \in R
        PROVE  Adjacent(d, x) \subseteq R
    <3>1. PICK j \in q..n : x = p[j]
      OBVIOUS
    <3>2. j \in 1..n /\ (j # n => j + 1 \in q..n)
      BY <1>1
    <3>. QED  BY <1>2, <3>1, <3>2
  <2>. HIDE DEF R
  <2>. QED  BY <1>1, <2>1, <2>2, CollectStays
<1>. HIDE DEF n
<1>5. ASSUME NEW j \in q..n
      PROVE  p[j] \in v[n]
  <2>. DEFINE Good == {k \in Nat : \A i \in q..n : k <= n /\ i <= q + k => p[i] \in v[k]}
  <2>1. 0 \in Good
    <3>1. \A i \in q..n : i <= q + 0 => i = q
      BY <1>1
    <3>2. v[0] = {p[q]}
      BY <1>3 DEF Walks
    <3>. QED  BY <3>1, <3>2
  <2>2. ASSUME NEW m \in Good
        PROVE  m + 1 \in Good
    <3>1. SUFFICES ASSUME NEW i \in q..n, m + 1 <= n, i <= q + (m + 1)
                   PROVE  p[i] \in v[m + 1]
      OBVIOUS
    <3>2. m \in Nat /\ m <= n /\ m + 1 \in 1..n /\ (m + 1) - 1 = m
      BY <1>1, <3>1
    <3>3. v[m + 1] = v[m] \cup UNION {Adjacent(d, x) : x \in v[m]}
      BY <1>3, <3>2 DEF Walks
    <3>4. CASE i <= q + m
      BY <3>2, <3>3, <3>4
    <3>5. CASE ~(i <= q + m)
      <4>1. /\ i - 1 \in q..n /\ i - 1 <= q + m /\ i - 1 \in 1..n /\ i - 1 # n
            /\ (i - 1) + 1 = i
        BY <1>1, <3>1, <3>2, <3>5
      <4>2. p[i - 1] \in v[m]
        BY <3>2, <4>1
      <4>3. p[i] \in Adjacent(d, p[i - 1])
        BY <1>2, <4>1
      <4>. QED  BY <3>3, <4>2, <4>3
    <3>. QED  BY <3>4, <3>5
  <2>3. Good = Nat
    <3>1. Good \in SUBSET Nat
      OBVIOUS
    <3>. HIDE DEF Good
    <3>. QED  BY <2>1, <2>2, <3>1, CountUp
  <2>4. n \in Good /\ n <= n /\ j <= q + n
    BY <1>1, <2>3
  <2>. QED  BY <2>4
<1>. QED  BY <1>3, <1>4, <1>5 DEF n

\* The validation of the builder raises no issue for a path.
LEMMA PathAccepted ==
    ASSUME NEW d, Neat(d), NEW p, Path(d, p),
           Cardinality(Typed(d, {"trigger"})) = 1, Typed(d, {"condition"}) = {}
    PROVE  BuilderAccepts(d)
<1>. DEFINE n == Len(d.nodes)  N == NodesOf(d)
            starts == {x \in N : In(d, x) = {}}
<1>1. /\ n \in Nat \ {0} /\ (\A x \in N : \E i \in 1..n : p[i] = x)
      /\ d.type[p[1]] = "trigger" /\ p[1] \in N /\ \A i \in 1..n : p[i] \in N
  BY DEF Path
<1>2. ASSUME NEW q \in 1..n
      PROVE  /\ q = n => Out(d, p[q]) = {} /\ Adjacent(d, p[q]) = {}
             /\ q # n => /\ Adjacent(d, p[q]) = {p[q + 1]}
                         /\ \E i \in DOMAIN d.edges : Out(d, p[q]) = {i}
             /\ q = 1 => In(d, p[q]) = {}
             /\ q # 1 => \E i \in DOMAIN d.edges : In(d, p[q]) = {i}
  <2>1. (q = n => Out(d, p[q]) = {} /\ Adjacent(d, p[q]) = {}) /\ (q = 1 => In(d, p[q]) = {})
    BY PathShape
  <2>2. q # n => Adjacent(d, p[q]) = {p[q + 1]} /\ \E i \in DOMAIN d.edges : Out(d, p[q]) = {i}
    <3>1. SUFFICES ASSUME q # n
                   PROVE  Adjacent(d, p[q]) = {p[q + 1]} /\ \E i \in DOMAIN d.edges : Out(d, p[q]) = {i}
      OBVIOUS
    <3>2. Only(d, Out(d, p[q]), p[q], p[q + 1])
      BY <3>1, PathShape
    <3>3. Adjacent(d, p[q]) = {p[q + 1]}
      BY <3>1, PathShape
    <3>. QED  BY <3>2, <3>3 DEF Only
  <2>3. q # 1 => \E i \in DOMAIN d.edges : In(d, p[q]) = {i}
    <3>1. SUFFICES ASSUME q # 1 PROVE \E i \in DOMAIN d.edges : In(d, p[q]) = {i}
      OBVIOUS
    <3>2. Only(d, In(d, p[q]), p[q - 1], p[q])
      BY <3>1, PathShape
    <3>. QED  BY <3>2 DEF Only
  <2>. QED  BY <2>1, <2>2, <2>3
<1>3. \A i \in DOMAIN d.edges : d.edges[i].branch = ""
  <2>1. ASSUME NEW i \in DOMAIN d.edges
        PROVE  d.edges[i].branch = ""
    <3>1. d.edges[i] \in Items(d.edges)
      BY DEF Items
    <3>2. PICK j \in 1..(n - 1) : d.edges[i] = Link(p[j], p[j + 1])
      BY <3>1 DEF Path
    <3>3. Link(p[j], p[j + 1]).branch = ""
      BY DEF Link
    <3>. QED  BY <3>2, <3>3
  <2>. QED  BY <2>1
<1>4. starts = {p[1]}
  <2>1. 1 \in 1..n
    BY <1>1
  <2>2. p[1] \in starts
    BY <1>1, <1>2, <2>1
  <2>3. ASSUME NEW x \in starts
        PROVE  x = p[1]
    <3>1. PICK q \in 1..n : p[q] = x
      BY <1>1
    <3>. QED  BY <1>2, <3>1
  <2>. QED  BY <2>2, <2>3
<1>5. \A x \in Typed(d, {"trigger"}) : In(d, x) = {}
  <2>1. p[1] \in Typed(d, {"trigger"})
    BY <1>1 DEF Typed
  <2>2. IsFiniteSet(Typed(d, {"trigger"}))
    <3>1. Typed(d, {"trigger"}) \in SUBSET NodesOf(d)
      BY DEF Typed
    <3>. QED  BY <3>1, NeatFinite, FS_Subset
  <2>3. Typed(d, {"trigger"}) = {p[1]}
    BY <2>1, <2>2, FS_Singleton
  <2>. QED  BY <1>4, <2>3
<1>6. \A x \in N : Cardinality(In(d, x)) <= 1 /\ Cardinality(Out(d, x)) <= 1
  <2>1. ASSUME NEW x \in N
        PROVE  Cardinality(In(d, x)) <= 1 /\ Cardinality(Out(d, x)) <= 1
    <3>1. PICK q \in 1..n : p[q] = x
      BY <1>1
    <3>2. In(d, x) = {} \/ \E i : In(d, x) = {i}
      BY <1>2, <3>1
    <3>3. Out(d, x) = {} \/ \E i : Out(d, x) = {i}
      BY <1>2, <3>1
    <3>4. Cardinality(In(d, x)) = 0 \/ Cardinality(In(d, x)) = 1
      BY <3>2, FS_EmptySet, FS_Singleton
    <3>5. Cardinality(Out(d, x)) = 0 \/ Cardinality(Out(d, x)) = 1
      BY <3>3, FS_EmptySet, FS_Singleton
    <3>. QED  BY <3>4, <3>5
  <2>. QED  BY <2>1
<1>7. ~Cyclic(d)
  <2>1. SUFFICES ASSUME NEW S \in SUBSET N, S # {}, \A x \in S : Adjacent(d, x) \cap S # {}
                 PROVE  FALSE
    BY DEF Cyclic
  <2>. DEFINE Backs == {n - i : i \in {i \in 1..n : p[i] \in S}}
  <2>2. Backs \in SUBSET Nat /\ Backs # {}
    <3>1. PICK x \in S : TRUE
      BY <2>1
    <3>2. PICK i \in 1..n : p[i] = x
      BY <1>1, <3>1
    <3>3. \A j \in 1..n : n - j \in Nat
      BY <1>1
    <3>. QED  BY <3>1, <3>2, <3>3
  <2>. HIDE DEF n
  <2>3. PICK b \in Backs : \A c \in Backs : b <= c
    <3>. HIDE DEF Backs
    <3>. QED  BY <2>2, LeastOne DEF IsLeast
  <2>4. PICK i \in 1..n : p[i] \in S /\ b = n - i
    BY <2>3
  <2>5. Adjacent(d, p[i]) \cap S # {}
    BY <2>1, <2>4
  <2>6. i # n /\ p[i + 1] \in S
    BY <1>2, <2>5
  <2>7. i + 1 \in 1..n
    BY <1>1, <2>6
  <2>8. n - (i + 1) \in Backs
    BY <2>6, <2>7
  <2>9. b <= n - (i + 1)
    BY <2>3, <2>8
  <2>. QED  BY <1>1, <2>4, <2>9
<1>8. ~HasCycle(d)
  BY <1>7, NeatFinite
<1>9. Collect(d, starts) = N
  <2>1. 1 \in 1..n
    BY <1>1
  <2>2. Collect(d, {p[1]}) = {p[j] : j \in 1..n}
    BY <2>1, PathCollects
  <2>3. {p[j] : j \in 1..n} = N
    BY <1>1
  <2>. HIDE DEF starts, n
  <2>. QED  BY <1>4, <2>2, <2>3
<1>10. Cardinality(starts) = 1
  BY <1>4, FS_Singleton
<1>. HIDE DEF n
<1>. QED  BY <1>3, <1>5, <1>6, <1>8, <1>9, <1>10 DEF BuilderAccepts

\* k nodes, each behind the one before it, from t on.
Chain(d, p, t, k) ==
    /\ p \in [1..k -> NodesOf(d)] /\ p[1] = t
    /\ \A i, j \in 1..k : p[i] = p[j] => i = j
    /\ \A i \in 1..(k - 1) : p[i + 1] \in Adjacent(d, p[i])

\* From the trigger t, which nothing leads to, one comes to every node of d, and no node has two
\* edges in or two edges out.
Lined(d, t) ==
    /\ t \in NodesOf(d) /\ d.type[t] = "trigger" /\ In(d, t) = {} /\ Collect(d, {t}) = NodesOf(d)
    /\ \A x \in NodesOf(d) : (\A i, j \in Out(d, x) : i = j) /\ (\A i, j \in In(d, x) : i = j)
    /\ \A i \in DOMAIN d.edges : d.edges[i].branch = ""

LEMMA AcceptedFacts ==
    ASSUME NEW d, Neat(d), BuilderAccepts(d)
    PROVE  \E t : Lined(d, t)
<1>. DEFINE starts == {x \in NodesOf(d) : In(d, x) = {}}
<1>1. /\ Cardinality(Typed(d, {"trigger"})) = 1 /\ Cardinality(starts) = 1
      /\ \A x \in Typed(d, {"trigger"}) : In(d, x) = {}
      /\ \A x \in NodesOf(d) : Cardinality(In(d, x)) <= 1 /\ Cardinality(Out(d, x)) <= 1
      /\ Collect(d, starts) = NodesOf(d)
      /\ \A i \in DOMAIN d.edges : d.edges[i].branch = ""
  BY DEF BuilderAccepts
<1>2. IsFiniteSet(starts) /\ IsFiniteSet(Typed(d, {"trigger"}))
  <2>1. starts \in SUBSET NodesOf(d) /\ Typed(d, {"trigger"}) \in SUBSET NodesOf(d)
    BY DEF Typed
  <2>. HIDE DEF starts
  <2>. QED  BY <2>1, NeatFinite, FS_Subset
<1>. HIDE DEF starts
<1>3. PICK t : Typed(d, {"trigger"}) = {t}
  BY <1>1, <1>2, FS_Singleton
<1>4. t \in NodesOf(d) /\ d.type[t] = "trigger" /\ In(d, t) = {}
  BY <1>1, <1>3 DEF Typed
<1>5. PICK s : starts = {s}
  BY <1>1, <1>2, FS_Singleton
<1>6. starts = {t}
  <2>1. t \in starts
    BY <1>4 DEF starts
  <2>. QED  BY <1>5, <2>1
<1>7. IsFiniteSet(DOMAIN d.edges)
  <2>1. d.edges \in Seq(Edge)
    BY DEF Neat, TypedDefinition
  <2>2. DOMAIN d.edges = 1..Len(d.edges) /\ Len(d.edges) \in Nat
    BY <2>1
  <2>3. IsFiniteSet(1..Len(d.edges))
    BY <2>2, FS_Interval
  <2>. QED  BY <2>2, <2>3
<1>8. ASSUME NEW I \in SUBSET DOMAIN d.edges, Cardinality(I) <= 1, NEW i \in I, NEW j \in I
      PROVE  i = j
  <2>1. IsFiniteSet(I) /\ Cardinality(I) \in Nat
    BY <1>7, FS_Subset, FS_CardinalityType
  <2>2. Cardinality(I) # 0
    BY <2>1, FS_EmptySet
  <2>3. Cardinality(I) = 1
    BY <1>8, <2>1, <2>2
  <2>. QED  BY <2>1, <2>3, FS_Singleton
<1>9. ASSUME NEW x \in NodesOf(d)
      PROVE  (\A i, j \in Out(d, x) : i = j) /\ (\A i, j \in In(d, x) : i = j)
  <2>1. Out(d, x) \in SUBSET DOMAIN d.edges /\ In(d, x) \in SUBSET DOMAIN d.edges
    BY DEF Out, In
  <2>2. Cardinality(In(d, x)) <= 1 /\ Cardinality(Out(d, x)) <= 1
    BY <1>1
  <2>. QED  BY <1>8, <2>1, <2>2
<1>. QED  BY <1>1, <1>4, <1>6, <1>9 DEF Lined

\* The nodes of such a definition in their order, one behind the other.
LEMMA ChainOfAll ==
    ASSUME NEW d, Neat(d), NEW t, Lined(d, t)
    PROVE  Len(d.nodes) \in Nat \ {0} /\ \E p : Chain(d, p, t, Len(d.nodes))
<1>. DEFINE n == Len(d.nodes)  N == NodesOf(d)
<1>1. n \in Nat /\ IsFiniteSet(N) /\ Cardinality(N) = n
  BY NeatFinite
<1>2. n # 0 /\ t \in N /\ Collect(d, {t}) = N /\ \A x \in N : \A i, j \in Out(d, x) : i = j
  <2>1. t \in N /\ Collect(d, {t}) = N /\ \A x \in N : \A i, j \in Out(d, x) : i = j
    BY DEF Lined
  <2>. QED  BY <1>1, <2>1, FS_EmptySet
<1>. DEFINE Good == {k \in Nat : k + 1 <= n => \E p : Chain(d, p, t, k + 1)}
<1>3. 0 \in Good
  <2>. DEFINE p == [i \in 1..1 |-> t]
  <2>1. Chain(d, p, t, 1)
    BY <1>2 DEF Chain
  <2>. QED  BY <2>1
<1>. HIDE DEF n
<1>4. ASSUME NEW m \in Good
      PROVE  m + 1 \in Good
  <2>1. SUFFICES ASSUME (m + 1) + 1 <= n PROVE \E p : Chain(d, p, t, (m + 1) + 1)
    OBVIOUS
  <2>. DEFINE k == m + 1
  <2>2. m \in Nat /\ k \in Nat \ {0} /\ k <= n /\ k # n
    BY <1>1, <2>1
  <2>3. PICK p : Chain(d, p, t, k)
    BY <2>2
  <2>. HIDE DEF k
  <2>. DEFINE R == {p[i] : i \in 1..k}
  <2>4. /\ p \in [1..k -> N] /\ p[1] = t /\ \A i, j \in 1..k : p[i] = p[j] => i = j
        /\ \A i \in 1..(k - 1) : p[i + 1] \in Adjacent(d, p[i])
    BY <2>3 DEF Chain
  <2>5. R # N
    <3>1. SUFFICES ASSUME R = N PROVE FALSE
      OBVIOUS
    <3>2. p \in Bijection(1..k, N)
      <4>1. \A x \in N : \E i \in 1..k : p[i] = x
        BY <3>1
      <4>. HIDE DEF N, R
      <4>. QED  BY <2>4, <4>1, Fun_IsBij
    <3>3. ExistsBijection(1..k, N)
      BY <3>2 DEF ExistsBijection
    <3>4. Cardinality(N) = k
      <4>. HIDE DEF N
      <4>. QED  BY <2>2, <3>3, FS_CountingElements
    <3>. QED  BY <1>1, <2>2, <3>4
  <2>6. R \subseteq N /\ t \in R
    <3>1. 1 \in 1..k
      BY <2>2
    <3>. QED  BY <1>2, <2>4, <3>1
  <2>7. PICK x \in R : ~(Adjacent(d, x) \subseteq R)
    <3>1. SUFFICES ASSUME \A x \in R : Adjacent(d, x) \subseteq R PROVE FALSE
      OBVIOUS
    <3>. HIDE DEF R
    <3>2. {t} \subseteq R /\ Len(d.nodes) \in Nat
      BY <1>1, <2>6 DEF n
    <3>3. Collect(d, {t}) \subseteq R
      BY <3>1, <3>2, CollectStays
    <3>. QED  BY <1>2, <2>5, <2>6, <3>3
  <2>8. PICK y \in Adjacent(d, x) : y \notin R
    BY <2>7
  <2>9. PICK i \in 1..k : p[i] = x
    BY <2>7
  <2>10. i = k
    <3>1. SUFFICES ASSUME i # k PROVE FALSE
      OBVIOUS
    <3>2. i \in 1..(k - 1) /\ i + 1 \in 1..k
      BY <2>2, <3>1
    <3>3. p[i + 1] \in Adjacent(d, x) /\ p[i + 1] \in R
      BY <2>4, <2>9, <3>2
    <3>4. PICK a \in Out(d, x) : d.edges[a].target = y
      BY <2>8 DEF Adjacent
    <3>5. PICK b \in Out(d, x) : d.edges[b].target = p[i + 1]
      BY <3>3 DEF Adjacent
    <3>6. x \in N
      BY <2>6
    <3>. HIDE DEF R
    <3>. QED  BY <1>2, <2>8, <3>3, <3>4, <3>5, <3>6
  <2>11. y \in N /\ y \in Adjacent(d, p[k])
    BY <2>8, <2>9, <2>10, NeatFinite
  <2>. DEFINE q == [j \in 1..(k + 1) |-> IF j = k + 1 THEN y ELSE p[j]]
  <2>12. q \in [1..(k + 1) -> N] /\ q[k + 1] = y /\ \A j \in 1..k : q[j] = p[j]
    <3>1. \A j \in 1..(k + 1) : j = k + 1 \/ j \in 1..k
      BY <2>2
    <3>2. \A j \in 1..k : j \in 1..(k + 1) /\ j # k + 1
      BY <2>2
    <3>3. k + 1 \in 1..(k + 1)
      BY <2>2
    <3>. QED  BY <2>4, <2>11, <3>1, <3>2, <3>3
  <2>. HIDE DEF q
  <2>13. q[1] = t
    BY <2>2, <2>4, <2>12
  <2>14. ASSUME NEW a \in 1..(k + 1), NEW b \in 1..(k + 1), q[a] = q[b]
         PROVE  a = b
    <3>1. \A j \in 1..(k + 1) : j = k + 1 \/ j \in 1..k
      BY <2>2
    <3>2. \A j \in 1..k : q[j] \in R
      BY <2>12
    <3>. HIDE DEF R
    <3>. QED  BY <2>4, <2>8, <2>12, <2>14, <3>1, <3>2
  <2>15. ASSUME NEW j \in 1..((k + 1) - 1)
         PROVE  q[j + 1] \in Adjacent(d, q[j])
    <3>1. CASE j = k
      <4>1. q[j] = p[k] /\ q[j + 1] = y
        BY <2>2, <2>12, <3>1
      <4>. QED  BY <2>11, <4>1
    <3>2. CASE j # k
      <4>1. j \in 1..(k - 1) /\ j \in 1..k /\ j + 1 \in 1..k
        BY <2>2, <3>2
      <4>2. q[j] = p[j] /\ q[j + 1] = p[j + 1]
        BY <2>12, <4>1
      <4>. QED  BY <2>4, <4>1, <4>2
    <3>. QED  BY <3>1, <3>2
  <2>16. Chain(d, q, t, k + 1)
    BY <2>12, <2>13, <2>14, <2>15 DEF Chain
  <2>. QED  BY <2>16 DEF k
<1>5. Good = Nat
  <2>1. Good \in SUBSET Nat
    OBVIOUS
  <2>. HIDE DEF Good
  <2>. QED  BY <1>3, <1>4, <2>1, CountUp
<1>6. n - 1 \in Good
  <2>. HIDE DEF Good
  <2>. QED  BY <1>1, <1>2, <1>5
<1>7. \E p : Chain(d, p, t, n)
  <2>1. (n - 1) + 1 = n /\ n <= n
    BY <1>1
  <2>. QED  BY <1>6, <2>1
<1>. QED  BY <1>1, <1>2, <1>7 DEF n

\* The edges of such a definition are those from each node to the next.
LEMMA ChainIsPath ==
    ASSUME NEW d, Neat(d), NEW t, Lined(d, t), NEW p, Chain(d, p, t, Len(d.nodes))
    PROVE  Path(d, p)
<1>. DEFINE n == Len(d.nodes)  N == NodesOf(d)  s == d.edges  m == Len(s)
<1>0. n \in Nat \ {0} /\ n - 1 \in Nat
  BY ChainOfAll
<1>15. /\ d.type[t] = "trigger" /\ In(d, t) = {}
      /\ \A x \in N : (\A i, j \in Out(d, x) : i = j) /\ (\A i, j \in In(d, x) : i = j)
      /\ \A i \in DOMAIN s : s[i].branch = ""
  BY DEF Lined
<1>1. p \in [1..n -> N] /\ p[1] = t /\ \A i, j \in 1..n : p[i] = p[j] => i = j
  BY DEF Chain
<1>14. \A i \in 1..(n - 1) : p[i + 1] \in Adjacent(d, p[i])
  BY DEF Chain
<1>2. IsFiniteSet(N) /\ Cardinality(N) = n
  BY NeatFinite
<1>3. m \in Nat /\ DOMAIN s = 1..m
  <2>1. s \in Seq(Edge)
    BY DEF Neat, TypedDefinition
  <2>. HIDE DEF s
  <2>. QED  BY <2>1
<1>4. ASSUME NEW j \in 1..m
      PROVE  s[j].source \in N /\ s[j].target \in N /\ s[j] \in Edge
             /\ s[j] = Link(s[j].source, s[j].target)
  <2>1. j \in DOMAIN s
    BY <1>3
  <2>2. s[j].source \in N /\ s[j].target \in N /\ s[j] \in Edge /\ s[j].branch = ""
    BY <1>15, <2>1, NeatEnds
  <2>. HIDE DEF s
  <2>. QED  BY <2>2 DEF Edge, Link
<1>5. ASSUME NEW j \in 1..m
      PROVE  j \in Out(d, s[j].source) /\ j \in In(d, s[j].target)
  BY <1>3 DEF Out, In
<1>6. ASSUME NEW j \in 1..m, NEW k \in 1..m
      PROVE  (s[j].source = s[k].source \/ s[j].target = s[k].target) => j = k
  <2>1. s[j].source \in N /\ s[j].target \in N
    BY <1>4
  <2>2. j \in Out(d, s[j].source) /\ j \in In(d, s[j].target)
    BY <1>5
  <2>3. k \in Out(d, s[k].source) /\ k \in In(d, s[k].target)
    BY <1>5
  <2>. HIDE DEF s, m, N
  <2>. QED  BY <1>15, <2>1, <2>2, <2>3
<1>7. \A x \in N : \E i \in 1..n : p[i] = x
  <2>. HIDE DEF n, N
  <2>1. IsFiniteSet(1..n) /\ Cardinality(1..n) = n
    BY <1>0, FS_Interval
  <2>2. p \in Injection(1..n, N)
    BY <1>1, Fun_IsInj
  <2>3. Cardinality(1..n) = Cardinality(N)
    BY <1>2, <2>1
  <2>4. p \in Surjection(1..n, N)
    BY <1>2, <2>2, <2>3, FS_Injection
  <2>. QED  BY <2>4 DEF Surjection
<1>8. ASSUME NEW i \in 1..(n - 1)
      PROVE  \E j \in 1..m : s[j].source = p[i] /\ s[j].target = p[i + 1]
  <2>1. PICK j \in Out(d, p[i]) : d.edges[j].target = p[i + 1]
    <3>1. p[i + 1] \in Adjacent(d, p[i])
      BY <1>14
    <3>. QED  BY <3>1 DEF Adjacent
  <2>2. j \in DOMAIN s /\ s[j].source = p[i]
    BY DEF Out
  <2>. QED  BY <1>3, <2>1, <2>2
<1>9. ASSUME NEW j \in 1..m
      PROVE  s[j].target # t
  BY <1>15, <1>5
<1>. HIDE DEF n, N, s, m
<1>10. ASSUME NEW j \in 1..m
       PROVE  \E i \in 1..(n - 1) : s[j].source = p[i] /\ s[j].target = p[i + 1]
  <2>1. PICK i \in 1..n : p[i] = s[j].source
    BY <1>4, <1>7
  <2>2. CASE i # n
    <3>1. i \in 1..(n - 1)
      BY <1>0, <2>2
    <3>2. PICK k \in 1..m : s[k].source = p[i] /\ s[k].target = p[i + 1]
      BY <1>8, <3>1
    <3>3. k = j
      BY <1>6, <2>1, <3>2
    <3>. QED  BY <3>1, <3>2, <3>3
  <2>3. CASE i = n
    <3>1. PICK a \in 1..n : p[a] = s[j].target
      BY <1>4, <1>7
    <3>2. a # 1
      BY <1>1, <1>9, <3>1
    <3>3. a - 1 \in 1..(n - 1) /\ (a - 1) + 1 = a /\ a - 1 \in 1..n
      BY <1>0, <3>2
    <3>4. PICK k \in 1..m : s[k].source = p[a - 1] /\ s[k].target = p[a]
      BY <1>8, <3>3
    <3>5. k = j
      BY <1>6, <3>1, <3>4
    <3>6. p[a - 1] = p[n]
      BY <2>1, <2>3, <3>4, <3>5
    <3>7. n \in 1..n /\ a - 1 # n
      BY <1>0
    <3>. QED  BY <1>1, <3>3, <3>6, <3>7
  <2>. QED  BY <2>2, <2>3
<1>11. Items(s) = {Link(p[i], p[i + 1]) : i \in 1..(n - 1)}
  <2>1. Items(s) = {s[j] : j \in 1..m}
    BY <1>3 DEF Items
  <2>2. ASSUME NEW j \in 1..m PROVE s[j] \in {Link(p[i], p[i + 1]) : i \in 1..(n - 1)}
    BY <1>4, <1>10
  <2>3. ASSUME NEW i \in 1..(n - 1) PROVE Link(p[i], p[i + 1]) \in {s[j] : j \in 1..m}
    <3>1. PICK j \in 1..m : s[j].source = p[i] /\ s[j].target = p[i + 1]
      BY <1>8
    <3>2. s[j] = Link(p[i], p[i + 1])
      BY <1>4, <3>1
    <3>. QED  BY <3>2
  <2>. QED  BY <2>1, <2>2, <2>3
<1>12. m = n - 1
  <2>. DEFINE at == [i \in 1..(n - 1) |-> CHOOSE j \in 1..m : s[j].source = p[i] /\ s[j].target = p[i + 1]]
  <2>1. ASSUME NEW i \in 1..(n - 1)
        PROVE  at[i] \in 1..m /\ s[at[i]].source = p[i]
    BY <1>8
  <2>2. at \in [1..(n - 1) -> 1..m]
    BY <2>1
  <2>. HIDE DEF at
  <2>3. ASSUME NEW i \in 1..(n - 1), NEW k \in 1..(n - 1), at[i] = at[k]
        PROVE  i = k
    <3>1. p[i] = p[k]
      BY <2>1, <2>3
    <3>2. i \in 1..n /\ k \in 1..n
      BY <1>0
    <3>. QED  BY <1>1, <3>1, <3>2
  <2>4. ASSUME NEW j \in 1..m
        PROVE  \E i \in 1..(n - 1) : at[i] = j
    <3>1. PICK i \in 1..(n - 1) : s[j].source = p[i]
      BY <1>10
    <3>2. at[i] = j
      BY <1>6, <2>1, <3>1
    <3>. QED  BY <3>2
  <2>5. at \in Bijection(1..(n - 1), 1..m)
    BY <2>2, <2>3, <2>4, Fun_IsBij
  <2>6. n - 1 \in Nat /\ IsFiniteSet(1..m) /\ Cardinality(1..m) = m
    BY <1>0, <1>3, FS_Interval
  <2>7. ExistsBijection(1..(n - 1), 1..m)
    BY <2>5 DEF ExistsBijection
  <2>. DEFINE k == n - 1
  <2>8. k \in Nat /\ ExistsBijection(1..k, 1..m)
    BY <2>6, <2>7
  <2>. HIDE DEF k
  <2>9. Cardinality(1..m) = k
    BY <2>8, FS_CountingElements
  <2>. QED  BY <2>6, <2>9 DEF k
<1>13. d.type[p[1]] = "trigger"
  BY <1>15, <1>1
<1>. QED  BY <1>0, <1>1, <1>7, <1>11, <1>12, <1>13 DEF Path, n, N, s, m

\* The validation of the builder raises no issue exactly for the paths with one trigger and no
\* condition.
LEMMA BuilderAcceptsPaths ==
    ASSUME NEW d, Neat(d)
    PROVE  BuilderAccepts(d) <=> /\ IsPath(d)
                                 /\ Cardinality(Typed(d, {"trigger"})) = 1
                                 /\ Typed(d, {"condition"}) = {}
<1>1. ASSUME BuilderAccepts(d)
      PROVE  IsPath(d)
  <2>1. PICK t : Lined(d, t)
    BY <1>1, AcceptedFacts
  <2>2. Len(d.nodes) \in Nat \ {0} /\ \E p : Chain(d, p, t, Len(d.nodes))
    BY <2>1, ChainOfAll
  <2>3. PICK p : Chain(d, p, t, Len(d.nodes))
    BY <2>2
  <2>4. Path(d, p)
    BY <2>1, <2>2, <2>3, ChainIsPath
  <2>. QED  BY <2>4, IsPathAs
<1>2. BuilderAccepts(d) => Cardinality(Typed(d, {"trigger"})) = 1 /\ Typed(d, {"condition"}) = {}
  BY DEF BuilderAccepts
<1>3. ASSUME IsPath(d), Cardinality(Typed(d, {"trigger"})) = 1, Typed(d, {"condition"}) = {}
      PROVE  BuilderAccepts(d)
  <2>1. PICK p : Path(d, p)
    BY <1>3, IsPathAs
  <2>. QED  BY <1>3, <2>1, PathAccepted
<1>. QED  BY <1>1, <1>2, <1>3

\* The API accepts what the builder raises no issue for.
LEMMA AcceptedByBoth ==
    ASSUME NEW d, Neat(d), BuilderAccepts(d)
    PROVE  ServerAccepts(d)
<1>1. ~HasCycle(d) /\ Cardinality(Typed(d, {"trigger"})) = 1
  BY DEF BuilderAccepts
<1>2. d.nodes # << >>
  <2>1. SUFFICES ASSUME d.nodes = << >> PROVE FALSE
    OBVIOUS
  <2>2. Typed(d, {"trigger"}) = {}
    BY <2>1 DEF Typed, NodesOf
  <2>. QED  BY <1>1, <2>2, FS_EmptySet
<1>3. ~Cyclic(d)
  BY <1>1, NeatFinite
<1>. QED  BY <1>2, <1>3, NeatAccepted

\* e is a path, with the nodes it has from d in their order.
PathKept(d, e) ==
    /\ IsPath(e)
    /\ \A a, b \in NodesOf(d) \cap NodesOf(e) : b \in Collect(d, {a}) => b \in Collect(e, {a})

\* f gives the new places of the nodes that stay.
LEMMA PathKeepsOrder ==
    ASSUME NEW d, Neat(d), NEW p, Path(d, p), NEW e, Neat(e), NEW r, Path(e, r), NEW f,
           \A i \in 1..Len(d.nodes) : p[i] \in NodesOf(e) => f[i] \in 1..Len(e.nodes) /\ r[f[i]] = p[i],
           \A i, j \in 1..Len(d.nodes) :
              p[i] \in NodesOf(e) /\ p[j] \in NodesOf(e) /\ i <= j => f[i] <= f[j]
    PROVE  PathKept(d, e)
<1>. DEFINE n == Len(d.nodes)  m == Len(e.nodes)
<1>1. IsPath(e)
  BY IsPathAs
<1>2. /\ n \in Nat /\ m \in Nat /\ \A x \in NodesOf(d) : \E i \in 1..n : p[i] = x
      /\ \A i, j \in 1..n : p[i] = p[j] => i = j
  BY DEF Path
<1>3. ASSUME NEW a \in NodesOf(d) \cap NodesOf(e), NEW b \in NodesOf(d) \cap NodesOf(e), b \in Collect(d, {a})
      PROVE  b \in Collect(e, {a})
  <2>1. PICK i \in 1..n : p[i] = a
    BY <1>2
  <2>2. Collect(d, {a}) = {p[j] : j \in i..n}
    BY <2>1, PathCollects
  <2>3. PICK j \in i..n : p[j] = b
    BY <1>3, <2>2
  <2>4. j \in 1..n /\ i <= j
    BY <1>2, <2>3
  <2>5. f[i] \in 1..m /\ r[f[i]] = a /\ f[j] \in 1..m /\ r[f[j]] = b /\ f[i] <= f[j]
    BY <2>1, <2>3, <2>4
  <2>6. Collect(e, {r[f[i]]}) = {r[k] : k \in f[i]..m}
    BY <2>5, PathCollects
  <2>. HIDE DEF m
  <2>7. f[j] \in f[i]..m
    BY <1>2, <2>5
  <2>. QED  BY <2>5, <2>6, <2>7
<1>. QED  BY <1>1, <1>3 DEF PathKept

\* e is d, the path p, with the new node x behind the q-th.
Longer(d, p, e, q, x) ==
    LET n == Len(d.nodes)
    IN  /\ q \in 1..n /\ x \notin NodesOf(d) /\ NodesOf(e) = NodesOf(d) \cup {x}
        /\ Len(e.nodes) = n + 1 /\ Len(e.edges) = Len(d.edges) + 1
        /\ \A y \in NodesOf(d) : e.type[y] = d.type[y]
        /\ Items(e.edges) = {Link(p[j], p[j + 1]) : j \in (1..(n - 1)) \ {q}} \cup {Link(p[q], x)}
                            \cup {Link(x, p[j + 1]) : j \in (1..(n - 1)) \cap {q}}

LEMMA InsertedPath ==
    ASSUME NEW d, Neat(d), NEW p, Path(d, p), NEW e, Neat(e), NEW q, NEW x, Longer(d, p, e, q, x)
    PROVE  PathKept(d, e)
<1>. DEFINE n == Len(d.nodes)  N == NodesOf(d)
            r == [i \in 1..(n + 1) |-> IF i <= q THEN p[i] ELSE IF i = q + 1 THEN x ELSE p[i - 1]]
            f == [i \in 1..n |-> IF i <= q THEN i ELSE i + 1]
<1>0. n \in Nat \ {0} /\ q \in 1..n
  BY DEF Path, Longer
<1>1. Len(d.edges) = n - 1 /\ p \in [1..n -> N] /\ d.type[p[1]] = "trigger"
  BY DEF Path
<1>2. (\A i, j \in 1..n : p[i] = p[j] => i = j) /\ (\A y \in N : \E i \in 1..n : p[i] = y)
  BY DEF Path
<1>3. /\ Items(e.edges) = {Link(p[j], p[j + 1]) : j \in (1..(n - 1)) \ {q}} \cup {Link(p[q], x)}
                          \cup {Link(x, p[j + 1]) : j \in (1..(n - 1)) \cap {q}}
      /\ x \notin N /\ NodesOf(e) = N \cup {x} /\ Len(e.nodes) = n + 1
      /\ Len(e.edges) = Len(d.edges) + 1 /\ \A y \in N : e.type[y] = d.type[y]
  BY DEF Longer
<1>. HIDE DEF n, N
<1>4. Len(e.edges) = (n + 1) - 1
  BY <1>0, <1>1, <1>3
<1>5. ASSUME NEW i \in 1..(n + 1)
      PROVE  /\ i <= q => i \in 1..n /\ r[i] = p[i]
             /\ i = q + 1 => r[i] = x
             /\ i > q + 1 => i - 1 \in 1..n /\ r[i] = p[i - 1]
  BY <1>0
<1>6. ASSUME NEW i \in 1..n
      PROVE  /\ f[i] \in 1..(n + 1) /\ f[i] # q + 1 /\ r[f[i]] = p[i]
             /\ i <= q => f[i] = i
             /\ i > q => f[i] = i + 1
  BY <1>0
<1>7. r \in [1..(n + 1) -> N \cup {x}]
  <2>1. ASSUME NEW i \in 1..(n + 1) PROVE r[i] \in N \cup {x}
    BY <1>0, <1>1, <1>5
  <2>. QED  BY <2>1
<1>. HIDE DEF r, f
<1>8. r[1] = p[1] /\ q + 1 \in 1..(n + 1) /\ r[q + 1] = x /\ r[q] = p[q]
  BY <1>0, <1>5
<1>9. ASSUME NEW i \in 1..(n + 1)
      PROVE  i = q + 1 \/ \E k \in 1..n : i = f[k]
  <2>1. i <= q => i \in 1..n /\ f[i] = i
    BY <1>0, <1>6
  <2>2. i > q + 1 => i - 1 \in 1..n /\ f[i - 1] = i
    BY <1>0, <1>6
  <2>. QED  BY <1>0, <2>1, <2>2
<1>10. ASSUME NEW i \in 1..(n + 1), NEW j \in 1..(n + 1), r[i] = r[j]
       PROVE  i = j
  <2>1. ASSUME NEW k \in 1..n PROVE r[f[k]] \in N
    BY <1>1, <1>6
  <2>2. CASE i = q + 1 \/ j = q + 1
    BY <1>3, <1>8, <1>9, <1>10, <2>1, <2>2
  <2>3. CASE i # q + 1 /\ j # q + 1
    <3>1. PICK k \in 1..n : i = f[k]
      BY <1>9, <2>3
    <3>2. PICK l \in 1..n : j = f[l]
      BY <1>9, <2>3
    <3>. QED  BY <1>2, <1>6, <1>10, <3>1, <3>2
  <2>. QED  BY <2>2, <2>3
<1>11. \A y \in N \cup {x} : \E i \in 1..(n + 1) : r[i] = y
  BY <1>2, <1>6, <1>8
<1>12. e.type[r[1]] = "trigger"
  <2>1. p[1] \in N
    BY <1>0, <1>1
  <2>. QED  BY <1>1, <1>3, <1>8, <2>1
<1>13. Items(e.edges) = {Link(r[i], r[i + 1]) : i \in 1..((n + 1) - 1)}
  <2>1. ASSUME NEW i \in 1..((n + 1) - 1)
        PROVE  Link(r[i], r[i + 1]) \in Items(e.edges)
    <3>0. i \in 1..(n + 1) /\ i + 1 \in 1..(n + 1)
      BY <1>0
    <3>1. CASE i < q
      <4>1. i \in (1..(n - 1)) \ {q} /\ r[i] = p[i] /\ r[i + 1] = p[i + 1]
        BY <1>0, <1>5, <3>0, <3>1
      <4>. QED  BY <1>3, <4>1
    <3>2. CASE i = q
      BY <1>3, <1>8, <3>2
    <3>3. CASE i = q + 1
      <4>1. q \in (1..(n - 1)) \cap {q}
        BY <1>0, <3>3
      <4>2. r[i] = x
        BY <1>8, <3>3
      <4>3. r[i + 1] = p[q + 1]
        BY <1>0, <1>5, <3>0, <3>3
      <4>. QED  BY <1>3, <4>1, <4>2, <4>3
    <3>4. CASE i > q + 1
      <4>1. i - 1 \in (1..(n - 1)) \ {q} /\ (i - 1) + 1 = i
        BY <1>0, <3>4
      <4>2. r[i] = p[i - 1] /\ r[i + 1] = p[(i - 1) + 1]
        BY <1>0, <1>5, <3>0, <3>4
      <4>. QED  BY <1>3, <4>1, <4>2
    <3>. QED  BY <1>0, <3>1, <3>2, <3>3, <3>4
  <2>2. ASSUME NEW j \in (1..(n - 1)) \ {q}
        PROVE  Link(p[j], p[j + 1]) \in {Link(r[i], r[i + 1]) : i \in 1..((n + 1) - 1)}
    <3>1. CASE j < q
      <4>1. j \in 1..((n + 1) - 1) /\ r[j] = p[j] /\ r[j + 1] = p[j + 1]
        BY <1>0, <1>5, <3>1
      <4>. QED  BY <4>1
    <3>2. CASE j > q
      <4>1. j + 1 \in 1..((n + 1) - 1) /\ r[j + 1] = p[j] /\ r[(j + 1) + 1] = p[j + 1]
        BY <1>0, <1>5, <3>2
      <4>. QED  BY <4>1
    <3>. QED  BY <1>0, <3>1, <3>2
  <2>3. Link(p[q], x) \in {Link(r[i], r[i + 1]) : i \in 1..((n + 1) - 1)}
    <3>1. q \in 1..((n + 1) - 1)
      BY <1>0
    <3>. QED  BY <1>8, <3>1
  <2>4. ASSUME NEW j \in (1..(n - 1)) \cap {q}
        PROVE  Link(x, p[j + 1]) \in {Link(r[i], r[i + 1]) : i \in 1..((n + 1) - 1)}
    <3>1. q + 1 \in 1..((n + 1) - 1) /\ r[(q + 1) + 1] = p[q + 1] /\ j = q
      BY <1>0, <1>5
    <3>. QED  BY <1>8, <3>1
  <2>. QED  BY <1>3, <2>1, <2>2, <2>3, <2>4
<1>14. Path(e, r)
  <2>1. n + 1 \in Nat \ {0}
    BY <1>0
  <2>. QED  BY <1>3, <1>4, <1>7, <1>10, <1>11, <1>12, <1>13, <2>1 DEF Path
<1>15. \A i \in 1..n : f[i] \in 1..Len(e.nodes) /\ r[f[i]] = p[i]
  BY <1>3, <1>6
<1>16. \A i, j \in 1..n : i <= j => f[i] <= f[j]
  <2>1. ASSUME NEW i \in 1..n, NEW j \in 1..n, i <= j
        PROVE  f[i] <= f[j]
    <3>1. (f[i] = i \/ f[i] = i + 1) /\ (j <= q => f[j] = j /\ f[i] = i) /\ (j > q => f[j] = j + 1)
      BY <1>0, <1>6, <2>1
    <3>. QED  BY <1>0, <2>1, <3>1
  <2>. QED  BY <2>1
<1>17. /\ \A i \in 1..Len(d.nodes) : p[i] \in NodesOf(e) => f[i] \in 1..Len(e.nodes) /\ r[f[i]] = p[i]
       /\ \A i, j \in 1..Len(d.nodes) :
              p[i] \in NodesOf(e) /\ p[j] \in NodesOf(e) /\ i <= j => f[i] <= f[j]
  BY <1>15, <1>16 DEF n
<1>. QED  BY <1>14, <1>17, PathKeepsOrder

\* e is d, the path p, without its q-th node: those beside it are joined.
Shorter(d, p, e, q) ==
    LET n == Len(d.nodes)
    IN  /\ q \in 2..n /\ NodesOf(e) = NodesOf(d) \ {p[q]}
        /\ Len(e.nodes) = n - 1 /\ Len(e.edges) = n - 2
        /\ \A y \in NodesOf(e) : e.type[y] = d.type[y]
        /\ Items(e.edges) = {Link(p[j], p[j + 1]) : j \in (1..(n - 1)) \ {q - 1, q}}
                            \cup {Link(p[q - 1], p[j + 1]) : j \in (1..(n - 1)) \cap {q}}

LEMMA RemovedPath ==
    ASSUME NEW d, Neat(d), NEW p, Path(d, p), NEW e, Neat(e), NEW q, Shorter(d, p, e, q)
    PROVE  PathKept(d, e)
<1>. DEFINE n == Len(d.nodes)  N == NodesOf(d)  M == NodesOf(e)
            r == [i \in 1..(n - 1) |-> IF i < q THEN p[i] ELSE p[i + 1]]
            f == [i \in 1..n |-> IF i < q THEN i ELSE i - 1]
<1>0. n \in Nat \ {0} /\ q \in 2..n /\ n - 1 \in Nat \ {0}
  <2>1. n \in Nat \ {0} /\ q \in 2..n
    BY DEF Path, Shorter
  <2>. HIDE DEF n
  <2>. QED  BY <2>1
<1>1. p \in [1..n -> N] /\ d.type[p[1]] = "trigger"
  BY DEF Path
<1>2. (\A i, j \in 1..n : p[i] = p[j] => i = j) /\ (\A y \in N : \E i \in 1..n : p[i] = y)
  BY DEF Path
<1>3. /\ Items(e.edges) = {Link(p[j], p[j + 1]) : j \in (1..(n - 1)) \ {q - 1, q}}
                          \cup {Link(p[q - 1], p[j + 1]) : j \in (1..(n - 1)) \cap {q}}
      /\ M = N \ {p[q]} /\ Len(e.nodes) = n - 1 /\ Len(e.edges) = n - 2
      /\ \A y \in M : e.type[y] = d.type[y]
  BY DEF Shorter
<1>. HIDE DEF n, N, M
<1>4. Len(e.edges) = (n - 1) - 1
  BY <1>0, <1>3
<1>5. ASSUME NEW i \in 1..(n - 1)
      PROVE  /\ i < q => i \in 1..n /\ r[i] = p[i]
             /\ ~(i < q) => i + 1 \in 1..n /\ r[i] = p[i + 1]
  BY <1>0
<1>6. ASSUME NEW i \in 1..n
      PROVE  /\ i # q => f[i] \in 1..(n - 1) /\ r[f[i]] = p[i]
             /\ i < q => f[i] = i
             /\ ~(i < q) => f[i] = i - 1
  BY <1>0
<1>7. ASSUME NEW i \in 1..n
      PROVE  p[i] \in M <=> i # q
  <2>1. p[i] = p[q] <=> i = q
    BY <1>0, <1>2
  <2>. QED  BY <1>1, <1>3, <2>1
<1>8. ASSUME NEW i \in 1..(n - 1)
      PROVE  \E k \in 1..n : k # q /\ i = f[k]
  <2>1. i < q => i \in 1..n /\ i # q /\ f[i] = i
    BY <1>0, <1>6
  <2>2. ~(i < q) => i + 1 \in 1..n /\ i + 1 # q /\ f[i + 1] = i
    BY <1>0, <1>6
  <2>. QED  BY <2>1, <2>2
<1>9. r = [i \in 1..(n - 1) |-> r[i]]
  OBVIOUS
<1>. HIDE DEF r, f
<1>10. r \in [1..(n - 1) -> M]
  <2>1. ASSUME NEW i \in 1..(n - 1) PROVE r[i] \in M
    <3>1. PICK k \in 1..n : k # q /\ i = f[k]
      BY <1>8
    <3>. QED  BY <1>6, <1>7, <3>1
  <2>. QED  BY <1>9, <2>1
<1>11. ASSUME NEW i \in 1..(n - 1), NEW j \in 1..(n - 1), r[i] = r[j]
       PROVE  i = j
  <2>1. PICK k \in 1..n : k # q /\ i = f[k]
    BY <1>8
  <2>2. PICK l \in 1..n : l # q /\ j = f[l]
    BY <1>8
  <2>. QED  BY <1>2, <1>6, <1>11, <2>1, <2>2
<1>12. \A y \in M : \E i \in 1..(n - 1) : r[i] = y
  BY <1>2, <1>3, <1>6, <1>7
<1>13. e.type[r[1]] = "trigger"
  <2>1. 1 \in 1..(n - 1) /\ 1 < q /\ 1 \in 1..n /\ 1 # q
    BY <1>0
  <2>2. r[1] = p[1] /\ p[1] \in M
    BY <1>5, <1>7, <2>1
  <2>. QED  BY <1>1, <1>3, <2>2
<1>14. Items(e.edges) = {Link(r[i], r[i + 1]) : i \in 1..((n - 1) - 1)}
  <2>1. ASSUME NEW i \in 1..((n - 1) - 1)
        PROVE  Link(r[i], r[i + 1]) \in Items(e.edges)
    <3>0. i \in 1..(n - 1) /\ i + 1 \in 1..(n - 1)
      BY <1>0
    <3>1. CASE i + 1 < q
      <4>1. i \in (1..(n - 1)) \ {q - 1, q} /\ r[i] = p[i] /\ r[i + 1] = p[i + 1]
        BY <1>0, <1>5, <3>0, <3>1
      <4>. QED  BY <1>3, <4>1
    <3>2. CASE i + 1 = q
      <4>1. q \in (1..(n - 1)) \cap {q} /\ i = q - 1
        BY <1>0, <3>2
      <4>2. r[i] = p[q - 1] /\ r[i + 1] = p[q + 1]
        BY <1>0, <1>5, <3>0, <3>2
      <4>. QED  BY <1>3, <4>1, <4>2
    <3>3. CASE i + 1 > q
      <4>1. i + 1 \in (1..(n - 1)) \ {q - 1, q}
        BY <1>0, <3>3
      <4>2. r[i] = p[i + 1] /\ r[i + 1] = p[(i + 1) + 1]
        BY <1>0, <1>5, <3>0, <3>3
      <4>. QED  BY <1>3, <4>1, <4>2
    <3>. QED  BY <1>0, <3>1, <3>2, <3>3
  <2>2. ASSUME NEW j \in (1..(n - 1)) \ {q - 1, q}
        PROVE  Link(p[j], p[j + 1]) \in {Link(r[i], r[i + 1]) : i \in 1..((n - 1) - 1)}
    <3>1. CASE j < q
      <4>1. j \in 1..((n - 1) - 1) /\ r[j] = p[j] /\ r[j + 1] = p[j + 1]
        BY <1>0, <1>5, <3>1
      <4>. QED  BY <4>1
    <3>2. CASE j > q
      <4>1. j - 1 \in 1..((n - 1) - 1) /\ r[j - 1] = p[j] /\ r[(j - 1) + 1] = p[j + 1]
        BY <1>0, <1>5, <3>2
      <4>. QED  BY <4>1
    <3>. QED  BY <1>0, <3>1, <3>2
  <2>3. ASSUME NEW j \in (1..(n - 1)) \cap {q}
        PROVE  Link(p[q - 1], p[j + 1]) \in {Link(r[i], r[i + 1]) : i \in 1..((n - 1) - 1)}
    <3>1. q - 1 \in 1..((n - 1) - 1) /\ r[q - 1] = p[q - 1] /\ r[(q - 1) + 1] = p[q + 1] /\ j = q
      BY <1>0, <1>5
    <3>. QED  BY <3>1
  <2>. QED  BY <1>3, <2>1, <2>2, <2>3
<1>15. Path(e, r)
  BY <1>0, <1>3, <1>4, <1>10, <1>11, <1>12, <1>13, <1>14 DEF Path, M
<1>16. \A i \in 1..n : p[i] \in M => f[i] \in 1..Len(e.nodes) /\ r[f[i]] = p[i]
  BY <1>3, <1>6, <1>7
<1>17. \A i, j \in 1..n : p[i] \in M /\ p[j] \in M /\ i <= j => f[i] <= f[j]
  <2>1. ASSUME NEW i \in 1..n, NEW j \in 1..n, p[i] \in M, p[j] \in M, i <= j
        PROVE  f[i] <= f[j]
    <3>1. i # q /\ j # q
      BY <1>7, <2>1
    <3>2. (f[i] = i \/ f[i] = i - 1) /\ (j < q => f[j] = j) /\ (~(i < q) => f[i] = i - 1) /\ (~(j < q) => f[j] = j - 1)
      BY <1>6
    <3>. QED  BY <1>0, <2>1, <3>1, <3>2
  <2>. QED  BY <2>1
<1>18. /\ \A i \in 1..Len(d.nodes) : p[i] \in NodesOf(e) => f[i] \in 1..Len(e.nodes) /\ r[f[i]] = p[i]
       /\ \A i, j \in 1..Len(d.nodes) :
              p[i] \in NodesOf(e) /\ p[j] \in NodesOf(e) /\ i <= j => f[i] <= f[j]
  BY <1>16, <1>17 DEF n, M
<1>. QED  BY <1>15, <1>18, PathKeepsOrder

\* At I there are the edges from the nodes of the path p at J to the next ones.
TakesEdges(p, I, J) ==
    /\ I \in SUBSET DOMAIN canvas.edges /\ J \in SUBSET (1..(Len(canvas.nodes) - 1))
    /\ {canvas.edges[i] : i \in I} = {Link(p[j], p[j + 1]) : j \in J}

\* The edges that an edit of a path leaves.
LEMMA PathOthers ==
    ASSUME Neat(canvas), NEW p, Path(canvas, p), NEW I, NEW J, TakesEdges(p, I, J)
    PROVE  OtherEdges(I) = {Link(p[j], p[j + 1]) : j \in (1..(Len(canvas.nodes) - 1)) \ J}
<1>. DEFINE n == Len(canvas.nodes)  s == canvas.edges  at1(j) == Link(p[j], p[j + 1])
<1>1. /\ n \in Nat \ {0} /\ \A i, j \in 1..n : p[i] = p[j] => i = j
  BY DEF Path
<1>2. PICK at \in [1..(n - 1) -> DOMAIN s] :
         /\ \A j \in 1..(n - 1) : s[at[j]] = at1(j)
         /\ \A i \in DOMAIN s : \E j \in 1..(n - 1) : at[j] = i
  BY PathEdges
<1>3. {s[i] : i \in I} = {at1(j) : j \in J} /\ I \subseteq DOMAIN s /\ J \subseteq 1..(n - 1)
      /\ OtherEdges(I) = {s[i] : i \in DOMAIN s \ I}
  BY DEF OtherEdges, TakesEdges
<1>4. ASSUME NEW i \in 1..(n - 1), NEW j \in 1..(n - 1), at1(i) = at1(j)
      PROVE  i = j
  <2>1. p[i] = p[j]
    BY <1>4, LinkEnds
  <2>. HIDE DEF n
  <2>. QED  BY <1>1, <2>1
<1>. HIDE DEF n, s, at1
<1>5. ASSUME NEW i \in DOMAIN s \ I
      PROVE  s[i] \in {at1(j) : j \in (1..(n - 1)) \ J}
  <2>1. PICK j \in 1..(n - 1) : at[j] = i
    BY <1>2
  <2>2. j \notin J
    <3>1. SUFFICES ASSUME j \in J PROVE FALSE
      OBVIOUS
    <3>2. PICK k \in I : s[k] = at1(j)
      BY <1>3, <3>1
    <3>3. PICK l \in 1..(n - 1) : at[l] = k
      BY <1>2, <1>3
    <3>4. l = j
      BY <1>2, <1>4, <3>2, <3>3
    <3>. QED  BY <2>1, <3>3, <3>4
  <2>. QED  BY <1>2, <2>1, <2>2
<1>6. ASSUME NEW j \in (1..(n - 1)) \ J
      PROVE  at1(j) \in {s[i] : i \in DOMAIN s \ I}
  <2>1. at[j] \notin I
    <3>1. SUFFICES ASSUME at[j] \in I PROVE FALSE
      OBVIOUS
    <3>2. PICK k \in J : s[at[j]] = at1(k)
      BY <1>3, <3>1
    <3>3. at1(k) = at1(j) /\ k \in 1..(n - 1)
      BY <1>2, <1>3, <3>2
    <3>. QED  BY <1>4, <3>3
  <2>. QED  BY <1>2, <2>1
<1>7. OtherEdges(I) = {at1(j) : j \in (1..(n - 1)) \ J}
  BY <1>3, <1>5, <1>6
<1>. QED  BY <1>7 DEF at1, n

\* At I there is the edge from the q-th node of the path p, if there is one, and T is where it leads.
Follows(p, q, I, T) ==
    LET J == (1..(Len(canvas.nodes) - 1)) \cap {q}
    IN  /\ q \in 1..Len(canvas.nodes) /\ I \in SUBSET DOMAIN canvas.edges
        /\ {canvas.edges[i] : i \in I} = {Link(p[j], p[j + 1]) : j \in J}
        /\ T = {p[j + 1] : j \in J}

\* A step grown behind the q-th.
LEMMA GrownPath ==
    ASSUME Neat(canvas), NEW p, Path(canvas, p), NEW q, NEW I, NEW T, Follows(p, q, I, T), NEW n, NEW t,
           Grown(n, t, OtherEdges(I) \cup {Link(p[q], n)} \cup {Link(n, b) : b \in T}, Len(canvas.edges) + 1)
    PROVE  PathKept(canvas, canvas')
<1>. DEFINE m == Len(canvas.nodes)  J == (1..(m - 1)) \cap {q}
            links == OtherEdges(I) \cup {Link(p[q], n)} \cup {Link(n, b) : b \in T}
<1>0. /\ q \in 1..m /\ I \in SUBSET DOMAIN canvas.edges
      /\ {canvas.edges[i] : i \in I} = {Link(p[j], p[j + 1]) : j \in J} /\ T = {p[j + 1] : j \in J}
  BY DEF Follows
<1>1. OtherEdges(I) = {Link(p[j], p[j + 1]) : j \in (1..(m - 1)) \ J}
  <2>1. TakesEdges(p, I, J)
    BY <1>0 DEF TakesEdges
  <2>. HIDE DEF J
  <2>. QED  BY <2>1, PathOthers
<1>2. (1..(m - 1)) \ J = (1..(m - 1)) \ {q}
  OBVIOUS
<1>3. {Link(n, b) : b \in T} = {Link(n, p[j + 1]) : j \in J}
  BY <1>0
<1>4. links = {Link(p[j], p[j + 1]) : j \in (1..(m - 1)) \ {q}} \cup {Link(p[q], n)}
              \cup {Link(n, p[j + 1]) : j \in (1..(m - 1)) \cap {q}}
  BY <1>1, <1>2, <1>3
<1>5. /\ Neat(canvas') /\ n \notin NodesOf(canvas) /\ NodesOf(canvas') = NodesOf(canvas) \cup {n}
      /\ Len(canvas'.nodes) = m + 1 /\ Items(canvas'.edges) = links
      /\ \A y \in NodesOf(canvas) : canvas'.type[y] = canvas.type[y]
      /\ Len(canvas'.edges) = Len(canvas.edges) + 1
  BY DEF Grown
<1>. HIDE DEF links
<1>. DEFINE d == canvas  e == canvas'
<1>7. Longer(d, p, e, q, n)
  BY <1>0, <1>4, <1>5 DEF Longer
<1>8. Neat(d) /\ Path(d, p) /\ Neat(e)
  BY <1>5
<1>. HIDE DEF d, e
<1>9. PathKept(d, e)
  BY <1>7, <1>8, InsertedPath
<1>. QED  BY <1>9 DEF d, e

LEMMA InsertsKeepPath ==
    ASSUME Neat(canvas), NEW p, Path(canvas, p), NEW n \in Steps, NEW t \in {"notification", "delay"}
    PROVE  /\ \A i \in DOMAIN canvas.edges : InsertOnEdge(i, n, t) => PathKept(canvas, canvas')
           /\ \A last \in Steps : InsertAtEnd(last, n, t) => PathKept(canvas, canvas')
<1>. DEFINE m == Len(canvas.nodes)
<1>1. m \in Nat \ {0} /\ Items(canvas.edges) = {Link(p[j], p[j + 1]) : j \in 1..(m - 1)}
      /\ \A x \in NodesOf(canvas) : \E i \in 1..m : p[i] = x
  BY DEF Path
<1>2. ASSUME NEW i \in DOMAIN canvas.edges, InsertOnEdge(i, n, t)
      PROVE  PathKept(canvas, canvas')
  <2>1. canvas.edges[i] \in Items(canvas.edges)
    BY DEF Items
  <2>2. PICK q \in 1..(m - 1) : canvas.edges[i] = Link(p[q], p[q + 1])
    BY <1>1, <2>1
  <2>3. canvas.edges[i].source = p[q] /\ canvas.edges[i].target = p[q + 1]
    BY <2>2, LinkEnds
  <2>4. Grown(n, t, OtherEdges({i}) \cup {Link(p[q], n), Link(n, p[q + 1])}, Len(canvas.edges) + 1)
    <3>1. Grown(n, t, OtherEdges({i}) \cup {Link(canvas.edges[i].source, n), Link(n, canvas.edges[i].target)},
                Len(canvas.edges) + 1)
      BY <1>2, InsertedOnEdge
    <3>. QED  BY <2>3, <3>1
  <2>5. Grown(n, t, OtherEdges({i}) \cup {Link(p[q], n)} \cup {Link(n, b) : b \in {p[q + 1]}},
              Len(canvas.edges) + 1)
    <3>. DEFINE links == OtherEdges({i}) \cup {Link(p[q], n), Link(n, p[q + 1])}
                same == OtherEdges({i}) \cup {Link(p[q], n)} \cup {Link(n, b) : b \in {p[q + 1]}}
    <3>1. same = links /\ Grown(n, t, links, Len(canvas.edges) + 1)
      BY <2>4
    <3>. HIDE DEF links, same
    <3>2. Grown(n, t, same, Len(canvas.edges) + 1)
      BY <3>1
    <3>. QED  BY <3>2 DEF same
  <2>. HIDE DEF m
  <2>6. (1..(m - 1)) \cap {q} = {q} /\ q \in 1..m
    BY <1>1
  <2>7. {canvas.edges[j] : j \in {i}} = {Link(p[j], p[j + 1]) : j \in (1..(m - 1)) \cap {q}}
    BY <2>2, <2>6
  <2>8. {p[q + 1]} = {p[j + 1] : j \in (1..(m - 1)) \cap {q}} /\ {i} \in SUBSET DOMAIN canvas.edges
    BY <2>6
  <2>. DEFINE I == {i}  T == {p[q + 1]}
  <2>9. Follows(p, q, I, T)
    BY <2>6, <2>7, <2>8 DEF Follows, m
  <2>10. Grown(n, t, OtherEdges(I) \cup {Link(p[q], n)} \cup {Link(n, b) : b \in T}, Len(canvas.edges) + 1)
    BY <2>5
  <2>. HIDE DEF I, T
  <2>. QED  BY <2>9, <2>10, GrownPath
<1>3. ASSUME NEW last \in Steps, InsertAtEnd(last, n, t)
      PROVE  PathKept(canvas, canvas')
  <2>1. last \in NodesOf(canvas) /\ Out(canvas, last) = {}
    BY <1>3 DEF InsertAtEnd
  <2>2. PICK q \in 1..m : p[q] = last
    BY <1>1, <2>1
  <2>3. q = m
    <3>1. SUFFICES ASSUME q # m PROVE FALSE
      OBVIOUS
    <3>2. Only(canvas, Out(canvas, p[q]), p[q], p[q + 1])
      BY <3>1, PathShape
    <3>. QED  BY <2>1, <2>2, <3>2 DEF Only
  <2>4. Grown(n, t, Items(canvas.edges) \cup {Link(last, n)}, Len(canvas.edges) + 1)
    BY <1>3, InsertedAtEnd
  <2>5. Items(canvas.edges) \cup {Link(last, n)}
            = OtherEdges({}) \cup {Link(p[q], n)} \cup {Link(n, b) : b \in {}}
    BY <2>2 DEF OtherEdges, Items
  <2>. HIDE DEF m
  <2>6. (1..(m - 1)) \cap {q} = {}
    BY <1>1, <2>3
  <2>7. {canvas.edges[j] : j \in {}} = {Link(p[j], p[j + 1]) : j \in (1..(m - 1)) \cap {q}}
    BY <2>6
  <2>8. {} = {p[j + 1] : j \in (1..(m - 1)) \cap {q}} /\ {} \in SUBSET DOMAIN canvas.edges
    BY <2>6
  <2>9. Follows(p, q, {}, {})
    BY <2>7, <2>8 DEF Follows, m
  <2>. QED  BY <2>4, <2>5, <2>9, GrownPath
<1>. QED  BY <1>2, <1>3

LEMMA DuplicateKeepsPath ==
    ASSUME Neat(canvas), NEW p, Path(canvas, p), NEW n \in Steps, NEW s \in Steps, DuplicateNode(s, n)
    PROVE  PathKept(canvas, canvas')
<1>. DEFINE m == Len(canvas.nodes)  out == Out(canvas, s)
<1>1. m \in Nat \ {0} /\ \A x \in NodesOf(canvas) : \E i \in 1..m : p[i] = x
  BY DEF Path
<1>2. s \in NodesOf(canvas)
  BY DEF DuplicateNode
<1>3. PICK T \in SUBSET Adjacent(canvas, s) :
         /\ T = {} <=> out = {}
         /\ Cardinality(T) = IF out = {} THEN 0 ELSE 1
         /\ Grown(n, canvas.type[s], OtherEdges(out) \cup {Link(s, n)} \cup {Link(n, b) : b \in T},
                  Len(canvas.edges) - Cardinality(out) + 1 + Cardinality(T))
  BY Duplicated
<1>4. PICK q \in 1..m : p[q] = s
  BY <1>1, <1>2
<1>. DEFINE links == OtherEdges(out) \cup {Link(p[q], n)} \cup {Link(n, b) : b \in T}
            k == Len(canvas.edges) - Cardinality(out) + 1 + Cardinality(T)
<1>5. Grown(n, canvas.type[s], links, k)
  BY <1>3, <1>4
<1>9. ASSUME k = Len(canvas.edges) + 1, Follows(p, q, out, T)
      PROVE  PathKept(canvas, canvas')
  <2>1. Grown(n, canvas.type[s], links, Len(canvas.edges) + 1)
    <3>. HIDE DEF links, k
    <3>. QED  BY <1>5, <1>9
  <2>. QED  BY <1>9, <2>1, GrownPath
<1>6. out \in SUBSET DOMAIN canvas.edges /\ Len(canvas.edges) \in Nat
  <2>1. canvas.edges \in Seq(Edge)
    BY DEF Neat, TypedDefinition
  <2>. QED  BY <2>1 DEF Out
<1>7. CASE q = m
  <2>1. out = {}
    BY <1>4, <1>7, PathShape
  <2>2. T = {} /\ Cardinality(T) = 0 /\ Cardinality(out) = 0
    BY <1>3, <2>1, FS_EmptySet
  <2>3. k = Len(canvas.edges) + 1
    BY <1>6, <2>2
  <2>. HIDE DEF m, out, links, k
  <2>4. (1..(m - 1)) \cap {q} = {}
    BY <1>1, <1>7
  <2>5. {canvas.edges[i] : i \in out} = {Link(p[j], p[j + 1]) : j \in (1..(m - 1)) \cap {q}}
    BY <2>1, <2>4
  <2>6. T = {p[j + 1] : j \in (1..(m - 1)) \cap {q}}
    BY <2>2, <2>4
  <2>7. Follows(p, q, out, T)
    BY <1>6, <2>5, <2>6 DEF Follows, m
  <2>. QED  BY <1>9, <2>3, <2>7
<1>8. CASE q # m
  <2>1. Only(canvas, out, s, p[q + 1]) /\ Adjacent(canvas, s) = {p[q + 1]}
    BY <1>4, <1>8, PathShape
  <2>2. PICK i \in DOMAIN canvas.edges : out = {i} /\ canvas.edges[i] = Link(s, p[q + 1])
    BY <2>1 DEF Only
  <2>3. out # {} /\ T # {} /\ T = {p[q + 1]}
    BY <1>3, <2>1, <2>2
  <2>4. Cardinality(T) = 1 /\ Cardinality(out) = 1
    BY <2>2, <2>3, FS_Singleton
  <2>5. k = Len(canvas.edges) + 1
    BY <1>6, <2>4
  <2>. HIDE DEF m, out, links, k
  <2>6. (1..(m - 1)) \cap {q} = {q}
    BY <1>1, <1>8
  <2>7. {canvas.edges[j] : j \in out} = {Link(p[j], p[j + 1]) : j \in (1..(m - 1)) \cap {q}}
    BY <1>4, <2>2, <2>6
  <2>8. T = {p[j + 1] : j \in (1..(m - 1)) \cap {q}}
    BY <2>3, <2>6
  <2>9. Follows(p, q, out, T)
    BY <1>6, <2>7, <2>8 DEF Follows, m
  <2>. QED  BY <1>9, <2>5, <2>9
<1>. QED  BY <1>7, <1>8

LEMMA RemoveKeepsPath ==
    ASSUME Neat(canvas), NEW p, Path(canvas, p), NEW s \in Steps, RemoveNode(s)
    PROVE  PathKept(canvas, canvas')
<1>. DEFINE m == Len(canvas.nodes)  in == In(canvas, s)  out == Out(canvas, s)
<1>1. /\ m \in Nat \ {0} /\ \A x \in NodesOf(canvas) : \E i \in 1..m : p[i] = x
      /\ p[1] \in NodesOf(canvas) /\ canvas.type[p[1]] = "trigger" /\ Len(canvas.edges) = m - 1
      /\ \A i, j \in 1..m : p[i] = p[j] => i = j
  BY DEF Path
<1>2. PICK J : Shrunk(s, J)
  BY Removed
<1>3. /\ s \in NodesOf(canvas) /\ s \notin Typed(canvas, {"trigger"})
      /\ Neat(canvas') /\ NodesOf(canvas') = NodesOf(canvas) \ {s}
      /\ Len(canvas'.nodes) = m - 1 /\ \A y \in NodesOf(canvas') : canvas'.type[y] = canvas.type[y]
      /\ J \subseteq Joins(s)
      /\ J = {} \/ (Cardinality(in) = 1 /\ Cardinality(out) = 1 /\ \E x \in Joins(s) : J = {x})
      /\ (Cardinality(in) = 1 /\ Cardinality(out) = 1 /\ \A x \in Joins(s) : x.source # x.target) => J # {}
      /\ Items(canvas'.edges) = OtherEdges(in \cup out) \cup J
      /\ Len(canvas'.edges) = Len(canvas.edges) - Cardinality(in \cup out) + Cardinality(J)
  BY <1>2 DEF Shrunk
<1>4. PICK q \in 1..m : p[q] = s
  BY <1>1, <1>3
<1>5. q # 1
  BY <1>1, <1>3, <1>4 DEF Typed
<1>6. PICK i \in DOMAIN canvas.edges : in = {i} /\ canvas.edges[i] = Link(p[q - 1], s)
  <2>1. Only(canvas, in, p[q - 1], s)
    BY <1>4, <1>5, PathShape
  <2>. QED  BY <2>1 DEF Only
<1>. DEFINE K == (1..(m - 1)) \cap {q - 1, q}
            join == {Link(p[q - 1], p[j + 1]) : j \in (1..(m - 1)) \cap {q}}
<1>7. /\ in \cup out \in SUBSET DOMAIN canvas.edges
      /\ {canvas.edges[j] : j \in in \cup out} = {Link(p[j], p[j + 1]) : j \in K}
      /\ J = join /\ Len(canvas'.edges) = m - 2
  <2>0. in \cup out \in SUBSET DOMAIN canvas.edges
    BY DEF In, Out
  <2>1. CASE q = m
    <3>1. out = {}
      BY <1>4, <2>1, PathShape
    <3>2. J = {}
      BY <1>3, <3>1, FS_EmptySet
    <3>. HIDE DEF m, in, out
    <3>3. K = {q - 1} /\ (1..(m - 1)) \cap {q} = {} /\ (q - 1) + 1 = q
      BY <1>1, <1>5, <2>1
    <3>4. {canvas.edges[j] : j \in in \cup out} = {Link(p[j], p[j + 1]) : j \in K}
      BY <1>4, <1>6, <3>1, <3>3
    <3>5. J = join
      BY <3>2, <3>3
    <3>6. Cardinality(in \cup out) = 1 /\ Cardinality(J) = 0
      <4>1. in \cup out = {i}
        BY <1>6, <3>1
      <4>. QED  BY <3>2, <4>1, FS_Singleton, FS_EmptySet
    <3>7. Len(canvas'.edges) = m - 2
      BY <1>1, <1>3, <3>6
    <3>. QED  BY <2>0, <3>4, <3>5, <3>7
  <2>2. CASE q # m
    <3>1. PICK o \in DOMAIN canvas.edges : out = {o} /\ canvas.edges[o] = Link(s, p[q + 1])
      <4>1. Only(canvas, out, s, p[q + 1])
        BY <1>4, <2>2, PathShape
      <4>. QED  BY <4>1 DEF Only
    <3>2. canvas.edges[i].source = p[q - 1] /\ canvas.edges[o].target = p[q + 1]
      BY <1>6, <3>1, LinkEnds
    <3>3. Joins(s) = {Link(p[q - 1], p[q + 1])}
      BY <1>6, <3>1, <3>2 DEF Joins
    <3>4. Cardinality(in) = 1 /\ Cardinality(out) = 1
      BY <1>6, <3>1, FS_Singleton
    <3>. HIDE DEF m, in, out
    <3>5. K = {q - 1, q} /\ (1..(m - 1)) \cap {q} = {q} /\ (q - 1) + 1 = q
      BY <1>1, <1>5, <2>2
    <3>6. q - 1 \in 1..m /\ q + 1 \in 1..m /\ q - 1 # q + 1
      BY <1>1, <1>5, <2>2
    <3>7. p[q - 1] # p[q + 1]
      BY <1>1, <3>6
    <3>8. \A x \in Joins(s) : x.source # x.target
      BY <3>3, <3>7, LinkEnds
    <3>9. J = {Link(p[q - 1], p[q + 1])}
      BY <1>3, <3>3, <3>4, <3>8
    <3>10. J = join
      BY <3>5, <3>9
    <3>11. {canvas.edges[j] : j \in in \cup out} = {Link(p[j], p[j + 1]) : j \in K}
      BY <1>4, <1>6, <3>1, <3>5
    <3>12. i # o
      <4>1. p[q - 1] # s
        BY <1>1, <1>4, <3>6
      <4>2. canvas.edges[i].source = p[q - 1] /\ canvas.edges[o].source = s
        BY <1>6, <3>1, LinkEnds
      <4>. QED  BY <4>1, <4>2
    <3>13. Cardinality(in \cup out) = 2 /\ Cardinality(J) = 1
      <4>1. IsFiniteSet({i}) /\ Cardinality({i}) = 1 /\ o \notin {i}
        BY <3>12, FS_Singleton
      <4>2. Cardinality({i} \cup {o}) = 2
        BY <4>1, FS_AddElement
      <4>3. in \cup out = {i} \cup {o}
        BY <1>6, <3>1
      <4>. QED  BY <3>9, <4>2, <4>3, FS_Singleton
    <3>14. Len(canvas'.edges) = m - 2
      BY <1>1, <1>3, <3>13
    <3>. QED  BY <2>0, <3>10, <3>11, <3>14
  <2>. QED  BY <2>1, <2>2
<1>8. OtherEdges(in \cup out) = {Link(p[j], p[j + 1]) : j \in (1..(m - 1)) \ K}
  <2>. DEFINE I == in \cup out
  <2>1. TakesEdges(p, I, K)
    BY <1>7 DEF TakesEdges
  <2>. HIDE DEF I, K
  <2>2. OtherEdges(I) = {Link(p[j], p[j + 1]) : j \in (1..(m - 1)) \ K}
    BY <2>1, PathOthers
  <2>. QED  BY <2>2 DEF I
<1>. HIDE DEF m, in, out
<1>9. (1..(m - 1)) \ K = (1..(m - 1)) \ {q - 1, q} /\ q \in 2..m
  BY <1>1, <1>5
<1>. HIDE DEF K
<1>10. Items(canvas'.edges) = {Link(p[j], p[j + 1]) : j \in (1..(m - 1)) \ {q - 1, q}} \cup join
  BY <1>3, <1>7, <1>8, <1>9
<1>. DEFINE d == canvas  e == canvas'
<1>11. Shorter(d, p, e, q)
  BY <1>3, <1>4, <1>7, <1>9, <1>10 DEF Shorter, m
<1>12. Neat(d) /\ Path(d, p) /\ Neat(e)
  BY <1>3
<1>. HIDE DEF d, e
<1>13. PathKept(d, e)
  BY <1>11, <1>12, RemovedPath
<1>. QED  BY <1>13 DEF d, e

LEMMA EditsKeepPaths ==
    ASSUME CanvasInv, BuilderNext
    PROVE  EditsKeepPath
<1>. SUFFICES ASSUME opened, IsPath(canvas) PROVE PathKept(canvas, canvas')
  BY DEF EditsKeepPath, PathKept
<1>1. Neat(canvas)
  BY DEF CanvasInv
<1>2. PICK p : Path(canvas, p)
  BY <1>1, IsPathAs
<1>3. CASE Open
  BY <1>3 DEF Open
<1>4. ASSUME NEW n \in Steps, NEW t \in {"notification", "delay"}, NEW i \in DOMAIN canvas.edges, InsertOnEdge(i, n, t)
      PROVE  PathKept(canvas, canvas')
  BY <1>1, <1>2, <1>4, InsertsKeepPath
<1>5. ASSUME NEW n \in Steps, NEW t \in {"notification", "delay"}, NEW last \in Steps, InsertAtEnd(last, n, t)
      PROVE  PathKept(canvas, canvas')
  BY <1>1, <1>2, <1>5, InsertsKeepPath
<1>6. ASSUME NEW n \in Steps, NEW s \in Steps, DuplicateNode(s, n)
      PROVE  PathKept(canvas, canvas')
  BY <1>1, <1>2, <1>6, DuplicateKeepsPath
<1>7. ASSUME NEW n \in Steps, RemoveNode(n)
      PROVE  PathKept(canvas, canvas')
  BY <1>1, <1>2, <1>7, RemoveKeepsPath
<1>. QED  BY <1>3, <1>4, <1>5, <1>6, <1>7 DEF BuilderNext

\* Also when nothing moves.
LEMMA StayKeepsPath ==
    ASSUME UNCHANGED builderVars
    PROVE  EditsKeepPath
BY DEF EditsKeepPath, builderVars

LEMMA CanvasAgrees == CanvasInv => ChecksAgree
<1>. SUFFICES ASSUME CanvasInv PROVE ChecksAgree
  OBVIOUS
<1>1. Neat(canvas)
  BY DEF CanvasInv
<1>. DEFINE d == canvas
<1>2. Neat(d)
  BY <1>1
<1>. HIDE DEF d
<1>3. HasCycle(d) <=> Cyclic(d)
  BY <1>2, NeatFinite
<1>4. BuilderAccepts(d) <=> /\ IsPath(d)
                            /\ Cardinality(Typed(d, {"trigger"})) = 1
                            /\ Typed(d, {"condition"}) = {}
  BY <1>2, BuilderAcceptsPaths
<1>5. BuilderAccepts(d) => ServerAccepts(d)
  BY <1>2, AcceptedByBoth
<1>. QED  BY <1>3, <1>4, <1>5 DEF ChecksAgree, d
============================================================================
