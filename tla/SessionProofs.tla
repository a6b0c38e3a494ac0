---------------------------- MODULE SessionProofs ----------------------------
(***************************************************************************)
(* What holds of the accounts of the API and of the session of a browser,  *)
(* for every number of calls, failures, providers and proxied requests:    *)
(* the accounts alone (Spec) and driven by the dashboard (WebSpec).        *)
(***************************************************************************)
EXTENDS WebSession, TLAPS

\* A step of the API whoever sends the requests: the dashboard may also log out
\* with a token that is gone.
Act(n) == Request(n) \/ (\E t \in Calls : Logout(n, t)) \/ Statement(n) \/ Fail(n)

Api == \E n \in Calls : Act(n)

ApiSpec == Init /\ [][Api]_vars
----------------------------------------------------------------------------
(***************************************************************************)
(* What each kind of step does to the calls.                               *)
(***************************************************************************)

LEMMA StepMoves ==
    ASSUME TypeOK, NEW n \in Calls, NEW here, NEW there, Step(n, here, there)
    PROVE  /\ call[n].at = here
           /\ call'[n].at = there
           /\ call'[n].kind = call[n].kind /\ call'[n].arg = call[n].arg
           /\ call'[n].by = call[n].by /\ call'[n].now = call[n].now
           /\ call'[n].org = call[n].org /\ call'[n].needs = call[n].needs
           /\ call'[n].sawTenant = call[n].sawTenant
           /\ clock' = clock /\ faults' = faults
BY DEF Step, TypeOK, Call

LEMMA StepTypes ==
    ASSUME TypeOK, NEW n \in Calls, NEW here, NEW there \in Running \cup {"idle", "done", "failed"},
           Step(n, here, there)
    PROVE  call' \in [Calls -> Call] /\ clock' \in Nat /\ faults' \in 0 .. MaxFaults
BY DEF Step, TypeOK, Call

LEMMA BeginMoves ==
    ASSUME TypeOK, NEW n \in Calls, NEW kind, NEW at, NEW arg, NEW by, NEW now,
           Begin(n, kind, at, arg, by, now)
    PROVE  /\ call[n].kind = "none"
           /\ call'[n].kind = kind /\ call'[n].at = at /\ call'[n].arg = arg
           /\ call'[n].by = by /\ call'[n].now = now /\ call'[n].org = 0
           /\ call'[n].needs <=> ~ user.onboarded
           /\ call'[n].sawTenant <=> Owned # {}
           /\ clock' = IF now = 0 THEN clock ELSE now
           /\ tables' = tables /\ faults' = faults
<1>1. PICK needs, saw \in BOOLEAN :
         /\ needs <=> ~ user.onboarded
         /\ saw <=> Owned # {}
         /\ call' = [call EXCEPT ![n] = [kind |-> kind, at |-> at, arg |-> arg, by |-> by,
                                        now |-> now, org |-> 0, needs |-> needs,
                                        sawTenant |-> saw]]
  BY Zenon DEF Begin
<1>2. call'[n] = [kind |-> kind, at |-> at, arg |-> arg, by |-> by, now |-> now,
                  org |-> 0, needs |-> needs, sawTenant |-> saw]
  BY <1>1 DEF TypeOK
<1>. QED  BY <1>1, <1>2 DEF Begin, Fresh

LEMMA BeginTypes ==
    ASSUME TypeOK, NEW n \in Calls, NEW kind, NEW at \in Running, NEW arg \in Nat,
           NEW by \in Providers \cup {"password"}, NEW now \in Nat,
           Begin(n, kind, at, arg, by, now)
    PROVE  TypeOK'
<1>1. [kind |-> kind, at |-> at, arg |-> arg, by |-> by, now |-> now, org |-> 0,
       needs |-> ~ user.onboarded, sawTenant |-> Owned # {}] \in Call
  BY DEF Begin, Call, TypeOK, User
<1>2. call' \in [Calls -> Call] /\ clock' \in Nat
  BY <1>1 DEF Begin, TypeOK
<1>. QED  BY <1>2 DEF Begin, tables, TypeOK

\* The calls of other requests stay as they are.
LEMMA OthersStay ==
    ASSUME TypeOK, NEW n \in Calls, Act(n), NEW m \in Calls, m # n
    PROVE  call'[m] = call[m]
<1>1. \E r : call' = [call EXCEPT ![n] = r]
  BY Zenon
     DEF Act, Request, Signup, SigninWithSocial, Signin, VerifyEmail, ResetPassword,
         ResendVerification, ForgotPassword, Refresh, Logout, CompleteOnboarding,
         CreateOrganization, Begin, Statement, ReadIdentity, ReadUser, ReadAccount,
         CreateUser, SetVerified, LinkIdentity, SendCode, DeleteCode, SetPassword,
         ReadMembership, ReadEnvironment, InsertOrganization, InsertMember,
         SeedEnvironments, InsertEnvironment, IssueSession, DeleteToken, NameOrganization,
         SetOnboarded, ReadDefault, InsertNamedOrganization, JoinOrganization, Fail, Step,
         Enter, Conflict
<1>. QED  BY <1>1 DEF TypeOK

LEMMA RequestTypes ==
    ASSUME TypeOK, NEW n \in Calls, Request(n) \/ \E t \in Calls : Logout(n, t)
    PROVE  TypeOK'
<1>1. clock + 1 \in Nat /\ verification \in Nat /\ tokens \subseteq Nat /\ Calls \subseteq Nat
  BY DEF TypeOK, Calls
<1>2. CASE CompleteOnboarding(n)
  <2>1. PICK o \in Calls :
           /\ "onboard" \in Kinds
           /\ call' = [call EXCEPT ![n] = [NoCall EXCEPT !.kind = "onboard", !.at = "nameOrg",
                                                   !.org = o, !.sawTenant = TRUE]]
    BY <1>2 DEF CompleteOnboarding
  <2>2. [NoCall EXCEPT !.kind = "onboard", !.at = "nameOrg", !.org = o, !.sawTenant = TRUE]
           \in Call
    BY <2>1 DEF NoCall, Call, Running
  <2>3. call' \in [Calls -> Call]
    BY <2>1, <2>2 DEF TypeOK
  <2>. QED  BY <1>2, <2>3 DEF CompleteOnboarding, TypeOK, tables
<1>3. CASE Signup(n) \/ Signin(n) \/ (\E p \in Providers : SigninWithSocial(n, p))
  BY <1>1, <1>3, BeginTypes DEF Signup, Signin, SigninWithSocial, Running, TenantSteps
<1>4. CASE VerifyEmail(n, verification) \/ ResetPassword(n, verification)
  BY <1>1, <1>4, BeginTypes DEF VerifyEmail, ResetPassword, Running
<1>6. CASE ResendVerification(n) \/ ForgotPassword(n) \/ CreateOrganization(n)
  BY <1>6, BeginTypes DEF ResendVerification, ForgotPassword, CreateOrganization, Running
<1>5. CASE \/ \E t \in tokens : Refresh(n, t) \/ Logout(n, t)
           \/ \E t \in Calls : Logout(n, t)
  BY <1>1, <1>5, BeginTypes DEF Refresh, Logout, Running
<1>. QED  BY <1>2, <1>3, <1>4, <1>5, <1>6 DEF Request

LEMMA StatementTypes ==
    ASSUME TypeOK, NEW n \in Calls, Statement(n),
           call[n].at = "link" => call[n].by \in Providers
    PROVE  TypeOK'
<1>. DEFINE Stops == Running \cup {"idle", "done", "failed"}
<1>0. /\ clock + 1 \in Nat /\ issued + 1 \in Nat
      /\ \A m \in Calls : call[m] \in Call /\ orgs[m] \in Org /\ call[m].now \in Nat
  BY DEF TypeOK, Call
<1>1. ASSUME NEW here, NEW there \in Stops, Step(n, here, there), UNCHANGED tables
      PROVE  TypeOK'
  BY <1>1, StepTypes DEF TypeOK, tables
<1>2. ASSUME NEW here, NEW there \in Stops, Step(n, here, there),
             UNCHANGED <<identities, verification, issued, orgs, tokens, session>>,
             user' \in User
      PROVE  TypeOK'
  BY <1>2, StepTypes DEF TypeOK
<1>3. ASSUME NEW here, NEW there \in Stops, Step(n, here, there),
             UNCHANGED <<user, identities, verification, issued, tokens, session>>,
             orgs' \in [Calls -> Org]
      PROVE  TypeOK'
  BY <1>3, StepTypes DEF TypeOK
<1>4. ASSUME NEW here, NEW there, ReadUser(n, here, there), there \in Stops PROVE TypeOK'
  <2>1. [call[n] EXCEPT !.at = there, !.needs = ~ user.onboarded] \in Call
    BY <1>0, <1>4 DEF Call
  <2>2. call' \in [Calls -> Call]
    BY <1>4, <2>1 DEF ReadUser, TypeOK
  <2>. QED  BY <1>4, <2>2 DEF ReadUser, TypeOK, tables
<1>5. CASE ReadIdentity(n) \/ ReadAccount(n)
  BY <1>1, <1>4, <1>5 DEF ReadIdentity, ReadAccount, Running, TenantSteps
<1>6. CASE CreateUser(n)
  <2>1. CASE Conflict(n, "createUser")
    BY <1>1, <2>1 DEF Conflict
  <2>2. CASE ~ Conflict(n, "createUser")
    <3>1. \E p, v \in BOOLEAN : user' = [exists |-> TRUE, password |-> p, verified |-> v,
                                         onboarded |-> FALSE]
      BY <1>6, <2>2, Zenon DEF CreateUser
    <3>2. user' \in User
      BY <3>1 DEF User
    <3>. QED  BY <1>2, <1>6, <2>2, <3>2 DEF CreateUser, Running, TenantSteps
  <2>. QED  BY <2>1, <2>2
<1>7. CASE SetVerified(n) \/ SetPassword(n) \/ SetOnboarded(n)
  <2>1. user' \in User
    BY <1>7 DEF SetVerified, SetPassword, SetOnboarded, TypeOK, User
  <2>. QED
    BY <1>2, <1>7, <2>1 DEF SetVerified, SetPassword, SetOnboarded, Running, TenantSteps
<1>8. CASE LinkIdentity(n)
  <2>1. CASE call[n].by \in identities
    BY <1>1, <1>8, <2>1 DEF LinkIdentity, Conflict
  <2>2. CASE call[n].by \notin identities
    <3>1. /\ Step(n, "link", "membership") /\ identities' = identities \cup {call[n].by}
          /\ UNCHANGED <<user, verification, issued, orgs, tokens, session>>
      BY <1>8, <2>2 DEF LinkIdentity
    <3>2. identities' \subseteq Providers
      BY <3>1 DEF TypeOK, Step
    <3>. QED
      BY <3>1, <3>2, StepTypes DEF TypeOK, Running, TenantSteps
  <2>. QED  BY <2>1, <2>2
<1>9. CASE SendCode(n) \/ DeleteCode(n)
  <2>1. PICK here, there \in Stops : Step(n, here, there)
    BY <1>9 DEF SendCode, DeleteCode, Running, TenantSteps
  <2>2. verification' \in 0 .. issued' /\ issued' \in Nat
    BY <1>0, <1>9 DEF SendCode, DeleteCode, TypeOK
  <2>. QED  BY <1>9, <2>1, <2>2, StepTypes DEF SendCode, DeleteCode, TypeOK
<1>10. CASE ReadMembership(n)
  <2>1. ASSUME NEW there \in Stops, NEW o \in Calls, NEW here, Enter(n, here, there, o)
        PROVE  call' \in [Calls -> Call] /\ UNCHANGED <<clock, faults>>
    <3>1. [call[n] EXCEPT !.at = there, !.org = o] \in Call
      BY <1>0, <2>1 DEF Call
    <3>. QED  BY <2>1, <3>1 DEF Enter, TypeOK
  <2>2. call' \in [Calls -> Call] /\ UNCHANGED <<clock, faults>>
    BY <1>10, <2>1 DEF ReadMembership, Running, TenantSteps
  <2>. QED  BY <1>10, <2>2 DEF ReadMembership, TypeOK, tables
<1>11. CASE ReadEnvironment(n) \/ ReadDefault(n)
  BY <1>1, <1>11 DEF ReadEnvironment, ReadDefault, AfterTenant, Running, TenantSteps
<1>12. CASE InsertOrganization(n) \/ InsertMember(n) \/ NameOrganization(n)
               \/ InsertNamedOrganization(n)
  <2>1. ASSUME NEW o, NEW r \in Org, orgs' = [orgs EXCEPT ![o] = r]
        PROVE  orgs' \in [Calls -> Org]
    BY <2>1 DEF TypeOK
  <2>2. ASSUME InsertOrganization(n) \/ InsertNamedOrganization(n)
        PROVE  orgs' \in [Calls -> Org]
    <3>1. [orgs[n] EXCEPT !.created = TRUE] \in Org
      BY <1>0 DEF Org
    <3>2. [[orgs[n] EXCEPT !.created = TRUE] EXCEPT !.named = TRUE] \in Org
      BY <3>1 DEF Org
    <3>3. CASE InsertOrganization(n)
      BY <3>1, <3>3 DEF InsertOrganization, TypeOK
    <3>4. CASE InsertNamedOrganization(n)
      <4>. DEFINE first == [orgs EXCEPT ![n] = [orgs[n] EXCEPT !.created = TRUE]]
      <4>1. orgs' = [first EXCEPT ![n] = [first[n] EXCEPT !.named = TRUE]]
        BY <3>4 DEF InsertNamedOrganization
      <4>2. first \in [Calls -> Org] /\ first[n] = [orgs[n] EXCEPT !.created = TRUE]
        BY <3>1 DEF TypeOK
      <4>. HIDE DEF first
      <4>. QED  BY <3>2, <4>1, <4>2
    <3>. QED  BY <2>2, <3>3, <3>4
  <2>3. ASSUME InsertMember(n) PROVE orgs' \in [Calls -> Org]
    BY <1>0, <2>3 DEF InsertMember, TypeOK, Org
  <2>4. ASSUME NameOrganization(n) PROVE orgs' \in [Calls -> Org]
    <3>1. \A o \in Calls : [orgs[o] EXCEPT !.named = TRUE] \in Org
      BY <1>0 DEF Org
    <3>2. PICK c : orgs' = [orgs EXCEPT ![c] = [orgs[c] EXCEPT !.named = TRUE]]
      BY <2>4 DEF NameOrganization
    <3>3. CASE c \in Calls
      BY <2>1, <3>1, <3>2, <3>3
    <3>4. CASE c \notin Calls
      <4>1. orgs' = orgs
        BY <3>2, <3>4 DEF TypeOK
      <4>. QED  BY <4>1 DEF TypeOK
    <3>. QED  BY <3>3, <3>4
  <2>5. orgs' \in [Calls -> Org]
    BY <1>12, <2>2, <2>3, <2>4
  <2>. QED
    BY <1>3, <1>12, <2>5
       DEF InsertOrganization, InsertMember, NameOrganization, InsertNamedOrganization,
           Running, TenantSteps
<1>13. CASE SeedEnvironments(n)
  <2>1. ASSUME NEW e \in Environments, NEW there \in Stops, InsertEnvironment(n, e, there)
        PROVE  TypeOK'
    <3>1. CASE Conflict(n, e)
      BY <1>1, <3>1 DEF Conflict
    <3>2. CASE ~ Conflict(n, e)
      <4>1. orgs' \in [Calls -> Org]
        BY <2>1, <3>2 DEF InsertEnvironment, TypeOK, Org
      <4>. QED  BY <1>3, <2>1, <3>2, <4>1 DEF InsertEnvironment
    <3>. QED  BY <3>1, <3>2
  <2>. QED
    BY <1>13, <2>1 DEF SeedEnvironments, AfterTenant, Environments, Running, TenantSteps
<1>14. CASE IssueSession(n)
  <2>1. session' \in [Calls -> Calls \cup {0}] /\ tokens' \subseteq Calls
    BY <1>0, <1>14 DEF IssueSession, TypeOK, Call
  <2>. QED  BY <1>14, <2>1, StepTypes DEF IssueSession, TypeOK
<1>15. CASE DeleteToken(n)
  <2>1. /\ [call[n] EXCEPT !.at = "done"] \in Call
        /\ [call[n] EXCEPT !.at = "membership", !.now = clock + 1] \in Call
    <3>1. {"done", "membership"} \subseteq Running \cup {"idle", "done", "failed"}
      BY DEF Running, TenantSteps
    <3>. QED  BY <1>0, <3>1 DEF Call
  <2>2. call' \in [Calls -> Call] /\ clock' \in Nat
    BY <1>0, <1>15, <2>1 DEF DeleteToken, TypeOK
  <2>. QED  BY <1>15, <2>2 DEF DeleteToken, TypeOK
<1>16. CASE JoinOrganization(n)
  <2>1. /\ [call[n] EXCEPT !.at = "done"] \in Call
        /\ [orgs[n] EXCEPT !.since = clock + 1] \in Org
    BY <1>0 DEF Call, Org
  <2>2. call' \in [Calls -> Call] /\ orgs' \in [Calls -> Org]
    BY <1>16, <2>1 DEF JoinOrganization, TypeOK
  <2>. QED  BY <1>0, <1>16, <2>2 DEF JoinOrganization, TypeOK
<1>. QED
  BY <1>5, <1>6, <1>7, <1>8, <1>9, <1>10, <1>11, <1>12, <1>13, <1>14, <1>15, <1>16
     DEF Statement

----------------------------------------------------------------------------
(***************************************************************************)
(* The route of a call: the statements its kind goes through.              *)
(***************************************************************************)

\* Where a call of the kind goes after the statement `here`, unless it stops.
Route(here, kind, there) ==
    \/ here = "identity" /\ there \in {"account", "verifyLinked", "membership"}
    \/ here = "account" /\ there \in {"createUser", "link", "verifyUser"}
    \/ here = "createUser" /\ there = (IF kind = "signup" THEN "membership" ELSE "link")
    \/ here \in {"verifyLinked", "link", "deleteCode"} /\ there = "membership"
    \/ here = "verifyUser" /\ there = "link"
    \/ here = "setVerified" /\ there = "deleteCode"
    \/ here = "setPassword" /\ there = "deleteReset"
    \/ here = "membership" /\ there \in {"environment", "organization"}
    \/ here = "environment" /\ there = "development"
    \/ here = "organization" /\ there = "member"
    \/ here = "member" /\ there = "development"
    \/ here = "development" /\ there = "production"
    \/ here \in {"environment", "production"}
          /\ there = (IF kind = "signup" THEN "sendCode" ELSE "issue")
    \/ here = "deleteToken" /\ there = (IF kind = "logout" THEN "done" ELSE "membership")
    \/ here = "nameOrg" /\ there = "setOnboarded"
    \/ here = "setOnboarded" /\ there = "readDefault"
    \/ here = "newOrg" /\ there = "joinOrg"
    \/ here \in {"sendCode", "deleteReset", "issue", "readDefault", "joinOrg"} /\ there = "done"

Same(n) ==
    /\ call'[n].kind = call[n].kind /\ call'[n].arg = call[n].arg
    /\ call'[n].by = call[n].by /\ call'[n].sawTenant = call[n].sawTenant

Moves(n) ==
    /\ Same(n)
    /\ call[n].at \in Running
    /\ call'[n].at = "failed" \/ Route(call[n].at, call[n].kind, call'[n].at)

LEMMA CallMoves ==
    ASSUME TypeOK, NEW n \in Calls, Statement(n) \/ Fail(n)
    PROVE  Moves(n)
<1>1. ASSUME NEW here \in Running, NEW there, Step(n, here, there),
             there = "failed" \/ Route(here, call[n].kind, there)
      PROVE  Moves(n)
  BY <1>1, StepMoves DEF Same, Moves
<1>2. ASSUME NEW here \in Running, NEW there, ReadUser(n, here, there),
             Route(here, call[n].kind, there)
      PROVE  Moves(n)
  BY <1>2 DEF ReadUser, TypeOK, Call, Same, Moves
<1>3. ASSUME NEW here \in Running, NEW there, NEW o, Enter(n, here, there, o),
             Route(here, call[n].kind, there)
      PROVE  Moves(n)
  BY <1>3 DEF Enter, TypeOK, Call, Same, Moves
<1>4. CASE ReadIdentity(n)
  <2>1. CASE call[n].by \in identities
    BY <1>2, <1>4, <2>1 DEF ReadIdentity, Route, Running, TenantSteps
  <2>2. CASE call[n].by \notin identities
    BY <1>1, <1>4, <2>2 DEF ReadIdentity, Route, Running, TenantSteps
  <2>. QED  BY <2>1, <2>2
<1>5. CASE ReadAccount(n)
  BY <1>2, <1>5 DEF ReadAccount, Route, Running, TenantSteps
<1>6. CASE CreateUser(n) \/ LinkIdentity(n)
  BY <1>1, <1>6 DEF CreateUser, LinkIdentity, Conflict, Route, Running, TenantSteps
<1>7. CASE SetVerified(n) \/ SendCode(n) \/ DeleteCode(n) \/ SetPassword(n)
  BY <1>1, <1>7 DEF SetVerified, SendCode, DeleteCode, SetPassword, Route, Running, TenantSteps
<1>8. CASE ReadMembership(n)
  BY <1>3, <1>8 DEF ReadMembership, Route, Running, TenantSteps
<1>9. CASE ReadEnvironment(n) \/ ReadDefault(n)
  BY <1>1, <1>9 DEF ReadEnvironment, ReadDefault, AfterTenant, Route, Running, TenantSteps
<1>10. CASE InsertOrganization(n) \/ InsertMember(n) \/ NameOrganization(n)
               \/ InsertNamedOrganization(n) \/ SetOnboarded(n) \/ IssueSession(n)
  BY <1>1, <1>10
     DEF InsertOrganization, InsertMember, NameOrganization, InsertNamedOrganization,
         SetOnboarded, IssueSession, Route, Running, TenantSteps
<1>11. CASE SeedEnvironments(n)
  BY <1>1, <1>11
     DEF SeedEnvironments, InsertEnvironment, Conflict, AfterTenant, Route, Running,
         TenantSteps
<1>12. CASE DeleteToken(n)
  <2>1. call[n] \in Call /\ call[n].at = "deleteToken"
    BY <1>12 DEF DeleteToken, TypeOK
  <2>2. call'[n] = IF call[n].kind = "logout"
                   THEN [call[n] EXCEPT !.at = "done"]
                   ELSE [call[n] EXCEPT !.at = "membership", !.now = clock + 1]
    BY <1>12 DEF DeleteToken, TypeOK
  <2>. QED  BY <2>1, <2>2 DEF Moves, Same, Call, Route, Running
<1>13. CASE JoinOrganization(n)
  BY <1>13 DEF JoinOrganization, Moves, Same, TypeOK, Call, Route, Running, TenantSteps
<1>14. CASE Fail(n)
  BY <1>14 DEF Fail, Moves, Same, TypeOK, Call
<1>. QED
  BY <1>4, <1>5, <1>6, <1>7, <1>8, <1>9, <1>10, <1>11, <1>12, <1>13, <1>14 DEF Statement

\* Where each kind of request starts.
Starts ==
    {<<"signup", "createUser">>, <<"social", "identity">>, <<"signin", "membership">>,
     <<"verify", "setVerified">>, <<"reset", "setPassword">>, <<"resend", "sendCode">>,
     <<"forgot", "sendCode">>, <<"refresh", "deleteToken">>, <<"logout", "deleteToken">>,
     <<"onboard", "nameOrg">>, <<"organization", "newOrg">>}

Arrives(n) == Request(n) \/ \E t \in Calls : Logout(n, t)

Started(n) ==
    /\ call[n].kind = "none"
    /\ tables' = tables /\ faults' = faults
    /\ <<call'[n].kind, call'[n].at>> \in Starts
    /\ call'[n].kind = "social" => call'[n].by \in Providers

LEMMA RequestMoves ==
    ASSUME TypeOK, NEW n \in Calls, Arrives(n)
    PROVE  Started(n)
<1>0. ASSUME NEW kind, NEW at, NEW arg, NEW by, NEW now, Begin(n, kind, at, arg, by, now),
             <<kind, at>> \in Starts, kind = "social" => by \in Providers
      PROVE  Started(n)
  <2>1. call'[n].kind = kind /\ call'[n].at = at /\ call'[n].by = by
    BY <1>0, BeginMoves
  <2>2. call[n].kind = "none" /\ tables' = tables /\ faults' = faults
    BY <1>0, BeginMoves
  <2>. QED  BY <1>0, <2>1, <2>2 DEF Started
<1>1. CASE CompleteOnboarding(n)
  <2>1. PICK o \in Calls :
           call' = [call EXCEPT ![n] = [NoCall EXCEPT !.kind = "onboard", !.at = "nameOrg",
                                                   !.org = o, !.sawTenant = TRUE]]
    BY <1>1 DEF CompleteOnboarding
  <2>2. call'[n].kind = "onboard" /\ call'[n].at = "nameOrg"
    BY <2>1 DEF TypeOK, NoCall
  <2>. QED  BY <1>1, <2>2 DEF CompleteOnboarding, Fresh, Starts, Started
<1>2. CASE Signup(n) \/ Signin(n)
  BY <1>0, <1>2 DEF Signup, Signin, Starts
<1>3. CASE \E p \in Providers : SigninWithSocial(n, p)
  BY <1>0, <1>3 DEF SigninWithSocial, Starts
<1>4. CASE VerifyEmail(n, verification) \/ ResetPassword(n, verification)
  BY <1>0, <1>4 DEF VerifyEmail, ResetPassword, Starts
<1>5. CASE ResendVerification(n) \/ ForgotPassword(n) \/ CreateOrganization(n)
  BY <1>0, <1>5 DEF ResendVerification, ForgotPassword, CreateOrganization, Starts
<1>6. CASE \E t : Refresh(n, t) \/ Logout(n, t)
  BY <1>0, <1>6 DEF Refresh, Logout, Starts
<1>. QED  BY <1>1, <1>2, <1>3, <1>4, <1>5, <1>6 DEF Arrives, Request

\* The calls that end in a session, or would after the e-mail is verified.
Callers == {"signup", "social", "signin", "verify", "refresh"}

CallRouted(n) ==
    /\ call[n].at = "idle" <=> call[n].kind = "none"
    /\ call[n].at \in {"identity", "account", "verifyLinked", "verifyUser", "link"} =>
          call[n].kind = "social"
    /\ call[n].kind = "social" => call[n].by \in Providers
    /\ call[n].at = "createUser" => call[n].kind \in {"signup", "social"}
    /\ call[n].at \in {"setVerified", "deleteCode"} => call[n].kind = "verify"
    /\ call[n].at \in {"setPassword", "deleteReset"} => call[n].kind = "reset"
    /\ call[n].at = "sendCode" => call[n].kind \in {"signup", "resend", "forgot"}
    /\ call[n].at = "deleteToken" => call[n].kind \in {"refresh", "logout"}
    /\ call[n].at \in {"nameOrg", "setOnboarded", "readDefault"} => call[n].kind = "onboard"
    /\ call[n].at \in {"newOrg", "joinOrg"} => call[n].kind = "organization"
    /\ call[n].at \in TenantSteps => call[n].kind \in Callers
    /\ call[n].at = "issue" => call[n].kind \in Callers \ {"signup"}

Routed == \A n \in Calls : CallRouted(n)

LEMMA RoutedKept ==
    ASSUME TypeOK, Routed, [Api]_vars
    PROVE  Routed'
<1>. SUFFICES ASSUME NEW m \in Calls PROVE CallRouted(m)'
  BY DEF Routed
<1>0. CallRouted(m)
  BY DEF Routed
<1>1. CASE call'[m] = call[m]
  BY <1>0, <1>1 DEF CallRouted
<1>2. CASE Arrives(m)
  <2>1. <<call'[m].kind, call'[m].at>> \in Starts
        /\ (call'[m].kind = "social" => call'[m].by \in Providers)
    BY <1>2, RequestMoves DEF Started
  <2>. QED  BY <2>1 DEF CallRouted, Starts, TenantSteps, Callers
<1>3. CASE Statement(m) \/ Fail(m)
  <2>1. Moves(m)
    BY <1>3, CallMoves
  <2>2. CASE call'[m].at = "failed"
    BY <1>0, <2>1, <2>2 DEF CallRouted, Moves, Same, Running, TenantSteps
  <2>3. CASE Route(call[m].at, call[m].kind, call'[m].at)
    <3>1. call'[m].at # "idle" /\ call[m].at # "idle"
      BY <2>1, <2>3 DEF Moves, Route, Running, TenantSteps
    <3>. QED  BY <1>0, <2>1, <2>3, <3>1 DEF CallRouted, Moves, Same, Route, TenantSteps, Callers
  <2>. QED  BY <2>1, <2>2, <2>3 DEF Moves
<1>4. CASE UNCHANGED vars
  BY <1>1, <1>4 DEF vars
<1>. QED  BY <1>1, <1>2, <1>3, <1>4, OthersStay DEF Api, Act, Arrives

LEMMA TypeKept ==
    ASSUME TypeOK, Routed, [Api]_vars
    PROVE  TypeOK'
<1>1. ASSUME NEW n \in Calls, Fail(n) PROVE TypeOK'
  <2>1. call' \in [Calls -> Call] /\ faults' \in 0 .. MaxFaults
    BY <1>1, AccountsAssumption DEF Fail, TypeOK, Call
  <2>. QED  BY <1>1, <2>1 DEF Fail, TypeOK, tables
<1>2. CASE UNCHANGED vars
  BY <1>2 DEF vars, tables, TypeOK
<1>3. \A n \in Calls : call[n].at = "link" => call[n].by \in Providers
  BY DEF Routed, CallRouted
<1>. QED  BY <1>1, <1>2, <1>3, RequestTypes, StatementTypes DEF Api, Act

\* Before there is a user, there is nothing, and no call is past creating it.
Unsigned == {"idle", "identity", "account", "createUser", "done", "failed"}

CallBlank(n) ==
    /\ session[n] = 0
    /\ \/ call[n].at \in Unsigned
       \/ call[n].at = "deleteToken" /\ call[n].kind = "logout"

Blank ==
    ~ user.exists =>
        /\ ~ user.verified /\ ~ user.onboarded
        /\ identities = {} /\ tokens = {}
        /\ \A n \in Calls : CallBlank(n)

LEMMA ExistsLasts ==
    ASSUME TypeOK, [Api]_vars, user.exists
    PROVE  user'.exists
<1>1. CASE user' = user
  BY <1>1
<1>2. CASE \E n \in Calls : CreateUser(n)
  BY <1>2 DEF CreateUser, Conflict, tables
<1>3. CASE \E n \in Calls : SetVerified(n) \/ SetPassword(n) \/ SetOnboarded(n)
  BY <1>3 DEF SetVerified, SetPassword, SetOnboarded, TypeOK, User
<1>. QED
  BY <1>1, <1>2, <1>3, RequestMoves
     DEF Api, Act, Arrives, Started, vars, tables, Statement, ReadIdentity, ReadUser, ReadAccount,
         LinkIdentity, SendCode, DeleteCode, ReadMembership, ReadEnvironment, InsertOrganization,
         InsertMember, SeedEnvironments, InsertEnvironment, IssueSession, DeleteToken,
         NameOrganization, ReadDefault, InsertNamedOrganization, JoinOrganization, Fail, Conflict

LEMMA BlankKept ==
    ASSUME TypeOK, Blank, [Api]_vars
    PROVE  Blank'
<1>. SUFFICES ASSUME ~ user.exists, ~ user'.exists PROVE Blank'
  BY ExistsLasts DEF Blank
<1>1. ASSUME user' = user, identities' = identities, tokens' \subseteq tokens,
             session' = session, NEW n \in Calls, Act(n), CallBlank(n)'
      PROVE  Blank'
  <2>1. \A m \in Calls : CallBlank(m)'
    BY <1>1, OthersStay DEF Blank, CallBlank
  <2>. QED  BY <1>1, <2>1 DEF Blank
<1>2. ASSUME NEW n \in Calls, Arrives(n) PROVE Blank'
  <2>1. /\ user' = user /\ identities' = identities /\ tokens' = tokens /\ session' = session
        /\ session[n] = 0 /\ Act(n)
    BY <1>2, RequestMoves DEF Started, tables, Act, Arrives, Blank, CallBlank
  <2>2. ASSUME NEW at \in {"createUser", "identity"}, NEW kind, NEW by,
               Begin(n, kind, at, 0, by, clock + 1)
        PROVE  CallBlank(n)'
    BY <2>1, <2>2, BeginMoves DEF Unsigned, CallBlank
  <2>3. ASSUME NEW t, Logout(n, t) PROVE CallBlank(n)'
    BY <2>1, <2>3, BeginMoves DEF Logout, CallBlank
  <2>4. ~ (\E m \in Calls : session[m] # 0) /\ tokens = {}
    BY DEF Blank, CallBlank
  <2>5. CallBlank(n)'
    BY <1>2, <2>2, <2>3, <2>4
       DEF Arrives, Request, Signup, SigninWithSocial, Signin, VerifyEmail, Accepts,
           ResetPassword, ResendVerification, ForgotPassword, Refresh,
           CompleteOnboarding, CreateOrganization
  <2>. QED  BY <1>1, <2>1, <2>5
<1>3. ASSUME NEW n \in Calls, Statement(n) \/ Fail(n) PROVE Blank'
  <2>1. Moves(n) /\ Act(n) /\ CallBlank(n) /\ identities = {} /\ tokens = {}
    BY <1>3, CallMoves DEF Act, Blank
  <2>2. \/ call[n].at \in {"identity", "account", "createUser"}
        \/ call[n].at = "deleteToken" /\ call[n].kind = "logout"
    BY <2>1 DEF Moves, CallBlank, Unsigned, Running, TenantSteps
  <2>3. CASE Fail(n)
    BY <1>1, <2>1, <2>3 DEF Fail, tables, CallBlank, Unsigned, TypeOK, Call
  <2>4. CASE ReadIdentity(n)
    <3>1. Step(n, "identity", "account") /\ UNCHANGED tables
      BY <2>1, <2>4 DEF ReadIdentity
    <3>2. call'[n].at = "account"
      BY <3>1, StepMoves
    <3>. QED  BY <1>1, <2>1, <3>1, <3>2 DEF tables, CallBlank, Unsigned
  <2>5. CASE ReadAccount(n)
    <3>1. ReadUser(n, "account", "createUser")
      BY <2>5 DEF ReadAccount
    <3>2. call'[n].at = "createUser" /\ UNCHANGED tables
      BY <3>1 DEF ReadUser, TypeOK, Call
    <3>. QED  BY <1>1, <2>1, <3>2 DEF tables, CallBlank, Unsigned
  <2>6. ~ CreateUser(n)
    BY DEF CreateUser
  <2>7. CASE DeleteToken(n)
    <3>1. call'[n].at = "done"
      BY <2>2, <2>7 DEF DeleteToken, TypeOK, Call
    <3>2. /\ user' = user /\ identities' = identities /\ tokens' \subseteq tokens
          /\ session' = session
      BY <2>7 DEF DeleteToken
    <3>. QED  BY <1>1, <2>1, <3>1, <3>2 DEF CallBlank, Unsigned
  <2>. QED
    BY <1>3, <2>2, <2>3, <2>4, <2>5, <2>6, <2>7
       DEF Statement, Step, Enter, SetVerified, LinkIdentity, SendCode, DeleteCode,
           SetPassword, ReadMembership, ReadEnvironment, InsertOrganization, InsertMember,
           SeedEnvironments, InsertEnvironment, IssueSession, NameOrganization, SetOnboarded,
           ReadDefault, InsertNamedOrganization, JoinOrganization, Conflict
<1>4. CASE UNCHANGED vars
  BY <1>4 DEF vars, tables, Blank, CallBlank
<1>. QED  BY <1>2, <1>3, <1>4 DEF Api, Act, Arrives
----------------------------------------------------------------------------
(***************************************************************************)
(* What the calls write, and what lasts.                                   *)
(***************************************************************************)

\* The row of an organization, after a step of call n.
OrgMoves(n, o) ==
    /\ orgs[o].named => orgs'[o].named
    /\ orgs[o].created => orgs'[o].created
    /\ ~ orgs[o].created /\ orgs'[o].created =>
          o = n /\ (InsertOrganization(n) \/ InsertNamedOrganization(n))
    /\ \/ orgs'[o].since = orgs[o].since
       \/ o = n /\ InsertMember(n) /\ orgs'[o].since = call[n].now
       \/ o = n /\ JoinOrganization(n) /\ orgs'[o].since = clock + 1
    /\ \/ orgs'[o].envs = orgs[o].envs
       \/ \E e \in Environments :
             /\ SeedEnvironments(n) /\ call[n].at = e /\ call[n].org = o
             /\ call'[n].at = IF e = "development" THEN "production" ELSE AfterTenant(n)
             /\ e \notin orgs[o].envs /\ orgs'[o].envs = orgs[o].envs \cup {e}

LEMMA OrgsMove ==
    ASSUME TypeOK, NEW n \in Calls, Act(n), NEW o \in Calls
    PROVE  OrgMoves(n, o)
<1>0. orgs[o] \in Org /\ orgs[n] \in Org
  BY DEF TypeOK
<1>1. ASSUME orgs'[o] = orgs[o] PROVE OrgMoves(n, o)
  BY <1>1 DEF OrgMoves
<1>2. ASSUME NEW f, NEW r, orgs' = [orgs EXCEPT ![f] = r], o # f PROVE OrgMoves(n, o)
  BY <1>1, <1>2 DEF TypeOK
<1>3. CASE InsertOrganization(n)
  BY <1>0, <1>2, <1>3 DEF InsertOrganization, OrgMoves, TypeOK, Org
<1>4. CASE InsertMember(n)
  BY <1>0, <1>2, <1>4 DEF InsertMember, OrgMoves, TypeOK, Org
<1>5. CASE NameOrganization(n)
  <2>1. PICK c : orgs' = [orgs EXCEPT ![c] = [orgs[c] EXCEPT !.named = TRUE]]
    BY <1>5 DEF NameOrganization
  <2>2. CASE c = o
    <3>1. orgs'[o] = [orgs[o] EXCEPT !.named = TRUE]
      BY <2>1, <2>2 DEF TypeOK
    <3>. QED  BY <1>0, <3>1 DEF OrgMoves, Org
  <2>. QED  BY <1>2, <2>1, <2>2
<1>6. CASE InsertNamedOrganization(n)
  <2>. DEFINE first == [orgs EXCEPT ![n] = [orgs[n] EXCEPT !.created = TRUE]]
  <2>1. orgs' = [first EXCEPT ![n] = [first[n] EXCEPT !.named = TRUE]]
    BY <1>6 DEF InsertNamedOrganization
  <2>2. first \in [Calls -> Org] /\ first[n] = [orgs[n] EXCEPT !.created = TRUE]
        /\ (o # n => first[o] = orgs[o])
    BY <1>0 DEF TypeOK, Org
  <2>. HIDE DEF first
  <2>3. CASE o = n
    BY <1>0, <1>6, <2>1, <2>2, <2>3 DEF OrgMoves, Org
  <2>4. CASE o # n
    BY <1>1, <2>1, <2>2, <2>4
  <2>. QED  BY <2>3, <2>4
<1>7. CASE JoinOrganization(n)
  BY <1>0, <1>2, <1>7 DEF JoinOrganization, OrgMoves, TypeOK, Org
<1>8. CASE SeedEnvironments(n)
  <2>1. PICK e \in Environments :
           InsertEnvironment(n, e, IF e = "development" THEN "production" ELSE AfterTenant(n))
    BY <1>8 DEF SeedEnvironments, Environments
  <2>2. CASE Conflict(n, e)
    BY <1>1, <2>2 DEF Conflict, tables
  <2>3. CASE ~ Conflict(n, e)
    <3>1. /\ Step(n, e, IF e = "development" THEN "production" ELSE AfterTenant(n))
          /\ e \notin orgs[call[n].org].envs
          /\ orgs' = [orgs EXCEPT ![call[n].org] =
                         [orgs[call[n].org] EXCEPT !.envs = orgs[call[n].org].envs \cup {e}]]
      BY <2>1, <2>3 DEF InsertEnvironment
    <3>2. CASE call[n].org = o
      <4>1. orgs'[o] = [orgs[o] EXCEPT !.envs = orgs[o].envs \cup {e}]
        BY <3>1, <3>2 DEF TypeOK
      <4>2. /\ orgs'[o].envs = orgs[o].envs \cup {e} /\ orgs'[o].since = orgs[o].since
            /\ orgs'[o].named = orgs[o].named /\ orgs'[o].created = orgs[o].created
        BY <1>0, <4>1 DEF Org
      <4>3. /\ call[n].at = e
            /\ call'[n].at = IF e = "development" THEN "production" ELSE AfterTenant(n)
        BY <3>1, StepMoves
      <4>. QED  BY <1>8, <3>1, <3>2, <4>2, <4>3 DEF OrgMoves
    <3>. QED  BY <1>2, <3>1, <3>2
  <2>. QED  BY <2>2, <2>3
<1>9. CASE orgs' = orgs
  BY <1>1, <1>9
<1>. QED
  BY <1>3, <1>4, <1>5, <1>6, <1>7, <1>8, <1>9, RequestMoves
     DEF Act, Arrives, Started, tables, Statement, ReadIdentity, ReadUser, ReadAccount, CreateUser,
         SetVerified, LinkIdentity, SendCode, DeleteCode, SetPassword, ReadMembership,
         ReadEnvironment, IssueSession, DeleteToken, SetOnboarded, ReadDefault, Fail, Conflict
----------------------------------------------------------------------------
(***************************************************************************)
(* What a call knows: what it read still holds when it comes to use it.    *)
(***************************************************************************)

\* Points at which a call holds the timestamp its membership will be dated with.
Dated == TenantSteps \cup {"identity", "account", "createUser", "verifyLinked", "verifyUser",
                           "link", "setVerified", "deleteCode"}

\* The user has an organization that a sign-in made.
Founded == \E o \in Owned : call[o].kind # "organization"

\* Points at which the organization of a call may have its member.
Joined == {"development", "production", "issue", "sendCode", "done", "failed"}

VerifiedAt(n) ==
    /\ call[n].at \in {"link", "deleteCode", "issue"} => user.verified
    /\ call[n].at \in TenantSteps /\ call[n].kind # "signup" => user.verified
    /\ call[n].at = "deleteToken" /\ call[n].kind = "refresh" => user.verified

DatedAt(n) ==
    /\ call[n].now <= clock
    /\ call[n].at \in Dated => call[n].now > 0

TenantAt(n) ==
    /\ call[n].at \in {"organization", "member"} => call[n].org = n /\ ~ call[n].sawTenant
    /\ call[n].at \in {"environment", "development", "production", "issue", "nameOrg",
                       "setOnboarded"} => call[n].org \in Owned
    /\ call[n].at \in {"production", "issue"} => HasDefault(call[n].org)
    /\ call[n].sawTenant => Owned # {}
    /\ call[n].at \in {"newOrg", "joinOrg"} => Founded

OnboardedAt(n) ==
    /\ call[n].at \in {"nameOrg", "setOnboarded"} => call[call[n].org].kind # "organization"
    /\ call[n].at = "setOnboarded" => orgs[call[n].org].named
    /\ call[n].at = "readDefault" => user.onboarded
    /\ call[n].at = "done" /\ call[n].kind = "onboard" => user.onboarded
    /\ ~ call[n].needs => user.onboarded

CallKnows(n) == VerifiedAt(n) /\ DatedAt(n) /\ TenantAt(n) /\ OnboardedAt(n)

OrgKnown(o) ==
    /\ orgs[o].since <= clock
    /\ orgs[o].since # 0 => call[o].at \in Joined
    /\ orgs[o].since = 0 => orgs[o].envs = {}
    /\ orgs[o].since # 0 /\ call[o].kind = "organization" =>
          \E p \in Owned : call[p].kind # "organization" /\ orgs[p].since < orgs[o].since

CallsKnow == \A n \in Calls : CallKnows(n)
OrgsKnown == \A o \in Calls : OrgKnown(o)

AccountsInv == TypeOK /\ Routed /\ Blank /\ CallsKnow /\ OrgsKnown /\ SessionsHaveTenant

\* What no step undoes.
Grows ==
    /\ user.verified => user'.verified
    /\ user.onboarded => user'.onboarded
    /\ clock <= clock'
    /\ \A o \in Calls :
          /\ orgs[o].since # 0 => orgs'[o].since = orgs[o].since
          /\ orgs[o].envs \subseteq orgs'[o].envs
          /\ orgs[o].named => orgs'[o].named
          /\ call[o].kind # "none" => call'[o].kind = call[o].kind

LEMMA ClockMoves ==
    ASSUME TypeOK, [Api]_vars
    PROVE  clock' = clock \/ clock' = clock + 1
<1>0. clock \in Nat
  BY DEF TypeOK
<1>1. ASSUME NEW n \in Calls, NEW kind, NEW at, NEW arg, NEW by, NEW now \in {0, clock + 1},
             Begin(n, kind, at, arg, by, now)
      PROVE  clock' = clock \/ clock' = clock + 1
  BY <1>1 DEF Begin
<1>2. ASSUME NEW n \in Calls, Arrives(n)
      PROVE  clock' = clock \/ clock' = clock + 1
  BY <1>1, <1>2
     DEF Arrives, Request, Signup, SigninWithSocial, Signin, VerifyEmail, ResetPassword,
         ResendVerification, ForgotPassword, Refresh, Logout, CompleteOnboarding,
         CreateOrganization
<1>3. ASSUME NEW n \in Calls, Statement(n) \/ Fail(n)
      PROVE  clock' = clock \/ clock' = clock + 1
  BY <1>3, Zenon
     DEF Statement, ReadIdentity, ReadUser, ReadAccount, CreateUser, SetVerified, LinkIdentity,
         SendCode, DeleteCode, SetPassword, ReadMembership, ReadEnvironment,
         InsertOrganization, InsertMember, SeedEnvironments, InsertEnvironment, IssueSession,
         DeleteToken, NameOrganization, SetOnboarded, ReadDefault, InsertNamedOrganization,
         JoinOrganization, Fail, Step, Enter, Conflict
<1>. QED  BY <1>2, <1>3 DEF Api, Act, Arrives, vars

LEMMA UserGrows ==
    ASSUME TypeOK, Blank, [Api]_vars
    PROVE  (user.verified => user'.verified) /\ (user.onboarded => user'.onboarded)
<1>1. CASE user' = user
  BY <1>1
<1>2. CASE \E n \in Calls : CreateUser(n)
  BY <1>1, <1>2 DEF CreateUser, Conflict, tables, Blank
<1>3. CASE \E n \in Calls : SetVerified(n) \/ SetPassword(n) \/ SetOnboarded(n)
  BY <1>3 DEF SetVerified, SetPassword, SetOnboarded, TypeOK, User
<1>. QED
  BY <1>1, <1>2, <1>3, RequestMoves
     DEF Api, Act, Arrives, Started, vars, tables, Statement, ReadIdentity, ReadUser, ReadAccount,
         LinkIdentity, SendCode, DeleteCode, ReadMembership, ReadEnvironment, InsertOrganization,
         InsertMember, SeedEnvironments, InsertEnvironment, IssueSession, DeleteToken,
         NameOrganization, ReadDefault, InsertNamedOrganization, JoinOrganization, Fail, Conflict

LEMMA KindStays ==
    ASSUME TypeOK, [Api]_vars, NEW n \in Calls, call[n].kind # "none"
    PROVE  call'[n].kind = call[n].kind
BY OthersStay, RequestMoves, CallMoves DEF Api, Act, Arrives, Started, Moves, Same, vars

LEMMA Growing ==
    ASSUME AccountsInv, [Api]_vars
    PROVE  Grows
<1>0. TypeOK /\ Blank /\ OrgsKnown /\ clock \in Nat
  BY DEF AccountsInv, TypeOK
<1>1. ASSUME NEW o \in Calls
      PROVE  /\ orgs[o].since # 0 => orgs'[o].since = orgs[o].since
             /\ orgs[o].envs \subseteq orgs'[o].envs
             /\ orgs[o].named => orgs'[o].named
  <2>1. CASE orgs' = orgs
    BY <2>1
  <2>2. ASSUME NEW n \in Calls, Act(n)
        PROVE  /\ orgs[o].since # 0 => orgs'[o].since = orgs[o].since
               /\ orgs[o].envs \subseteq orgs'[o].envs
               /\ orgs[o].named => orgs'[o].named
    <3>1. OrgMoves(n, o)
      BY <1>0, <2>2, OrgsMove
    <3>2. orgs[o].since # 0 => call[o].at \in Joined
      BY <1>0 DEF OrgsKnown, OrgKnown
    <3>. QED  BY <3>1, <3>2 DEF OrgMoves, InsertMember, JoinOrganization, Step, Joined
  <2>. QED  BY <2>1, <2>2 DEF Api, vars, tables
<1>. QED  BY <1>0, <1>1, ClockMoves, UserGrows, KindStays DEF Grows

\* The point of a call names the statement it executes.
LEMMA ByPoint ==
    ASSUME NEW n \in Calls, Statement(n)
    PROVE  /\ call[n].at = "identity" => ReadIdentity(n)
           /\ call[n].at = "account" => ReadAccount(n)
           /\ call[n].at = "createUser" => CreateUser(n)
           /\ call[n].at \in {"verifyLinked", "verifyUser", "setVerified"} => SetVerified(n)
           /\ call[n].at = "membership" => ReadMembership(n)
           /\ call[n].at = "environment" => ReadEnvironment(n)
           /\ call[n].at = "member" => InsertMember(n)
           /\ call[n].at \in Environments => SeedEnvironments(n)
           /\ call[n].at = "issue" => IssueSession(n)
           /\ call[n].at = "deleteToken" => DeleteToken(n)
           /\ call[n].at = "nameOrg" => NameOrganization(n)
           /\ call[n].at = "setOnboarded" => SetOnboarded(n)
BY DEF Environments, Statement, ReadIdentity, ReadUser, ReadAccount, CreateUser, SetVerified,
       LinkIdentity, SendCode, DeleteCode, SetPassword, ReadMembership, ReadEnvironment,
       InsertOrganization, InsertMember, SeedEnvironments, InsertEnvironment, IssueSession,
       DeleteToken, NameOrganization, SetOnboarded, ReadDefault, InsertNamedOrganization,
       JoinOrganization, Step, Enter, Conflict

\* What the statements of a call read and write on the way to its next point.
ReadsUser(n) ==
    /\ call[n].at = "identity" /\ call'[n].at = "membership" => user.verified
    /\ call[n].at = "account" /\ call'[n].at = "link" => user.verified
    /\ call[n].at \in {"verifyLinked", "verifyUser", "setVerified"} /\ call'[n].at # "failed" =>
          user'.verified
    /\ call[n].at = "createUser" /\ call'[n].at = "link" /\ call[n].kind = "social" =>
          user'.verified
    /\ call[n].at = "setOnboarded" /\ call'[n].at = "readDefault" => user'.onboarded
    /\ (call'[n].needs <=> call[n].needs) \/ (call'[n].needs <=> ~ user.onboarded)

ReadsTenant(n) ==
    /\ IF call[n].at = "deleteToken" /\ call'[n].at = "membership"
       THEN call'[n].now = clock + 1 /\ clock' = clock + 1
       ELSE call'[n].now = call[n].now
    /\ call[n].at # "membership" => call'[n].org = call[n].org
    /\ call'[n].at = "environment" => call'[n].org \in Owned
    /\ call'[n].at = "organization" => Owned = {} /\ call'[n].org = n
    /\ call[n].at = "member" /\ call'[n].at = "development" => orgs'[n].since = call[n].now
    /\ call[n].at = "environment" /\ call'[n].at = "issue" => HasDefault(call[n].org)
    /\ call[n].at = "development" /\ call'[n].at = "production" /\ call[n].org \in Calls =>
          "development" \in orgs'[call[n].org].envs
    /\ call[n].at = "nameOrg" /\ call'[n].at = "setOnboarded" /\ call[n].org \in Calls =>
          orgs'[call[n].org].named

LEMMA UserRead ==
    ASSUME TypeOK, NEW n \in Calls, Statement(n) \/ Fail(n)
    PROVE  ReadsUser(n)
<1>0. call[n] \in Call
  BY DEF TypeOK
<1>1. CASE Fail(n)
  <2>1. call'[n] = [call[n] EXCEPT !.at = "failed"]
    BY <1>1 DEF Fail, TypeOK
  <2>. QED  BY <1>0, <2>1 DEF ReadsUser, Call
<1>2. CASE Statement(n)
  <2>1. ASSUME NEW here, NEW there, ReadUser(n, here, there)
        PROVE  call[n].at = here /\ call'[n].at = there /\ (call'[n].needs <=> ~ user.onboarded)
    BY <1>0, <2>1 DEF ReadUser, TypeOK, Call
  <2>2. ASSUME NEW here, NEW there, Step(n, here, there)
        PROVE  call[n].at = here /\ call'[n].at = there /\ call'[n].needs = call[n].needs
    BY <2>2, StepMoves
  <2>3. CASE call[n].at \in {"identity", "account"}
    BY <1>2, <2>1, <2>2, <2>3, ByPoint DEF ReadIdentity, ReadAccount, ReadsUser
  <2>4. CASE call[n].at = "createUser"
    <3>1. CreateUser(n)
      BY <1>2, <2>4, ByPoint
    <3>2. CASE Conflict(n, "createUser")
      BY <2>2, <2>4, <3>2 DEF Conflict, ReadsUser
    <3>3. CASE ~ Conflict(n, "createUser")
      <4>1. PICK p, v \in BOOLEAN :
               /\ v <=> call[n].kind = "social"
               /\ user' = [exists |-> TRUE, password |-> p, verified |-> v,
                           onboarded |-> FALSE]
        BY <3>1, <3>3, Zenon DEF CreateUser
      <4>2. user'.verified <=> call[n].kind = "social"
        BY <4>1
      <4>3. call'[n].needs = call[n].needs
        BY <2>2, <3>1, <3>3 DEF CreateUser
      <4>. QED  BY <2>4, <4>2, <4>3 DEF ReadsUser
    <3>. QED  BY <3>2, <3>3
  <2>5. CASE call[n].at \in {"verifyLinked", "verifyUser", "setVerified"}
    <3>1. user'.verified
      BY <1>2, <2>5, ByPoint DEF SetVerified, TypeOK, User
    <3>. QED  BY <1>2, <2>2, <2>5, <3>1, ByPoint DEF SetVerified, ReadsUser
  <2>6. CASE call[n].at = "setOnboarded"
    <3>1. user'.onboarded
      BY <1>2, <2>6, ByPoint DEF SetOnboarded, TypeOK, User
    <3>. QED  BY <1>2, <2>2, <2>6, <3>1, ByPoint DEF SetOnboarded, ReadsUser
  <2>7. CASE call[n].at \notin {"identity", "account", "createUser", "verifyLinked",
                                "verifyUser", "setVerified", "setOnboarded"}
    <3>1. call'[n].needs = call[n].needs
      <4>1. ASSUME NEW here, NEW there, NEW o, Enter(n, here, there, o)
            PROVE  call'[n].needs = call[n].needs
        BY <1>0, <4>1 DEF Enter, TypeOK, Call
      <4>2. CASE DeleteToken(n)
        <5>1. \/ call'[n] = [call[n] EXCEPT !.at = "done"]
              \/ call'[n] = [call[n] EXCEPT !.at = "membership", !.now = clock + 1]
          BY <4>2 DEF DeleteToken, TypeOK
        <5>. QED  BY <1>0, <5>1 DEF Call
      <4>3. CASE JoinOrganization(n)
        BY <1>0, <4>3 DEF JoinOrganization, TypeOK, Call
      <4>4. CASE ReadMembership(n)
        BY <4>1, <4>4 DEF ReadMembership
      <4>. QED
        BY <1>2, <2>2, <2>7, <4>2, <4>3, <4>4
           DEF Statement, ReadIdentity, ReadUser, ReadAccount, CreateUser, SetVerified,
               LinkIdentity, SendCode, DeleteCode, SetPassword, ReadEnvironment,
               InsertOrganization, InsertMember, SeedEnvironments, InsertEnvironment,
               IssueSession, NameOrganization, SetOnboarded, ReadDefault,
               InsertNamedOrganization, Conflict
    <3>. QED  BY <2>7, <3>1 DEF ReadsUser
  <2>. QED  BY <2>3, <2>4, <2>5, <2>6, <2>7
<1>. QED  BY <1>1, <1>2

LEMMA TenantRead ==
    ASSUME TypeOK, NEW n \in Calls, Statement(n) \/ Fail(n)
    PROVE  ReadsTenant(n)
<1>0. call[n] \in Call /\ Moves(n)
  BY CallMoves DEF TypeOK
<1>1. CASE Fail(n)
  <2>1. call'[n] = [call[n] EXCEPT !.at = "failed"]
    BY <1>1 DEF Fail, TypeOK
  <2>. QED  BY <1>0, <2>1 DEF ReadsTenant, Call
<1>2. CASE Statement(n)
  <2>1. ASSUME NEW here, NEW there, Step(n, here, there)
        PROVE  /\ call[n].at = here /\ call'[n].at = there
               /\ call'[n].org = call[n].org /\ call'[n].now = call[n].now
    BY <2>1, StepMoves
  <2>2. ASSUME NEW here, NEW there, ReadUser(n, here, there)
        PROVE  call'[n].org = call[n].org /\ call'[n].now = call[n].now
    BY <1>0, <2>2 DEF ReadUser, TypeOK, Call
  <2>3. ASSUME NEW here, NEW there, NEW o, Enter(n, here, there, o)
        PROVE  call'[n].at = there /\ call'[n].org = o /\ call'[n].now = call[n].now
    BY <1>0, <2>3 DEF Enter, TypeOK, Call
  <2>4. CASE call[n].at = "membership"
    <3>1. ReadMembership(n)
      BY <1>2, <2>4, ByPoint
    <3>2. \/ Owned = {} /\ Enter(n, "membership", "organization", n)
          \/ \E o \in Owned : Enter(n, "membership", "environment", o)
      BY <3>1 DEF ReadMembership, IsPrimary
    <3>. QED  BY <2>3, <2>4, <3>2 DEF ReadsTenant
  <2>5. CASE call[n].at = "deleteToken"
    <3>1. DeleteToken(n)
      BY <1>2, <2>5, ByPoint
    <3>2. call'[n] = IF call[n].kind = "logout"
                     THEN [call[n] EXCEPT !.at = "done"]
                     ELSE [call[n] EXCEPT !.at = "membership", !.now = clock + 1]
      BY <3>1 DEF DeleteToken, TypeOK
    <3>3. /\ call'[n].org = call[n].org
          /\ \/ call'[n].at = "done" /\ call'[n].now = call[n].now
             \/ call'[n].at = "membership" /\ call'[n].now = clock + 1 /\ clock' = clock + 1
      BY <1>0, <3>1, <3>2 DEF DeleteToken, Call
    <3>. QED  BY <2>5, <3>3 DEF ReadsTenant
  <2>6. CASE call[n].at \notin {"membership", "deleteToken"}
    <3>1. call'[n].org = call[n].org /\ call'[n].now = call[n].now
      <4>1. CASE JoinOrganization(n)
        BY <1>0, <4>1 DEF JoinOrganization, TypeOK, Call
      <4>. QED
        BY <1>2, <2>1, <2>2, <2>6, <4>1
           DEF Statement, ReadIdentity, ReadAccount, CreateUser, SetVerified,
               LinkIdentity, SendCode, DeleteCode, SetPassword, ReadMembership, Enter,
               ReadEnvironment, InsertOrganization, InsertMember, SeedEnvironments,
               InsertEnvironment, IssueSession, DeleteToken, NameOrganization, SetOnboarded,
               ReadDefault, InsertNamedOrganization, Conflict
    <3>2. call'[n].at \notin {"environment", "organization"}
      BY <1>0, <2>6 DEF Moves, Route
    <3>3. call[n].at = "member" => orgs'[n].since = call[n].now
      <4>. SUFFICES ASSUME call[n].at = "member" PROVE orgs'[n].since = call[n].now
        OBVIOUS
      <4>1. orgs' = [orgs EXCEPT ![n] = [orgs[n] EXCEPT !.since = call[n].now]]
            \/ call'[n].at = "failed"
        BY <1>2, ByPoint DEF InsertMember
      <4>. QED  BY <1>2, ByPoint DEF InsertMember, TypeOK, Org
    <3>4. call[n].at = "environment" /\ call'[n].at = "issue" => HasDefault(call[n].org)
      BY <1>2, <2>1, ByPoint DEF ReadEnvironment
    <3>5. call[n].at = "development" /\ call'[n].at = "production" /\ call[n].org \in Calls =>
             "development" \in orgs'[call[n].org].envs
      <4>. SUFFICES ASSUME call[n].at = "development", call'[n].at = "production",
                           call[n].org \in Calls
                    PROVE  "development" \in orgs'[call[n].org].envs
        OBVIOUS
      <4>1. ~ Conflict(n, "development") /\ ~ Step(n, "production", AfterTenant(n))
            /\ ~ Conflict(n, "production")
        BY <2>1 DEF Conflict
      <4>2. orgs' = [orgs EXCEPT ![call[n].org] =
               [orgs[call[n].org] EXCEPT !.envs = orgs[call[n].org].envs \cup {"development"}]]
        BY <1>2, <4>1, ByPoint DEF SeedEnvironments, InsertEnvironment, Environments
      <4>. QED  BY <4>2 DEF TypeOK, Org
    <3>6. call[n].at = "nameOrg" /\ call[n].org \in Calls => orgs'[call[n].org].named
      <4>. SUFFICES ASSUME call[n].at = "nameOrg", call[n].org \in Calls
                    PROVE  orgs'[call[n].org].named
        OBVIOUS
      <4>1. orgs' = [orgs EXCEPT ![call[n].org] = [orgs[call[n].org] EXCEPT !.named = TRUE]]
        BY <1>2, ByPoint DEF NameOrganization
      <4>. QED  BY <4>1 DEF TypeOK, Org
    <3>. QED  BY <2>6, <3>1, <3>2, <3>3, <3>4, <3>5, <3>6 DEF ReadsTenant
  <2>. QED  BY <2>4, <2>5, <2>6
<1>. QED  BY <1>1, <1>2

----------------------------------------------------------------------------
(***************************************************************************)
(* What a call knows is an invariant.                                      *)
(***************************************************************************)

LEMMA OwnedLasts ==
    ASSUME AccountsInv, [Api]_vars
    PROVE  /\ Grows
           /\ Owned \subseteq Owned'
           /\ \A o \in Owned : /\ orgs'[o].since = orgs[o].since
                               /\ call[o].kind # "none" /\ call'[o].kind = call[o].kind
                               /\ HasDefault(o) => HasDefault(o)'
           /\ Founded => Founded'
<1>1. Grows
  BY Growing
<1>2. ASSUME NEW o \in Owned
      PROVE  o \in Owned' /\ call[o].kind # "none" /\ call'[o].kind = call[o].kind
  <2>1. call[o].at \in Joined
    BY <1>2 DEF AccountsInv, OrgsKnown, OrgKnown, Owned
  <2>2. call[o].kind # "none"
    BY <1>2, <2>1 DEF AccountsInv, Routed, CallRouted, Owned, Joined
  <2>. QED  BY <1>1, <1>2, <2>2 DEF Grows, Owned
<1>3. Founded => Founded'
  BY <1>2 DEF Founded
<1>. QED  BY <1>1, <1>2, <1>3 DEF Grows, Owned, HasDefault

LEMMA RestKnows ==
    ASSUME AccountsInv, [Api]_vars, NEW n \in Calls, call'[n] = call[n]
    PROVE  CallKnows(n)'
<1>1. Grows /\ TypeOK /\ CallKnows(n) /\ call[n].now \in Nat /\ clock \in Nat /\ clock' \in Nat
  BY Growing, TypeKept DEF AccountsInv, CallsKnow, TypeOK, Call
<1>2. VerifiedAt(n)'
  BY <1>1 DEF CallKnows, VerifiedAt, Grows
<1>3. DatedAt(n)'
  BY <1>1 DEF CallKnows, DatedAt, Grows
<1>4. TenantAt(n)'
  <2>1. Owned = {} \/ Owned' # {}
    BY OwnedLasts
  <2>. QED  BY <1>1, <2>1, OwnedLasts DEF CallKnows, TenantAt
<1>5. OnboardedAt(n)'
  <2>1. call[n].at \in {"nameOrg", "setOnboarded"} =>
           call[n].org \in Owned /\ call[n].org \in Calls
    BY <1>1 DEF CallKnows, TenantAt, Owned
  <2>. QED  BY <1>1, <2>1, OwnedLasts DEF CallKnows, OnboardedAt, Grows
<1>. QED  BY <1>2, <1>3, <1>4, <1>5 DEF CallKnows

LEMMA StatementKnows ==
    ASSUME AccountsInv, [Api]_vars, NEW n \in Calls, Statement(n) \/ Fail(n)
    PROVE  CallKnows(n)'
<1>1. /\ TypeOK /\ Routed /\ CallRouted(n) /\ Grows
      /\ CallKnows(n) /\ call[n].now \in Nat /\ clock \in Nat /\ clock' \in Nat
  BY Growing, TypeKept DEF AccountsInv, Routed, CallsKnow, TypeOK, Call
<1>2. ReadsUser(n) /\ ReadsTenant(n) /\ Moves(n)
  BY <1>1, UserRead, TenantRead, CallMoves
<1>3. CASE call'[n].at = "failed"
  <2>1. call'[n].now <= clock'
    BY <1>1, <1>2 DEF CallKnows, DatedAt, ReadsTenant, Grows
  <2>2. call'[n].sawTenant => Owned' # {}
    BY <1>1, <1>2, OwnedLasts DEF CallKnows, TenantAt, Moves, Same
  <2>3. ~ call'[n].needs => user'.onboarded
    BY <1>1, <1>2 DEF CallKnows, OnboardedAt, ReadsUser, Grows
  <2>. QED
    BY <1>3, <2>1, <2>2, <2>3
       DEF CallKnows, VerifiedAt, DatedAt, TenantAt, OnboardedAt, Dated, TenantSteps
<1>4. CASE Route(call[n].at, call[n].kind, call'[n].at)
  <2>1. VerifiedAt(n)'
    BY <1>1, <1>2, <1>4
       DEF CallKnows, CallRouted, VerifiedAt, ReadsUser, Moves, Same, Route, Grows, TenantSteps
  <2>2. DatedAt(n)'
    BY <1>1, <1>2, <1>4
       DEF CallKnows, DatedAt, Dated, TenantSteps, ReadsTenant, Moves, Route, Grows
  <2>3. TenantAt(n)'
    <3>1. call'[n].at \in {"organization", "member"} =>
             call'[n].org = n /\ ~ call'[n].sawTenant
      BY <1>1, <1>2, <1>4 DEF CallKnows, TenantAt, ReadsTenant, Moves, Same, Route
    <3>2. call'[n].at \in {"environment", "development", "production", "issue", "nameOrg",
                           "setOnboarded"} => call'[n].org \in Owned'
      <4>1. call[n].at = "member" /\ call'[n].at = "development" => n \in Owned'
        BY <1>1, <1>2 DEF CallKnows, DatedAt, Dated, TenantSteps, ReadsTenant, Owned
      <4>. QED
        BY <1>1, <1>2, <1>4, <4>1, OwnedLasts DEF CallKnows, TenantAt, ReadsTenant, Route
    <3>3. call'[n].at \in {"production", "issue"} =>
             "development" \in orgs'[call'[n].org].envs
      <4>. SUFFICES ASSUME call'[n].at \in {"production", "issue"}
                    PROVE  "development" \in orgs'[call'[n].org].envs
        OBVIOUS
      <4>1. call[n].at \in {"environment", "development", "production"}
        BY <1>4 DEF Route
      <4>2. PICK o \in Owned : o \in Calls /\ o = call[n].org /\ o = call'[n].org
        BY <1>1, <1>2, <4>1 DEF CallKnows, TenantAt, ReadsTenant, Owned
      <4>3. HasDefault(o) \/ "development" \in orgs'[o].envs
        BY <1>1, <1>2, <1>4, <4>2 DEF CallKnows, TenantAt, ReadsTenant, Route
      <4>. QED  BY <4>2, <4>3, OwnedLasts DEF HasDefault
    <3>4. call'[n].sawTenant => Owned' # {}
      BY <1>1, <1>2, OwnedLasts DEF CallKnows, TenantAt, Moves, Same
    <3>5. call'[n].at \in {"newOrg", "joinOrg"} => Founded'
      BY <1>1, <1>4, OwnedLasts DEF CallKnows, TenantAt, Route
    <3>. QED  BY <3>1, <3>2, <3>3, <3>4, <3>5 DEF TenantAt, HasDefault
  <2>4. OnboardedAt(n)'
    <3>1. ASSUME call'[n].at \in {"nameOrg", "setOnboarded"}
          PROVE  /\ call'[n].at = "setOnboarded"
                 /\ call'[call'[n].org].kind # "organization"
                 /\ orgs'[call'[n].org].named
      <4>1. call[n].at = "nameOrg" /\ call'[n].at = "setOnboarded"
        BY <1>4, <3>1 DEF Route
      <4>2. PICK o \in Owned : o \in Calls /\ o = call[n].org /\ o = call'[n].org
        BY <1>1, <1>2, <4>1 DEF CallKnows, TenantAt, ReadsTenant, Owned
      <4>3. call'[o].kind # "organization"
        BY <1>1, <4>1, <4>2, OwnedLasts DEF CallKnows, OnboardedAt
      <4>. QED  BY <1>2, <4>1, <4>2, <4>3 DEF ReadsTenant
    <3>2. call'[n].at = "readDefault" => user'.onboarded
      BY <1>2, <1>4 DEF ReadsUser, Route
    <3>3. call'[n].at = "done" /\ call'[n].kind = "onboard" => user'.onboarded
      BY <1>1, <1>2, <1>4
         DEF CallRouted, CallKnows, OnboardedAt, Moves, Same, Route, Grows, TenantSteps, Callers
    <3>4. ~ call'[n].needs => user'.onboarded
      BY <1>1, <1>2 DEF CallKnows, OnboardedAt, ReadsUser, Grows
    <3>. QED  BY <3>1, <3>2, <3>3, <3>4 DEF OnboardedAt
  <2>. QED  BY <2>1, <2>2, <2>3, <2>4 DEF CallKnows
<1>. QED  BY <1>2, <1>3, <1>4 DEF Moves

LEMMA PrimaryIsFounding ==
    ASSUME AccountsInv, NEW o, IsPrimary(o)
    PROVE  o \in Owned /\ o \in Calls /\ call[o].kind # "organization"
<1>1. ASSUME call[o].kind = "organization" PROVE FALSE
  <2>1. PICK p \in Owned : orgs[p].since < orgs[o].since
    BY <1>1 DEF IsPrimary, AccountsInv, OrgsKnown, OrgKnown, Owned
  <2>2. orgs[o].since <= orgs[p].since /\ orgs[o].since \in Nat /\ orgs[p].since \in Nat
    BY DEF IsPrimary, AccountsInv, TypeOK, Org, Owned
  <2>. QED  BY <2>1, <2>2
<1>. QED  BY <1>1 DEF IsPrimary, Owned

LEMMA SessionFounds ==
    ASSUME AccountsInv, NEW m \in Calls, session[m] # 0
    PROVE  Founded
<1>1. session[m] \in Owned
  BY DEF AccountsInv, SessionsHaveTenant
<1>. QED  BY <1>1 DEF Founded, AccountsInv, OrgsKnown, OrgKnown, Owned

LEMMA BeginKnows ==
    ASSUME AccountsInv, [Api]_vars, NEW n \in Calls, NEW kind, NEW arg, NEW by,
           NEW at \in {"createUser", "identity", "membership", "setVerified", "setPassword",
                       "sendCode", "deleteToken", "newOrg"},
           NEW now \in {0, clock + 1},
           Begin(n, kind, at, arg, by, now),
           at \in Dated => now # 0,
           at = "membership" \/ kind = "refresh" => user.verified,
           at = "newOrg" => Founded
    PROVE  CallKnows(n)'
<1>1. /\ call'[n].kind = kind /\ call'[n].at = at /\ call'[n].now = now
      /\ call'[n].needs <=> ~ user.onboarded
      /\ call'[n].sawTenant <=> Owned # {}
      /\ clock' = IF now = 0 THEN clock ELSE now
  BY BeginMoves DEF AccountsInv
<1>2. clock \in Nat /\ Grows
  BY Growing DEF AccountsInv, TypeOK
<1>3. VerifiedAt(n)'
  BY <1>1, <1>2 DEF VerifiedAt, Grows, TenantSteps
<1>4. DatedAt(n)'
  BY <1>1, <1>2 DEF DatedAt
<1>5. TenantAt(n)'
  BY <1>1, OwnedLasts DEF TenantAt
<1>6. OnboardedAt(n)'
  BY <1>1, <1>2 DEF OnboardedAt, Grows
<1>. QED  BY <1>3, <1>4, <1>5, <1>6 DEF CallKnows

LEMMA ArrivalKnows ==
    ASSUME AccountsInv, [Api]_vars, NEW n \in Calls, Arrives(n)
    PROVE  CallKnows(n)'
<1>0. clock \in Nat /\ clock + 1 # 0 /\ Grows
  BY Growing DEF AccountsInv, TypeOK
<1>1. CASE CompleteOnboarding(n)
  <2>1. PICK o \in Calls :
           /\ IsPrimary(o)
           /\ call' = [call EXCEPT ![n] = [NoCall EXCEPT !.kind = "onboard", !.at = "nameOrg",
                                                   !.org = o, !.sawTenant = TRUE]]
           /\ clock' = clock
    BY <1>1 DEF CompleteOnboarding
  <2>2. /\ call'[n].kind = "onboard" /\ call'[n].at = "nameOrg" /\ call'[n].org = o
        /\ call'[n].now = 0 /\ call'[n].needs = TRUE
    BY <2>1 DEF AccountsInv, TypeOK, NoCall
  <2>3. o \in Owned' /\ call'[o].kind # "organization"
    BY <2>1, PrimaryIsFounding, OwnedLasts
  <2>. QED
    BY <1>0, <2>1, <2>2, <2>3
       DEF CallKnows, VerifiedAt, DatedAt, TenantAt, OnboardedAt, Dated, TenantSteps
<1>2. CASE Signup(n) \/ \E p \in Providers : SigninWithSocial(n, p)
  BY <1>0, <1>2, BeginKnows DEF Signup, SigninWithSocial
<1>3. CASE Signin(n) \/ VerifyEmail(n, verification)
  BY <1>0, <1>3, BeginKnows DEF Signin, VerifyEmail
<1>4. CASE ResetPassword(n, verification) \/ ResendVerification(n) \/ ForgotPassword(n)
  BY <1>4, BeginKnows DEF ResetPassword, ResendVerification, ForgotPassword, Dated, TenantSteps
<1>5. CASE \E t : Refresh(n, t) \/ Logout(n, t)
  BY <1>5, BeginKnows DEF Refresh, Logout, Dated, TenantSteps
<1>6. CASE CreateOrganization(n)
  BY <1>6, BeginKnows, SessionFounds DEF CreateOrganization, Dated, TenantSteps
<1>. QED  BY <1>1, <1>2, <1>3, <1>4, <1>5, <1>6 DEF Arrives, Request

LEMMA KnowledgeKept ==
    ASSUME AccountsInv, [Api]_vars
    PROVE  CallsKnow'
<1>. SUFFICES ASSUME NEW n \in Calls PROVE CallKnows(n)'
  BY DEF CallsKnow
<1>1. CASE call'[n] = call[n]
  BY <1>1, RestKnows
<1>2. CASE Arrives(n)
  BY <1>2, ArrivalKnows
<1>3. CASE Statement(n) \/ Fail(n)
  BY <1>3, StatementKnows
<1>. QED
  BY <1>1, <1>2, <1>3, OthersStay DEF Api, Act, Arrives, vars, AccountsInv

LEMMA JoinedLasts ==
    ASSUME AccountsInv, [Api]_vars, NEW o \in Owned
    PROVE  call'[o].at \in Joined
<1>1. /\ o \in Calls /\ call[o].at \in Joined /\ call[o].kind # "none" /\ TypeOK
  BY OwnedLasts DEF AccountsInv, OrgsKnown, OrgKnown, Owned
<1>2. CASE call'[o] = call[o]
  BY <1>1, <1>2
<1>3. CASE Statement(o) \/ Fail(o)
  BY <1>1, <1>3, CallMoves DEF Moves, Route, Joined, Running, TenantSteps
<1>4. ~ Arrives(o)
  BY <1>1, RequestMoves DEF Started
<1>. QED  BY <1>1, <1>2, <1>3, <1>4, OthersStay DEF Api, Act, Arrives, vars

LEMMA OrgsKnownKept ==
    ASSUME AccountsInv, [Api]_vars
    PROVE  OrgsKnown'
<1>. SUFFICES ASSUME NEW o \in Calls PROVE OrgKnown(o)'
  BY DEF OrgsKnown
<1>0. /\ TypeOK /\ TypeOK' /\ Routed /\ OrgKnown(o) /\ Grows /\ CallsKnow
      /\ clock \in Nat /\ clock' \in Nat
      /\ orgs[o].since \in Nat /\ orgs'[o].since \in Nat
  BY Growing, TypeKept DEF AccountsInv, OrgsKnown, TypeOK, Org
<1>1. ASSUME orgs'[o].since = orgs[o].since,
             orgs[o].since = 0 => orgs'[o].envs = orgs[o].envs
      PROVE  OrgKnown(o)'
  <2>1. orgs'[o].since # 0 => o \in Owned
    BY <1>1 DEF Owned
  <2>2. orgs'[o].since # 0 /\ call'[o].kind = "organization" =>
           \E p \in Owned' : call'[p].kind # "organization" /\ orgs'[p].since < orgs'[o].since
    BY <1>0, <1>1, <2>1, OwnedLasts DEF OrgKnown
  <2>. QED  BY <1>0, <1>1, <2>1, <2>2, JoinedLasts DEF OrgKnown, Grows
<1>2. CASE orgs' = orgs
  BY <1>1, <1>2
<1>3. ASSUME NEW n \in Calls, Act(n) PROVE OrgKnown(o)'
  <2>1. OrgMoves(n, o) /\ CallKnows(n) /\ CallRouted(n) /\ call[n].now \in Nat
    BY <1>0, <1>3, OrgsMove DEF CallsKnow, Routed, TypeOK, Call
  <2>2. orgs'[o].envs # orgs[o].envs => orgs[o].since # 0 /\ orgs'[o].since = orgs[o].since
    BY <1>0, <2>1 DEF OrgMoves, CallKnows, TenantAt, Environments, Owned, Grows
  <2>3. CASE orgs'[o].since = orgs[o].since
    BY <1>1, <2>2, <2>3
  <2>4. ASSUME orgs'[o].since # orgs[o].since, InsertMember(n), o = n,
               orgs'[o].since = call[n].now
        PROVE  OrgKnown(o)'
    <3>1. call[o].at = "member" /\ call'[o].at = "development" /\ call'[o].kind = call[o].kind
      BY <1>0, <2>4, StepMoves DEF InsertMember
    <3>2. call[o].kind # "organization"
      BY <2>1, <2>4, <3>1 DEF CallRouted, TenantSteps, Callers
    <3>3. orgs'[o].since <= clock' /\ orgs'[o].since # 0
      BY <1>0, <2>1, <2>4, <3>1 DEF CallKnows, DatedAt, Dated, TenantSteps, Grows
    <3>. QED  BY <3>1, <3>2, <3>3 DEF OrgKnown, Joined
  <2>5. ASSUME orgs'[o].since # orgs[o].since, JoinOrganization(n), o = n,
               orgs'[o].since = clock + 1
        PROVE  OrgKnown(o)'
    <3>1. call[o].at = "joinOrg" /\ call'[o].at = "done" /\ clock' = clock + 1
      BY <1>0, <2>5 DEF JoinOrganization, TypeOK, Call
    <3>2. PICK p \in Owned : p \in Calls /\ call[p].kind # "organization"
      BY <2>1, <2>5, <3>1 DEF CallKnows, TenantAt, Founded, Owned
    <3>3. orgs[p].since <= clock /\ orgs[p].since \in Nat
      BY <3>2 DEF AccountsInv, OrgsKnown, OrgKnown, TypeOK, Org
    <3>4. /\ p \in Owned' /\ call'[p].kind # "organization"
          /\ orgs'[p].since < orgs'[o].since
      BY <1>0, <2>5, <3>2, <3>3, OwnedLasts
    <3>. QED  BY <1>0, <2>5, <3>1, <3>4 DEF OrgKnown, Joined
  <2>. QED  BY <2>1, <2>3, <2>4, <2>5 DEF OrgMoves
<1>. QED  BY <1>2, <1>3 DEF Api, vars, tables

LEMMA SessionsKept ==
    ASSUME AccountsInv, [Api]_vars
    PROVE  SessionsHaveTenant'
<1>. SUFFICES ASSUME NEW m \in Calls, session'[m] # 0
              PROVE  /\ user'.verified
                     /\ session'[m] \in Owned'
                     /\ "development" \in orgs'[session'[m]].envs
  BY DEF SessionsHaveTenant, HasDefault
<1>0. TypeOK /\ CallsKnow /\ Grows
  BY Growing DEF AccountsInv
<1>1. ASSUME session'[m] = session[m]
      PROVE  /\ user'.verified
             /\ session'[m] \in Owned'
             /\ "development" \in orgs'[session'[m]].envs
  <2>1. session[m] \in Owned /\ user.verified /\ "development" \in orgs[session[m]].envs
    BY <1>1 DEF AccountsInv, SessionsHaveTenant, HasDefault
  <2>. QED  BY <1>0, <1>1, <2>1, OwnedLasts DEF Grows, Owned
<1>2. ASSUME NEW n \in Calls, IssueSession(n), session'[m] # session[m]
      PROVE  /\ user'.verified
             /\ session'[m] \in Owned'
             /\ "development" \in orgs'[session'[m]].envs
  <2>1. call[n].at = "issue" /\ session'[m] = call[n].org /\ user' = user /\ orgs' = orgs
    BY <1>0, <1>2 DEF IssueSession, Step, TypeOK
  <2>2. user.verified /\ call[n].org \in Owned /\ "development" \in orgs[call[n].org].envs
    BY <1>0, <2>1 DEF CallsKnow, CallKnows, VerifiedAt, TenantAt, HasDefault
  <2>. QED  BY <2>1, <2>2, OwnedLasts
<1>. QED
  BY <1>0, <1>1, <1>2, RequestMoves
     DEF Api, Act, Arrives, Started, vars, tables, Statement, ReadIdentity, ReadUser,
         ReadAccount, CreateUser, SetVerified, SetPassword, LinkIdentity, SendCode, DeleteCode,
         ReadMembership, ReadEnvironment, InsertOrganization, InsertMember, SeedEnvironments,
         InsertEnvironment, DeleteToken, NameOrganization, SetOnboarded, ReadDefault,
         InsertNamedOrganization, JoinOrganization, Fail, Conflict

LEMMA AccountsBegin ==
    ASSUME Init
    PROVE  AccountsInv
<1>1. NoCall \in Call /\ NoOrg \in Org
  BY DEF NoCall, NoOrg, Call, Org
<1>2. TypeOK
  BY <1>1, AccountsAssumption DEF Init, TypeOK, User
<1>3. \A n \in Calls : /\ call[n].at = "idle" /\ call[n].kind = "none" /\ call[n].now = 0
                       /\ call[n].sawTenant = FALSE /\ call[n].needs = TRUE
                       /\ orgs[n].since = 0 /\ orgs[n].envs = {} /\ session[n] = 0
  BY DEF Init, NoCall, NoOrg
<1>4. Owned = {} /\ clock = 0 /\ tokens = {} /\ identities = {}
  BY <1>3 DEF Owned, Init
<1>5. Routed /\ Blank
  BY <1>3, <1>4 DEF Routed, CallRouted, Blank, CallBlank, Unsigned, TenantSteps, Init
<1>6. CallsKnow
  BY <1>3, <1>4
     DEF CallsKnow, CallKnows, VerifiedAt, DatedAt, TenantAt, OnboardedAt, Dated, TenantSteps
<1>7. OrgsKnown /\ SessionsHaveTenant
  BY <1>3, <1>4 DEF OrgsKnown, OrgKnown, SessionsHaveTenant
<1>. QED  BY <1>2, <1>5, <1>6, <1>7 DEF AccountsInv

LEMMA AccountsKept ==
    ASSUME AccountsInv, [Api]_vars
    PROVE  AccountsInv'
BY TypeKept, RoutedKept, BlankKept, KnowledgeKept, OrgsKnownKept, SessionsKept DEF AccountsInv

LEMMA AccountsAlways == ApiSpec => []AccountsInv
BY AccountsBegin, AccountsKept, PTL DEF ApiSpec
----------------------------------------------------------------------------
(***************************************************************************)
(* The first organization of the user, its name and its environments.      *)
(***************************************************************************)

LEMMA PrimaryHolds ==
    ASSUME AccountsInv, [Api]_vars, NEW o \in Calls, IsPrimary(o), ~ IsPrimary(o)'
    PROVE  \E n \in Calls : call[n].at = "member" /\ ~ call[n].sawTenant
<1>0. TypeOK /\ TypeOK' /\ OrgsKnown /\ CallsKnow /\ clock \in Nat
  BY TypeKept DEF AccountsInv, TypeOK
<1>1. o \in Owned /\ o \in Owned' /\ orgs'[o].since = orgs[o].since /\ orgs[o].since <= clock
  BY <1>0, OwnedLasts DEF IsPrimary, OrgsKnown, OrgKnown
<1>2. PICK p \in Owned' : ~ (orgs'[o].since <= orgs'[p].since)
  BY <1>1 DEF IsPrimary
<1>3. p \in Calls /\ p \notin Owned
  BY <1>1, <1>2, OwnedLasts DEF IsPrimary, Owned
<1>4. PICK n \in Calls : Act(n)
  BY <1>2, <1>3 DEF Api, vars, tables, Owned
<1>5. \/ p = n /\ InsertMember(n)
      \/ JoinOrganization(n) /\ orgs'[p].since = clock + 1
  BY <1>0, <1>2, <1>3, <1>4, OrgsMove DEF OrgMoves, Owned
<1>6. ~ (orgs'[p].since = clock + 1)
  BY <1>0, <1>1, <1>2 DEF TypeOK, Org
<1>7. call[n].at = "member"
  BY <1>5, <1>6 DEF InsertMember, Step
<1>. QED  BY <1>0, <1>7 DEF CallsKnow, CallKnows, TenantAt

LEMMA NamedKept ==
    ASSUME AccountsInv, OnboardedNamesTenant, [Api]_vars
    PROVE  OnboardedNamesTenant'
<1>. SUFFICES ASSUME user'.onboarded
              PROVE  \E o \in Owned' : orgs'[o].named /\ call'[o].kind # "organization"
  BY DEF OnboardedNamesTenant
<1>0. TypeOK /\ Grows /\ CallsKnow
  BY Growing DEF AccountsInv
<1>1. ASSUME NEW o \in Owned, orgs[o].named, call[o].kind # "organization"
      PROVE  \E p \in Owned' : orgs'[p].named /\ call'[p].kind # "organization"
  BY <1>0, <1>1, OwnedLasts DEF Grows, Owned
<1>2. CASE user.onboarded
  BY <1>1, <1>2 DEF OnboardedNamesTenant
<1>3. CASE \E n \in Calls : SetOnboarded(n)
  <2>1. PICK n \in Calls : call[n].at = "setOnboarded"
    BY <1>3 DEF SetOnboarded, Step
  <2>2. call[n].org \in Owned /\ orgs[call[n].org].named
        /\ call[call[n].org].kind # "organization"
    BY <1>0, <2>1 DEF CallsKnow, CallKnows, TenantAt, OnboardedAt
  <2>. QED  BY <1>1, <2>2
<1>4. CASE ~ user.onboarded /\ ~ \E n \in Calls : SetOnboarded(n)
  <2>1. user' # user
    BY <1>4
  <2>2. PICK n \in Calls : CreateUser(n) \/ SetVerified(n) \/ SetPassword(n)
    BY <1>0, <1>4, <2>1, RequestMoves
       DEF Api, Act, Arrives, Started, vars, tables, Statement, ReadIdentity, ReadUser,
           ReadAccount, LinkIdentity, SendCode, DeleteCode, ReadMembership, ReadEnvironment,
           InsertOrganization, InsertMember, SeedEnvironments, InsertEnvironment,
           IssueSession, DeleteToken, NameOrganization, ReadDefault,
           InsertNamedOrganization, JoinOrganization, Fail, Conflict
  <2>3. ~ user'.onboarded
    BY <1>0, <1>4, <2>1, <2>2
       DEF CreateUser, Conflict, tables, SetVerified, SetPassword, TypeOK, User
  <2>. QED  BY <2>3
<1>. QED  BY <1>2, <1>3, <1>4

\* What is still to come for an organization of a sign-in.
Seeding(o) ==
    \/ call[o].at = "member"
    \/ /\ o \in Owned
       /\ "development" \notin orgs[o].envs => call[o].at = "development" /\ call[o].org = o
       /\ "development" \in orgs[o].envs /\ "production" \notin orgs[o].envs =>
             \E n \in Calls : call[n].at = "production" /\ call[n].org = o

Seeds == faults = 0 =>
    \A o \in Calls : orgs[o].created /\ call[o].kind # "organization" => Seeding(o)

LEMMA FaultsLast ==
    ASSUME AccountsInv, [Api]_vars, faults' = 0
    PROVE  faults = 0 /\ \A n \in Calls : ~ Fail(n)
<1>0. TypeOK /\ faults \in Nat
  BY DEF AccountsInv, TypeOK
<1>1. \A n \in Calls : ~ Fail(n)
  BY <1>0 DEF Fail
<1>2. ASSUME NEW n \in Calls, Statement(n) PROVE faults' = faults
  BY <1>2, Zenon
     DEF Statement, ReadIdentity, ReadUser, ReadAccount, CreateUser, SetVerified, LinkIdentity,
         SendCode, DeleteCode, SetPassword, ReadMembership, ReadEnvironment,
         InsertOrganization, InsertMember, SeedEnvironments, InsertEnvironment, IssueSession,
         DeleteToken, NameOrganization, SetOnboarded, ReadDefault, InsertNamedOrganization,
         JoinOrganization, Step, Enter, Conflict
<1>. QED  BY <1>0, <1>1, <1>2, RequestMoves DEF Api, Act, Arrives, Started, vars

\* A statement that does not stop on a UNIQUE constraint goes on.
LEMMA SeedMoves ==
    ASSUME AccountsInv, NEW n \in Calls, Statement(n), call[n].at \in Environments,
           call[n].org \in Calls, call[n].at \notin orgs[call[n].org].envs
    PROVE  /\ call[n].at \in orgs'[call[n].org].envs
           /\ call'[n].org = call[n].org
           /\ call[n].at = "development" => call'[n].at = "production"
<1>0. TypeOK
  BY DEF AccountsInv
<1>1. PICK e \in Environments :
         InsertEnvironment(n, e, IF e = "development" THEN "production" ELSE AfterTenant(n))
  BY ByPoint DEF SeedEnvironments, Environments
<1>2. call[n].at = e
  BY <1>0, <1>1, StepMoves DEF InsertEnvironment, Conflict
<1>3. /\ Step(n, e, IF e = "development" THEN "production" ELSE AfterTenant(n))
      /\ orgs' = [orgs EXCEPT ![call[n].org] =
                     [orgs[call[n].org] EXCEPT !.envs = orgs[call[n].org].envs \cup {e}]]
  BY <1>1, <1>2 DEF InsertEnvironment
<1>4. e \in orgs'[call[n].org].envs
  BY <1>0, <1>3 DEF TypeOK, Org
<1>. QED  BY <1>0, <1>2, <1>3, <1>4, StepMoves

LEMMA SeedingKept ==
    ASSUME AccountsInv, [Api]_vars, faults' = 0, NEW o \in Calls, Seeding(o)
    PROVE  Seeding(o)'
<1>0. /\ TypeOK /\ Grows /\ OrgKnown(o)
      /\ \A n \in Calls : CallKnows(n) /\ CallRouted(n) /\ ~ Fail(n)
  BY Growing, FaultsLast DEF AccountsInv, OrgsKnown, CallsKnow, Routed
<1>1. CASE call' = call /\ orgs' = orgs
  BY <1>1 DEF Seeding, Owned
<1>2. ASSUME NEW n \in Calls, Act(n) PROVE Seeding(o)'
  <2>0. OrgMoves(n, o)
    BY <1>0, <1>2, OrgsMove
  <2>1. CASE call[o].at = "member"
    <3>1. orgs[o].since = 0 /\ orgs[o].envs = {}
      BY <1>0, <2>1 DEF OrgKnown, Joined
    <3>2. CASE n = o
      <4>1. Statement(o)
        <5>1. ~ Arrives(o)
          BY <1>0, <2>1, RequestMoves DEF Started, CallRouted
        <5>. QED  BY <1>0, <1>2, <3>2, <5>1 DEF Act, Arrives
      <4>2. InsertMember(o)
        BY <2>1, <4>1, ByPoint
      <4>3. call'[o].at = "development" /\ call'[o].org = o /\ orgs'[o].since = call[o].now
        BY <1>0, <2>1, <4>1, <4>2, StepMoves, TenantRead
           DEF InsertMember, CallKnows, TenantAt, ReadsTenant
      <4>4. orgs'[o].since # 0
        BY <1>0, <2>1, <4>3 DEF CallKnows, DatedAt, Dated, TenantSteps
      <4>5. orgs'[o].envs = {}
        BY <2>0, <2>1, <3>1, <3>2 DEF OrgMoves, Environments
      <4>. QED  BY <4>3, <4>4, <4>5 DEF Seeding, Owned
    <3>3. CASE n # o
      BY <1>0, <1>2, <2>1, <3>3, OthersStay DEF Seeding
    <3>. QED  BY <3>2, <3>3
  <2>2. CASE call[o].at # "member"
    <3>1. o \in Owned /\ o \in Owned' /\ orgs[o].envs \subseteq orgs'[o].envs
      BY <1>0, <2>2, OwnedLasts DEF Seeding, Grows
    <3>2. "development" \notin orgs'[o].envs => call'[o].at = "development" /\ call'[o].org = o
      <4>1. SUFFICES ASSUME "development" \notin orgs'[o].envs
                     PROVE  call'[o] = call[o]
        BY <2>2, <3>1 DEF Seeding
      <4>2. call[o].at = "development" /\ call[o].org = o /\ "development" \notin orgs[o].envs
        BY <2>2, <3>1, <4>1 DEF Seeding
      <4>3. n # o
        <5>1. ~ Statement(o)
          BY <4>1, <4>2, SeedMoves DEF Environments
        <5>2. ~ Arrives(o)
          BY <1>0, <4>2, RequestMoves DEF Started, CallRouted
        <5>. QED  BY <1>0, <1>2, <5>1, <5>2 DEF Act, Arrives
      <4>. QED  BY <1>0, <1>2, <4>3, OthersStay
    <3>3. ASSUME "development" \in orgs'[o].envs, "production" \notin orgs'[o].envs
          PROVE  \E m \in Calls : call'[m].at = "production" /\ call'[m].org = o
      <4>1. CASE "development" \in orgs[o].envs
        <5>1. PICK m \in Calls : call[m].at = "production" /\ call[m].org = o
          BY <2>2, <3>1, <3>3, <4>1 DEF Seeding
        <5>2. n # m
          <6>1. ~ Statement(m)
            BY <3>1, <3>3, <5>1, SeedMoves DEF Environments
          <6>2. ~ Arrives(m)
            BY <1>0, <5>1, RequestMoves DEF Started, CallRouted
          <6>. QED  BY <1>0, <1>2, <6>1, <6>2 DEF Act, Arrives
        <5>3. call'[m] = call[m]
          BY <1>0, <1>2, <5>2, OthersStay
        <5>. QED  BY <5>1, <5>3
      <4>2. CASE "development" \notin orgs[o].envs
        <5>1. /\ call[n].at = "development" /\ call[n].org = o
              /\ SeedEnvironments(n) /\ Statement(n)
          BY <2>0, <3>3, <4>2 DEF OrgMoves, Statement, Environments
        <5>2. call'[n].at = "production" /\ call'[n].org = o
          BY <4>2, <5>1, SeedMoves DEF Environments
        <5>. QED  BY <5>2
      <4>. QED  BY <4>1, <4>2
    <3>. QED  BY <3>1, <3>2, <3>3 DEF Seeding
  <2>. QED  BY <2>1, <2>2
<1>. QED  BY <1>1, <1>2 DEF Api, vars, tables

LEMMA SeedsKept ==
    ASSUME AccountsInv, Seeds, [Api]_vars
    PROVE  Seeds'
<1>. SUFFICES ASSUME faults' = 0, NEW o \in Calls, orgs'[o].created,
                     call'[o].kind # "organization"
              PROVE  Seeding(o)'
  BY DEF Seeds
<1>0. TypeOK /\ Routed /\ faults = 0
  BY FaultsLast DEF AccountsInv
<1>1. CASE orgs[o].created
  <2>1. call[o].kind # "organization"
    BY <1>0, KindStays
  <2>. QED  BY <1>0, <1>1, <2>1, SeedingKept DEF Seeds
<1>2. CASE ~ orgs[o].created
  <2>1. PICK n \in Calls : Act(n)
    BY <1>2 DEF Api, vars, tables
  <2>2. o = n /\ (InsertOrganization(n) \/ InsertNamedOrganization(n))
    BY <1>0, <1>2, <2>1, OrgsMove DEF OrgMoves
  <2>3. CASE InsertOrganization(n)
    BY <1>0, <2>2, <2>3, StepMoves DEF InsertOrganization, Seeding
  <2>4. CASE InsertNamedOrganization(n)
    <3>1. call[o].kind = "organization" /\ call'[o].kind = call[o].kind
      BY <1>0, <2>2, <2>4, StepMoves DEF InsertNamedOrganization, Routed, CallRouted
    <3>. QED  BY <3>1
  <2>. QED  BY <2>2, <2>3, <2>4
<1>. QED  BY <1>1, <1>2

LEMMA SeedsDone ==
    ASSUME AccountsInv, Seeds
    PROVE  SeedsComplete
<1>. SUFFICES ASSUME faults = 0, \A n \in Calls : call[n].at \notin Running,
                     NEW o \in Calls, orgs[o].created, call[o].kind # "organization"
              PROVE  o \in Owned /\ orgs[o].envs = Environments
  BY DEF SeedsComplete
<1>1. Seeding(o) /\ orgs[o].envs \subseteq Environments
  BY DEF Seeds, AccountsInv, TypeOK, Org
<1>2. \A n \in Calls : call[n].at \notin {"member", "development", "production"}
  BY DEF Running, TenantSteps
<1>. QED  BY <1>1, <1>2 DEF Seeding, Environments
----------------------------------------------------------------------------
(***************************************************************************)
(* The code of the verification row.                                       *)
(***************************************************************************)

\* A call that presented the code of the row and deleted the row, or stopped.
Spent(n) ==
    \/ call[n].kind = "reset" /\ call[n].at \in {"done", "failed"}
    \/ call[n].kind = "verify" /\ call[n].at \notin {"setVerified", "deleteCode"}

LEMMA SpentLasts ==
    ASSUME AccountsInv, [Api]_vars, NEW n \in Calls, Spent(n)
    PROVE  Spent(n)'
<1>0. TypeOK /\ Routed /\ call[n].kind # "none"
  BY DEF AccountsInv, Spent
<1>1. CASE call'[n] = call[n]
  BY <1>1 DEF Spent
<1>2. CASE Statement(n) \/ Fail(n)
  <2>1. Moves(n)
    BY <1>0, <1>2, CallMoves
  <2>. QED  BY <2>1 DEF Spent, Moves, Same, Route, Running, TenantSteps
<1>3. ~ Arrives(n)
  BY <1>0, RequestMoves DEF Started
<1>. QED  BY <1>0, <1>1, <1>2, <1>3, OthersStay DEF Api, Act, Arrives, vars

LEMMA NewestKept ==
    ASSUME AccountsInv, NewestCodeStands, [Api]_vars
    PROVE  NewestCodeStands'
<1>0. TypeOK /\ Routed
  BY DEF AccountsInv
<1>1. CASE verification' = verification /\ issued' = issued
  <2>1. verification = issued \/ (verification = 0 /\ \E n \in Calls : Spent(n))
    BY DEF NewestCodeStands, Spent
  <2>. QED  BY <1>1, <2>1, SpentLasts DEF NewestCodeStands, Spent
<1>2. CASE \E n \in Calls : SendCode(n)
  BY <1>2 DEF SendCode, NewestCodeStands
<1>3. ASSUME NEW n \in Calls, DeleteCode(n) PROVE NewestCodeStands'
  <2>1. \/ call[n].at = "deleteCode" /\ call'[n].at = "membership"
        \/ call[n].at = "deleteReset" /\ call'[n].at = "done"
    BY <1>0, <1>3, StepMoves DEF DeleteCode
  <2>2. call'[n].kind = call[n].kind
    BY <1>0, <1>3, StepMoves DEF DeleteCode
  <2>3. Spent(n)'
    BY <1>0, <2>1, <2>2 DEF Routed, CallRouted, Spent
  <2>4. verification' = 0
    BY <1>3 DEF DeleteCode
  <2>. QED  BY <2>3, <2>4 DEF NewestCodeStands, Spent
<1>. QED
  BY <1>0, <1>1, <1>2, <1>3, RequestMoves
     DEF Api, Act, Arrives, Started, vars, tables, Statement, ReadIdentity, ReadUser,
         ReadAccount, CreateUser, SetVerified, SetPassword, LinkIdentity, IssueSession,
         ReadMembership, ReadEnvironment, InsertOrganization, InsertMember, SeedEnvironments,
         InsertEnvironment, DeleteToken, NameOrganization, SetOnboarded, ReadDefault,
         InsertNamedOrganization, JoinOrganization, Fail, Conflict
----------------------------------------------------------------------------
(***************************************************************************)
(* The proxy and the cookies.                                              *)
(***************************************************************************)

\* A sign-in, a verification or a refresh that is done has issued its session.
Finished ==
    \A n \in Calls : call[n].at = "done" /\ call[n].kind \in Callers \ {"signup"} =>
        session[n] # 0

\* What a proxied request knows of the calls it made.
ProxyKnows(p) ==
    /\ proxy[p].at = "wait" \/ proxy[p].effect = "set" =>
          proxy[p].call \in Calls /\ call[proxy[p].call].kind = "refresh"
    /\ proxy[p].effect = "set" => call[proxy[p].call].at = "done"
    /\ proxy[p].at = "work" => proxy[p].work \in Calls /\ call[proxy[p].work].kind = "onboard"
    /\ proxy[p].effect = "onboarded" => user.onboarded
    /\ proxy[p].at \in {"backend", "refresh", "wait"} => proxy[p].effect # "set"

\* A browser that is let in belongs to a user who completed onboarding.
Gated == jar.access # 0 /\ ~ jar.onboard => user.onboarded

WebInv == AccountsInv /\ Finished /\ WebTypeOK /\ (\A p \in Proxies : ProxyKnows(p)) /\ Gated

LEMMA DoneStays ==
    ASSUME AccountsInv, [Api]_vars, NEW n \in Calls, call[n].at = "done"
    PROVE  call'[n].at = "done" /\ call'[n].kind = call[n].kind
<1>0. TypeOK /\ call[n].kind # "none"
  BY DEF AccountsInv, Routed, CallRouted
<1>1. CASE call'[n] = call[n]
  BY <1>1
<1>2. ~ Statement(n) /\ ~ Fail(n)
  BY <1>0, CallMoves DEF Moves, Running, TenantSteps
<1>3. ~ Arrives(n)
  BY <1>0, RequestMoves DEF Started
<1>. QED  BY <1>0, <1>1, <1>2, <1>3, OthersStay DEF Api, Act, Arrives, vars

LEMMA SessionStays ==
    ASSUME AccountsInv, [Api]_vars, NEW n \in Calls
    PROVE  session[n] # 0 => session'[n] # 0
<1>0. TypeOK /\ CallsKnow
  BY DEF AccountsInv
<1>1. ASSUME NEW m \in Calls, IssueSession(m) PROVE session[n] # 0 => session'[n] # 0
  <2>1. call[m].org \in Calls /\ session' = [session EXCEPT ![m] = call[m].org]
    BY <1>0, <1>1 DEF IssueSession, Step, CallsKnow, CallKnows, TenantAt, Owned
  <2>2. call[m].org # 0
    BY <2>1 DEF Calls
  <2>. QED  BY <1>0, <2>1, <2>2 DEF TypeOK
<1>2. CASE session' = session
  BY <1>2
<1>. QED
  BY <1>0, <1>1, <1>2, RequestMoves
     DEF Api, Act, Arrives, Started, vars, tables, Statement, ReadIdentity, ReadUser,
         ReadAccount, CreateUser, SetVerified, SetPassword, LinkIdentity, SendCode, DeleteCode,
         ReadMembership, ReadEnvironment, InsertOrganization, InsertMember, SeedEnvironments,
         InsertEnvironment, DeleteToken, NameOrganization, SetOnboarded, ReadDefault,
         InsertNamedOrganization, JoinOrganization, Fail, Conflict

LEMMA FinishedKept ==
    ASSUME AccountsInv, Finished, [Api]_vars
    PROVE  Finished'
<1>. SUFFICES ASSUME NEW n \in Calls, call'[n].at = "done", session'[n] = 0,
                     call'[n].kind \in Callers \ {"signup"}
              PROVE  FALSE
  BY DEF Finished
<1>0. TypeOK /\ CallsKnow /\ CallRouted(n)
  BY DEF AccountsInv, Routed
<1>1. CASE call'[n] = call[n]
  BY <1>1, SessionStays DEF Finished
<1>2. CASE Statement(n) \/ Fail(n)
  <2>1. Moves(n)
    BY <1>0, <1>2, CallMoves
  <2>2. call[n].at = "issue"
    BY <1>0, <2>1 DEF Moves, Same, Route, CallRouted, Callers
  <2>3. Statement(n)
    BY <1>0, <1>2 DEF Fail, TypeOK, Call
  <2>4. call[n].org \in Calls /\ session'[n] = call[n].org
    BY <1>0, <2>2, <2>3, ByPoint
       DEF IssueSession, CallsKnow, CallKnows, TenantAt, Owned, TypeOK
  <2>. QED  BY <2>4 DEF Calls
<1>3. ~ Arrives(n)
  BY <1>0, RequestMoves DEF Started, Starts
<1>. QED  BY <1>0, <1>1, <1>2, <1>3, OthersStay DEF Api, Act, Arrives, vars

LEMMA WebMoves ==
    ASSUME WebTypeOK, [WebNext]_webVars
    PROVE  [Api]_vars
<1>1. ASSUME NEW p \in Proxies, LogoutWeb(p) PROVE Api
  BY <1>1 DEF LogoutWeb, WebTypeOK, Api, Act
<1>2. ASSUME NEW p \in Proxies, RefreshSession(p) \/ AskBackend(p) PROVE Api \/ UNCHANGED vars
  BY <1>2 DEF RefreshSession, AskBackend, Api, Act, Request, Refresh
<1>3. ASSUME NEW n \in Calls, Account(n) PROVE Api
  BY <1>3 DEF Account, Api, Act, Request
<1>. QED
  BY <1>1, <1>2, <1>3
     DEF WebNext, webVars, Land, Send, SendOnboarding, FinishRefresh, FinishOnboarding,
         FinishLogout, Arrive, ExpireAccess

\* A step of the proxied request p, which the other requests do not notice.
Forwards(p) ==
    /\ proxy' \in [Proxies -> Request_]
    /\ \A q \in Proxies \ {p} : proxy'[q] = proxy[q]
    /\ ProxyKnows(p)'

LEMMA LeaveMoves ==
    ASSUME WebInv, NEW p \in Proxies, NEW path \in {"other", "logout", "onboarding"},
           NEW at \in {"backend", "refresh", "logout"}, Leave(p, path, at)
    PROVE  Forwards(p) /\ raced' \in BOOLEAN
<1>1. PICK e \in {"clear", "keep"} :
         proxy' = [proxy EXCEPT ![p] =
            [NoRequest EXCEPT !.path = path, !.at = at, !.access = jar.access,
                              !.refresh = jar.refresh, !.effect = e]]
  BY DEF Leave
<1>2. [NoRequest EXCEPT !.path = path, !.at = at, !.access = jar.access,
                        !.refresh = jar.refresh, !.effect = e] \in Request_
  BY DEF NoRequest, Request_, Effects, WebInv, WebTypeOK
<1>3. proxy'[p].at = at /\ proxy'[p].effect = e
  BY <1>1 DEF WebInv, WebTypeOK, NoRequest
<1>4. PICK b \in BOOLEAN : raced' = b
  BY Zenon DEF Leave
<1>. QED  BY <1>1, <1>2, <1>3, <1>4 DEF Forwards, ProxyKnows, WebInv, WebTypeOK

\* The request p goes on with the fields of r.
LEMMA GoesOn ==
    ASSUME WebInv, [Api]_vars, NEW p \in Proxies, NEW r \in Request_,
           proxy' = [proxy EXCEPT ![p] = r],
           r.at = "wait" \/ r.effect = "set" =>
              r.call \in Calls /\ call'[r.call].kind = "refresh",
           r.effect = "set" => call'[r.call].at = "done",
           r.at = "work" => r.work \in Calls /\ call'[r.work].kind = "onboard",
           r.effect = "onboarded" => user'.onboarded,
           r.at \in {"backend", "refresh", "wait"} => r.effect # "set"
    PROVE  Forwards(p)
<1>1. proxy'[p] = r /\ proxy' \in [Proxies -> Request_]
  BY DEF WebInv, WebTypeOK
<1>. QED  BY <1>1 DEF Forwards, ProxyKnows, WebInv, WebTypeOK

\* What a request knew stays true.
LEMMA ProxyLasts ==
    ASSUME WebInv, [Api]_vars, NEW p \in Proxies
    PROVE  /\ proxy[p] \in Request_ /\ ProxyKnows(p)
           /\ proxy[p].at = "wait" \/ proxy[p].effect = "set" =>
                 proxy[p].call \in Calls /\ call'[proxy[p].call].kind = "refresh"
           /\ proxy[p].effect = "set" => call'[proxy[p].call].at = "done"
           /\ proxy[p].at = "work" =>
                 proxy[p].work \in Calls /\ call'[proxy[p].work].kind = "onboard"
           /\ proxy[p].effect = "onboarded" => user'.onboarded
           /\ proxy[p].at \in {"backend", "refresh", "wait"} => proxy[p].effect # "set"
<1>1. AccountsInv /\ TypeOK /\ Grows /\ ProxyKnows(p) /\ proxy[p] \in Request_
  BY Growing DEF WebInv, AccountsInv, WebTypeOK
<1>. QED  BY <1>1, DoneStays, KindStays DEF ProxyKnows, Grows

LEMMA RequestForwards ==
    ASSUME WebInv, [Api]_vars, NEW p \in Proxies,
           AskBackend(p) \/ RefreshSession(p) \/ FinishRefresh(p) \/ FinishOnboarding(p)
             \/ FinishLogout(p) \/ Arrive(p)
    PROVE  Forwards(p)
<1>0. /\ proxy[p] \in Request_ /\ ProxyKnows(p) /\ TypeOK /\ AccountsInv
      /\ proxy[p].at = "wait" \/ proxy[p].effect = "set" =>
            proxy[p].call \in Calls /\ call'[proxy[p].call].kind = "refresh"
      /\ proxy[p].effect = "set" => call'[proxy[p].call].at = "done"
      /\ proxy[p].effect = "onboarded" => user'.onboarded
      /\ proxy[p].at \in {"backend", "refresh", "wait"} => proxy[p].effect # "set"
  BY ProxyLasts DEF WebInv, AccountsInv
<1>1. ASSUME NEW at \in {"refresh", "answer"}, proxy' = [proxy EXCEPT ![p].at = at],
             at = "refresh" => proxy[p].effect # "set"
      PROVE  Forwards(p)
  <2>1. /\ [proxy[p] EXCEPT !.at = at] \in Request_
        /\ [proxy[p] EXCEPT !.at = at].at = at
        /\ [proxy[p] EXCEPT !.at = at].effect = proxy[p].effect
        /\ [proxy[p] EXCEPT !.at = at].call = proxy[p].call
    BY <1>0 DEF Request_
  <2>2. proxy' = [proxy EXCEPT ![p] = [proxy[p] EXCEPT !.at = at]]
    BY <1>1
  <2>. DEFINE r == [proxy[p] EXCEPT !.at = at]
  <2>. HIDE DEF r
  <2>3. r \in Request_ /\ r.at = at /\ r.effect = proxy[p].effect /\ r.call = proxy[p].call
        /\ proxy' = [proxy EXCEPT ![p] = r]
    BY <2>1, <2>2 DEF r
  <2>. QED  BY <1>0, <1>1, <2>3, GoesOn
<1>2. ASSUME NEW at \in {"answer", "again"}, NEW e \in {"clear", "keep", "set", "onboarded"},
             proxy' = [proxy EXCEPT ![p] = [proxy[p] EXCEPT !.at = at, !.effect = e]],
             e = "set" => proxy[p].at = "wait" /\ call'[proxy[p].call].at = "done",
             e = "onboarded" => user'.onboarded
      PROVE  Forwards(p)
  <2>1. /\ [proxy[p] EXCEPT !.at = at, !.effect = e] \in Request_
        /\ [proxy[p] EXCEPT !.at = at, !.effect = e].at = at
        /\ [proxy[p] EXCEPT !.at = at, !.effect = e].effect = e
        /\ [proxy[p] EXCEPT !.at = at, !.effect = e].call = proxy[p].call
    BY <1>0 DEF Request_, Effects
  <2>. DEFINE r == [proxy[p] EXCEPT !.at = at, !.effect = e]
  <2>. HIDE DEF r
  <2>3. r \in Request_ /\ r.at = at /\ r.effect = e /\ r.call = proxy[p].call
        /\ proxy' = [proxy EXCEPT ![p] = r]
    BY <1>2, <2>1 DEF r
  <2>. QED  BY <1>0, <1>2, <2>3, GoesOn
<1>3. CASE FinishLogout(p)
  BY <1>1, <1>3 DEF FinishLogout
<1>4. CASE FinishRefresh(p)
  <2>1. call' = call
    BY <1>4 DEF FinishRefresh, vars
  <2>. QED  BY <1>2, <1>4, <2>1 DEF FinishRefresh
<1>5. CASE FinishOnboarding(p)
  <2>1. CASE call[proxy[p].work].at = "done"
    <3>1. user.onboarded /\ user' = user
      BY <1>0, <1>5, <2>1
         DEF FinishOnboarding, ProxyKnows, AccountsInv, CallsKnow, CallKnows, OnboardedAt,
             vars, tables
    <3>. QED  BY <1>2, <1>5, <2>1, <3>1 DEF FinishOnboarding
  <2>. QED  BY <1>1, <1>5, <2>1 DEF FinishOnboarding, At
<1>6. CASE Arrive(p)
  <2>1. NoRequest \in Request_ /\ NoRequest.at = "idle" /\ NoRequest.effect = "keep"
    BY DEF NoRequest, Request_, Effects
  <2>. QED  BY <1>6, <2>1, GoesOn DEF Arrive
<1>7. CASE RefreshSession(p)
  <2>1. CASE \E n \in Calls : /\ Refresh(n, proxy[p].refresh)
                              /\ proxy' = [proxy EXCEPT ![p] =
                                             [proxy[p] EXCEPT !.at = "wait", !.call = n]]
    <3>1. PICK n \in Calls :
             /\ Refresh(n, proxy[p].refresh)
             /\ proxy' = [proxy EXCEPT ![p] = [proxy[p] EXCEPT !.at = "wait", !.call = n]]
      BY <2>1
    <3>2. call'[n].kind = "refresh" /\ call[n].kind # "refresh"
      BY <1>0, <3>1, BeginMoves DEF Refresh
    <3>. DEFINE r == [proxy[p] EXCEPT !.at = "wait", !.call = n]
    <3>3. /\ r \in Request_ /\ r.at = "wait" /\ r.call = n /\ r.effect = proxy[p].effect
          /\ proxy' = [proxy EXCEPT ![p] = r]
      BY <1>0, <3>1 DEF Request_
    <3>. HIDE DEF r
    <3>4. r.effect # "set"
      BY <1>0, <1>7, <3>3 DEF RefreshSession
    <3>. QED  BY <1>0, <3>2, <3>3, <3>4, GoesOn
  <2>. QED  BY <1>2, <1>7, <2>1 DEF RefreshSession
<1>8. CASE AskBackend(p)
  <2>1. CASE \E n \in Calls : /\ CompleteOnboarding(n)
                              /\ proxy' = [proxy EXCEPT ![p] =
                                             [proxy[p] EXCEPT !.at = "work", !.work = n]]
    <3>1. PICK n \in Calls :
             /\ CompleteOnboarding(n)
             /\ proxy' = [proxy EXCEPT ![p] = [proxy[p] EXCEPT !.at = "work", !.work = n]]
      BY <2>1
    <3>2. call'[n].kind = "onboard"
      <4>1. PICK o \in Calls :
               call' = [call EXCEPT ![n] = [NoCall EXCEPT !.kind = "onboard", !.at = "nameOrg",
                                                       !.org = o, !.sawTenant = TRUE]]
        BY <3>1 DEF CompleteOnboarding
      <4>. QED  BY <1>0, <4>1 DEF TypeOK, NoCall
    <3>. DEFINE r == [proxy[p] EXCEPT !.at = "work", !.work = n]
    <3>3. /\ r \in Request_ /\ r.at = "work" /\ r.call = proxy[p].call /\ r.work = n
          /\ r.effect = proxy[p].effect
          /\ proxy' = [proxy EXCEPT ![p] = r]
      BY <1>0, <3>1 DEF Request_
    <3>. HIDE DEF r
    <3>. QED  BY <1>0, <3>2, <3>3, GoesOn
  <2>. QED  BY <1>0, <1>1, <1>8, <2>1 DEF AskBackend, At
<1>. QED  BY <1>3, <1>4, <1>5, <1>6, <1>7, <1>8

\* The cookies: typed, issued by the API, and the gate they open.
JarSound ==
    /\ jar \in [access: Calls \cup {0}, refresh: Calls \cup {0}, onboard: BOOLEAN]
    /\ \A n \in Calls : n \in {jar.access, jar.refresh} => session[n] # 0
    /\ Gated

LEMMA JarLasts ==
    ASSUME WebInv, [Api]_vars, jar' = jar
    PROVE  JarSound'
<1>1. AccountsInv /\ Grows
  BY Growing DEF WebInv
<1>. QED  BY <1>1, SessionStays DEF WebInv, WebTypeOK, JarSound, Gated, Grows

LEMMA CookiesSound ==
    ASSUME WebInv, UNCHANGED vars, NEW e, NEW n, jar' = Cookies(e, n),
           e = "set" => n \in Calls /\ call[n].at = "done" /\ call[n].kind \in Callers \ {"signup"},
           e = "onboarded" => user.onboarded
    PROVE  JarSound'
<1>0. /\ UNCHANGED <<user, session, call>>
      /\ jar \in [access: Calls \cup {0}, refresh: Calls \cup {0}, onboard: BOOLEAN]
      /\ \A m \in Calls : m \in {jar.access, jar.refresh} => session[m] # 0
  BY DEF WebInv, WebTypeOK, vars, tables
<1>1. CASE e = "set"
  <2>1. jar' = [access |-> n, refresh |-> n, onboard |-> call[n].needs]
    BY <1>1 DEF Cookies
  <2>2. /\ n \in Calls /\ session[n] # 0 /\ call[n].needs \in BOOLEAN
        /\ ~ call[n].needs => user.onboarded
    BY <1>1
       DEF WebInv, Finished, AccountsInv, TypeOK, Call, CallsKnow, CallKnows, OnboardedAt
  <2>. DEFINE b == call[n].needs
  <2>3. b \in BOOLEAN /\ jar' = [access |-> n, refresh |-> n, onboard |-> b]
        /\ (~ b => user.onboarded)
    BY <2>1, <2>2
  <2>. HIDE DEF b
  <2>. QED  BY <1>0, <2>2, <2>3 DEF JarSound, Gated
<1>2. CASE e = "clear"
  <2>1. jar' = NoCookies
    BY <1>2 DEF Cookies
  <2>. QED  BY <1>0, <2>1 DEF JarSound, Gated, NoCookies, Calls
<1>3. CASE e = "onboarded"
  <2>1. jar' = [jar EXCEPT !.onboard = FALSE]
    BY <1>3 DEF Cookies
  <2>. QED  BY <1>0, <1>3, <2>1 DEF JarSound, Gated
<1>4. CASE e \notin {"set", "clear", "onboarded"}
  <2>1. jar' = jar
    BY <1>4 DEF Cookies
  <2>. QED  BY <2>1, JarLasts
<1>. QED  BY <1>1, <1>2, <1>3, <1>4

LEMMA JarKept ==
    ASSUME WebInv, [WebNext]_webVars
    PROVE  JarSound'
<1>0. [Api]_vars /\ AccountsInv
  BY WebMoves DEF WebInv
<1>1. ASSUME NEW p \in Proxies, Arrive(p) PROVE JarSound'
  <2>1. UNCHANGED vars /\ ProxyKnows(p) /\ jar' = Cookies(proxy[p].effect, proxy[p].call)
    BY <1>1 DEF Arrive, WebInv
  <2>. QED  BY <2>1, CookiesSound DEF ProxyKnows, Callers
<1>2. ASSUME NEW n \in Calls, Land(n) PROVE JarSound'
  BY <1>2, CookiesSound DEF Land, Callers
<1>. QED
  BY <1>0, <1>1, <1>2, JarLasts
     DEF WebNext, webVars, web, Account, Send, SendOnboarding, AskBackend, RefreshSession,
         FinishRefresh, FinishOnboarding, LogoutWeb, FinishLogout, ExpireAccess

LEMMA ProxiesKept ==
    ASSUME WebInv, [WebNext]_webVars
    PROVE  /\ proxy' \in [Proxies -> Request_]
           /\ \A p \in Proxies : ProxyKnows(p)'
           /\ raced' \in BOOLEAN
<1>0. [Api]_vars /\ AccountsInv /\ raced \in BOOLEAN /\ proxy \in [Proxies -> Request_]
  BY WebMoves DEF WebInv, WebTypeOK
<1>1. ASSUME NEW q \in Proxies, proxy'[q] = proxy[q] PROVE ProxyKnows(q)'
  BY <1>0, <1>1, ProxyLasts DEF ProxyKnows
<1>2. ASSUME proxy' = proxy, raced' = raced
      PROVE  /\ proxy' \in [Proxies -> Request_]
             /\ \A p \in Proxies : ProxyKnows(p)'
             /\ raced' \in BOOLEAN
  BY <1>0, <1>1, <1>2
<1>3. ASSUME NEW p \in Proxies, Forwards(p), raced' \in BOOLEAN
      PROVE  /\ proxy' \in [Proxies -> Request_]
             /\ \A q \in Proxies : ProxyKnows(q)'
             /\ raced' \in BOOLEAN
  <2>1. ASSUME NEW q \in Proxies PROVE ProxyKnows(q)'
    BY <1>1, <1>3, <2>1 DEF Forwards
  <2>. QED  BY <1>3, <2>1 DEF Forwards
<1>4. ASSUME NEW p \in Proxies, Send(p) \/ SendOnboarding(p) \/ LogoutWeb(p)
      PROVE  Forwards(p) /\ raced' \in BOOLEAN
  BY <1>4, LeaveMoves DEF Send, SendOnboarding, LogoutWeb
<1>5. ASSUME NEW p \in Proxies,
             AskBackend(p) \/ RefreshSession(p) \/ FinishRefresh(p) \/ FinishOnboarding(p)
               \/ FinishLogout(p) \/ Arrive(p)
      PROVE  Forwards(p) /\ raced' \in BOOLEAN
  <2>1. raced' = raced
    BY <1>5
       DEF AskBackend, RefreshSession, FinishRefresh, FinishOnboarding, FinishLogout, Arrive
  <2>. QED  BY <1>0, <1>5, <2>1, RequestForwards
<1>. QED
  BY <1>2, <1>3, <1>4, <1>5 DEF WebNext, webVars, web, Account, Land, ExpireAccess

LEMMA FlagsKept ==
    ASSUME WebInv, [WebNext]_webVars
    PROVE  /\ expired' \subseteq Calls /\ landed' \subseteq Calls
           /\ loggedOut' \in BOOLEAN /\ dropped' \in BOOLEAN
<1>0. /\ expired \subseteq Calls /\ landed \subseteq Calls
      /\ loggedOut \in BOOLEAN /\ dropped \in BOOLEAN /\ jar.access \in Calls \cup {0}
  BY DEF WebInv, WebTypeOK
<1>1. dropped' \in BOOLEAN
  <2>1. ASSUME NEW p \in Proxies, FinishOnboarding(p) PROVE dropped' = dropped \/ dropped' \in BOOLEAN
    BY <2>1, Zenon DEF FinishOnboarding
  <2>. QED
    BY <1>0, <2>1
       DEF WebNext, webVars, web, Account, Land, Send, SendOnboarding, AskBackend,
           RefreshSession, FinishRefresh, LogoutWeb, FinishLogout, Arrive, ExpireAccess
<1>2. /\ expired' \subseteq Calls /\ landed' \subseteq Calls /\ loggedOut' \in BOOLEAN
  BY <1>0
     DEF WebNext, webVars, web, Account, Land, Send, SendOnboarding, AskBackend,
         RefreshSession, FinishRefresh, FinishOnboarding, LogoutWeb, FinishLogout, Arrive,
         ExpireAccess
<1>. QED  BY <1>1, <1>2

LEMMA WebKept ==
    ASSUME WebInv, [WebNext]_webVars
    PROVE  WebInv'
<1>1. [Api]_vars /\ AccountsInv /\ Finished
  BY WebMoves DEF WebInv
<1>2. AccountsInv' /\ Finished'
  BY <1>1, AccountsKept, FinishedKept
<1>. QED
  BY <1>2, JarKept, ProxiesKept, FlagsKept DEF WebInv, WebTypeOK, JarSound, AccountsInv

LEMMA WebBegin ==
    ASSUME WebInit
    PROVE  WebInv
<1>1. AccountsInv
  BY AccountsBegin DEF WebInit
<1>2. Finished
  BY DEF WebInit, Init, NoCall, Finished
<1>3. NoRequest \in Request_ /\ NoRequest.at = "idle" /\ NoRequest.effect = "keep"
  BY DEF NoRequest, Request_, Effects
<1>4. NoCookies \in [access: Calls \cup {0}, refresh: Calls \cup {0}, onboard: BOOLEAN]
      /\ NoCookies.access = 0 /\ NoCookies.refresh = 0
  BY DEF NoCookies
<1>5. WebTypeOK /\ Gated
  <2>1. jar = NoCookies /\ ~ 0 \in Calls
    BY DEF WebInit, Calls
  <2>2. proxy \in [Proxies -> Request_]
    BY <1>3 DEF WebInit
  <2>. QED  BY <1>1, <1>4, <2>1, <2>2 DEF WebInit, WebTypeOK, AccountsInv, Gated
<1>6. \A p \in Proxies : ProxyKnows(p)
  BY <1>3 DEF WebInit, ProxyKnows
<1>. QED  BY <1>1, <1>2, <1>5, <1>6 DEF WebInv

LEMMA WebAlways == WebSpec => []WebInv
BY WebBegin, WebKept, PTL DEF WebSpec
----------------------------------------------------------------------------
(***************************************************************************)
(* The theorems, for the accounts alone and under the dashboard.           *)
(***************************************************************************)

LEMMA SpecIsApi == Spec => ApiSpec
<1>1. [Next]_vars => [Api]_vars
  BY DEF Next, Api, Act
<1>. QED  BY <1>1, PTL DEF Spec, ApiSpec

LEMMA WebIsApi == WebSpec => ApiSpec
<1>1. WebInit => Init
  BY DEF WebInit
<1>2. WebInv /\ [WebNext]_webVars => [Api]_vars
  BY WebMoves DEF WebInv
<1>. QED  BY <1>1, <1>2, WebAlways, PTL DEF WebSpec, ApiSpec

\* Every column of the API and every cookie of the browser stays within its domain, and
\* a cookie names a session that the API issued (setSessionCookies writes what a sign-in
\* or a refresh returned).
THEOREM WebTypes == WebSpec => []WebTypeOK
<1>1. WebInv => WebTypeOK
  BY DEF WebInv
<1>. QED  BY <1>1, WebAlways, PTL

\* A JWT names an organization of a verified user whose default environment exists: the
\* racing sign-ins, refreshes and verifications of one address and the calls that stop
\* half-way leave no other (newAuthResult after ensurePrimaryTenant).
THEOREM SessionsSound == (Spec \/ WebSpec) => []SessionsHaveTenant
<1>1. AccountsInv => SessionsHaveTenant
  BY DEF AccountsInv
<1>. QED  BY <1>1, AccountsAlways, SpecIsApi, WebIsApi, PTL

\* Only a call that began before the user had an organization can displace the one that
\* sign-ins resolve to (ensurePrimaryTenant dates the membership before it looks for one).
THEOREM PrimaryStays == (Spec \/ WebSpec) => PrimaryStable
<1>1. ASSUME AccountsInv, [Api]_vars
      PROVE  [\A o \in Calls : IsPrimary(o) /\ ~IsPrimary(o)' =>
                 \E n \in Calls : call[n].at = "member" /\ ~call[n].sawTenant]_vars
  BY <1>1, PrimaryHolds
<1>. QED  BY <1>1, AccountsAlways, SpecIsApi, WebIsApi, PTL DEF ApiSpec, PrimaryStable

\* Sign-ins that race to create the first organization leave no half-seeded one behind,
\* unless a statement failed (createSeedEnvironments against UNIQUE (organization, name)).
THEOREM SeedsFinish == (Spec \/ WebSpec) => []SeedsComplete
<1>1. Init => Seeds
  BY DEF Init, NoOrg, Seeds
<1>2. AccountsInv /\ Seeds /\ [Api]_vars => Seeds'
  BY SeedsKept
<1>3. AccountsInv /\ Seeds => SeedsComplete
  BY SeedsDone
<1>. QED  BY <1>1, <1>2, <1>3, AccountsAlways, SpecIsApi, WebIsApi, PTL DEF ApiSpec

\* The verification row holds the newest code, or was emptied by a call that presented a
\* correct one (the upsert of createAndSendVerification against the delete by user).
THEOREM NewestStands == (Spec \/ WebSpec) => []NewestCodeStands
<1>1. Init => NewestCodeStands
  BY DEF Init, NewestCodeStands
<1>2. AccountsInv /\ NewestCodeStands /\ [Api]_vars => NewestCodeStands'
  BY NewestKept
<1>. QED  BY <1>1, <1>2, AccountsAlways, SpecIsApi, WebIsApi, PTL DEF ApiSpec

LEMMA NamedAlways == ApiSpec => []OnboardedNamesTenant
<1>1. Init => OnboardedNamesTenant
  BY DEF Init, OnboardedNamesTenant
<1>2. AccountsInv /\ OnboardedNamesTenant /\ [Api]_vars => OnboardedNamesTenant'
  BY NamedKept
<1>. QED  BY <1>1, <1>2, AccountsAlways, PTL DEF ApiSpec

\* The dashboard lets in only users who completed onboarding and whose organization has
\* a name, however the answers of refreshes, sign-ins and onboardings overtake each other
\* (setSessionCookies and setOnboardingCookie write needs_onboarding).
THEOREM GateHolds == WebSpec => []OnboardingGate
<1>1. WebInv /\ OnboardedNamesTenant => OnboardingGate
  BY DEF WebInv, Gated, OnboardingGate
<1>. QED  BY <1>1, NamedAlways, WebAlways, WebIsApi, PTL
----------------------------------------------------------------------------
(***************************************************************************)
(* The refresh token of the browser: who may delete it.                    *)
(***************************************************************************)

Deletes(n, t) == call[n].at = "deleteToken" /\ call[n].arg = t

Live(t) == t \in tokens /\ \A n \in Calls : ~ Deletes(n, t)

Flying == {p \in Proxies : proxy[p].at # "idle"}

\* The request is about to bring the session of the refresh that it made.
Renews(p) == proxy[p].at = "wait" \/ proxy[p].effect = "set"

\* Whatever deletes, holds or sends a refresh token got it from an answer of the API.
Issued ==
    /\ \A t \in tokens : session[t] # 0
    /\ \A n \in Calls : session[n] # 0 => call[n].at = "done"
    /\ \A n \in Calls : call[n].at = "deleteToken" =>
          call[n].arg \in Calls /\ session[call[n].arg] # 0
    /\ \A p \in Proxies : proxy[p].refresh # 0 => session[proxy[p].refresh] # 0

\* The token of call c has not reached the browser.
Unseen(c) ==
    /\ jar.refresh # c
    /\ \A n \in Calls : ~ Deletes(n, c)
    /\ \A p \in Proxies : proxy[p].refresh # c
    /\ session[c] # 0 => c \in tokens

Landing == {"social", "signin", "verify"}

NotLanded == \A n \in Calls : call[n].kind \in Landing /\ n \notin landed => Unseen(n)

\* Unless two requests raced, one is in flight, with the token the browser holds, and
\* the token it brings is new.
Alone   == ~ raced => \A p, q \in Flying : p = q
Carried == ~ raced => \A p \in Flying : proxy[p].refresh = jar.refresh
New     == ~ raced => \A p \in Flying : Renews(p) => Unseen(proxy[p].call)

\* What SessionSurvives asks for.
Good == /\ landed # {} /\ ~ loggedOut
        /\ ~ raced /\ ~ dropped
        /\ \A n \in Calls : call[n].at # "failed"

\* The live token is in the jar, or on its way to it.
Flow ==
    Good =>
        /\ Flying = {} => Live(jar.refresh)
        /\ \A p \in Flying :
              /\ proxy[p].at # "logout" /\ proxy[p].effect # "clear"
              /\ proxy[p].effect = "set" => Live(proxy[p].call)
              /\ ~ Renews(p) => Live(jar.refresh)

BrowserInv == WebInv /\ Issued /\ NotLanded /\ Alone /\ Carried /\ New /\ Flow

LEMMA TokensMove ==
    ASSUME AccountsInv, [Api]_vars, NEW t \in Calls
    PROVE  /\ t \in tokens' => t \in tokens \/ (session'[t] # 0 /\ call'[t].at = "done")
           /\ t \in tokens => t \in tokens' \/ \E n \in Calls : Deletes(n, t)
           /\ \/ session'[t] = session[t]
              \/ call[t].at = "issue" /\ call'[t].at = "done" /\ t \in tokens'
<1>0. TypeOK /\ CallsKnow
  BY DEF AccountsInv
<1>1. ASSUME NEW m \in Calls, IssueSession(m)
      PROVE  /\ t \in tokens' => t \in tokens \/ (session'[t] # 0 /\ call'[t].at = "done")
             /\ t \in tokens => t \in tokens'
             /\ \/ session'[t] = session[t]
                \/ call[t].at = "issue" /\ call'[t].at = "done" /\ t \in tokens'
  <2>1. call[m].at = "issue" /\ call'[m].at = "done"
    BY <1>0, <1>1, StepMoves DEF IssueSession
  <2>2. call[m].org \in Calls /\ call[m].org # 0
    BY <1>0, <2>1 DEF CallsKnow, CallKnows, TenantAt, Owned, Calls
  <2>3. session' = [session EXCEPT ![m] = call[m].org] /\ tokens' = tokens \cup {m}
    BY <1>1 DEF IssueSession
  <2>. QED  BY <1>0, <2>1, <2>2, <2>3 DEF TypeOK
<1>2. ASSUME NEW m \in Calls, DeleteToken(m)
      PROVE  /\ tokens' \subseteq tokens /\ session' = session
             /\ t \in tokens => t \in tokens' \/ Deletes(m, t)
  BY <1>2 DEF DeleteToken, Deletes
<1>3. CASE tokens' = tokens /\ session' = session
  BY <1>3
<1>. QED
  BY <1>0, <1>1, <1>2, <1>3, RequestMoves
     DEF Api, Act, Arrives, Started, vars, tables, Statement, ReadIdentity, ReadUser,
         ReadAccount, CreateUser, SetVerified, SetPassword, LinkIdentity, SendCode, DeleteCode,
         ReadMembership, ReadEnvironment, InsertOrganization, InsertMember, SeedEnvironments,
         InsertEnvironment, NameOrganization, SetOnboarded, ReadDefault,
         InsertNamedOrganization, JoinOrganization, Fail, Conflict

\* A call of a request other than a refresh or a logout deletes no token.
LEMMA AccountDeletesNone ==
    ASSUME AccountsInv, NEW n \in Calls,
           Account(n) \/ CompleteOnboarding(n) \/ Statement(n) \/ Fail(n), call'[n].at = "deleteToken"
    PROVE  FALSE
<1>0. TypeOK
  BY DEF AccountsInv
<1>1. CASE Statement(n) \/ Fail(n)
  BY <1>0, <1>1, CallMoves DEF Moves, Route
<1>2. CASE CompleteOnboarding(n)
  <2>1. PICK o \in Calls :
           call' = [call EXCEPT ![n] = [NoCall EXCEPT !.kind = "onboard", !.at = "nameOrg",
                                                   !.org = o, !.sawTenant = TRUE]]
    BY <1>2 DEF CompleteOnboarding
  <2>. QED  BY <1>0, <2>1 DEF TypeOK, NoCall
<1>3. CASE Account(n) /\ ~ CompleteOnboarding(n) /\ ~ Statement(n) /\ ~ Fail(n)
  <2>1. ASSUME NEW kind, NEW at, at # "deleteToken", NEW arg, NEW by, NEW now,
               Begin(n, kind, at, arg, by, now)
        PROVE  FALSE
    BY <1>0, <2>1, BeginMoves
  <2>. QED
    BY <1>3, <2>1
       DEF Account, Signup, SigninWithSocial, Signin, VerifyEmail, ResetPassword,
           ResendVerification, ForgotPassword, CreateOrganization
<1>. QED  BY <1>1, <1>2, <1>3

LEMMA NewDeletes ==
    ASSUME WebInv, [WebNext]_webVars, NEW m \in Calls, call'[m].at = "deleteToken",
           call'[m] # call[m]
    PROVE  /\ call[m].kind = "none"
           /\ \/ \E p \in Proxies : /\ RefreshSession(p) /\ proxy[p].refresh \in tokens
                                    /\ call'[m].arg = proxy[p].refresh
              \/ \E p \in Proxies : LogoutWeb(p) /\ call'[m].arg = jar.refresh
<1>0. AccountsInv /\ TypeOK
  BY DEF WebInv, AccountsInv
<1>1. ASSUME NEW n \in Calls, Act(n) PROVE n = m
  BY <1>0, <1>1, OthersStay
<1>2. ASSUME NEW n \in Calls, Account(n) PROVE FALSE
  <2>1. Act(n)
    BY <1>2 DEF Account, Act, Request
  <2>. QED  BY <1>0, <1>1, <1>2, <2>1, AccountDeletesNone
<1>3. ASSUME NEW p \in Proxies, AskBackend(p) PROVE FALSE
  <2>1. PICK n \in Calls : CompleteOnboarding(n)
    BY <1>3 DEF AskBackend, vars
  <2>2. n = m
    BY <1>1, <2>1 DEF Act, Request
  <2>. QED  BY <1>0, <2>1, <2>2, AccountDeletesNone
<1>4. ASSUME NEW p \in Proxies, RefreshSession(p)
      PROVE  /\ call[m].kind = "none"
             /\ proxy[p].refresh \in tokens /\ call'[m].arg = proxy[p].refresh
  <2>1. PICK n \in Calls : Refresh(n, proxy[p].refresh)
    BY <1>4 DEF RefreshSession, vars
  <2>2. n = m
    BY <1>0, <1>1, <2>1 DEF Act, Request, Refresh
  <2>. QED  BY <1>0, <2>1, <2>2, BeginMoves DEF Refresh
<1>5. ASSUME NEW p \in Proxies, LogoutWeb(p)
      PROVE  call[m].kind = "none" /\ call'[m].arg = jar.refresh
  <2>1. PICK n \in Calls : Logout(n, jar.refresh)
    BY <1>5 DEF LogoutWeb
  <2>2. n = m
    BY <1>0, <1>1, <1>5, <2>1 DEF Act, LogoutWeb, WebInv, WebTypeOK
  <2>. QED  BY <1>0, <2>1, <2>2, BeginMoves DEF Logout
<1>. QED
  BY <1>2, <1>3, <1>4, <1>5
     DEF WebNext, webVars, vars, Land, Send, SendOnboarding, FinishRefresh, FinishOnboarding,
         FinishLogout, Arrive, ExpireAccess
----------------------------------------------------------------------------
(***************************************************************************)
(* The steps of a proxied request, field by field.                         *)
(***************************************************************************)

LEMMA LeaveSteps ==
    ASSUME WebInv, NEW p \in Proxies, NEW path, NEW at, Leave(p, path, at)
    PROVE  /\ proxy[p].at = "idle" /\ proxy'[p].at = at
           /\ proxy'[p].refresh = jar.refresh
           /\ proxy'[p].effect = IF path = "logout" THEN "clear" ELSE "keep"
           /\ \A q \in Proxies \ {p} :
                 /\ proxy'[q] = proxy[q]
                 /\ proxy[q].at # "idle" /\ proxy[q].refresh = jar.refresh => raced'
           /\ raced => raced'
<1>1. PICK e : /\ e = IF path = "logout" THEN "clear" ELSE "keep"
               /\ proxy' = [proxy EXCEPT ![p] =
                    [NoRequest EXCEPT !.path = path, !.at = at, !.access = jar.access,
                                      !.refresh = jar.refresh, !.effect = e]]
  BY DEF Leave
<1>2. /\ proxy'[p].at = at /\ proxy'[p].refresh = jar.refresh /\ proxy'[p].effect = e
      /\ \A q \in Proxies \ {p} : proxy'[q] = proxy[q]
  BY <1>1 DEF WebInv, WebTypeOK, NoRequest
<1>3. /\ proxy[p].at = "idle"
      /\ raced => raced'
      /\ \A q \in Proxies \ {p} :
            proxy[q].at # "idle" /\ proxy[q].refresh = jar.refresh => raced'
  BY Zenon DEF Leave
<1>. QED  BY <1>1, <1>2, <1>3

LEMMA AskSteps ==
    ASSUME WebInv, NEW p \in Proxies, AskBackend(p)
    PROVE  /\ proxy[p].at \in {"backend", "again"}
           /\ proxy'[p].at \in {"refresh", "answer", "work"}
           /\ proxy'[p].refresh = proxy[p].refresh /\ proxy'[p].effect = proxy[p].effect
           /\ proxy'[p].call = proxy[p].call
           /\ \A q \in Proxies \ {p} : proxy'[q] = proxy[q]
           /\ jar' = jar /\ tokens' = tokens
<1>0. proxy \in [Proxies -> Request_]
  BY DEF WebInv, WebTypeOK
<1>1. ASSUME NEW at, proxy' = At(p, at)
      PROVE  /\ proxy'[p].at = at /\ proxy'[p].refresh = proxy[p].refresh
             /\ proxy'[p].effect = proxy[p].effect /\ proxy'[p].call = proxy[p].call
             /\ \A q \in Proxies \ {p} : proxy'[q] = proxy[q]
  BY <1>0, <1>1 DEF At, Request_
<1>2. ASSUME NEW n, proxy' = [proxy EXCEPT ![p] = [proxy[p] EXCEPT !.at = "work", !.work = n]]
      PROVE  /\ proxy'[p].at = "work" /\ proxy'[p].refresh = proxy[p].refresh
             /\ proxy'[p].effect = proxy[p].effect /\ proxy'[p].call = proxy[p].call
             /\ \A q \in Proxies \ {p} : proxy'[q] = proxy[q]
  BY <1>0, <1>2 DEF Request_
<1>3. jar' = jar /\ tokens' = tokens
  BY DEF AskBackend, vars, tables, CompleteOnboarding
<1>4. CASE \E n \in Calls : /\ CompleteOnboarding(n)
                            /\ proxy' = [proxy EXCEPT ![p] =
                                           [proxy[p] EXCEPT !.at = "work", !.work = n]]
  BY <1>2, <1>3, <1>4 DEF AskBackend
<1>5. CASE proxy' = At(p, "refresh") \/ proxy' = At(p, "answer")
  BY <1>1, <1>3, <1>5 DEF AskBackend
<1>. QED  BY <1>4, <1>5 DEF AskBackend

LEMMA RefreshSteps ==
    ASSUME WebInv, NEW p \in Proxies, RefreshSession(p)
    PROVE  /\ proxy[p].at = "refresh" /\ proxy'[p].refresh = proxy[p].refresh
           /\ \/ /\ proxy'[p].at = "wait" /\ proxy'[p].effect = proxy[p].effect
                 /\ proxy'[p].call \in Calls /\ call[proxy'[p].call].kind = "none"
              \/ /\ proxy[p].refresh \notin tokens
                 /\ proxy'[p].at = "answer" /\ proxy'[p].effect = "clear"
           /\ \A q \in Proxies \ {p} : proxy'[q] = proxy[q]
           /\ jar' = jar /\ tokens' = tokens
<1>0. proxy \in [Proxies -> Request_] /\ TypeOK
  BY DEF WebInv, WebTypeOK
<1>1. jar' = jar /\ tokens' = tokens
  BY DEF RefreshSession, Refresh, Begin, vars, tables
<1>2. CASE \E n \in Calls :
              /\ Refresh(n, proxy[p].refresh)
              /\ proxy' = [proxy EXCEPT ![p] = [proxy[p] EXCEPT !.at = "wait", !.call = n]]
  <2>1. PICK n \in Calls :
           /\ Refresh(n, proxy[p].refresh)
           /\ proxy' = [proxy EXCEPT ![p] = [proxy[p] EXCEPT !.at = "wait", !.call = n]]
    BY <1>2
  <2>2. call[n].kind = "none"
    BY <1>0, <2>1, BeginMoves DEF Refresh
  <2>3. /\ proxy'[p].at = "wait" /\ proxy'[p].call = n
        /\ proxy'[p].refresh = proxy[p].refresh /\ proxy'[p].effect = proxy[p].effect
        /\ \A q \in Proxies \ {p} : proxy'[q] = proxy[q]
    BY <1>0, <2>1 DEF Request_
  <2>. QED  BY <1>1, <2>2, <2>3 DEF RefreshSession
<1>3. CASE /\ proxy[p].refresh \notin tokens
           /\ proxy' = [proxy EXCEPT ![p] =
                          [proxy[p] EXCEPT !.at = "answer", !.effect = "clear"]]
  <2>1. /\ proxy'[p].at = "answer" /\ proxy'[p].effect = "clear"
        /\ proxy'[p].refresh = proxy[p].refresh
        /\ \A q \in Proxies \ {p} : proxy'[q] = proxy[q]
    BY <1>0, <1>3 DEF Request_
  <2>. QED  BY <1>1, <1>3, <2>1 DEF RefreshSession
<1>. QED  BY <1>2, <1>3 DEF RefreshSession

LEMMA FinishSteps ==
    ASSUME WebInv, NEW p \in Proxies,
           FinishRefresh(p) \/ FinishOnboarding(p) \/ FinishLogout(p)
    PROVE  /\ proxy'[p].refresh = proxy[p].refresh /\ proxy'[p].call = proxy[p].call
           /\ proxy'[p].at \in {"again", "answer"}
           /\ \/ proxy[p].at = "wait" /\ proxy'[p].effect = "set"
                    /\ call[proxy[p].call].at = "done"
              \/ proxy[p].at = "work" /\ proxy'[p].effect = "onboarded"
                    /\ (proxy[p].effect = "set" => dropped')
              \/ proxy[p].at = "wait" /\ call[proxy[p].call].at = "failed"
                    /\ proxy'[p].effect \in {"clear", "keep"}
              \/ proxy[p].at = "work" /\ call[proxy[p].work].at = "failed"
                    /\ proxy'[p].effect = proxy[p].effect
              \/ proxy[p].at = "logout" /\ proxy'[p].effect = proxy[p].effect
           /\ \A q \in Proxies \ {p} : proxy'[q] = proxy[q]
           /\ jar' = jar /\ UNCHANGED vars
<1>0. proxy \in [Proxies -> Request_]
  BY DEF WebInv, WebTypeOK
<1>1. ASSUME NEW at, proxy' = [proxy EXCEPT ![p].at = at]
      PROVE  /\ proxy'[p].at = at /\ proxy'[p].refresh = proxy[p].refresh
             /\ proxy'[p].effect = proxy[p].effect /\ proxy'[p].call = proxy[p].call
             /\ \A q \in Proxies \ {p} : proxy'[q] = proxy[q]
  BY <1>0, <1>1 DEF Request_
<1>2. ASSUME NEW at, NEW e,
             proxy' = [proxy EXCEPT ![p] = [proxy[p] EXCEPT !.at = at, !.effect = e]]
      PROVE  /\ proxy'[p].at = at /\ proxy'[p].refresh = proxy[p].refresh
             /\ proxy'[p].effect = e /\ proxy'[p].call = proxy[p].call
             /\ \A q \in Proxies \ {p} : proxy'[q] = proxy[q]
  BY <1>0, <1>2 DEF Request_
<1>3. CASE FinishRefresh(p)
  <2>1. proxy[p].at = "wait" /\ jar' = jar /\ UNCHANGED vars
    BY <1>3 DEF FinishRefresh
  <2>2. ASSUME call[proxy[p].call].at = "done",
               proxy' = [proxy EXCEPT ![p] = [proxy[p] EXCEPT !.at = "again", !.effect = "set"]]
        PROVE  /\ proxy'[p].at = "again" /\ proxy'[p].refresh = proxy[p].refresh
               /\ proxy'[p].effect = "set" /\ proxy'[p].call = proxy[p].call
               /\ \A q \in Proxies \ {p} : proxy'[q] = proxy[q]
    BY <1>2, <2>2
  <2>3. ASSUME NEW e \in {"clear", "keep"},
               proxy' = [proxy EXCEPT ![p] = [proxy[p] EXCEPT !.at = "answer", !.effect = e]]
        PROVE  /\ proxy'[p].at = "answer" /\ proxy'[p].refresh = proxy[p].refresh
               /\ proxy'[p].effect = e /\ proxy'[p].call = proxy[p].call
               /\ \A q \in Proxies \ {p} : proxy'[q] = proxy[q]
    BY <1>2, <2>3
  <2>. QED  BY <1>3, <2>1, <2>2, <2>3 DEF FinishRefresh
<1>4. CASE FinishOnboarding(p)
  <2>1. proxy[p].at = "work" /\ jar' = jar /\ UNCHANGED vars
    BY <1>4 DEF FinishOnboarding
  <2>2. CASE /\ proxy' = [proxy EXCEPT ![p] =
                            [proxy[p] EXCEPT !.at = "answer", !.effect = "onboarded"]]
             /\ proxy[p].effect = "set" => dropped'
    <3>1. /\ proxy'[p].at = "answer" /\ proxy'[p].refresh = proxy[p].refresh
          /\ proxy'[p].effect = "onboarded" /\ proxy'[p].call = proxy[p].call
          /\ \A q \in Proxies \ {p} : proxy'[q] = proxy[q]
      BY <1>2, <2>2
    <3>. QED  BY <2>1, <2>2, <3>1
  <2>3. CASE /\ call[proxy[p].work].at = "failed"
             /\ proxy' = [proxy EXCEPT ![p].at = "answer"]
    BY <1>1, <2>1, <2>3
  <2>4. \/ /\ proxy' = [proxy EXCEPT ![p] =
                          [proxy[p] EXCEPT !.at = "answer", !.effect = "onboarded"]]
           /\ proxy[p].effect = "set" => dropped'
        \/ /\ call[proxy[p].work].at = "failed"
           /\ proxy' = [proxy EXCEPT ![p].at = "answer"]
    BY <1>4, Zenon DEF FinishOnboarding, At
  <2>. QED  BY <2>2, <2>3, <2>4
<1>5. CASE FinishLogout(p)
  BY <1>1, <1>5 DEF FinishLogout
<1>. QED  BY <1>3, <1>4, <1>5

LEMMA ArriveSteps ==
    ASSUME WebInv, NEW p \in Proxies, Arrive(p)
    PROVE  /\ proxy[p].at = "answer" /\ proxy'[p].at = "idle" /\ proxy'[p].refresh = 0
           /\ jar'.refresh = CASE proxy[p].effect = "set" -> proxy[p].call
                               [] proxy[p].effect = "clear" -> 0
                               [] OTHER -> jar.refresh
           /\ \A q \in Proxies \ {p} : proxy'[q] = proxy[q]
           /\ UNCHANGED vars
<1>1. proxy'[p] = NoRequest /\ \A q \in Proxies \ {p} : proxy'[q] = proxy[q]
  BY DEF Arrive, WebInv, WebTypeOK
<1>2. jar' = Cookies(proxy[p].effect, proxy[p].call)
  BY DEF Arrive
<1>3. jar'.refresh = CASE proxy[p].effect = "set" -> proxy[p].call
                       [] proxy[p].effect = "clear" -> 0
                       [] OTHER -> jar.refresh
  BY <1>2 DEF Cookies, NoCookies, WebInv, WebTypeOK
<1>. QED  BY <1>1, <1>3 DEF Arrive, NoRequest
----------------------------------------------------------------------------
(***************************************************************************)
(* One request at a time keeps the token: SessionSurvives.                 *)
(***************************************************************************)

\* A request leaves the browser with its cookies.
Departs(p) == /\ \E path, at : Leave(p, path, at) /\ at # "idle" /\ at # "wait"
              /\ jar' = jar

Answers(p) == \/ AskBackend(p) \/ RefreshSession(p) \/ FinishRefresh(p)
              \/ FinishOnboarding(p) \/ FinishLogout(p) \/ Arrive(p)

LEMMA WhoMoves ==
    ASSUME WebInv, [WebNext]_webVars
    PROVE  \/ proxy' = proxy /\ raced' = raced /\ (jar' = jar \/ \E n \in Calls : Land(n))
           \/ \E p \in Proxies : Departs(p)
           \/ \E p \in Proxies : Answers(p) /\ raced' = raced
<1>1. ASSUME NEW p \in Proxies, Send(p) \/ SendOnboarding(p) \/ LogoutWeb(p)
      PROVE  Departs(p)
  BY <1>1 DEF Send, SendOnboarding, LogoutWeb, Departs
<1>2. ASSUME NEW p \in Proxies, Answers(p) PROVE raced' = raced
  BY <1>2 DEF Answers, AskBackend, RefreshSession, FinishRefresh, FinishOnboarding,
              FinishLogout, Arrive
<1>. QED
  BY <1>1, <1>2 DEF Answers, WebNext, webVars, web, Account, Land, ExpireAccess

LEMMA JarRefresh ==
    ASSUME WebInv, [WebNext]_webVars
    PROVE  \/ jar'.refresh = jar.refresh
           \/ \E p \in Flying : /\ Arrive(p) /\ proxy'[p].at = "idle"
                                /\ \/ jar'.refresh = 0
                                   \/ /\ Renews(p) /\ proxy[p].effect = "set"
                                      /\ jar'.refresh = proxy[p].call
           \/ \E n \in Calls : Land(n) /\ jar'.refresh = n
<1>1. ASSUME NEW p \in Proxies, Arrive(p)
      PROVE  \/ jar'.refresh = jar.refresh
             \/ p \in Flying /\ proxy'[p].at = "idle" /\ jar'.refresh = 0
             \/ /\ p \in Flying /\ proxy'[p].at = "idle"
                /\ Renews(p) /\ proxy[p].effect = "set" /\ jar'.refresh = proxy[p].call
  BY <1>1, ArriveSteps DEF Flying, Renews
<1>2. ASSUME NEW n \in Calls, Land(n) PROVE jar'.refresh = n
  BY <1>2 DEF Land, Cookies
<1>3. ASSUME NEW p \in Proxies, Answers(p) PROVE jar' = jar \/ Arrive(p)
  BY <1>3 DEF Answers, AskBackend, RefreshSession, FinishRefresh, FinishOnboarding,
              FinishLogout
<1>. QED  BY <1>1, <1>2, <1>3, WhoMoves DEF Departs

\* A request keeps the token it left with.
LEMMA ProxyRefresh ==
    ASSUME WebInv, [WebNext]_webVars, NEW q \in Proxies
    PROVE  /\ \/ proxy'[q].refresh = proxy[q].refresh
              \/ proxy'[q].refresh = 0
              \/ Departs(q) /\ proxy'[q].refresh = jar.refresh
           /\ q \in Flying' =>
                 \/ q \in Flying /\ proxy'[q].refresh = proxy[q].refresh /\ ~ Departs(q)
                 \/ Departs(q) /\ proxy'[q].refresh = jar.refresh
<1>1. CASE proxy' = proxy
  <2>1. ~ Departs(q) \/ q \notin Flying
    BY LeaveSteps DEF Departs, Flying
  <2>2. Departs(q) => proxy'[q].refresh = jar.refresh
    BY LeaveSteps DEF Departs
  <2>. QED  BY <1>1, <2>1, <2>2 DEF Flying
<1>2. ASSUME NEW p \in Proxies, Departs(p)
      PROVE  /\ p = q => proxy'[q].refresh = jar.refresh
             /\ p # q => proxy'[q] = proxy[q]
  BY <1>2, LeaveSteps DEF Departs
<1>3. ASSUME NEW p \in Proxies, Answers(p)
      PROVE  /\ \/ proxy'[p].refresh = proxy[p].refresh /\ proxy'[p].at # "idle"
                \/ proxy'[p].refresh = 0 /\ proxy'[p].at = "idle"
             /\ proxy[p].at # "idle"
             /\ p # q => proxy'[q] = proxy[q]
  <2>1. CASE AskBackend(p)
    BY <2>1, AskSteps
  <2>2. CASE RefreshSession(p)
    BY <2>2, RefreshSteps
  <2>3. CASE FinishRefresh(p) \/ FinishOnboarding(p) \/ FinishLogout(p)
    <3>1. /\ proxy'[p].refresh = proxy[p].refresh /\ proxy'[p].at \in {"again", "answer"}
          /\ proxy[p].at \in {"wait", "work", "logout"}
          /\ \A r \in Proxies \ {p} : proxy'[r] = proxy[r]
      BY <2>3, FinishSteps
    <3>. QED  BY <3>1
  <2>4. CASE Arrive(p)
    BY <2>4, ArriveSteps
  <2>. QED  BY <1>3, <2>1, <2>2, <2>3, <2>4 DEF Answers
<1>4. Departs(q) => proxy[q].at = "idle"
  BY LeaveSteps DEF Departs
<1>. QED  BY <1>1, <1>2, <1>3, <1>4, WhoMoves DEF Flying

\* A request that brings a session made the refresh itself.
LEMMA RenewsMove ==
    ASSUME WebInv, [WebNext]_webVars, NEW q \in Proxies, q \in Flying', Renews(q)'
    PROVE  \/ q \in Flying /\ Renews(q) /\ proxy'[q].call = proxy[q].call
           \/ proxy'[q].call \in Calls /\ call[proxy'[q].call].kind = "none"
<1>1. CASE proxy'[q] = proxy[q]
  BY <1>1 DEF Flying, Renews
<1>2. ~ Departs(q)
  <2>1. ASSUME NEW path, NEW at, Leave(q, path, at), at # "wait" PROVE FALSE
    BY <2>1, LeaveSteps DEF Renews
  <2>. QED  BY <2>1 DEF Departs
<1>3. CASE AskBackend(q)
  BY <1>3, AskSteps DEF Flying, Renews
<1>4. CASE RefreshSession(q)
  BY <1>4, RefreshSteps, ProxyLasts, WebMoves DEF Flying, Renews
<1>5. CASE FinishRefresh(q) \/ FinishOnboarding(q) \/ FinishLogout(q)
  <2>1. /\ proxy'[q].call = proxy[q].call /\ proxy'[q].at # "wait"
        /\ proxy[q].at \in {"wait", "work", "logout"}
        /\ proxy[q].at = "wait" \/ proxy'[q].effect # "set" \/ proxy[q].effect = "set"
    BY <1>5, FinishSteps
  <2>. QED  BY <2>1 DEF Flying, Renews
<1>6. ~ Arrive(q)
  BY ArriveSteps DEF Flying
<1>7. ASSUME NEW p \in Proxies, p # q, Departs(p) \/ Answers(p) PROVE proxy'[q] = proxy[q]
  <2>1. CASE Departs(p)
    BY <1>7, <2>1, LeaveSteps DEF Departs
  <2>2. CASE AskBackend(p) \/ RefreshSession(p) \/ Arrive(p)
    BY <1>7, <2>2, AskSteps, RefreshSteps, ArriveSteps
  <2>3. CASE FinishRefresh(p) \/ FinishOnboarding(p) \/ FinishLogout(p)
    BY <1>7, <2>3, FinishSteps
  <2>. QED  BY <1>7, <2>1, <2>2, <2>3 DEF Answers
<1>. QED
  BY <1>1, <1>2, <1>3, <1>4, <1>5, <1>6, <1>7, WhoMoves DEF Answers

LEMMA IssuedKept ==
    ASSUME WebInv, Issued, [WebNext]_webVars
    PROVE  Issued'
<1>0. /\ [Api]_vars /\ AccountsInv /\ TypeOK /\ TypeOK'
      /\ tokens \subseteq Calls /\ tokens' \subseteq Calls
  BY WebMoves, TypeKept DEF WebInv, AccountsInv, TypeOK
<1>1. ASSUME NEW t \in tokens' PROVE session'[t] # 0
  BY <1>0, <1>1, TokensMove, SessionStays DEF Issued
<1>2. ASSUME NEW n \in Calls, session'[n] # 0 PROVE call'[n].at = "done"
  BY <1>0, <1>2, TokensMove, DoneStays DEF Issued
<1>3. ASSUME NEW n \in Calls, call'[n].at = "deleteToken"
      PROVE  call'[n].arg \in Calls /\ session'[call'[n].arg] # 0
  <2>1. call'[n].arg \in Calls /\ session[call'[n].arg] # 0
    <3>1. CASE call'[n] = call[n]
      BY <1>3, <3>1 DEF Issued
    <3>2. CASE call'[n] # call[n]
      <4>1. ASSUME NEW p \in Proxies, LogoutWeb(p), call'[n].arg = jar.refresh
            PROVE  call'[n].arg \in Calls /\ session[call'[n].arg] # 0
        BY <4>1 DEF LogoutWeb, WebInv, WebTypeOK
      <4>. QED  BY <1>0, <1>3, <3>2, <4>1, NewDeletes DEF Issued
    <3>. QED  BY <3>1, <3>2
  <2>. QED  BY <1>0, <2>1, SessionStays
<1>4. ASSUME NEW p \in Proxies, proxy'[p].refresh # 0
      PROVE  session'[proxy'[p].refresh] # 0
  <2>1. /\ proxy[p].refresh \in Calls \cup {0} /\ jar.refresh \in Calls \cup {0}
        /\ jar.refresh # 0 => session[jar.refresh] # 0
    BY DEF WebInv, WebTypeOK, Request_
  <2>2. proxy'[p].refresh \in Calls /\ session[proxy'[p].refresh] # 0
    BY <1>4, <2>1, ProxyRefresh DEF Issued
  <2>. QED  BY <1>0, <2>2, SessionStays
<1>. QED  BY <1>1, <1>2, <1>3, <1>4 DEF Issued

LEMMA UnseenLasts ==
    ASSUME WebInv, Issued, [WebNext]_webVars, NEW c \in Calls, Unseen(c), jar'.refresh # c
    PROVE  Unseen(c)'
<1>0. [Api]_vars /\ AccountsInv /\ 0 \notin Calls
  BY WebMoves DEF WebInv, Calls
<1>1. ASSUME NEW n \in Calls, call'[n].at = "deleteToken" PROVE call'[n].arg # c
  <2>1. CASE call'[n] = call[n]
    BY <1>1, <2>1 DEF Unseen, Deletes
  <2>2. CASE call'[n] # call[n]
    BY <1>1, <2>2, NewDeletes DEF Unseen
  <2>. QED  BY <2>1, <2>2
<1>2. ASSUME NEW p \in Proxies PROVE proxy'[p].refresh # c
  BY <1>0, <1>2, ProxyRefresh DEF Unseen
<1>3. session'[c] # 0 => c \in tokens'
  BY <1>0, TokensMove DEF Unseen
<1>. QED  BY <1>1, <1>2, <1>3 DEF Unseen, Deletes

\* Nothing refers to a call that has not begun.
LEMMA FreshUnseen ==
    ASSUME WebInv, Issued, NEW c \in Calls, call[c].kind = "none"
    PROVE  Unseen(c)
<1>1. session[c] = 0 /\ c # 0
  BY DEF Issued, WebInv, AccountsInv, Routed, CallRouted, Calls
<1>. QED  BY <1>1 DEF Unseen, Issued, Deletes, WebInv, WebTypeOK

LEMMA NotLandedKept ==
    ASSUME WebInv, Issued, NotLanded, [WebNext]_webVars
    PROVE  NotLanded'
<1>. SUFFICES ASSUME NEW n \in Calls, call'[n].kind \in Landing, n \notin landed'
              PROVE  Unseen(n)'
  BY DEF NotLanded
<1>0. /\ [Api]_vars /\ AccountsInv /\ TypeOK
      /\ jar.refresh \in Calls \cup {0} /\ jar.refresh # 0 => session[jar.refresh] # 0
  BY WebMoves DEF WebInv, AccountsInv, WebTypeOK
<1>1. n \notin landed /\ ~ Land(n)
  BY DEF WebNext, webVars, web, Account, Land, Send, SendOnboarding, AskBackend,
         RefreshSession, FinishRefresh, FinishOnboarding, LogoutWeb, FinishLogout, Arrive,
         ExpireAccess
<1>2. call[n].kind = "none" \/ call[n].kind \in Landing
  BY <1>0, KindStays
<1>3. Unseen(n)
  BY <1>1, <1>2, FreshUnseen DEF NotLanded
<1>4. ASSUME NEW p \in Flying, Renews(p) PROVE proxy[p].call # n
  <2>1. call[proxy[p].call].kind = "refresh"
    BY <1>4 DEF WebInv, ProxyKnows, Renews, Flying
  <2>. QED  BY <1>2, <2>1 DEF Landing
<1>5. jar'.refresh # n
  <2>1. jar.refresh # n /\ n # 0
    BY <1>3 DEF Unseen, Calls
  <2>2. ASSUME NEW m \in Calls, Land(m), jar'.refresh = m PROVE jar'.refresh # n
    BY <1>1, <2>2
  <2>. QED  BY <1>4, <2>1, <2>2, JarRefresh
<1>. QED  BY <1>3, <1>5, UnseenLasts

\* While nothing races, a request leaves only when no other is in flight.
LEMMA LeavesAlone ==
    ASSUME WebInv, Carried, [WebNext]_webVars, ~ raced', NEW p \in Proxies, Departs(p)
    PROVE  Flying = {} /\ ~ raced
<1>1. PICK path, at : Leave(p, path, at)
  BY DEF Departs
<1>2. ~ raced /\ p \notin Flying
  BY <1>1, LeaveSteps DEF Flying
<1>. QED  BY <1>1, <1>2, LeaveSteps DEF Flying, Carried

LEMMA RaceLasts ==
    ASSUME WebInv, [WebNext]_webVars, ~ raced'
    PROVE  ~ raced
BY WhoMoves, LeaveSteps DEF Departs

LEMMA AloneKept ==
    ASSUME WebInv, Alone, Carried, [WebNext]_webVars
    PROVE  Alone' /\ Carried'
<1>. SUFFICES ASSUME ~ raced'
              PROVE  /\ \A p, q \in Flying' : p = q
                     /\ \A p \in Flying' : proxy'[p].refresh = jar'.refresh
  BY DEF Alone, Carried
<1>0. ~ raced
  BY RaceLasts
<1>1. ASSUME NEW p \in Flying', NEW q \in Flying' PROVE p = q
  <2>1. p \in Proxies /\ q \in Proxies
    BY DEF Flying
  <2>2. CASE Departs(p) /\ p # q
    <3>1. q \notin Flying
      BY <2>1, <2>2, LeavesAlone
    <3>2. proxy'[q] = proxy[q]
      BY <2>1, <2>2, LeaveSteps DEF Departs
    <3>. QED  BY <2>1, <3>1, <3>2 DEF Flying
  <2>3. CASE Departs(q) /\ p # q
    <3>1. p \notin Flying
      BY <2>1, <2>3, LeavesAlone
    <3>2. proxy'[p] = proxy[p]
      BY <2>1, <2>3, LeaveSteps DEF Departs
    <3>. QED  BY <2>1, <3>1, <3>2 DEF Flying
  <2>4. CASE ~ Departs(p) /\ ~ Departs(q)
    BY <1>0, <2>1, <2>4, ProxyRefresh DEF Alone
  <2>. QED  BY <2>2, <2>3, <2>4
<1>2. ASSUME NEW p \in Flying' PROVE proxy'[p].refresh = jar'.refresh
  <2>1. p \in Proxies /\ proxy'[p].at # "idle"
    BY DEF Flying
  <2>2. CASE Departs(p)
    BY <2>1, <2>2, ProxyRefresh DEF Departs
  <2>3. CASE ~ Departs(p)
    <3>1. p \in Flying /\ proxy'[p].refresh = jar.refresh
      BY <1>0, <2>1, <2>3, ProxyRefresh DEF Carried
    <3>2. ~ \E n \in Calls : Land(n)
      BY <3>1 DEF Land, Flying
    <3>3. \A q \in Flying : q = p
      BY <1>0, <3>1 DEF Alone
    <3>. QED  BY <2>1, <3>1, <3>2, <3>3, JarRefresh
  <2>. QED  BY <2>2, <2>3
<1>. QED  BY <1>1, <1>2

LEMMA NewKept ==
    ASSUME WebInv, Issued, Alone, New, [WebNext]_webVars
    PROVE  New'
<1>. SUFFICES ASSUME ~ raced', NEW p \in Flying', Renews(p)'
              PROVE  \E c : c = proxy'[p].call /\ Unseen(c)'
  BY DEF New
<1>0. ~ raced /\ p \in Proxies /\ proxy'[p].at # "idle"
  BY RaceLasts DEF Flying
<1>1. CASE p \in Flying /\ Renews(p) /\ proxy'[p].call = proxy[p].call
  <2>1. PICK c : c = proxy[p].call
    OBVIOUS
  <2>2. c \in Calls /\ Unseen(c)
    BY <1>0, <1>1, <2>1 DEF New, WebInv, ProxyKnows, Renews
  <2>3. ~ (\E n \in Calls : Land(n)) /\ \A q \in Flying : q = p
    BY <1>0, <1>1 DEF Land, Flying, Alone
  <2>4. jar'.refresh # c
    BY <1>0, <2>2, <2>3, JarRefresh DEF Unseen
  <2>. QED  BY <1>1, <2>1, <2>2, <2>4, UnseenLasts
<1>2. CASE proxy'[p].call \in Calls /\ call[proxy'[p].call].kind = "none"
  <2>1. PICK c \in Calls : c = proxy'[p].call /\ call[c].kind = "none"
    BY <1>2
  <2>2. Unseen(c)
    BY <2>1, FreshUnseen
  <2>3. ASSUME NEW q \in Flying, Renews(q) PROVE proxy[q].call # c
    BY <2>1, <2>3 DEF WebInv, ProxyKnows, Renews, Flying
  <2>4. ASSUME NEW n \in Calls, Land(n) PROVE n # c
    BY <2>1, <2>4 DEF Land
  <2>5. jar'.refresh # c
    BY <2>2, <2>3, <2>4, JarRefresh DEF Unseen, Calls
  <2>. QED  BY <2>1, <2>2, <2>5, UnseenLasts
<1>. QED  BY <1>0, <1>1, <1>2, RenewsMove

LEMMA FailedStays ==
    ASSUME AccountsInv, [Api]_vars, NEW n \in Calls, call[n].at = "failed"
    PROVE  call'[n].at = "failed"
<1>0. TypeOK /\ call[n].kind # "none"
  BY DEF AccountsInv, Routed, CallRouted
<1>1. CASE call'[n] = call[n]
  BY <1>1
<1>2. ~ Statement(n) /\ ~ Fail(n)
  BY <1>0, CallMoves DEF Moves, Running, TenantSteps
<1>3. ~ Arrives(n)
  BY <1>0, RequestMoves DEF Started
<1>. QED  BY <1>0, <1>1, <1>2, <1>3, OthersStay DEF Api, Act, Arrives, vars

LEMMA LiveLasts ==
    ASSUME WebInv, [WebNext]_webVars, ~ loggedOut',
           \A q \in Proxies : ~ RefreshSession(q),
           NEW t \in Calls, Live(t)
    PROVE  Live(t)'
<1>1. ASSUME NEW n \in Calls, call'[n].at = "deleteToken", call'[n].arg = t PROVE FALSE
  <2>1. call'[n] # call[n]
    BY <1>1 DEF Live, Deletes
  <2>2. \A q \in Proxies : ~ RefreshSession(q) /\ ~ LogoutWeb(q)
    BY DEF LogoutWeb
  <2>. QED  BY <1>1, <2>1, <2>2, NewDeletes
<1>2. t \in tokens'
  BY WebMoves, TokensMove DEF WebInv, Live
<1>. QED  BY <1>1, <1>2 DEF Live, Deletes

\* Only a sign-in that lands repairs a session.
LEMMA GoodBefore ==
    ASSUME WebInv, [WebNext]_webVars, Good', \A n \in Calls : ~ Land(n)
    PROVE  Good
<1>1. [Api]_vars /\ AccountsInv
  BY WebMoves DEF WebInv
<1>2. \A n \in Calls : call[n].at # "failed"
  BY <1>1, FailedStays DEF Good
<1>3. ~ raced
  BY RaceLasts DEF Good
<1>4. landed # {} /\ ~ loggedOut
  <2>1. landed' = landed /\ (loggedOut' = loggedOut \/ loggedOut' = TRUE)
    BY DEF WebNext, webVars, web, Account, Send, SendOnboarding, AskBackend,
           RefreshSession, FinishRefresh, FinishOnboarding, LogoutWeb, FinishLogout, Arrive,
           ExpireAccess
  <2>. QED  BY <2>1 DEF Good
<1>5. ~ dropped
  <2>1. ASSUME NEW p \in Proxies, FinishOnboarding(p), dropped PROVE dropped'
    BY <2>1, Zenon DEF FinishOnboarding
  <2>. QED
    BY <2>1
       DEF Good, WebNext, webVars, web, Account, Send, SendOnboarding, AskBackend,
           RefreshSession, FinishRefresh, LogoutWeb, FinishLogout, Arrive, ExpireAccess
<1>. QED  BY <1>2, <1>3, <1>4, <1>5 DEF Good

LEMMA LandFlows ==
    ASSUME WebInv, NotLanded, NEW n \in Calls, Land(n)
    PROVE  Flow'
<1>1. Unseen(n)
  BY DEF Land, NotLanded, Landing
<1>2. session[n] # 0
  BY DEF Land, WebInv, Finished, Callers
<1>3. Live(n) /\ jar'.refresh = n /\ call' = call /\ tokens' = tokens
  BY <1>1, <1>2 DEF Unseen, Live, Land, Cookies, vars, tables
<1>4. Live(n)' /\ Flying' = {}
  BY <1>3 DEF Live, Deletes, Land, Flying
<1>5. \A t : t = n => Live(t)'
  BY <1>4
<1>. QED  BY <1>3, <1>4, <1>5 DEF Flow

LEMMA DepartsKeeps ==
    ASSUME WebInv, [WebNext]_webVars, ~ loggedOut', NEW p \in Proxies, Departs(p)
    PROVE  /\ proxy'[p].at \notin {"logout", "wait"} /\ proxy'[p].effect = "keep"
           /\ \A q \in Proxies \ {p} : proxy'[q] = proxy[q]
<1>1. /\ proxy[p].at = "idle" /\ proxy'[p].at # "idle"
      /\ \A q \in Proxies \ {p} : proxy'[q] = proxy[q]
  BY LeaveSteps DEF Departs
<1>2. ASSUME NEW q \in Proxies, Answers(q) PROVE FALSE
  <2>1. proxy[q].at # "idle"
    BY <1>2 DEF Answers, AskBackend, RefreshSession, FinishRefresh, FinishOnboarding,
                FinishLogout, Arrive
  <2>2. \A r \in Proxies \ {q} : proxy'[r] = proxy[r]
    <3>1. CASE AskBackend(q) \/ RefreshSession(q) \/ Arrive(q)
      BY <3>1, AskSteps, RefreshSteps, ArriveSteps
    <3>2. CASE FinishRefresh(q) \/ FinishOnboarding(q) \/ FinishLogout(q)
      BY <3>2, FinishSteps
    <3>. QED  BY <1>2, <3>1, <3>2 DEF Answers
  <2>. QED  BY <1>1, <2>1, <2>2
<1>3. \E q \in Proxies : Send(q) \/ SendOnboarding(q)
  BY <1>1, <1>2
     DEF Answers, WebNext, webVars, web, Account, Land, LogoutWeb, ExpireAccess
<1>4. PICK q \in Proxies, path \in {"other", "onboarding"}, at \in {"refresh", "backend"} :
         Leave(q, path, at)
  BY <1>3 DEF Send, SendOnboarding
<1>5. q = p
  BY <1>1, <1>4, LeaveSteps
<1>. QED  BY <1>1, <1>4, <1>5, LeaveSteps

\* Where the live token is, for a request in flight.
Holds(p) ==
    /\ proxy[p].at # "logout" /\ proxy[p].effect # "clear"
    /\ proxy[p].effect = "set" => Live(proxy[p].call)
    /\ ~ Renews(p) => Live(jar.refresh)

LEMMA FlowKept ==
    ASSUME BrowserInv, [WebNext]_webVars
    PROVE  Flow'
<1>. SUFFICES ASSUME Good', \A n \in Calls : ~ Land(n)
              PROVE  Flow'
  BY LandFlows DEF Flow, BrowserInv
<1>0. /\ Good /\ ~ raced /\ ~ raced' /\ ~ loggedOut' /\ ~ dropped' /\ WebInv /\ TypeOK
      /\ \A n \in Calls : call[n].at # "failed"
  BY GoodBefore, RaceLasts DEF BrowserInv, Good, WebInv, WebTypeOK
<1>1. /\ \A p, q \in Flying : p = q
      /\ \A p \in Flying : /\ proxy[p].refresh = jar.refresh
                           /\ Renews(p) => Unseen(proxy[p].call)
      /\ Flying = {} => Live(jar.refresh)
      /\ \A p \in Flying : Holds(p)
  BY <1>0 DEF BrowserInv, Alone, Carried, New, Flow, Holds
<1>2. ASSUME NEW t, Live(t), \A q \in Proxies : ~ RefreshSession(q)
      PROVE  t \in tokens' /\ \A n \in Calls : ~ (call'[n].at = "deleteToken" /\ call'[n].arg = t)
  <2>1. t \in Calls
    BY <1>0, <1>2 DEF Live, TypeOK
  <2>2. Live(t)'
    BY <1>0, <1>2, <2>1, LiveLasts
  <2>. QED  BY <2>2 DEF Live, Deletes
<1>3. SUFFICES /\ Flying' = {} => Live(jar.refresh)'
               /\ \A p \in Flying' : Holds(p)'
  BY DEF Flow, Holds
<1>4. CASE proxy' = proxy /\ jar' = jar
  <2>1. \A q \in Proxies : ~ RefreshSession(q)
    BY <1>0, <1>4, RefreshSteps
  <2>. QED  BY <1>1, <1>2, <1>4, <2>1 DEF Flying, Holds, Renews, Live, Deletes
<1>5. ASSUME NEW p \in Proxies, Departs(p)
      PROVE  /\ Flying' = {} => Live(jar.refresh)'
             /\ \A q \in Flying' : Holds(q)'
  <2>1. Flying = {} /\ jar' = jar
    BY <1>0, <1>5, LeavesAlone DEF BrowserInv, Departs
  <2>2. \A q \in Proxies : ~ RefreshSession(q)
    BY <2>1 DEF RefreshSession, Flying
  <2>3. /\ proxy'[p].at \notin {"logout", "wait"} /\ proxy'[p].effect = "keep"
        /\ \A q \in Proxies \ {p} : proxy'[q] = proxy[q]
    BY <1>0, <1>5, DepartsKeeps
  <2>4. \A q \in Flying' : q = p
    BY <2>1, <2>3 DEF Flying
  <2>. QED  BY <1>1, <1>2, <2>1, <2>2, <2>3, <2>4 DEF Holds, Renews, Live, Deletes
<1>6. ASSUME NEW p \in Proxies, Answers(p)
      PROVE  /\ Flying' = {} => Live(jar.refresh)'
             /\ \A q \in Flying' : Holds(q)'
  <2>. DEFINE Kept(t) == t \in tokens' /\ \A n \in Calls :
                             ~ (call'[n].at = "deleteToken" /\ call'[n].arg = t)
  <2>1. p \in Flying
    BY <1>6 DEF Answers, AskBackend, RefreshSession, FinishRefresh, FinishOnboarding,
                FinishLogout, Arrive, Flying
  <2>2. /\ Holds(p) /\ proxy[p].refresh = jar.refresh
        /\ Renews(p) => Unseen(proxy[p].call)
        /\ \A q \in Flying : q = p
    BY <1>1, <2>1
  <2>3. \A q \in Proxies : RefreshSession(q) => q = p /\ proxy[p].at = "refresh"
    BY <2>2 DEF RefreshSession, Flying
  <2>4. ASSUME \A q \in Proxies \ {p} : proxy'[q] = proxy[q], proxy'[p].at # "idle", Holds(p)'
        PROVE  /\ Flying' = {} => Live(jar.refresh)'
               /\ \A q \in Flying' : Holds(q)'
    <3>1. \A q \in Flying' : q = p
      BY <2>2, <2>4 DEF Flying
    <3>2. p \in Flying'
      BY <2>4 DEF Flying
    <3>. QED  BY <2>4, <3>1, <3>2
  <2>5. CASE AskBackend(p)
    <3>1. Holds(p)'
      BY <1>2, <2>2, <2>3, <2>5, AskSteps, <1>0 DEF Holds, Renews, Live, Deletes
    <3>. QED  BY <1>0, <2>4, <2>5, <3>1, AskSteps
  <2>6. CASE RefreshSession(p)
    <3>1. ~ Renews(p)
      BY <1>0, <2>6, RefreshSteps DEF WebInv, ProxyKnows, Renews
    <3>2. proxy[p].refresh \in tokens
      BY <2>2, <3>1 DEF Holds, Live
    <3>3. proxy'[p].at = "wait" /\ proxy'[p].effect = proxy[p].effect
      BY <1>0, <2>6, <3>2, RefreshSteps
    <3>4. Holds(p)'
      BY <2>2, <3>1, <3>3 DEF Holds, Renews
    <3>. QED  BY <1>0, <2>4, <2>6, <3>3, <3>4, RefreshSteps
  <2>7. CASE FinishRefresh(p) \/ FinishOnboarding(p) \/ FinishLogout(p)
    <3>0. ProxyKnows(p)
      BY <1>0 DEF WebInv
    <3>1. /\ proxy'[p].call = proxy[p].call /\ proxy'[p].at \in {"again", "answer"}
          /\ \A q \in Proxies \ {p} : proxy'[q] = proxy[q]
          /\ jar' = jar /\ call' = call /\ tokens' = tokens
      BY <1>0, <2>7, FinishSteps DEF vars, tables
    <3>2. \/ proxy[p].at = "wait" /\ proxy'[p].effect = "set" /\ call[proxy[p].call].at = "done"
          \/ proxy[p].at = "work" /\ proxy'[p].effect = "onboarded" /\ proxy[p].effect # "set"
      BY <1>0, <2>2, <2>7, <3>0, FinishSteps DEF Holds, ProxyKnows
    <3>3. ASSUME proxy[p].at = "wait", proxy'[p].effect = "set",
                 call[proxy[p].call].at = "done"
          PROVE  Holds(p)'
      <4>1. Unseen(proxy[p].call)
        BY <2>2, <3>3 DEF Renews
      <4>2. session[proxy[p].call] # 0
        BY <1>0, <3>0, <3>3 DEF WebInv, Finished, ProxyKnows, Callers
      <4>. QED  BY <3>1, <3>3, <4>1, <4>2 DEF Holds, Renews, Unseen, Live, Deletes
    <3>4. ASSUME proxy[p].at = "work", proxy'[p].effect = "onboarded", proxy[p].effect # "set"
          PROVE  Holds(p)'
      BY <2>2, <3>1, <3>4 DEF Holds, Renews, Live, Deletes
    <3>. QED  BY <2>4, <3>1, <3>2, <3>3, <3>4
  <2>8. CASE Arrive(p)
    <3>1. /\ proxy[p].at = "answer" /\ proxy'[p].at = "idle"
          /\ \A q \in Proxies \ {p} : proxy'[q] = proxy[q]
          /\ call' = call /\ tokens' = tokens
      BY <1>0, <2>8, ArriveSteps DEF vars, tables
    <3>2. Flying' = {}
      BY <2>2, <3>1 DEF Flying
    <3>3. jar'.refresh = IF proxy[p].effect = "set" THEN proxy[p].call ELSE jar.refresh
      BY <1>0, <2>2, <2>8, ArriveSteps DEF Holds
    <3>4. Live(jar.refresh)'
      BY <2>2, <3>1, <3>3 DEF Holds, Renews, Live, Deletes
    <3>. QED  BY <3>2, <3>4
  <2>. QED  BY <1>6, <2>5, <2>6, <2>7, <2>8 DEF Answers
<1>. QED  BY <1>0, <1>4, <1>5, <1>6, WhoMoves

LEMMA BrowserBegin ==
    ASSUME WebInit
    PROVE  BrowserInv
<1>1. /\ \A n \in Calls : call[n].at = "idle" /\ call[n].kind = "none" /\ session[n] = 0
      /\ \A p \in Proxies : proxy[p].at = "idle" /\ proxy[p].refresh = 0
      /\ tokens = {} /\ landed = {}
  BY DEF WebInit, Init, NoCall, NoRequest
<1>2. Issued /\ NotLanded
  BY <1>1 DEF Issued, NotLanded, Landing
<1>3. Alone /\ Carried /\ New /\ Flow
  BY <1>1 DEF Alone, Carried, New, Flow, Flying, Good
<1>. QED  BY <1>2, <1>3, WebBegin DEF BrowserInv

\* Through any number of expiries and rotations a browser keeps a live refresh token, as
\* long as no two of its requests carried the same one at once, no API call failed and no
\* onboarding dropped a renewed session: whatever deletes a token got it from the browser,
\* and what replaces it arrives with the answer (refreshSession, sendToBackend).
THEOREM BrowserSurvives == WebSpec => []SessionSurvives
<1>1. WebInit => BrowserInv
  BY BrowserBegin
<1>2. BrowserInv /\ [WebNext]_webVars => BrowserInv'
  BY WebKept, IssuedKept, NotLandedKept, AloneKept, NewKept, FlowKept DEF BrowserInv
<1>3. BrowserInv => SessionSurvives
  BY DEF BrowserInv, Flow, Flying, Good, Live, Quiet, SessionSurvives
<1>. QED  BY <1>1, <1>2, <1>3, PTL DEF WebSpec
=============================================================================
