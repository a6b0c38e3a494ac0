------------------------------ MODULE Accounts ------------------------------
(***************************************************************************)
(* One e-mail address and everything the API keeps for it: the user row,   *)
(* its social identities, the pending verification code, the organizations *)
(* the user owns with their environments, and the refresh tokens.          *)
(*                                                                         *)
(* A call is one HTTP request.  It runs as one goroutine and every SQL     *)
(* statement is a transaction of its own, so a call is a chain of steps    *)
(* (call[n].at names the next statement) that interleaves freely with the  *)
(* other calls and may stop after any statement (Fail: a statement returns *)
(* an error, the client goes away or the process dies).                    *)
(*                                                                         *)
(* Calls are numbered in the order in which they begin.  What call n       *)
(* creates carries its number: organization n, refresh token n.  A call    *)
(* that is rejected at its first read changes nothing and is left out, and *)
(* so is expiry: an expired code or token is one that is not presented.    *)
(***************************************************************************)
EXTENDS Integers, FiniteSets

CONSTANTS MaxCalls,    \* bound on the number of calls
          MaxRunning,  \* bound on the calls in flight at a time
          MaxFaults,   \* bound on the number of calls that stop half-way
          Kinds,       \* the operations a run explores
          Providers    \* social sign-in providers

ASSUME AccountsAssumption ==
    /\ MaxCalls \in Nat \ {0}
    /\ MaxFaults \in Nat

Calls == 1..MaxCalls

VARIABLES user,          \* the users row of the address
          identities,    \* providers linked to it (auth_identities)
          verification,  \* the code its email_verifications row holds, 0: no row
          issued,        \* codes generated so far; the newest is number issued
          orgs,          \* organizations, memberships and environments
          tokens,        \* rows of refresh_tokens
          session,       \* session[n]: organization claim of the JWT of call n, 0: none
          call,          \* the state of each request
          clock,         \* the last timestamp taken
          faults         \* calls stopped half-way so far

tables == <<user, identities, verification, issued, orgs, tokens, session>>
vars   == <<tables, call, clock, faults>>

Environments == {"development", "production"}
TenantSteps  == {"membership", "environment", "organization", "member",
                 "development", "production"}
Running      == TenantSteps \cup
                {"identity", "account", "createUser", "verifyLinked", "verifyUser",
                 "link", "setVerified", "deleteCode", "setPassword", "deleteReset",
                 "sendCode", "issue", "deleteToken", "nameOrg", "setOnboarded",
                 "readDefault", "newOrg", "joinOrg"}

User == [exists: BOOLEAN, password: BOOLEAN, verified: BOOLEAN, onboarded: BOOLEAN]
Org  == [created: BOOLEAN, since: Nat, envs: SUBSET Environments, named: BOOLEAN]
Call == [kind: Kinds \cup {"none"}, at: Running \cup {"idle", "done", "failed"},
         arg: Nat, by: Providers \cup {"password"}, now: Nat, org: Calls \cup {0},
         needs: BOOLEAN,       \* needs_onboarding of its answer
         sawTenant: BOOLEAN]   \* the user had an organization when it began

NoOrg  == [created |-> FALSE, since |-> 0, envs |-> {}, named |-> FALSE]
NoCall == [kind |-> "none", at |-> "idle", arg |-> 0, by |-> "password", now |-> 0,
           org |-> 0, needs |-> TRUE, sawTenant |-> FALSE]

\* Every column and every request stays within its domain.
TypeOK ==
    /\ user \in User
    /\ identities \subseteq Providers
    /\ verification \in 0..issued
    /\ issued \in Nat
    /\ orgs \in [Calls -> Org]
    /\ tokens \subseteq Calls
    /\ session \in [Calls -> Calls \cup {0}]
    /\ call \in [Calls -> Call]
    /\ clock \in Nat
    /\ faults \in 0..MaxFaults

Init ==
    /\ user = [exists |-> FALSE, password |-> FALSE, verified |-> FALSE, onboarded |-> FALSE]
    /\ identities = {}
    /\ verification = 0
    /\ issued = 0
    /\ orgs = [n \in Calls |-> NoOrg]
    /\ tokens = {}
    /\ session = [n \in Calls |-> 0]
    /\ call = [n \in Calls |-> NoCall]
    /\ clock = 0
    /\ faults = 0

\* Organizations the user is a member of.
Owned == {o \in Calls : orgs[o].since # 0}

\* Mutated form: the membership with the newest created_at.
IsPrimary_Newest(o) == o \in Owned /\ \A p \in Owned : orgs[o].since >= orgs[p].since

\* GetFirstOrganizationMembershipByUser: the membership with the oldest created_at.
IsPrimary(o) == o \in Owned /\ \A p \in Owned : orgs[o].since <= orgs[p].since

----------------------------------------------------------------------------
(* How a call advances. *)

\* n is the next call, and there is room for one more in flight.
Fresh(n) ==
    /\ call[n].kind = "none"
    /\ \A m \in 1..(n - 1) : call[m].kind # "none"
    /\ Cardinality({m \in Calls : call[m].at \in Running}) < MaxRunning

\* The request of call n arrives and passes its first read.
Begin(n, kind, at, arg, by, now) ==
    /\ kind \in Kinds
    /\ Fresh(n)
    /\ call' = [call EXCEPT ![n] = [kind |-> kind, at |-> at, arg |-> arg, by |-> by,
                                    now |-> now, org |-> 0, needs |-> ~user.onboarded,
                                    sawTenant |-> Owned # {}]]
    /\ clock' = IF now = 0 THEN clock ELSE now
    /\ UNCHANGED <<tables, faults>>

\* Call n executes the statement `here` and goes on with the statement `there`.
Step(n, here, there) ==
    /\ call[n].at = here
    /\ call' = [call EXCEPT ![n].at = there]
    /\ UNCHANGED <<clock, faults>>

\* The statement `here` breaks a UNIQUE constraint: the call answers with an error.
Conflict(n, here) ==
    /\ Step(n, here, "failed")
    /\ UNCHANGED tables

----------------------------------------------------------------------------
(* The requests. *)

\* POST /auth/signup: no user has this address yet.
Signup(n) ==
    /\ ~user.exists
    /\ Begin(n, "signup", "createUser", 0, "password", clock + 1)

\* GET /auth/social/{provider}/callback
SigninWithSocial(n, p) == Begin(n, "social", "identity", 0, p, clock + 1)

\* Mutated form: a user whose e-mail is not verified may sign in.
Signin_Unverified(n) ==
    /\ user.exists
    /\ user.password
    /\ Begin(n, "signin", "membership", 0, "password", clock + 1)

\* POST /auth/signin with the right password
Signin(n) ==
    /\ user.exists
    /\ user.verified
    /\ user.password
    /\ Begin(n, "signin", "membership", 0, "password", clock + 1)

\* A code is accepted when it is the one in the row.
Accepts(code) == user.exists /\ code # 0 /\ verification = code

\* POST /auth/verify-email
VerifyEmail(n, code) ==
    /\ Accepts(code)
    /\ Begin(n, "verify", "setVerified", code, "password", clock + 1)

\* POST /auth/reset-password
ResetPassword(n, code) ==
    /\ Accepts(code)
    /\ Begin(n, "reset", "setPassword", code, "password", 0)

\* POST /auth/resend-verification
ResendVerification(n) ==
    /\ user.exists
    /\ ~user.verified
    /\ Begin(n, "resend", "sendCode", 0, "password", 0)

\* POST /auth/forgot-password
ForgotPassword(n) ==
    /\ user.exists
    /\ Begin(n, "forgot", "sendCode", 0, "password", 0)

\* POST /auth/refresh
Refresh(n, t) ==
    /\ t \in tokens
    /\ user.verified
    /\ Begin(n, "refresh", "deleteToken", t, "password", 0)

\* POST /auth/logout
Logout(n, t) == Begin(n, "logout", "deleteToken", t, "password", 0)

\* POST /auth/onboarding: names the first organization of the user, not the
\* organization of the presented JWT.
CompleteOnboarding(n) ==
    /\ \E m \in Calls : session[m] # 0
    /\ \E o \in Calls :
        /\ IsPrimary(o)
        /\ "onboard" \in Kinds
        /\ Fresh(n)
        /\ call' = [call EXCEPT ![n] = [NoCall EXCEPT !.kind = "onboard", !.at = "nameOrg",
                                                !.org = o, !.sawTenant = TRUE]]
    /\ UNCHANGED <<tables, clock, faults>>

\* POST /organizations
CreateOrganization(n) ==
    /\ \E m \in Calls : session[m] # 0
    /\ Begin(n, "organization", "newOrg", 0, "password", 0)

----------------------------------------------------------------------------
(* The statements on the user, its identities and its code. *)

\* SigninWithSocial reads the users row, and with it whether onboarding is due.
ReadUser(n, here, there) ==
    /\ call[n].at = here
    /\ call' = [call EXCEPT ![n] = [@ EXCEPT !.at = there, !.needs = ~user.onboarded]]
    /\ UNCHANGED <<clock, faults, tables>>

\* ... by the identity of the provider,
ReadIdentity(n) ==
    IF call[n].by \in identities
    THEN ReadUser(n, "identity", IF user.verified THEN "membership" ELSE "verifyLinked")
    ELSE Step(n, "identity", "account") /\ UNCHANGED tables

\* ... or, when it is not linked, by e-mail.
ReadAccount(n) ==
    ReadUser(n, "account", IF ~user.exists THEN "createUser"
                           ELSE IF user.verified THEN "link" ELSE "verifyUser")

\* INSERT INTO users; users.email is UNIQUE.
CreateUser(n) ==
    \/ user.exists /\ Conflict(n, "createUser")
    \/ /\ ~user.exists
       /\ Step(n, "createUser", IF call[n].kind = "signup" THEN "membership" ELSE "link")
       /\ user' = [exists |-> TRUE, password |-> call[n].kind = "signup",
                   verified |-> call[n].kind = "social", onboarded |-> FALSE]
       /\ UNCHANGED <<identities, verification, issued, orgs, tokens, session>>

\* UPDATE users SET email_verified_at, from a social sign-in or a verification.
SetVerified(n) ==
    /\ \/ Step(n, "verifyLinked", "membership")
       \/ Step(n, "verifyUser", "link")
       \/ Step(n, "setVerified", "deleteCode")
    /\ user' = [user EXCEPT !.verified = TRUE]
    /\ UNCHANGED <<identities, verification, issued, orgs, tokens, session>>

\* INSERT INTO auth_identities; UNIQUE (user_id, provider).
LinkIdentity(n) ==
    \/ call[n].by \in identities /\ Conflict(n, "link")
    \/ /\ call[n].by \notin identities
       /\ Step(n, "link", "membership")
       /\ identities' = identities \cup {call[n].by}
       /\ UNCHANGED <<user, verification, issued, orgs, tokens, session>>

\* Mutated form: ON CONFLICT DO NOTHING, the new code goes out and the old one stays.
SendCode_KeepsOld(n) ==
    /\ Step(n, "sendCode", "done")
    /\ issued' = issued + 1
    /\ verification' = IF verification = 0 THEN issued + 1 ELSE verification
    /\ UNCHANGED <<user, identities, orgs, tokens, session>>

\* createAndSendVerification: the upsert replaces the code of the row; the
\* e-mail leaves in a goroutine of its own and may be late or lost.
SendCode(n) ==
    /\ Step(n, "sendCode", "done")
    /\ issued' = issued + 1
    /\ verification' = issued + 1
    /\ UNCHANGED <<user, identities, orgs, tokens, session>>

\* DELETE FROM email_verifications WHERE user_id: whatever code the row holds now.
DeleteCode(n) ==
    /\ \/ Step(n, "deleteCode", "membership")
       \/ Step(n, "deleteReset", "done")
    /\ verification' = 0
    /\ UNCHANGED <<user, identities, issued, orgs, tokens, session>>

\* UPDATE users SET password_hash
SetPassword(n) ==
    /\ Step(n, "setPassword", "deleteReset")
    /\ user' = [user EXCEPT !.password = TRUE]
    /\ UNCHANGED <<identities, verification, issued, orgs, tokens, session>>

----------------------------------------------------------------------------
(* ensurePrimaryTenant, statement by statement. *)

Enter(n, here, there, o) ==
    /\ call[n].at = here
    /\ call' = [call EXCEPT ![n] = [@ EXCEPT !.at = there, !.org = o]]
    /\ UNCHANGED <<clock, faults>>

\* The first membership of the user, or a new organization when there is none.
ReadMembership(n) ==
    /\ \/ \E o \in Calls : IsPrimary(o) /\ Enter(n, "membership", "environment", o)
       \/ Owned = {} /\ Enter(n, "membership", "organization", n)
    /\ UNCHANGED tables

\* Where a call goes once its tenant is known.
AfterTenant(n) == IF call[n].kind = "signup" THEN "sendCode" ELSE "issue"

\* "development" is the environment created with is_default.
HasDefault(o) == "development" \in orgs[o].envs

\* GetDefaultEnvironmentByOrganization
ReadEnvironment(n) ==
    /\ Step(n, "environment", IF HasDefault(call[n].org) THEN AfterTenant(n) ELSE "development")
    /\ UNCHANGED tables

\* INSERT INTO organizations
InsertOrganization(n) ==
    /\ Step(n, "organization", "member")
    /\ orgs' = [orgs EXCEPT ![n].created = TRUE]
    /\ UNCHANGED <<user, identities, verification, issued, tokens, session>>

\* INSERT INTO organization_members, dated when the call took its timestamp.
InsertMember(n) ==
    /\ Step(n, "member", "development")
    /\ orgs' = [orgs EXCEPT ![n].since = call[n].now]
    /\ UNCHANGED <<user, identities, verification, issued, tokens, session>>

\* INSERT INTO environments; UNIQUE (organization_id, name).
InsertEnvironment(n, e, there) ==
    LET o == call[n].org
    IN  \/ /\ Conflict(n, e)
           /\ e \in orgs[o].envs
        \/ /\ Step(n, e, there)
           /\ e \notin orgs[o].envs
           /\ orgs' = [orgs EXCEPT ![o].envs = @ \cup {e}]
           /\ UNCHANGED <<user, identities, verification, issued, tokens, session>>

\* Mutated form: only the default environment is created.
SeedEnvironments_DefaultOnly(n) == InsertEnvironment(n, "development", AfterTenant(n))

\* createSeedEnvironments
SeedEnvironments(n) ==
    \/ InsertEnvironment(n, "development", "production")
    \/ InsertEnvironment(n, "production", AfterTenant(n))

----------------------------------------------------------------------------
(* Sessions, onboarding, further organizations. *)

\* newAuthResult: sign the JWT, store the refresh token, answer with both.
IssueSession(n) ==
    /\ Step(n, "issue", "done")
    /\ session' = [session EXCEPT ![n] = call[n].org]
    /\ tokens' = tokens \cup {n}
    /\ UNCHANGED <<user, identities, verification, issued, orgs>>

\* DELETE FROM refresh_tokens WHERE token_hash: no row deleted is no error.  Refresh
\* takes its timestamp afterwards.
DeleteToken(n) ==
    /\ call[n].at = "deleteToken"
    /\ tokens' = tokens \ {call[n].arg}
    /\ IF call[n].kind = "logout"
       THEN /\ call' = [call EXCEPT ![n].at = "done"]
            /\ UNCHANGED clock
       ELSE /\ call' = [call EXCEPT ![n] = [@ EXCEPT !.at = "membership", !.now = clock + 1]]
            /\ clock' = clock + 1
    /\ UNCHANGED <<faults, user, identities, verification, issued, orgs, session>>

\* UPDATE organizations SET name
NameOrganization(n) ==
    /\ Step(n, "nameOrg", "setOnboarded")
    /\ orgs' = [orgs EXCEPT ![call[n].org].named = TRUE]
    /\ UNCHANGED <<user, identities, verification, issued, tokens, session>>

\* UPDATE users SET onboarding_completed_at
SetOnboarded(n) ==
    /\ Step(n, "setOnboarded", "readDefault")
    /\ user' = [user EXCEPT !.onboarded = TRUE]
    /\ UNCHANGED <<identities, verification, issued, orgs, tokens, session>>

\* The answer names the default environment; without one it is an error, after all that.
ReadDefault(n) ==
    /\ Step(n, "readDefault", IF HasDefault(call[n].org) THEN "done" ELSE "failed")
    /\ UNCHANGED tables

\* organization.Service.Create: the row, named by the request ...
InsertNamedOrganization(n) ==
    /\ Step(n, "newOrg", "joinOrg")
    /\ orgs' = [orgs EXCEPT ![n].created = TRUE, ![n].named = TRUE]
    /\ UNCHANGED <<user, identities, verification, issued, tokens, session>>

\* ... then the membership, dated now.  No environment is created.
JoinOrganization(n) ==
    /\ call[n].at = "joinOrg"
    /\ call' = [call EXCEPT ![n].at = "done"]
    /\ orgs' = [orgs EXCEPT ![n].since = clock + 1]
    /\ clock' = clock + 1
    /\ UNCHANGED <<faults, user, identities, verification, issued, tokens, session>>

\* Call n stops where it is: the tables keep what it wrote.
Fail(n) ==
    /\ faults < MaxFaults
    /\ call[n].at \in Running
    /\ call' = [call EXCEPT ![n].at = "failed"]
    /\ faults' = faults + 1
    /\ UNCHANGED <<tables, clock>>

----------------------------------------------------------------------------

Request(n) ==
    \/ Signup(n)
    \/ \E p \in Providers : SigninWithSocial(n, p)
    \/ Signin(n)
    \/ VerifyEmail(n, verification)
    \/ ResetPassword(n, verification)
    \/ ResendVerification(n)
    \/ ForgotPassword(n)
    \/ \E t \in tokens : Refresh(n, t)
    \/ \E t \in tokens : Logout(n, t)
    \/ CompleteOnboarding(n)
    \/ CreateOrganization(n)

Statement(n) ==
    \/ ReadIdentity(n)
    \/ ReadAccount(n)
    \/ CreateUser(n)
    \/ SetVerified(n)
    \/ LinkIdentity(n)
    \/ SendCode(n)
    \/ DeleteCode(n)
    \/ SetPassword(n)
    \/ ReadMembership(n)
    \/ ReadEnvironment(n)
    \/ InsertOrganization(n)
    \/ InsertMember(n)
    \/ SeedEnvironments(n)
    \/ IssueSession(n)
    \/ DeleteToken(n)
    \/ NameOrganization(n)
    \/ SetOnboarded(n)
    \/ ReadDefault(n)
    \/ InsertNamedOrganization(n)
    \/ JoinOrganization(n)

Next == \E n \in Calls : Request(n) \/ Statement(n) \/ Fail(n)

Spec == Init /\ [][Next]_vars

----------------------------------------------------------------------------
(* Properties. *)

\* A JWT the API hands out names an organization the user belongs to and whose
\* default environment exists, and belongs to a verified user, however sign-ins,
\* verifications and refreshes interleave and wherever earlier calls stopped
\* (newAuthResult after ensurePrimaryTenant; the middleware that resolves the
\* environment of the claim finds one).
SessionsHaveTenant ==
    \A n \in Calls : session[n] # 0 =>
        /\ user.verified
        /\ session[n] \in Owned
        /\ HasDefault(session[n])

\* ensurePrimaryTenant is a check followed by inserts, run by every sign-in.  The
\* organization that the next sign-in resolves to can still move, but only because
\* of a call that began before the user had any organization: once a call that
\* began later has an answer, its organization is not displaced by calls that
\* begin later still, by a refresh, or by POST /organizations.
PrimaryStable ==
    [][\A o \in Calls : IsPrimary(o) /\ ~IsPrimary(o)' =>
        \E n \in Calls : call[n].at = "member" /\ ~call[n].sawTenant]_vars

\* As long as no statement fails, racing calls leave no half-seeded organization
\* behind: with no call running, every organization that a sign-in created has its
\* member and both environments, although the losers of the race stop on the
\* UNIQUE constraint in the middle of createSeedEnvironments.
SeedsComplete ==
    faults = 0 /\ (\A n \in Calls : call[n].at \notin Running) =>
        \A o \in Calls : orgs[o].created /\ call[o].kind # "organization" =>
            o \in Owned /\ orgs[o].envs = Environments

\* Onboarding is never marked complete for a user none of whose sign-up organizations
\* was named, whatever stopped on the way and however many racing sign-ins made (the
\* name of the oldest is written before the flag; an organization that the user named
\* when creating it does not count).
OnboardedNamesTenant ==
    user.onboarded => \E o \in Owned : orgs[o].named /\ call[o].kind # "organization"

\* The verification row never falls back to an older code: it holds the newest code
\* or nothing, and it is empty only when a call that presented a correct code got as
\* far as deleting the row (a resend that races such a call can lose its code).
NewestCodeStands ==
    \/ verification = issued
    \/ /\ verification = 0
       /\ \E n \in Calls : \/ call[n].kind = "reset" /\ call[n].at \in {"done", "failed"}
                           \/ call[n].kind = "verify" /\ call[n].at \notin {"setVerified", "deleteCode"}
=============================================================================
