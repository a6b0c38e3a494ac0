# A formal model of iwifunni

This directory holds TLA+ modules that model the notification platform under
`src/`, the TLC configurations that model-check them, and theorems about them
checked by TLAPS. `PROJECT.json` maps every definition to the lines of code it
stands for.

- [1. The system](#1-the-system): inventory of the components
- [2. The modules](#2-the-modules): what each models and how it corresponds to the code
- [3. The runs](#3-the-runs): what is checked, on which bounds, and what it shows
- [4. The proofs](#4-the-proofs): what is proved, from what, and how
- [5. Disagreements](#5-disagreements-between-the-code-and-what-is-said-of-it)
- [6. What is not modelled](#6-what-is-not-modelled-or-only-in-part)
- [7. Plan](#7-plan)

## 1. The system

The program is a multi-tenant notification service in Go: an API process, a
worker process, PostgreSQL for all durable state and Redis for an
[asynq](https://github.com/hibiken/asynq) task queue. A dashboard in
TypeScript (Next.js) uses the API through a session proxy of its own.

```
 client --trigger--> workflow.Service --workflow:step--> [queue] --> ProcessStep --+
                                                           ^                       |
                                                           +---- next steps -------+
                                                           |                       |
 client --send-----> notification.Handler --notification:send <--- notification ---+
                                                           |
                                                           v
                            notification.Service.send --> providers (mail, SMS, push)
                                                           |
                                                           v
                            webhooks.Dispatcher --webhook:deliver--> [queue] --> POST
```

| Component | State it keeps | Operations | What is hard | What makes it correct |
|---|---|---|---|---|
| **Workflow runtime** (`modules/workflow/runtime.go`, `worker.go`) | `workflow_executions`, `workflow_step_executions`, tasks and unique locks in the queue | `ProcessStep`: load, begin, dispatch by node type, complete, enqueue successors | every call is separate; handlers of several tasks interleave; a task is retried from the top after any failure; branches join; locks lapse | a step runs only when an edge leads to it; no successor is forgotten; one task per step; every task ends; rows agree with what happened |
| **Workflow service** (`service.go`) | `workflows` (definition, status, version) | `TriggerEvent`, `Create`, `Update`, `Pause`, `Resume`, `Delete` | edits land between two steps of an execution in flight; the row is written before the enqueue | an edit never lets a step run that no saved version allows |
| **Definition validation** (`validator.go`) | none | `ValidateDefinition`, `hasCycle` | graph algorithm on raw ids | every accepted definition is acyclic, with a unique id per node and edges between nodes |
| **Queue** (`queue/asyncq.go`, asynq) | pending, active, archived tasks; unique locks with a TTL | `Enqueue*`, retry, archive, acknowledge | at-least-once, lock collisions, exhaustion | retries are bounded; a lock keeps a payload single |
| **Notification sending** (`modules/notification`) | `notifications`, `delivery_attempts` | `PrepareJob`, `triggerWorkflow`, `create`, `testSend`, `send`, `deliverProjectChannel` | a send is a sequence of provider calls and writes and is re-run after a crash; some errors are swallowed | the status agrees with the attempts and with what providers took; at most one provider per channel and run; every job settles |
| **Webhooks** (`modules/webhooks`) | `webhooks`, `webhook_deliveries` | `Create`, `Delete`, `Dispatch`, `Execute` | a hook is deleted while its deliveries are queued or retried | no "sent" event without a message; no request to a deleted hook but one in flight; no lost event |
| **Integrations** (`modules/integration`) | `integrations`: active and primary per channel | `Create`, `Update`, `UpdateState` (enable, disable, set_primary), `Delete` | check-then-act outside a transaction; transactions at READ COMMITTED | at most one primary, which is active; a channel in use has one |
| **Accounts** (`modules/auth`, `modules/organization`) | `users`, identities, organizations, members, environments, verifications, refresh tokens | `Signup`, `SigninWithSocial`, `Signin`, `VerifyEmail`, `ResetPassword`, `ResendVerification`, `ForgotPassword`, `RefreshSession`, `Logout`, `CompleteOnboarding`, `CreateOrganization` | chains of statements without a transaction; concurrent sign-ins; a request that dies half-way | a session always names a usable tenant; the primary tenant is stable; the newest code counts |
| **Session proxy** (`web/src/app/api`, `web/src/lib`) | cookies of the browser: access, refresh, needs_onboarding | `proxyBackend` with refresh and second attempt, the onboarding route, logout, sign-in | several requests in flight renew one single-use refresh token; answers arrive in any order | the cookies stay usable; who is past onboarding has onboarded |
| **Rate limiter, API keys** (`utils/ratelimit`, `middleware`, `modules/apikey`) | a Redis counter per key, `apikeys` | authentication, `Allow`, last_used_at, `Create`, `Delete` | INCR and EXPIRE are two commands | the rate is bounded, and the window ends |
| **Subscribers** (`modules/subscriber`, `notification/service.go`) | `subscribers` | create, update and delete from the dashboard; find, update or create from a send; second read by a workflow send | read, merge and write of a whole row; second read | a send changes only what it names and reaches the addresses it names |
| **Builder canvas** (`web/src/features/workflows/draft`, `store/builder`) | the draft of a definition | open, add, insert on an edge, duplicate, remove, save | edits written for a path, applied to any accepted graph | the canvas stays a definition the API accepts; a path stays a path |
| **Builder saving** (`use-workflow-builder-draft.ts`, `use-channel-config.ts`) | page state, autosave timer, query cache, the row | edit, autosave, fetch, re-sync, channel page | saves and fetches overtake each other and fail; two pages with a copy each | what is shown is what is stored; edits are not lost |
| **Canvas host** (`use-workflow-builder.ts`, `WorkflowBuilderCanvas.tsx`, `store/builder`) | the canvas store, the page's draft, the memory of two effects | edit, select, hand on, replace | a transition and an effect, each of which React runs when it finds time | the canvas shows what the page saves, and that is what the user made last |
| **Test-send panel** (`definition-builder/inspector`) | drawer, form, the send observed, the notification shown, polls | open, close, change the recipient or the payload, send, poll | answers of old sends and polls arrive after the form changed or the panel was closed | what is shown belongs to the form; final means complete |
| **Channel page** (`workflows/configure`, `use-channel-config.ts`, `use-test-notification.ts`, `sender-settings`) | editors, two timers, saves; preview person, rendered preview, test dialog; the sender and the drawer's copy of it | open, type, save template and workflow, pick a person, render, send a test, edit the sender | two-step saves overlap, fail in the middle and outlive their page; profile, search and HTML arrive late | what is shown is stored, old text never replaces new, a test is what is shown |
| **Workflow list** (`features/workflows`) | its own copy of the list, dialogs, menus | create, pause, resume, delete, open the builder | operations overlap, outlive their dialogs and the page | the page settles, on what the user asked last |
| **Providers page** (`features/integrations`) | query cache, dialog with its form, busy cards | connect, edit (two requests), enable, disable, set primary, disconnect | a save is two requests around a new list; other sessions change the table | a save does what its dialog said, and nothing else |
| **Subscribers page** (`features/subscribers`) | query cache, a sheet that stays mounted, dialogs | create, update with preferences, delete | answers after the sheet went on to somebody else; a failed fetch replaces the page | a save keeps the channels shown, of the person shown |
| **API key page** (`features/settings/apikey`) | query cache, dialogs, the secret | generate, show once, delete | the page or dialog is gone when the secret arrives | nobody who waits misses the secret |
| **Auth pages** (`features/auth`, `app/(auth)`) | the page shown, the reset wizard, the cached profile, the cookies | sign in, register, verify, onboard, reset a password, sign out, expire | answers that redirect from a page the user has left | the page fits the cookies; nobody sees another's profile |
| **CRUD** (`templates`, `stats`) | `templates`; none | single statements, read-only aggregates | — | scoping by environment |
| **Providers and channels** (`providers`, `channels`, `registry`) | none | `Send` | external services | one attempt reported per destination |
| **Wiring** (`cmd`, `app`, `config`, `storage`) | none | start, graceful stop | — | — |
| **Statistics, notifications, activities, layout** (`web`) | filters, tables | fetch and show | — | — |

The hazards of this code, each at its line, are listed in `PROJECT.json`
under `hazards`, with the properties that would catch them.

## 2. The modules

### WorkflowGraph

The shape of a definition and the pure functions the runtime is built from.
A definition is a record of its `nodes` and `edges`, both sequences because their
order decides which first step is chosen and in which order successors are
enqueued, and of the `type` of each node. `WellFormed` is what `ValidateDefinition` guarantees,
apart from acyclicity, which no property here needs; `IsFirstStep`
is `firstStepID`, `NextEdges` is `nextNodeIDs`, `NextOf` is what the switch in
`ProcessStep` passes on for a payload. A payload is abstracted to the set of
condition nodes it satisfies: nothing else in it decides control.

Equal edges are kept apart (they are elements of a sequence), because the
validator accepts them and the runtime then enqueues the same step twice.

### WorkflowRuntime

One action per call that `TriggerEvent` and `ProcessStep` make:

| Action | Code |
|---|---|
| `CreateExecution`, `EnqueueFirst`, `EnqueueFirstFails` | `TriggerEvent`: the row, then the enqueue |
| `UpdateDefinition`, `Pause`, `Resume`, `Delete` | the edits, any status to any status, as in the code |
| `PickUp`, `Acknowledge`, `GiveUpOrRetry`, `Archive`, `LockLapses` | asynq |
| `LoadWorkflow`, `LookupStep` | the reads at the top of `ProcessStep`; what was read is kept in `worker` and may be stale |
| `BeginStep`, `BeginStepRejected` | insert or update of the step's row; the insert is refused by the unique key or by NOT NULL |
| `MarkRunning` | the execution's row, then the switch on the node type |
| `EnqueueNotification`, `NotificationFails` | `handleNotificationStep` |
| `CompleteStep`, `DispatchNext`, `DispatchDuplicate`, `FinishExecution` | `completeCurrentAndDispatchNext`, and `handleDelayStep`, which enqueues before it completes |
| `FailStep`, `FailExecution` | `failCurrentStep` |
| `HandlerFails` | any other call fails, the task times out or the process dies: asynq sees an error and the rows stay as they are |

A task is `<<execution, step, slot>>`: several tasks of one step may coexist
only after a lock lapsed, and `TasksPerStep` bounds how many. A delayed task
and a task that waits for its retry are pending tasks; the order in which
pending tasks are picked up is arbitrary, so no delay is assumed to be kept.
An effect whose reply is lost is the action followed by `HandlerFails`;
`NotificationFails` has that case in its own disjunct, because the code
continues with `failCurrentStep`.

What is assumed of asynq: a handler that returns an error, times out or dies
is retried until `MaxRetry` retries were made, and then archived; SkipRetry
archives at once; a unique lock is released when its task succeeds or when
its TTL ends, and by nothing else (an archived task keeps it).

`NullsRejected` says whether the store enforces `NOT NULL` on
`workflow_step_executions.output_json`. The schema does, and then no step can
begin (section 5); the tests' fake repository does not. All runs but one take
`FALSE`, to examine the runtime the way its tests run it.

### WorkflowTraversal, WorkflowRefinement

`WorkflowTraversal` is what an execution promises, without queue, rows, tasks or
retries: six variables and seven actions. Steps begin along the edges of any
version saved so far; a notification step is done only after its notification was
sent; the outcome "completed" is reported only when a step without successors has
begun. A step that is done may begin again (that is what a retry looks like), so the
traversal allows at-least-once work and forbids everything else.

`WorkflowRefinement` maps the runtime to it: a step has begun when it has a row, is
done when the row says completed, is notified when a job of it reached the queue;
the outcome is the status of the execution's row. Neither tasks nor handlers occur in the
mapping: what clients and the dashboard can read is a traversal. `ImplementsTraversal`
is the property.

### NotificationDelivery

From a request to its webhooks. `Prepare` is `PrepareJob`: some channels are
to be delivered, others are skipped. `CreateQueuedNotification`, `EnqueueJob`,
`EnqueueJobFails` and `TestSend` are the three request handlers;
a job that a workflow step enqueues enters by `EnqueueJob` as well, and
`WorkflowRuntime!EnqueueNotification` is the same call seen from the other side.
`StartSend` … `EnqueueWebhook` are the calls of `Service.send`, `Dispatch`
included; `FetchHook` … `AcknowledgeCall` those of `Dispatcher.Execute`.

- `StartSend` writes the row and then evaluates the terminal guard on what it
  wrote, as the code does.
- `SendChannel` separates what the provider reports (`took`) from whether a
  message went out: an error may come after the fact, or from one of several
  push destinations.
- `attempt` holds the row of the channel as it is after the last write of a
  delivery: `delivery_attempts` is unique by notification and channel.
- Writes whose error the code only logs (attempts, delivery log, listing of
  hooks, webhook enqueues) may fail without a trace: `Swallowed`.
  `faults.swallowed` counts them, so that a property can except them.
- A webhook task is named after the run of the notification task that enqueued
  it, because each run enqueues its own, under a new job id.
- Channels are visited in any order: the order is the client's.
- `IsTerminal`'s guard, `EventOf` and `FinalStatus` are the code's functions.

### Accounts

One address and all that the API keeps for it. A call is one HTTP request; it is a
chain of SQL statements, each a transaction of its own, and `call[n].at` names the
next one. What is an early return in the code is a step that ends the call
(`Conflict`, `ReadUser`), and `Fail` stops a call before any statement: an error of
the database, a cancelled request, a dead process. Several kinds of request share
the tail of their chain as they share functions in the code:

| Steps | Code |
|---|---|
| `Signup`, `SigninWithSocial`, `Signin`, `VerifyEmail`, … | the check at the top of each service function; a request rejected there changes nothing and is left out |
| `ReadIdentity`, `ReadAccount`, `CreateUser`, `SetVerified`, `LinkIdentity` | the branches of `SigninWithSocial` |
| `ReadMembership`, `ReadEnvironment`, `InsertOrganization`, `InsertMember`, `SeedEnvironments` | `ensurePrimaryTenant`, `createSeedEnvironments` |
| `SendCode`, `DeleteCode`, `SetPassword` | `createAndSendVerification`, `VerifyEmail`, `ResetPassword` |
| `DeleteToken`, `IssueSession` | `RefreshSession`, `Logout`, `newAuthResult` |
| `NameOrganization`, `SetOnboarded`, `ReadDefault` | `CompleteOnboarding` |

An organization carries the timestamp its call took before its first statement,
because the primary organization is the oldest by `created_at`, not by insertion.

### WebSession

Extends `Accounts` by one browser. A proxied request reads the cookies it was
sent with, is answered 401 if the access token has expired, refreshes on its own,
is repeated, and its answer replaces the cookies held *when it arrives*
(`proxyBackend`, `withSessionCookies`). `FinishOnboarding` is the onboarding
route, which builds its success answer anew. Requests of other browsers are the
calls of `Accounts` that no proxied request made.

### ProviderTable, Integrations

`ProviderTable` has the table with its two unique indexes and its CHECK, and what each
request comes to when nothing overlaps it (`Outcome`): what `Integrations` is compared
with, and what one request is on the providers page. `Integrations` has the requests statement
by statement: rows of `integrations` and the requests on them. `UpdateState` is one READ
COMMITTED transaction: `wrote[w]` is what it has written and not committed. A
statement sees the committed rows and its own, waits for a row somebody else has
written (`Waits`), then finds it as that writer left it; a statement that would
break a unique index waits for the writer of the other row and fails if that
commits. `Create` decides on what it listed before its insert. These rules of
PostgreSQL are the only part that is not the repository's.

### RateLimiter

The way of a request with an API key: lookup of the key, INCR, EXPIRE if the count
is 1, last_used_at, next handler. Time passes in ticks; `Window` of them are the
minute. The counter is only modelled as far as `CounterBound`: beyond the limit its
value decides nothing.

### Subscribers

Rows of `subscribers` and sends that are being prepared. A send with an inline
recipient reads the row, writes back every column of what it read, merged with what
the request names (`Coalesce`), or inserts a row; a workflow send then reads the
row again for the addresses. The dashboard creates, updates and deletes rows in
between. `disturbed` records that somebody else wrote the row meanwhile, so that
properties can say what holds otherwise.

### WorkflowBuilder

The checks of a definition in the API (`ServerAccepts`: `ValidateDefinition` with
`hasCycle`) and in the dashboard (`BuilderAccepts`), the canvas the builder opens
(`builderDraftFromDefinition`, which adds a trigger if there is none) and its edits.
Edits that the page never offers are left out: `connectNodes`, `removeEdge`,
`addConnectedNode` and `updateEdgeBranch` are not called, the canvas sets
`nodesConnectable={false}`, and a trigger can be neither deleted nor duplicated.
The order of the steps that follows from their place on the page is left out as well.
The ids of a submitted definition are distinct (`BuilderAssumption`): both checks reject a
definition with two equal ids. `HasCycle` and `Collect` are recursive functions, `HasCycle` over the
calls of the depth-first search, each with what it has left and the marks it starts from.

### BuilderAutosave

Two pages that hold a copy each of one workflow, the query cache, at most one
running fetch, any number of saves in flight, and the row. A document is the set of
the edits it contains, the graph apart from name and description, because the
answer of a save brings back only the latter at once. The builder saves 700 ms after an
edit unless the page goes; it replaces its copy whenever the cache has a version it
has not synced. The channel page saves back the whole definition it loaded.

`trouble` records what happened so far of four things: an edit or a change to the
other page was made while a request was in flight (`hasty`), a page was left before
its edits were saved (`left`), a request failed (`failed`), a save was answered
during a fetch that the builder had left running (`overtaken`). The properties
except those that really lose an edit in this code; section 5 says how.

### CanvasHost

The builder keeps the workflow twice: in the store of the canvas and as the draft of
the page, which is what is saved. Numbers stand for whole drafts. An edit changes the
store; one effect hands it to the page in a transition (`echo`), another puts what the
page has rendered back into the store (`due`), the user's own edits included.
`mixups` records an edit between a render and its effects (`hasty`), a fetched version
that crossed an edit (`crossed`) or took the place of a newer draft (`replaced`).

### TriggerPanel

The form of the test-send panel, the sends, the polls of their notifications, and the
drawer around it: to close it unmounts the panel, which forgets the send it observed and
lets the late answer find nothing; to open it starts from the defaults. A poll reads the
status and then the attempts, the worker writes them the other way round, and a poll
whose second read fails is answered with the status alone (`unread`).
`TriggerPanelContent` is modelled; `TriggerWorkflowDialog.tsx`,
`PreviewSubscriberSelector.tsx` and `handleOpenChange` are not used by any page.

### ChannelEditor, ChannelPreview, SenderDrawer

The page of one e-mail or SMS step. `ChannelEditor` has the load (the template may be
missing or fail to load), typing, the timers of subject and body, and `performAutosave`:
a write of the template, then of the workflow that names it, either of which may fail;
saves are not queued, and go on when the page is left. `ChannelPreview` has the person
previewed (the profile arrives late, searches are answered late), the rendering of the
body, which ends later than it began, and the test dialog, whose success closes it two seconds later.
`SenderDrawer` has the sender of the page and the drawer's copy of it.

### WorkflowPage

The list of workflows as its page holds it, fetched by `fetchWorkflows` and not through the
query cache. An operation is a function of several
awaits: `PauseRow`, `ResumeRow`, `ArchiveRow` and `CreateRow` serve the request (with the
index on active keys), `RefetchWorkflows`, `ReadList` and `ListReturns` are what follows. It runs on when its dialog, or the page, is gone.
`mutating` holds one id for all rows, as in the code. A save of the builder may make a
workflow active again at any time (`put`).

### ProviderPage

The cards, the menu of each, and `useProviderForm`: a create or update, the wait for the
new list, then set_primary if "primary" is on, or else disable if "enabled" is off. Another
session changes the table, answers are lost, and dialogs are dismissed meanwhile.

### SubscriberPage

The list, the sheet that edits one subscriber with their preferences (for all workflows
and for one), the dialogs that add and delete. The sheet is always mounted, so `sheet`
keeps what was typed for whoever it showed before. A fetch that fails replaces the page and what
is open on it.

### KeyPage

Generation of API keys with the secret that only its answer carries, deletion, and
both dialogs, which can be closed while their request runs.

### AuthPages

The pages around one tab's session: which page is shown, the wizard that resets a
password, the profile in the query cache, the requests with their late redirects, and
an access that expires. What a request does to the account, statement by statement, is
in `Accounts`; here it is one step.

### MCWorkflowRuntime, MCNotificationDelivery

The instances: five definitions for the runtime (`Chain`; `Tree`, a trigger that
fans out to a notification and a condition with a labelled branch; `Delayed` and
its rewrite `Edited`; `Knot`, a join with a double edge), and the symmetry of
channels and providers for delivery (safety runs only).

### MCIntegrations, MCServices, MCBrowser

`MCIntegrations` instantiates `Integrations` alone. `MCServices` holds four parts of the API that
share no variable (`Integrations`, `RateLimiter`, `Subscribers`, `WebSession` with
`Accounts`), `MCBrowser` twelve parts of the dashboard. A variable `focus`, chosen at
the start, names the one that moves. Since no step of one reads or writes a variable of
another, and all properties are about states or single steps, letting them
interleave would add combinations of states but no state and no step of any one.
In `MCBrowser` the variables of the parts that do not move are `Off`, so that their initial
states do not multiply. Where parts meet in reality, one module has the meeting: the
builder and the channel page in `BuilderAutosave`, the builder and the list in
`WorkflowPage`, the proxy and the accounts in `WebSession`.

Symmetry: proxied requests in `MCServices`; the two workflows, people, keys and users of
their pages in `MCBrowser`. Neither run has a liveness property that symmetry could spoil.

### WorkflowRuntimeProofs, WorkflowDispatchProofs, WorkflowRefinementProofs, NotificationDeliveryProofs, SessionProofs, ServicesProofs, BrowserProofs, PageProofs

The theorems, section 4. `WorkflowDispatchProofs` and `WorkflowRefinementProofs` build on
`WorkflowRuntimeProofs`, and `ServicesProofs`, on the modules of `MCServices`, on
`SessionProofs`; `BrowserProofs` (session, panel, saving, and the lemmas on
the builder's checks and edits) and `PageProofs` (canvas, channel,
keys, subscribers, workflows, providers) are on the modules of `MCBrowser`.

## 3. The runs

Passing runs:

| Run | Instance | Properties |
|---|---|---|
| `tree_faults` | `Tree`, one execution, two faults anywhere, one retry | `TypeOK`, `StepsFollowEdges`, `NoLostDispatch`, `CompletedMeansSent`, `SendsWithinAttempts`, `CompletedReachedLeaf` |
| `disturbed` | `Delayed`/`Edited`, two edits, two faults, locks that lapse, two tasks per step | `ImplementsTraversal` |
| `knot` | `Knot` under `FairSpec`, no faults, room for two tasks per step | `OneTaskPerStep`, `TasksSettle`, `SuccessorsBegin` |
| `delivery` | one job, two channels, two providers, a hook; two faults, one change of integrations or hooks, one retry | `TypeOK`, `StatusMatchesAttempts`, `SentEventHasBacking`, `OneMessagePerRun`, `QueuedMeansUntouched`, `OneLateRequest`, `DoneMeansLogged` |
| `delivery_settles` | one job, one channel, a hook under `FairSpec`; two faults, one change, one retry | `JobsSettle`, `HooksHear` |
| `services` | integrations: two mail and one SMS provider, three rows, two overlapping requests; limiter: one key, two requests, limit 2, window of 3 ticks; subscribers: one row, two media, two sends; session: every kind of request on one account, three in all, two at a time, one that stops half-way, and two proxied requests | `ServicesTypeOK`, `LimiterSound`, `SessionsHaveTenant`, `SeedsComplete`, `OnboardingGate`, `NewestCodeStands`, `SessionSurvives`, `SerialRequests`, `PrimarySucceeds`, `ContactsSound`, `PrimaryStable` |
| `browser` | canvas: every definition of three steps and two edges, two edits; host: four drafts; saving: two edits, three visits, two saves; panel: one subscriber and the user, two sends, one change per opening; workflows: two with one key, three operations, two at a time; providers: two of mail, two functions; subscribers: two, one channel, two requests; keys: two, two requests; auth: two users, three requests; channel: three texts, three saves, two visits; preview: two searches, an edit, two tests; sender: two names | `BrowserTypeOK`, `CanvasSound`, `AutosaveSound`, `PanelSound`, `ChannelPageSound`, `WorkflowPageSound`, `ProviderPageSound`, `SubscriberPageSound`, `KeyPageSound`, `AuthPagesSound` |

What they say of the runtime:

- `StepsFollowEdges`: retries, duplicates, interleavings and edits never start
  a step that no saved version leads to under the payload.
- `NoLostDispatch`: a crash in the middle of a fan-out loses no successor: a
  step that is completed and has no task left has handed over all of them.
- `CompletedMeansSent`, `SendsWithinAttempts`: a completed notification step
  enqueued a job, and no more jobs than the `attempts` column counts. The step
  may enqueue several: the job id is new on every run.
- `CompletedReachedLeaf`: "completed" is never written before some step
  without successors began.
- `ImplementsTraversal`: with two tasks of a step racing and the definition being
  rewritten, each write of a row is still a step the abstract traversal allows.
- `OneTaskPerStep`: the unique lock keeps the two parents of a join, and the
  retries of each, from running one step twice at once. The parent that loses
  is retried from the top; if it is a notification step, it sends again.
- `TasksSettle`, `SuccessorsBegin`: no livelock between parents that collide.

And of delivery:

- `StatusMatchesAttempts`: an earlier run that died leaves rows behind; the run
  that stores a status has overwritten all of them.
- `SentEventHasBacking`: no hook is told "sent" of a notification no provider
  took. (It may be told "sent" and later "failed" of the same one, if a retry
  follows a lost acknowledgement.)
- `OneMessagePerRun`, `QueuedMeansUntouched`, `OneLateRequest`,
  `DoneMeansLogged`: no fallback to a second provider within a run; the API's row
  never overwrites the worker's; a deleted hook gets at most the request in
  flight; done means answered 2xx.
- `JobsSettle`, `HooksHear`: every queued job ends, and an event stored is
  dispatched in spite of crashes.

Of the services:

- `SerialRequests`: a request on the integrations that no other overlapped does what
  `ProviderTable` says, or nothing, and fails on an index only where it has to.
  `PrimarySucceeds`: whatever overlaps, the row that a disable promotes, or a
  set_primary names, is primary and active when the transaction commits.
- `LimiterSound`: a counter without expiry belongs to a request that is about to
  set it or that died in between (`CounterExpires`); no span of one window admits
  more than twice the limit, however late the EXPIRE (`AdmissionRate`).
- `ContactsSound`: a send changes no contact it does not
  name, revives no deleted row, and sends to the addresses it names, unless the
  row was written by somebody else in between.
- `SessionsHaveTenant`: every token names an organization the user belongs to with
  its default environment, whatever died on the way. `SeedsComplete`: races of
  sign-ins leave no half-made organization if nothing fails. `PrimaryStable`: the
  organization a sign-in resolves to moves only because of calls that began
  before the user had any.
- `NewestCodeStands`: the code that can be used is the newest one sent, or a call
  with a correct code has deleted it.
- `OnboardingGate`: a browser with an access token and without needs_onboarding,
  which the dashboard lets in, belongs to a user whose onboarding is complete, and
  then an organization of the sign-up was named. It holds at every moment, with
  answers under way.
- `SessionSurvives`: with nothing in flight, a browser that signed in holds a live
  refresh token, unless it logged out, a call of the API failed, two requests
  carried one token at once, or the onboarding route dropped renewed cookies.

Of the dashboard. A property of a page has the form "this holds, unless the user or the
network did that": the exceptions are recorded by the actions that cause them (`trouble`,
`lapses`, `slips`, `quirks`, `mixups`, `mishap`, `spoiled`, …), and each is needed:
without it TLC finds a loss of those in section 5 (for a test sent again within two seconds of a
success, with `MaxTests = 3`). Everything else, in any overlap, is excluded.

- `CanvasSound`: the two depth-first searches agree with a definition of
  cyclicity by sets, and the builder's check accepts exactly the paths, all of which
  the API accepts (`ChecksAgree`); from any accepted definition, with branches or
  without trigger, no sequence of edits makes a graph the API would reject
  (`CanvasStaysValid`), and a path stays one in its order (`EditsKeepPath`). With nothing on
  its way the canvas shows the draft that is saved (`CanvasShowsDraft`), which is the one
  the user made last (`EditsArrive`).
- `AutosaveSound`: when all is quiet the builder shows what is stored
  (`SettledShowsServer`); no edit of a patient user is lost between the two pages
  (`CalmEditsSurvive`).
- `PanelSound`: the delivery shown is that of the form shown and at most one
  send is on its way, unless the form was changed or the drawer closed during a send;
  a delivery shown as ended is shown with every attempt.
- `ChannelPageSound`: with no timer and no save, template, link and payload are what
  the page shows (`SavedIsStored`); newer text replaces older, never the reverse
  (`NothingOlder`); a test carries what is shown (`SendsWhatIsShown`), one at a time
  (`OneTestAtATime`), and only its own success closes the dialog (`ClosesOnOwnTest`);
  a message leaves with the sender shown (`SenderAsShown`).
- `WorkflowPageSound`: with nothing in flight the page is usable, the list is that of
  the server and every workflow as last asked (`PageSettles`); one request per workflow
  (`OneAtATime`); a dialog closes with its own operation (`OwnDialogs`).
- `ProviderPageSound`: no card stays busy and the list is the table (`CardsSettle`);
  a save during which the user starts nothing else leaves what its dialog said and touches no other channel
  (`SaveHonoured`); `OwnDialog`.
- `SubscriberPageSound`: `ListSettles`; a save keeps the channels shown of the person
  shown (`SaveKeepsChannels`); `OwnSheets`; a late save revives nobody (`DeletedStays`).
- `KeyPageSound`: who generated a key has seen its secret, once nothing is in flight
  (`KeysSettle`); a secret on the screen is never replaced, nor a question about another key
  withdrawn (`DialogsStand`).
- `AuthPagesSound`: the page fits the cookies unless they expired (`PageFitsSession`), the cached profile is
  one's own (`OwnProfile`), the wizard's last step holds a pair that was checked
  (`CheckedPair`).

Runs that end in a violation: `nulls`, `original_version`, `stale_queued`,
`resend`, `stale_primary`; see section 5.

**Bounds.** `MaxRetry = 1` (5 in production) is the least that has a first run, a
rerun and an exhausted task; a rerun starts from the rows alone, so a second rerun
starts like a first. Two faults are the least that exhaust a task, and allow a
failure of the parent together with one of a successor. One execution, or one job,
is enough for the safety properties: executions share only the workflow row, which
`disturbed` rewrites at will, and jobs only integrations and hooks, which
`delivery` changes at will. The definitions have at most four steps; they hold each
node type, fan-out, a labelled branch, a join, equal edges and a delay.
`MaxEdits`, `MaxChanges` and `MaxFaults` are guards of the disturbances only, so
they bound the environment and never the program.

`services`: three calls on an account are the least in which two race and a third sees what
they left, or in which a sign-up, a sign-in and a refresh follow each other; more than two
in flight at once add no new pair of statements. One stopped call leaves each partial
result there is. Two proxied requests race for one token. Three rows give a channel a
primary and a fallback, and a row of another channel; the table starts in every state
that connecting and enabling leads to, so two requests, overlapping or not, are enough
(`stale_primary` takes three). A limit of 2 in a window of 3 ticks separates the first request
of a window, the last allowed one and the first refused one, and the middle of a window
from its ends.

`browser`: three submitted steps and two edges give every path, branch, join, self-loop
and cycle of up to two edges, with every type of step and labels; two edits give an edit of an
edited document; four drafts an edit, a fetch and an edit of each between; three visits a return
to the first page; two saves, sends or tests one that overtakes the other. On the pages, two rows are
the least of which one can be mistaken for the other, and two requests the least that
overlap; the workflow list has a third, and its two workflows share a key; three requests
let one user sign out, the other sign in and a late answer arrive. Three texts are one per editor
and one typed over another.

**Deadlock** is not checked: a system whose queue has drained legitimately stops.

**Fairness.** `FairSpec` of both modules: weak fairness of picking up each task,
because asynq's server polls its queue as long as it runs, and of each handler as
a whole (its next call or its failure), because a handler is a sequence of
calls under a timeout: it goes on or is cut off. Nothing is assumed of clients,
edits, lapsing locks or faults. The components of `MCServices` and `MCBrowser` have
no fairness: a user or a browser owes nobody a next step, and everything said of
them is safety, with "nothing in flight" as a hypothesis where a property is about
the outcome. No strong fairness is needed: a parent that
collides with a lock is retried a bounded number of times, not until it wins.

Every property has a mutant in `PROJECT.json`, a plausible bug in a mapped
definition under which TLC finds the property violated.

## 4. The proofs

For every set of executions, steps and definitions, every bound, and with or
without lapsing locks or rejected NULLs, from the assumptions
`DefinitionsAssumption` (every definition an editor can save is well formed: the
API validates it) and `BoundsAssumption` (types of the constants):

| Theorem | Statement | Argument |
|---|---|---|
| `TypeCorrect` | `Spec => []TypeOK` | one step per action; `TypeAtFirst` and `TypeKept` are the two halves. |
| `OneTask` | `Spec => []OneTaskPerStep` | `OneTaskPerStep` alone is not inductive: an enqueue needs to know that a task that exists holds its lock. `LockHeld` adds it: while locks do not lapse, a task in a slot implies that the lock of its step names that slot. |
| `Causality` | `Spec => []StepsFollowEdges` | the strengthening is `CausalityInv`: `TriggerFirst` (an execution that was created points at a first step of the version it was created from, until its first enqueue), `HandlersKnow` (a handler beyond its load read a version that was saved and holds the step; what it still has to enqueue are successors of its own step, which has begun) and the property. The versions saved and the steps begun only grow, so what led to a step once leads to it for ever. |
| `CompletedSent` | `Spec => []CompletedMeansSent` | `NotifiedInv`: a handler about to complete a notification step has sent its job (`HandlersSent`), and so has the one that completed the row, under the version it held (`RowsSent`), which `CausalityInv` says was a saved one. The jobs sent are never taken back. |
| `Refinement` | `Spec => ImplementsTraversal` | `StepSimulated`: under `CausalityInv` and `NotifiedInv` each action is one abstract action or leaves the mapped variables alone. Causality gives the guard of `BeginStep`, `NotifiedInv` that of `CompleteStep`, and what handlers know (the step begun, the version saved) those of the rest. |

`CausalityInv` was checked by TLC as an invariant before it was proved. The
proofs use no induction over data; the graph operators are only unfolded.

`WorkflowDispatchProofs`, from the same assumptions:

| Theorem | Statement | Argument |
|---|---|---|
| `NoLoss` | `Spec => []NoLostDispatch` | `HandlersDispatch`: past the switch on the type of its node, every successor a handler chose is still in its `todo` or was reached, and `todo` is empty once it finishes. So the task that is acknowledged leaves none behind. |
| `LeafCompleted` | `Spec => []CompletedReachedLeaf` | `LeafReached`: some step without successors was begun. `RowsOwed`: a step that was begun is completed, or one of its tasks has not gone past completing it (`Owes`), and such a task is outstanding. |
| `SendsCounted` | `Spec => []SendsWithinAttempts` | `Busy`: a handler that is not idle has an active task. `Attempts`: by `LockHeld` a step has one task, whose handler is the only writer of the row, so the attempts it read are the row's, and before it sends, fewer jobs were sent than there were attempts. |

`NotificationDeliveryProofs` proves, for every set of jobs, channels, providers
and hooks and every bound, from `DeliveryAssumption` (types of the bounds):

| Theorem | Statement | Argument |
|---|---|---|
| `TypeCorrect` | `Spec => []TypeOK` | `TypeOK` bounds the swallowed faults, which is inductive only with `swallowed <= met` (`Typed`). |
| `AtMostOnePerRun` | `Spec => []OneMessagePerRun` | `Counted`: before a run of `send`, a channel has had at most as many messages as there were retries, and so has, during the run, every channel still to do but the one in hand. `OneAtATime` says that there is only one in hand. |
| `SentIsBacked` | `Spec => []SentEventHasBacking` | `Backed`: a channel counted as delivered was taken by a provider, now or earlier; so was some channel whenever the stored status announces `notification.sent`; the count never falls and the channels of a job are fixed before its task exists (`Fresh`). |
| `QueuedIsUntouched` | `Spec => []QueuedMeansUntouched` | `Untouched`: the row is written by the API before the task exists, and by `send` before anything is sent. |

These four parts are conjuncts of one invariant of a single job, `JobInv`. A step
about another job or about a webhook task leaves it as it was (`Frame`,
`OthersSame`, `CallsSame`), so each action is considered for its own job only.
TLC checked `JobInv` as an invariant before it was proved.

Its second part, from the same assumption, with `OutcomeInv`, which TLC checked too:

| Theorem | Statement | Argument |
|---|---|---|
| `StatusMatches` | `Spec => []StatusMatchesAttempts` | `Outcome(j)` of one job: if no write was lost, the channels that a run of `send` has counted are those it is done with, and their rows say what it counted (`Looping`, `Counters`); rows are only of channels the job has (`Kinds`), and a final status is `FinalStatus` of the rows (`Settled`). |
| `AtMostOneLate` | `Spec => []OneLateRequest` | `Late(w)`: a handler about to post has read a row that was there; once a request came late the row is gone for good, so that later runs of the task read nothing to post to. |
| `DoneIsLogged` | `Spec => []DoneMeansLogged` | `Called(w)`: a task has made one request for each run that is over and one for this run once it has posted, and a run past its log has written what it was answered. `Ahead(j)`: a task that is still to be enqueued is not in the queue, so that enqueuing it finds nothing to overwrite. |

`SessionProofs` proves of the accounts, under their own specification and under that
of the dashboard that drives them, for every number of calls, failures, providers
and proxied requests, from `AccountsAssumption` (types of the bounds):

| Theorem | Statement | Argument |
|---|---|---|
| `WebTypes` | `WebSpec => []WebTypeOK` | conjunct of `WebInv`; that a cookie names an issued session needs what proxied requests know of the calls they made (`ProxyKnows`) and that a finished sign-in issued one (`Finished`). |
| `SessionsSound` | `(Spec \/ WebSpec) => []SessionsHaveTenant` | `AccountsInv`: each kind of call keeps to its route (`Routed`); what a call has read still holds when it uses it (`CallsKnow`: the user stays verified, the organization of a call past `member` has one, that of a call past `development` its default environment); and what an organization has, a call has made (`OrgsKnown`). |
| `PrimaryStays` | `(Spec \/ WebSpec) => PrimaryStable` | inductive over `AccountsInv`: a membership is dated by a timestamp the call took when it began (`DatedAt`), and a call that saw an organization when it began inserts none for a sign-in (`TenantAt`). |
| `SeedsFinish` | `(Spec \/ WebSpec) => []SeedsComplete` | `Seeds`: while no statement failed, what an organization still lacks is the next statement of a call (`Seeding`), which may be another one than its creator. |
| `NewestStands` | `(Spec \/ WebSpec) => []NewestCodeStands` | inductive with `AccountsInv`: a call that has presented the code of the row keeps that standing (`Spent`). |
| `GateHolds` | `WebSpec => []OnboardingGate` | `Gated`: a browser that is let in belongs to an onboarded user, since every answer that clears the cookie comes of a call that read or wrote `onboarded`; an onboarded user has a named organization (`NamedKept`). |
| `BrowserSurvives` | `WebSpec => []SessionSurvives` | `BrowserInv`: whatever deletes, holds or sends a refresh token got it from an answer (`Issued`); unless two requests raced, one is in flight with the token the browser holds (`Alone`, `Carried`) and the token it brings is new (`New`); and the live token is in the browser or on its way to it (`Flow`). |

`ServicesProofs`, for every set of keys, clients, persons, media, provider names and
rows, every assignment of channels and every number of overlapping requests:

| Theorem | Statement | Argument |
|---|---|---|
| `LimiterHolds` | `LimiterSpec => []LimiterSound` | `LimiterInv`: a request beyond the authentication is for a key (`Named`), and a counter goes from zero only by the request that goes on to its EXPIRE. `WindowsFit`: since its EXPIRE, and at least for the current tick, an entry answers alone for what was let through; before that at most one other did, so that a span of one window meets two entries. |
| `ContactsHold` | `SubscriberSpec => ContactsSound` | `SubscriberInv`: unless somebody else wrote the row since, it is as the send read it (`Sending`). A write by anybody marks every send that holds the row. |
| `TablesSound` | `IntegrationSpec => []IntegrationTypeOK` | `IntegrationTypeOK` says that no two committed rows share a name or are primary for one channel; it is not inductive, since a commit brings in what an open transaction wrote. `IntegrationInv` adds: one transaction at a time has written a row (`RowLocks`), what a transaction wrote clashes with no row that it sees (`NoClashSeen`) and with nothing that another one wrote (`NoClashWritten`). `StepKeeps` reduces every statement to the table it leaves and what its transaction has then written (`Fits`). |
| `PrimaryWins` | `IntegrationSpec => PrimarySucceeds` | `Heirs`: at its commit a transaction has written the row it makes primary; only its own statements change what it wrote, and only its own commit ends it there. |
| `RequestsSerial` | `IntegrationSpec => SerialRequests` | `SerialInv`: while no request has overlapped w the others are idle, and w is on its way to its outcome (`Along`): what it has read of the table is still so, and its transaction sees exactly the table that its statements so far come to (`Reaches`: the channel cleared, then the fallback promoted, at the commit `Outcome`). One lemma per statement shows that none finds a lock or breaks an index, but for an insert or update that its outcome forbids; the fallback it lists is `Heir`, the least of the active rows, since none of them is primary. |
| `ServicesTypes` | `ServicesSpec => []ServicesTypeOK` | `PartsBehave`: in the composition each part behaves as its own specification says, so that every theorem about a part holds of it in the run. |

`ServicesProofs` rests on `LimiterAssumption`, `SubscribersAssumption`,
`ProvidersAssumption` and `RequestsAssumption`. They say that the bounds are naturals and
the window and the limit positive, that ids of rows are positive numbers (0 stands for no
row; the order is that of `created_at`), that the marks for "no name", "not written" and "no contact" are
no names and no addresses, and that e-mail, the one medium a person is created with, has an
address. TLC evaluates them on the runs.
The oldest fallback that `ListFallbacks` chooses exists because a set of naturals has a
least member (`LeastRow`, from the well-foundedness of < in the library).

`BrowserProofs`, for every set of users, forms and disturbances and every bound on requests,
sends, edits, visits and saves. `OneMoves` reduces a step of the browser to one of the
component that moves. The panel needs `PanelConstants`, and the types of a draft's saving
`AutosaveConstants` (bounds are naturals); the lemmas about the workflow builder need
`BuilderAssumption`; the rest needs no assumption. TLC checked each invariant on the run's
instance before it was proved.

| Theorem | Statement | Argument |
|---|---|---|
| `SessionPagesSound` | `BrowserSpec => []AuthPagesSound` | `AuthPagesInv`. `ProfileInv`: unless two requests that change the session overlapped, or it expired, there is at most one such request in flight, a sign-in only where there is no session, and what is cached or loaded as profile is the session's. `WizardInv`: an accepted code is that of the address it was sent to (`CodesChecked`), and the wizard still stands at the step whose request runs, with the pair that was sent (`StepsAwaited`). |
| `PanelShowsIt` | `BrowserSpec => []PanelSound` | `PanelInv`. `FormsAgree`: unless the form changed meanwhile, the sends on their way that are watched and the one shown have the form of the panel; with no lapse the button observes all that is on its way. `PollsFollow`: the worker writes the attempts before the end, and a poll reads them after it, so that a poll that read an end has every attempt unless its second read failed (`SendsGrow`). |
| `EditsAreSaved` | `BrowserSpec => []AutosaveSound` | `AutosaveInv`. No copy is newer than the row, and one of its age is the row (`RevisionsKnown`); without failures or overtaken fetches a copy that passes for fresh is of the row's age, but for a save applied and not answered (`CopiesFresh`), where a late answer can only miss an edit that is still on the page; without hasty edits every save in flight carries what the builder shows (`EditsWait`); and with no trouble at all every edit is on the page until its save is applied, and in the row from then on (`EditsHeld`). |

`PageProofs`, likewise, for every number of texts, drafts, saves, searches, tests, keys,
people, channels, workflows, providers and requests. Its assumptions are `BuilderAssumption` (the
ids of a submitted definition are distinct, and the trigger's is none of them), `CanvasHostAssumption` and
`EditorConstants` (bounds are naturals), `PreviewConstants` (a bound, and marks that are
nobody's), `SenderConstants`, `KeysAssumption`, `PeopleAssumption` and `WorkflowsAssumption` (the mark for
"null" is no name, key, person or workflow), and `ProvidersAssumption` (rows are numbered, and
"none" names no provider). TLC checked each invariant first.

| Theorem | Statement | Argument |
|---|---|---|
| `CanvasHolds` | `BrowserSpec => CanvasSound` | `CanvasInv`: a canvas that was opened has a trigger and no cycle, its ids are distinct and its edges lead between its steps. *The checks.* The recursion of the search has a solution (`SearchExists`), by induction over the room the path leaves for calls (`Size`); from a path each node of which leads to the next or to what is left, a search finds a cycle, or none and has explored all it was given (`SearchDecides`), so that `HasCycle` and `Cyclic` agree (`HasCycleFinds`). Of a definition without issues the nodes stand one behind the other: a chain from the trigger that cannot be continued would be all that `Collect` finds (`ChainOfAll`), and there are no other edges (`ChainIsPath`); the converse is `PathAccepted`. *The edits.* A step that leads only where one before it led is on no new cycle (`GrowsAcyclic`), nor does a step taken out make one (`ShrinksAcyclic`); a path with a node more (`InsertedPath`) or less (`RemovedPath`) is a path, and the places of the others move in step (`PathKeepsOrder`). *The host* (`CanvasInStep`). `CanvasHostInv`: the page remembers what it saw last (`RemembersSeen`); an echo or an effect that waits carries the draft the other side is to take (`CanvasFollows`); the newest edit is on the canvas, on its way, or the page's (`NewestArrives`). |
| `ChannelShowsIt` | `BrowserSpec => ChannelPageSound` | `EditorInv`: texts are numbered, and every save carries no newer text than the page shows (`TextsNumbered`); unless two saves overlap there is one (`OneWrite`); the page's text is what the step names or on its way (`ShownIsSaved`), and what is stored is never newer than what a save still to be applied carries (`StoredIsOlder`). `PreviewInv`: the preview on show is of the person and text on show, unless it renders (`RendersNow`); a pick stands (`PickStands`); the dialog observes the test that it started (`ObservesTests`). `SenderInv` of the drawer. |
| `KeysAreTold` | `BrowserSpec => KeyPageSound` | `KeyPageInv`: while a key is created no secret is shown and nothing asked, and what is asked during a delete is about its key (`OneDialog`); a key whose request is over was deleted or its secret told, unless an answer was lost or the page left (`SecretsTold`); with no answer to come the list is that of the table or being fetched (`ListFollows`). |
| `SubscribersAreListed` | `BrowserSpec => SubscriberPageSound` | `SubscriberInv`: unless the user crossed it a request is alone, and its dialog open (`ItsOwnDialog`); a save carries what its sheet shows, and once answered the table has it (`SavesTheSheet`), which reads the same although the payload drops an entry that says nothing new (`PayloadShowsTheSame`); `TableListed` as for keys. |
| `WorkflowsSettle` | `BrowserSpec => WorkflowPageSound` | `WorkflowPageInv`: whatever the page holds back is let go by an operation under way (`HeldBack`); unless something crossed there is one, of the newest number, its workflow held back and its dialog open (`AloneHere`); a workflow that does not exist yet is nowhere on the page (`Unborn`); with no mishap a list that was read is the table's (`ListsFollow`), and a workflow is what the last operation to take effect on it made of it (`LastApplied`). |
| `ProvidersSettle` | `BrowserSpec => ProviderPageSound` | `ProviderInv`: both copies of the table keep its unique indexes and its CHECK (`TableHolds`, which every `Outcome` preserves: `OutcomeHolds`); a function has what its requests need (`JobsKnow`); a button held back has somebody to let go of it, and a list being fetched somebody who waits (`ButtonsHeld`); an unspoiled list is the table's (`CardsFollow`). Unless something crossed (`SavesAlone`) one function runs, with its dialog open; the page takes no row for another provider's; and the table is as the save found it until its second request (`Begun`), as the dialog said afterwards (`Honours`, by `SecondRequest`). |
| `BrowserTypes` | `BrowserSpec => []BrowserTypeOK` | The types of the pages are conjuncts of the invariants above. For the builder, `KeptOnly`: what `Array.filter` keeps of a sequence are its elements that belong to the set, so that an edit leaves every step with a type (`OrderedTyped`). For the saving of a draft, `AutosaveBounds`: a PUT is sent only where there is room for it. |

Model-checked only:
- the liveness properties (`TasksSettle`, `SuccessorsBegin`, `JobsSettle`, `HooksHear`), which
  rest on fairness and ENABLED. Every invariant and action property of the passing runs is
  stated by a theorem.

A recursive function takes an induction to be reasoned about, and the induction theorems of
the library have operators as parameters, which no backend instantiates. Induction over the
naturals is available as a statement about sets (`CountUp`, from the least member of a set,
`LeastOne`): with it `KeptFilters`, `SearchExists` and `CollectWalks` show that the recursions of
`Kept`, `HasCycle` and `Collect` have a solution, and `KeptPicks`, `SearchDecides` and `PathCollects`
what they compute.

## 5. Disagreements between the code and what is said of it

Each is a run that TLC ends in a violation, listed under `findings`.

- `nulls`: `ProcessStep` creates the step row without `OutputJson` and
  `ErrorJson` (`runtime.go:61-73`); the generated query sends NULL, and
  `schema.sql:250-251` declares both NOT NULL. With the schema enforced no
  step of any execution gets a row: the first task is retried and archived.
  `runtime_test.go:199` expects the step completed, against a fake repository.
- `original_version`: `docs/workflow.md:679` promises that existing executions
  keep the original version; `ProcessStep` reads the current definition at every step
  (`runtime.go:41`), and an update overwrites it in place.
- `stale_queued`: `docs/workflow.md:617` wants the runtime state right after
  every step; the parent writes `queued` after its successor was enqueued
  (`runtime.go:283`) and may overwrite the `completed` that the successor wrote.
- `resend`: `service_test.go:222` expects a second `Send` of a job id to send
  nothing; the guard (`service.go:530`) tests the row after the upsert reset its
  status, so a retried job is delivered again.
- `stale_primary`: `integration/service.go:196-197` promises all primary-per-channel
  rules inside a single transaction; at READ COMMITTED without a row lock, enable
  writes back the `is_primary` it read, over a set_primary or a promotion that
  committed meanwhile, and the channel keeps active providers and no primary.

Observed while modelling and not judged by a run.

Runtime: a paused workflow's executions still start their next steps
(`docs/workflow.md:694` can be read either way); one failed attempt marks the
execution `failed` although the task is retried; a crash on the last retry leaves the
execution `running` for ever; a step whose successor is locked because of equal edges
is retried until it is archived; the validator trims node ids, while the stored
definition, `findNode` and `nextNodeIDs` use them raw.

Session: two requests that renew with one token log the browser out, and so does
an onboarding whose access token had expired, at the next renewal; a refresh that
dies after its DELETE ends the session. The answer of a refresh that began before an
onboarding sets `needs_onboarding` again after it.

Limiter: `ratelimit.go:11` calls it a sliding window; it is a fixed one, which
`AdmissionRate` bounds by twice the limit. A request that stops between its two
commands leaves a counter without expiry, which blocks the key once the limit is
reached.

Subscribers: `status` is only ever written as `subscribed`, and the preferences are
not consulted by a send.

Builder: the answer of an older save that arrives late brings back the old name and
description, and the fetch that follows does not correct them; an invalidation
answered during a fetch of a page already left is lost, so the builder may reopen
on an older version, contrary to the comment at `use-workflow-builder-draft.ts:67-69`;
the channel page writes the definition it loaded over later saves; an edit younger
than 700 ms is dropped with the page.

Canvas: every edit's own echo replaces the store, which clears the selection and closes the
inspector, so after each change; an edit made between the render of an echo and its
effect is overwritten; a fetched version that crosses an edit can leave the canvas and
the saved draft different. `DelayConfig` passes the id of the draft (`DelayConfig.tsx:29-30`) to a
store that compares ids of canvas nodes (`store.ts:42-51`), so a delay cannot be changed in the inspector.
The toggles of channels come back on every change of the canvas
(`use-workflow-channel-toggles.ts:82-83` says the user's are kept) and are read nowhere else.

Panel: "Disable the button while any operation is in progress"
(`use-trigger-workflow-dialog.ts:179`) does not hold after another subscriber was
selected during a send, or the drawer closed and opened: the button observes no send then,
and in the first case the late answer is shown under the new form. A poll whose attempts
cannot be read (`queries.go:18-21`) is answered as final without events, and polling ends.
The panel sends the stored workflow, not the canvas; a saved edit of a
subscriber selects them again, whoever was selected since.

Channel page: the body of an SMS is never saved; a subject typed before any edit of the body is
not saved; what is younger than its timer is lost with the page; the payload is saved
only by a later save of body or subject; of two overlapping saves the older may write last.
A template that cannot be read opens as empty editors, whose save overwrites it, and the
payload; if the second write fails, no step names the template, the next visit starts
empty and overwrites it by its name; two steps with one name share one template.
The profile, arriving late, replaces a person already picked; a test sent while the
preview renders carries the one before; the timer of a success closes a dialog reopened
meanwhile; "Cancel" does not cancel. The sender drawer shows text that was never
saved as if it applied, and keeps a copy taken before the provider was known.

Workflow list: "You can resume the workflow at any time" (`PauseWorkflowDialog.tsx`) fails
with 409 when another workflow has taken the key; "won't be executed again"
(`DeleteWorkflowDialog.tsx`) is undone by an autosave of a builder that is still open.

Providers: "Enable provider" has no effect for the second provider of a channel as it is connected,
nor has turning "primary" off; after a create whose second request failed, to submit again is a
conflict; disconnecting asks nothing.

Subscribers page: the form keeps what was typed for the previous subscriber; the first
toggle of a workflow's switch starts from no channel; what is changed while a save runs is lost
when the sheet closes; the end of a delete closes whatever dialog is open; a save sends
empty tags and drops names and push token; a background fetch that fails takes
the open sheet away.

Auth pages: sign-in can be pressed twice; going back during a check of a code can
reach the password step with another address; only a sign-out that succeeds clears the
cache, so after an expiry the next user may see the profile before theirs for up to
a minute.

## 6. What is not modelled, or only in part

- Only one workflow answers an event; `TriggerEvent` loops over all of them.
- `failCurrentStep` with `ErrInvalidWorkflow` as its cause (no SkipRetry is lost)
  cannot happen for a definition that passed the validator, and is left out.
- `UpdateStepExecutionState` writes output and error JSON; only the status and the
  attempt number are kept.
- Template rendering, contact details, provider configuration and encryption,
  payload signatures: data that decides nothing here. A webhook whose URL cannot
  be parsed (recorded and given up) is taken as one that answers 4xx.
- A job without a project id, which `send` drops: no caller makes one.
- Hashes, token formats, password rules, and expiry of codes and refresh tokens: an
  expired one is one that is not presented. The social sign-in's exchange with its
  provider is external.
- Templates (`modules/templates`) are single statements on one row (the channel page's use
  of them is modelled); statistics (`modules/stats`) are read-only aggregates in SQL,
  whose content is the query.
- Providers and channel senders: each call is an outcome of `SendChannel`.
- Wiring, configuration, storage, logging: construction without behaviour after the
  start, but for asynq's graceful stop.
- Of the dashboard: demo providers, search fields, the channel toggles of the
  inspector, the channel page of push (its subject has the timer of an e-mail's, but with
  no edit of a body there is nothing to save), the panel
  that shows integration code (a snippet), the pages of statistics, notifications and
  activities (they fetch and show), layout, tables, styling, and components no page uses
  (`PreviewSubscriberSelector.tsx`, `TriggerWorkflowDialog.tsx`,
  `store/builder/selectors.ts`). They are about half of the dashboard's lines, and hold either no
  state or that of one request; a model of them would say nothing a reader of the component
  does not see.

## 7. Plan

Done: the workflow runtime with its abstract specification and refinement, delivery
and webhooks, integrations, accounts and the session of a browser, the limiter,
subscribers, the builder with its saving, test panel and channel page, the pages of
workflows, providers, subscribers, keys and sign-in; the proofs of section 4.

Left are the liveness properties, which stay with TLC, and the parts of section 6.
