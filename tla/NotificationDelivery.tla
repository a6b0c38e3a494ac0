------------------------ MODULE NotificationDelivery ------------------------
(***************************************************************************)
(* From a notification request to its webhooks.  A request becomes a       *)
(* notification:send task (or is delivered inside the request, for a test  *)
(* send); the task's handler is Service.send, which delivers each channel  *)
(* through a provider, settles the status of the notifications row and     *)
(* enqueues one webhook:deliver task per subscribed hook; the handler of   *)
(* those is Dispatcher.Execute.                                            *)
(*                                                                         *)
(* Each call to the database, to a provider, to a hook or to the queue is  *)
(* one action.  Every job id is new, so the unique locks of the queue      *)
(* never collide here and are left out; the rest of asynq is modelled as   *)
(* in WorkflowRuntime.                                                     *)
(***************************************************************************)
EXTENDS Naturals, FiniteSets

CONSTANTS
    Jobs,             \* job ids, one per notification request
    Channels,         \* email, sms, push
    Providers,        \* integrations a channel may have
    Hooks,            \* ids of registered webhooks
    MaxRetry,         \* asynq.MaxRetry of every task
    MaxFaults,        \* bound: failed calls and crashes
    MaxChanges        \* bound: changes of integrations and hooks

ASSUME DeliveryAssumption ==
    /\ MaxRetry \in Nat /\ MaxFaults \in Nat /\ MaxChanges \in Nat
    /\ IsFiniteSet(Providers)

Events == {"notification.sent", "notification.failed"}
Runs   == 0 .. MaxRetry      \* the runs of a task, by its retry count
Calls  == Jobs \X Hooks \X Runs   \* webhook tasks: each run enqueues its own

VARIABLES
    api,        \* what the request handler did for each job
    job,        \* payload: the channels to deliver and those skipped
    note,       \* notifications.status, by job id
    attempt,    \* delivery_attempts.status, by job and channel
    accepted,   \* sends a provider took for a destination, by job and channel
    task,       \* the notification task: state, retry count
    run,        \* its handler: where it is and what it holds
    active,     \* active integrations with a registered provider, by channel
    hook,       \* webhooks rows: is_active, events
    call,       \* webhook tasks: state, retry count, event
    caller,     \* their handlers
    request,    \* POSTs made: all, and those made to a hook deleted before
    logged,     \* statuses in webhook_deliveries, by webhook task
    faults,     \* faults met so far, and those the code only logged
    changes     \* changes made so far

jobVars  == <<api, job, note, attempt, accepted, task, run>>
callVars == <<caller, request, logged>>
envVars  == <<active, hook, changes>>
vars == <<api, job, note, attempt, accepted, task, run, active, hook, call,
          caller, request, logged, faults, changes>>
----------------------------------------------------------------------------
Final == {"sent", "failed", "partial_failed", "partial_skipped", "skipped"}

\* isTerminalNotificationStatus
IsTerminal(status) == status \in Final

\* Rows of asynq's task tables, and what a handler holds.
TaskRecord == [state : {"none", "pending", "active", "done", "archived", "lost"},
               retried : Runs]
CallRecord == [state : {"none", "pending", "active", "done", "archived"},
               retried : Runs, event : Events \cup {"none"}]

\* channel: the channel being delivered; ok, bad: the counters of send's loop.
RunRecord ==
    [at : {"idle", "start", "skip", "deliver", "record", "settle", "list", "dispatch",
           "ack"},
     skip : SUBSET Channels, todo : SUBSET Channels, channel : SUBSET Channels,
     took : BOOLEAN, ok : SUBSET Channels, bad : SUBSET Channels, hooks : SUBSET Hooks]
CallerRecord == [at : {"idle", "fetch", "post", "log", "ack"},
                 answer : {"none", "2xx", "4xx", "other"}]

IdleRun    == [at |-> "idle", skip |-> {}, todo |-> {}, channel |-> {},
               took |-> FALSE, ok |-> {}, bad |-> {}, hooks |-> {}]
IdleCaller == [at |-> "idle", answer |-> "none"]

\* The row of a hook, and the mark of an id not yet given to one.
Registered(es) == [active |-> TRUE, events |-> es]
Unregistered   == [active |-> FALSE, events |-> {}]

Init ==
    /\ api = [j \in Jobs |-> "none"]
    /\ job = [j \in Jobs |-> [channels |-> {}, skipped |-> {}]]
    /\ note = [j \in Jobs |-> "none"]
    /\ attempt = [jc \in Jobs \X Channels |-> "none"]
    /\ accepted = [jc \in Jobs \X Channels |-> 0]
    /\ task = [j \in Jobs |-> [state |-> "none", retried |-> 0]]
    /\ run = [j \in Jobs |-> IdleRun]
    /\ active \in [Channels -> {{}, Providers}]
    /\ hook \in [Hooks -> {Unregistered} \cup {Registered(Events)}]
    /\ call = [w \in Calls |-> [state |-> "none", retried |-> 0, event |-> "none"]]
    /\ caller = [w \in Calls |-> IdleCaller]
    /\ request = [w \in Calls |-> [made |-> 0, late |-> 0]]
    /\ logged = [w \in Calls |-> {}]
    /\ faults = [met |-> 0, swallowed |-> 0]
    /\ changes = 0
----------------------------------------------------------------------------
(***************************************************************************)
(* The queue, and what the environment may do.                             *)
(***************************************************************************)
Fault == faults.met < MaxFaults /\ faults' = [faults EXCEPT !.met = @ + 1]

\* A call whose error the code only logs: it works, or it fails and nobody knows.
Works == UNCHANGED faults
Swallowed ==
    /\ faults.met < MaxFaults
    /\ faults' = [met |-> faults.met + 1, swallowed |-> faults.swallowed + 1]

\* Mutated form: one retry too many.
Retried_OffByOne(record) ==
    IF record.retried <= MaxRetry
    THEN [record EXCEPT !.state = "pending", !.retried = @ + 1]
    ELSE [record EXCEPT !.state = "archived"]

\* Mutated form: a task that fails is left in the active list.
Retried_Never(record) == record

\* A handler failed, timed out or died: the task is retried until its retries
\* are used up, then archived.
Retried(record) ==
    IF record.retried < MaxRetry
    THEN [record EXCEPT !.state = "pending", !.retried = @ + 1]
    ELSE [record EXCEPT !.state = "archived"]

PickUp(j) ==
    /\ task[j].state = "pending"
    /\ task' = [task EXCEPT ![j].state = "active"]
    /\ run' = [run EXCEPT ![j] = [IdleRun EXCEPT !.at = "start"]]
    /\ UNCHANGED <<api, job, note, attempt, accepted, envVars, call, callVars, faults>>

\* Any call of Service.send fails or its process dies. Nobody retries the send
\* of a test request.
SendFails(j) ==
    /\ Fault
    /\ task[j].state = "active"
    /\ task' = [task EXCEPT ![j] = IF api[j] = "test" THEN [@ EXCEPT !.state = "lost"]
                                                      ELSE Retried(@)]
    /\ run' = [run EXCEPT ![j] = IdleRun]
    /\ UNCHANGED <<api, job, note, attempt, accepted, envVars, call, callVars>>
----------------------------------------------------------------------------
(***************************************************************************)
(* The API: triggerWorkflow, create and testSend, after PrepareJob.        *)
(***************************************************************************)

\* PrepareJob: each requested channel is delivered, or skipped with a reason.
Prepare(j) ==
    \E cs, sk \in SUBSET Channels :
        cs \cap sk = {} /\ job' = [job EXCEPT ![j] = [channels |-> cs, skipped |-> sk]]

\* Mutated form: triggerWorkflow enqueues first and creates the row after.
CreateQueuedNotification_Late(j) ==
    /\ \/ api[j] = "none" /\ Prepare(j)
          /\ task' = [task EXCEPT ![j].state = "pending"]
          /\ api' = [api EXCEPT ![j] = "created"]
          /\ UNCHANGED <<note>>
       \/ api[j] = "created" /\ note' = [note EXCEPT ![j] = "queued"]
          /\ api' = [api EXCEPT ![j] = "enqueued"]
          /\ UNCHANGED <<job, task>>
    /\ UNCHANGED <<attempt, accepted, run, envVars, call, callVars, faults>>

\* triggerWorkflow creates the row before it enqueues the job.
CreateQueuedNotification(j) ==
    /\ api[j] = "none"
    /\ Prepare(j)
    /\ note' = [note EXCEPT ![j] = "queued"]
    /\ api' = [api EXCEPT ![j] = "created"]
    /\ UNCHANGED <<attempt, accepted, task, run, envVars, call, callVars, faults>>

\* Producer.Enqueue, at the end of triggerWorkflow, of create, and of a
\* workflow's notification step.
EnqueueJob(j) ==
    /\ \/ api[j] = "created" /\ UNCHANGED job
       \/ api[j] = "none" /\ Prepare(j)
    /\ task' = [task EXCEPT ![j].state = "pending"]
    /\ api' = [api EXCEPT ![j] = "enqueued"]
    /\ UNCHANGED <<note, attempt, accepted, run, envVars, call, callVars, faults>>

\* The enqueue fails: the request is answered 500, the row stays "queued".
EnqueueJobFails(j) ==
    /\ Fault
    /\ api[j] = "created"
    /\ api' = [api EXCEPT ![j] = "rejected"]
    /\ UNCHANGED <<job, note, attempt, accepted, task, run, envVars, call, callVars>>

\* testSend: SendSync in the request's own goroutine, on one channel.
TestSend(j) ==
    /\ api[j] = "none"
    /\ \E c \in Channels :
          job' = [job EXCEPT ![j] = [channels |-> {c}, skipped |-> {}]]
    /\ api' = [api EXCEPT ![j] = "test"]
    /\ task' = [task EXCEPT ![j].state = "active"]
    /\ run' = [run EXCEPT ![j] = [IdleRun EXCEPT !.at = "start"]]
    /\ UNCHANGED <<note, attempt, accepted, envVars, call, callVars, faults>>

Change == changes < MaxChanges /\ changes' = changes + 1

\* Integrations are connected, enabled, disabled and deleted.
ChangeIntegrations(c, ps) ==
    /\ Change
    /\ ps # active[c]
    /\ active' = [active EXCEPT ![c] = ps]
    /\ UNCHANGED <<jobVars, hook, call, callVars, faults>>

CreateWebhook(h, es) ==
    /\ Change
    /\ hook[h] = Unregistered
    /\ hook' = [hook EXCEPT ![h] = Registered(es)]
    /\ UNCHANGED <<jobVars, active, call, callVars, faults>>

DeleteWebhook(h) ==
    /\ Change
    /\ hook[h].active
    /\ hook' = [hook EXCEPT ![h].active = FALSE]
    /\ UNCHANGED <<jobVars, active, call, callVars, faults>>
----------------------------------------------------------------------------
(***************************************************************************)
(* Service.send, one action per call it makes.                             *)
(***************************************************************************)
At(j, point) == task[j].state = "active" /\ run[j].at = point

\* The loop over SkippedChannels, then the loop over Channels, then the status.
NextPoint(skip, todo) ==
    CASE skip # {} -> "skip" [] skip = {} /\ todo # {} -> "deliver" [] OTHER -> "settle"

\* UpsertByProjectJob overwrites the status of a row that exists and returns
\* the row it wrote; the guard on a terminal status tests that row.
StartSend(j) ==
    /\ At(j, "start")
    /\ note' = [note EXCEPT ![j] = "pending"]
    /\ run' = [run EXCEPT ![j] =
           [@ EXCEPT !.skip = job[j].skipped, !.todo = job[j].channels,
                     !.at = IF IsTerminal(note'[j]) THEN "ack"
                            ELSE NextPoint(job[j].skipped, job[j].channels)]]
    /\ UNCHANGED <<api, job, attempt, accepted, task, envVars, call, callVars, faults>>

\* recordSkipped
RecordSkipped(j) ==
    /\ At(j, "skip")
    /\ \E c \in run[j].skip :
          /\ \/ Works /\ attempt' = [attempt EXCEPT ![<<j, c>>] = "skipped"]
             \/ Swallowed /\ UNCHANGED attempt
          /\ run' = [run EXCEPT ![j] =
                 [@ EXCEPT !.skip = run[j].skip \ {c},
                           !.at = NextPoint(run[j].skip \ {c}, run[j].todo)]]
    /\ UNCHANGED <<api, job, note, accepted, task, envVars, call, callVars>>

\* Mutated form: sends through every active provider of the channel.
SendChannel_EveryProvider(j) ==
    /\ At(j, "deliver")
    /\ \E c \in run[j].todo :
          /\ active[c] # {}
          /\ accepted' = [accepted EXCEPT ![<<j, c>>] = @ + Cardinality(active[c])]
          /\ run' = [run EXCEPT ![j] = [@ EXCEPT !.at = "record", !.channel = {c},
                                                 !.took = TRUE]]
    /\ UNCHANGED <<api, job, note, attempt, task, envVars, call, callVars, faults>>

\* deliverProjectChannel with an active provider: it takes the message, or it
\* reports an error, which does not mean that nothing went out.
SendChannel(j) ==
    /\ At(j, "deliver")
    /\ \E c \in run[j].todo, took, out \in BOOLEAN :
          /\ active[c] # {}
          /\ took => out
          /\ accepted' = [accepted EXCEPT ![<<j, c>>] = IF out THEN @ + 1 ELSE @]
          /\ run' = [run EXCEPT ![j] = [@ EXCEPT !.at = "record", !.channel = {c},
                                                 !.took = took]]
    /\ UNCHANGED <<api, job, note, attempt, task, envVars, call, callVars, faults>>

\* deliverProjectChannel without one, or whose credentials cannot be read.
NoProvider(j) ==
    /\ At(j, "deliver")
    /\ \E c \in run[j].todo :
          /\ (active[c] = {} /\ Works) \/ Fault
          /\ run' = [run EXCEPT ![j] = [@ EXCEPT !.at = "record", !.channel = {c},
                                                 !.took = FALSE]]
    /\ UNCHANGED <<api, job, note, attempt, accepted, task, envVars, call, callVars>>

\* recordSuccess or recordFailed: the row of the channel that is written last,
\* and the counters of send's loop.
RecordAttempt(j) ==
    /\ At(j, "record")
    /\ \E c \in run[j].channel :
          /\ \/ /\ Works
                /\ attempt' = [attempt EXCEPT ![<<j, c>>] =
                                  IF run[j].took THEN "sent" ELSE "failed"]
             \/ Swallowed /\ UNCHANGED attempt
          /\ run' = [run EXCEPT ![j] =
                 [@ EXCEPT !.todo = run[j].todo \ {c}, !.channel = {},
                           !.ok  = run[j].ok \cup (IF run[j].took THEN {c} ELSE {}),
                           !.bad = run[j].bad \cup (IF run[j].took THEN {} ELSE {c}),
                           !.at  = NextPoint({}, run[j].todo \ {c})]]
    /\ UNCHANGED <<api, job, note, accepted, task, envVars, call, callVars>>

\* Mutated form: the order of two cases swapped, skipped channels are forgotten.
FinalStatus_SkipsLast(ok, bad, skipped) ==
    CASE ok = {} /\ bad = {} /\ skipped # {} -> "skipped"
      [] ok # {} /\ bad = {} -> "sent"
      [] ok # {} /\ bad # {} -> "partial_failed"
      [] OTHER -> "failed"

\* Mutated form: anything that is not all failures counts as sent.
FinalStatus_Optimistic(ok, bad, skipped) ==
    CASE ok = {} /\ bad = {} -> "sent"
      [] ok # {} /\ bad = {} /\ skipped # {} -> "partial_skipped"
      [] ok # {} /\ bad = {} /\ skipped = {} -> "sent"
      [] ok # {} /\ bad # {} -> "partial_failed"
      [] OTHER -> "failed"

\* finalNotificationStatus
FinalStatus(ok, bad, skipped) ==
    CASE ok = {} /\ bad = {} /\ skipped # {} -> "skipped"
      [] ok # {} /\ bad = {} /\ skipped # {} -> "partial_skipped"
      [] ok # {} /\ bad = {} /\ skipped = {} -> "sent"
      [] ok # {} /\ bad # {} -> "partial_failed"
      [] OTHER -> "failed"

\* UpdateStatus
SettleStatus(j) ==
    /\ At(j, "settle")
    /\ note' = [note EXCEPT ![j] = FinalStatus(run[j].ok, run[j].bad, job[j].skipped)]
    /\ run' = [run EXCEPT ![j] = [@ EXCEPT !.at = "list"]]
    /\ UNCHANGED <<api, job, attempt, accepted, task, envVars, call, callVars, faults>>

\* The event Dispatch is called with.
EventOf(status) ==
    IF status \in {"failed", "skipped"} THEN "notification.failed" ELSE "notification.sent"

Subscribed(h, event) == hook[h].active /\ event \in hook[h].events

\* Mutated form: hooks are always listed for "notification.sent".
ListHooks_SentOnly(j) ==
    LET hs == {h \in Hooks : Subscribed(h, "notification.sent")}
    IN  /\ At(j, "list")
        /\ run' = [run EXCEPT ![j] = [@ EXCEPT !.hooks = hs,
                      !.at = IF hs = {} THEN "ack" ELSE "dispatch"]]
        /\ UNCHANGED <<api, job, note, attempt, accepted, task, envVars, call, callVars,
                       faults>>

\* ListActiveWebhooksForEvent
ListHooks(j) ==
    LET hs == {h \in Hooks : Subscribed(h, EventOf(note[j]))}
    IN  /\ At(j, "list")
        /\ \/ /\ Works
              /\ run' = [run EXCEPT ![j] = [@ EXCEPT !.hooks = hs,
                            !.at = IF hs = {} THEN "ack" ELSE "dispatch"]]
           \/ Swallowed /\ run' = [run EXCEPT ![j] = [@ EXCEPT !.at = "ack"]]
        /\ UNCHANGED <<api, job, note, attempt, accepted, task, envVars, call, callVars>>

\* Producer.EnqueueWebhook, for each hook listed
EnqueueWebhook(j) ==
    /\ At(j, "dispatch")
    /\ \E h \in run[j].hooks :
          /\ \/ /\ Works
                /\ call' = [call EXCEPT ![<<j, h, task[j].retried>>] =
                      [state |-> "pending", retried |-> 0, event |-> EventOf(note[j])]]
             \/ Swallowed /\ UNCHANGED call
          /\ run' = [run EXCEPT ![j] =
                 [@ EXCEPT !.hooks = run[j].hooks \ {h},
                           !.at = IF run[j].hooks = {h} THEN "ack" ELSE "dispatch"]]
    /\ UNCHANGED <<api, job, note, attempt, accepted, task, envVars, callVars>>

\* send returned: asynq deletes the task, or the test request is answered.
Acknowledge(j) ==
    /\ At(j, "ack")
    /\ task' = [task EXCEPT ![j].state = "done"]
    /\ run' = [run EXCEPT ![j] = IdleRun]
    /\ UNCHANGED <<api, job, note, attempt, accepted, envVars, call, callVars, faults>>
----------------------------------------------------------------------------
(***************************************************************************)
(* Dispatcher.Execute and deliver, one action per call they make.          *)
(***************************************************************************)
CallAt(w, point) == call[w].state = "active" /\ caller[w].at = point

PickUpCall(w) ==
    /\ call[w].state = "pending"
    /\ call' = [call EXCEPT ![w].state = "active"]
    /\ caller' = [caller EXCEPT ![w] = [IdleCaller EXCEPT !.at = "fetch"]]
    /\ UNCHANGED <<jobVars, envVars, request, logged, faults>>

\* InsertWebhookDelivery; its error is only logged.
RecordDelivery(w, status) ==
    \/ Works /\ logged' = [logged EXCEPT ![w] = @ \cup {status}]
    \/ Swallowed /\ UNCHANGED logged

\* Mutated form: is_active is not tested again when the task runs.
FetchHook_NoCheck(w) ==
    /\ CallAt(w, "fetch")
    /\ caller' = [caller EXCEPT ![w].at = "post"]
    /\ UNCHANGED <<jobVars, envVars, call, request, logged, faults>>

\* GetWebhookByID, with the hook still active
FetchHook(w) ==
    /\ CallAt(w, "fetch")
    /\ Subscribed(w[2], call[w].event)
    /\ caller' = [caller EXCEPT ![w].at = "post"]
    /\ UNCHANGED <<jobVars, envVars, call, request, logged, faults>>

\* The hook was deleted meanwhile: recorded as failed, and not retried.
HookGone(w) ==
    /\ CallAt(w, "fetch")
    /\ ~ Subscribed(w[2], call[w].event)
    /\ RecordDelivery(w, "failed")
    /\ call' = [call EXCEPT ![w].state = "archived"]
    /\ caller' = [caller EXCEPT ![w] = IdleCaller]
    /\ UNCHANGED <<jobVars, envVars, request>>

\* client.Do, with the row FetchHook read: no answer counts as any other error.
Post(w) ==
    /\ CallAt(w, "post")
    /\ \E answer \in {"2xx", "4xx", "other"} :
          caller' = [caller EXCEPT ![w] = [at |-> "log", answer |-> answer]]
    /\ request' = [request EXCEPT ![w] =
           [made |-> @.made + 1, late |-> IF hook[w[2]].active THEN @.late ELSE @.late + 1]]
    /\ UNCHANGED <<jobVars, envVars, call, logged, faults>>

\* Mutated form: only a 4xx is reported as an error.
LogDelivery_ServerErrorAccepted(w) ==
    /\ CallAt(w, "log")
    /\ RecordDelivery(w, IF caller[w].answer = "2xx" THEN "sent" ELSE "failed")
    /\ \/ /\ caller[w].answer # "4xx"
          /\ caller' = [caller EXCEPT ![w].at = "ack"]
          /\ UNCHANGED call
       \/ /\ caller[w].answer = "4xx"
          /\ call' = [call EXCEPT ![w].state = "archived"]
          /\ caller' = [caller EXCEPT ![w] = IdleCaller]
    /\ UNCHANGED <<jobVars, envVars, request>>

\* recordDelivery, then deliver returns: done, not retried, or retried.
LogDelivery(w) ==
    /\ CallAt(w, "log")
    /\ RecordDelivery(w, IF caller[w].answer = "2xx" THEN "sent" ELSE "failed")
    /\ \/ /\ caller[w].answer = "2xx"
          /\ caller' = [caller EXCEPT ![w].at = "ack"]
          /\ UNCHANGED call
       \/ /\ caller[w].answer = "4xx"
          /\ call' = [call EXCEPT ![w].state = "archived"]
          /\ caller' = [caller EXCEPT ![w] = IdleCaller]
       \/ /\ caller[w].answer = "other"
          /\ call' = [call EXCEPT ![w] = Retried(@)]
          /\ caller' = [caller EXCEPT ![w] = IdleCaller]
    /\ UNCHANGED <<jobVars, envVars, request>>

AcknowledgeCall(w) ==
    /\ CallAt(w, "ack")
    /\ call' = [call EXCEPT ![w].state = "done"]
    /\ caller' = [caller EXCEPT ![w] = IdleCaller]
    /\ UNCHANGED <<jobVars, envVars, request, logged, faults>>

CallFails(w) ==
    /\ Fault
    /\ call[w].state = "active"
    /\ call' = [call EXCEPT ![w] = Retried(@)]
    /\ caller' = [caller EXCEPT ![w] = IdleCaller]
    /\ UNCHANGED <<jobVars, envVars, request, logged>>
----------------------------------------------------------------------------
Request(j) ==
    \/ CreateQueuedNotification(j) \/ EnqueueJob(j) \/ EnqueueJobFails(j) \/ TestSend(j)

Send(j) ==
    \/ StartSend(j) \/ RecordSkipped(j) \/ SendChannel(j) \/ NoProvider(j)
    \/ RecordAttempt(j) \/ SettleStatus(j) \/ ListHooks(j) \/ EnqueueWebhook(j)
    \/ Acknowledge(j)

Execute(w) ==
    FetchHook(w) \/ HookGone(w) \/ Post(w) \/ LogDelivery(w) \/ AcknowledgeCall(w)

Configure ==
    \/ \E c \in Channels, ps \in SUBSET Providers : ChangeIntegrations(c, ps)
    \/ \E h \in Hooks, es \in (SUBSET Events) \ {{}} : CreateWebhook(h, es)
    \/ \E h \in Hooks : DeleteWebhook(h)

Next ==
    \/ \E j \in Jobs : Request(j) \/ PickUp(j) \/ Send(j) \/ SendFails(j)
    \/ \E w \in Calls : PickUpCall(w) \/ Execute(w) \/ CallFails(w)
    \/ Configure

Spec == Init /\ [][Next]_vars

\* The asynq server keeps picking up pending tasks, and a handler that started
\* keeps making its calls until it returns or is cut off.
FairSpec ==
    /\ Spec
    /\ \A j \in Jobs : WF_vars(PickUp(j)) /\ WF_vars(Send(j) \/ SendFails(j))
    /\ \A w \in Calls : WF_vars(PickUpCall(w)) /\ WF_vars(Execute(w) \/ CallFails(w))
----------------------------------------------------------------------------
(***************************************************************************)
(* Properties.                                                             *)
(***************************************************************************)
TypeOK ==
    /\ api \in [Jobs -> {"none", "created", "enqueued", "rejected", "test"}]
    /\ job \in [Jobs -> [channels : SUBSET Channels, skipped : SUBSET Channels]]
    /\ note \in [Jobs -> {"none", "queued", "pending"} \cup Final]
    /\ attempt \in [Jobs \X Channels -> {"none", "sent", "failed", "skipped"}]
    /\ accepted \in [Jobs \X Channels -> Nat]
    /\ task \in [Jobs -> TaskRecord]
    /\ run \in [Jobs -> RunRecord]
    /\ active \in [Channels -> SUBSET Providers]
    /\ hook \in [Hooks -> [active : BOOLEAN, events : SUBSET Events]]
    /\ call \in [Calls -> CallRecord]
    /\ caller \in [Calls -> CallerRecord]
    /\ request \in [Calls -> [made : Nat, late : Nat]]
    /\ logged \in [Calls -> SUBSET {"sent", "failed"}]
    /\ faults \in [met : 0 .. MaxFaults, swallowed : 0 .. MaxFaults]
    /\ changes \in 0 .. MaxChanges

RowsOf(j, status) == {c \in Channels : attempt[<<j, c>>] = status}

\* Unless a write failed whose error is only logged, a settled notification agrees
\* with the delivery attempts stored for it, whatever earlier runs left there.
StatusMatchesAttempts ==
    faults.swallowed = 0 => \A j \in Jobs : IsTerminal(note[j]) =>
        /\ RowsOf(j, "sent") \cup RowsOf(j, "failed") = job[j].channels
        /\ RowsOf(j, "skipped") = job[j].skipped
        /\ note[j] = "sent" <=> RowsOf(j, "sent") # {} /\ job[j].skipped = {}
                                /\ RowsOf(j, "failed") = {}
        /\ note[j] = "failed" => RowsOf(j, "sent") = {}

\* No hook is told "notification.sent" of a notification that no provider took
\* on any channel, though the event is decided after all the deliveries.
SentEventHasBacking ==
    \A w \in Calls : call[w].event = "notification.sent" =>
        \E c \in job[w[1]].channels : accepted[<<w[1], c>>] >= 1

\* A job is sent through at most one provider per channel in each of its runs:
\* duplicates come from retries only, never from a second provider.
OneMessagePerRun ==
    \A j \in Jobs, c \in Channels : accepted[<<j, c>>] <= task[j].retried + 1

\* A row that still says "queued" belongs to a job that has delivered nothing:
\* the row the API creates never overwrites what the worker wrote.
QueuedMeansUntouched ==
    \A j \in Jobs : note[j] = "queued" =>
        /\ \A c \in Channels : accepted[<<j, c>>] = 0 /\ attempt[<<j, c>>] = "none"
        /\ \A h \in Hooks, r \in Runs : call[<<j, h, r>>].state = "none"

\* A webhook task makes at most one request to a hook that was deleted: the one
\* whose run had read the row before the deletion.
OneLateRequest == \A w \in Calls : request[w].late <= 1

\* An undelivered webhook job is given up after MaxRetry retries, and a job that
\* is done was answered 2xx: unless the write was lost, the log says so.
DoneMeansLogged ==
    \A w \in Calls :
        /\ request[w].made <= MaxRetry + 1
        /\ call[w].state = "done" /\ faults.swallowed = 0 => "sent" \in logged[w]

\* Every job handed to the queue settles, unless its retries ran out.
JobsSettle ==
    \A j \in Jobs :
        api[j] = "enqueued" ~> IsTerminal(note[j]) \/ task[j].state = "archived"

\* A hook subscribed to the event of a notification when its status is stored
\* gets a webhook task that ends, although the status is stored before hooks are
\* listed and their tasks enqueued one by one; the exceptions are a hook deleted
\* meanwhile, a swallowed error and a run nobody retries.
HooksHear ==
    \A j \in Jobs, h \in Hooks :
        At(j, "list") /\ Subscribed(h, EventOf(note[j])) ~>
            \/ \E r \in Runs : call[<<j, h, r>>].state \in {"done", "archived"}
            \/ ~ Subscribed(h, EventOf(note[j]))
            \/ task[j].state \in {"archived", "lost"}
            \/ faults.swallowed > 0

\* service_test.go 222, TestServiceSendIsIdempotentByJobID: running Send again on
\* a job whose notification is sent changes nothing.
SentIsFinal ==
    [][\A j \in Jobs : note[j] = "sent" => note'[j] = "sent"]_vars
============================================================================
