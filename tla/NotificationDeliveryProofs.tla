--------------------- MODULE NotificationDeliveryProofs ---------------------
(***************************************************************************)
(* Proofs about NotificationDelivery, for every set of jobs, channels,     *)
(* providers and hooks and every value of the bounds.                      *)
(***************************************************************************)
EXTENDS NotificationDelivery, TLAPS

\* TypeOK bounds the swallowed faults by MaxFaults, which is inductive only
\* because they are among the faults met.
Typed == TypeOK /\ faults.swallowed <= faults.met

LEMMA BoundsAreNat == MaxRetry \in Nat /\ MaxFaults \in Nat /\ MaxChanges \in Nat
BY DeliveryAssumption

LEMMA IdleTyped == IdleRun \in RunRecord /\ IdleCaller \in CallerRecord
BY DEF IdleRun, RunRecord, IdleCaller, CallerRecord

LEMMA CallParts ==
    ASSUME NEW w \in Calls
    PROVE  w[1] \in Jobs /\ w[2] \in Hooks /\ w[3] \in Runs /\ w = <<w[1], w[2], w[3]>>
BY DEF Calls

\* Updating the state of a task, and what a retry does to it.
LEMMA TaskUpdates ==
    ASSUME NEW r \in TaskRecord
    PROVE  /\ \A x \in {"none", "pending", "active", "done", "archived", "lost"} :
                 [r EXCEPT !.state = x] \in TaskRecord
           /\ Retried(r) \in TaskRecord
<1>1. \A x \in {"none", "pending", "active", "done", "archived", "lost"} :
         [r EXCEPT !.state = x] \in TaskRecord
  BY DEF TaskRecord
<1>2. CASE r.retried < MaxRetry
  <2>1. r.retried + 1 \in Runs
    BY <1>2, BoundsAreNat DEF TaskRecord, Runs
  <2>2. [r EXCEPT !.state = "pending", !.retried = r.retried + 1] \in TaskRecord
    BY <2>1 DEF TaskRecord
  <2>. QED  BY <1>1, <1>2, <2>2 DEF Retried
<1>3. CASE ~ r.retried < MaxRetry
  BY <1>1, <1>3 DEF Retried
<1>. QED  BY <1>1, <1>2, <1>3

LEMMA CallUpdates ==
    ASSUME NEW r \in CallRecord
    PROVE  /\ \A x \in {"none", "pending", "active", "done", "archived"} :
                 [r EXCEPT !.state = x] \in CallRecord
           /\ Retried(r) \in CallRecord
<1>1. \A x \in {"none", "pending", "active", "done", "archived"} :
         [r EXCEPT !.state = x] \in CallRecord
  BY DEF CallRecord
<1>2. CASE r.retried < MaxRetry
  <2>1. r.retried + 1 \in Runs
    BY <1>2, BoundsAreNat DEF CallRecord, Runs
  <2>2. [r EXCEPT !.state = "pending", !.retried = r.retried + 1] \in CallRecord
    BY <2>1 DEF CallRecord
  <2>. QED  BY <1>1, <1>2, <2>2 DEF Retried
<1>3. CASE ~ r.retried < MaxRetry
  BY <1>1, <1>3 DEF Retried
<1>. QED  BY <1>1, <1>2, <1>3

LEMMA FinalStatusTyped ==
    ASSUME NEW ok, NEW bad, NEW skipped
    PROVE  FinalStatus(ok, bad, skipped) \in Final
BY DEF FinalStatus, Final

LEMMA EventTyped == ASSUME NEW status PROVE EventOf(status) \in Events
BY DEF EventOf, Events

LEMMA NextPointTyped ==
    ASSUME NEW skip, NEW todo
    PROVE  NextPoint(skip, todo) \in {"skip", "deliver", "settle"}
BY DEF NextPoint

\* What the counters of the faults allow.
LEMMA FaultTyped ==
    ASSUME Typed, Fault \/ Swallowed \/ Works
    PROVE  /\ faults' \in [met : 0 .. MaxFaults, swallowed : 0 .. MaxFaults]
           /\ faults'.swallowed <= faults'.met
BY BoundsAreNat DEF Typed, TypeOK, Fault, Swallowed, Works

LEMMA RecordDeliveryTyped ==
    ASSUME Typed, NEW w \in Calls, NEW status \in {"sent", "failed"},
           RecordDelivery(w, status)
    PROVE  /\ logged' \in [Calls -> SUBSET {"sent", "failed"}]
           /\ faults' \in [met : 0 .. MaxFaults, swallowed : 0 .. MaxFaults]
           /\ faults'.swallowed <= faults'.met
<1>1. Swallowed \/ Works
  BY DEF RecordDelivery
<1>2. logged \in [Calls -> SUBSET {"sent", "failed"}]
  BY DEF Typed, TypeOK
<1>3. logged' \in [Calls -> SUBSET {"sent", "failed"}]
  BY <1>2 DEF RecordDelivery
<1>. QED  BY <1>1, <1>3, FaultTyped
----------------------------------------------------------------------------
(***************************************************************************)
(* Type correctness, group by group of Next.                               *)
(***************************************************************************)
LEMMA TypedAtFirst == Init => Typed
<1>. SUFFICES ASSUME Init PROVE Typed
  OBVIOUS
<1>1. hook \in [Hooks -> [active : BOOLEAN, events : SUBSET Events]]
  <2>1. /\ Unregistered \in [active : BOOLEAN, events : SUBSET Events]
        /\ Registered(Events) \in [active : BOOLEAN, events : SUBSET Events]
    BY DEF Registered, Unregistered
  <2>. QED  BY <2>1 DEF Init
<1>2. active \in [Channels -> SUBSET Providers]
  BY DEF Init
<1>3. 0 \in Runs /\ 0 \in 0 .. MaxFaults /\ 0 \in 0 .. MaxChanges
  BY BoundsAreNat DEF Runs
<1>4. /\ run \in [Jobs -> RunRecord] /\ caller \in [Calls -> CallerRecord]
      /\ task \in [Jobs -> TaskRecord] /\ call \in [Calls -> CallRecord]
  BY <1>3, IdleTyped DEF Init, TaskRecord, CallRecord
<1>. QED  BY <1>1, <1>2, <1>3, <1>4 DEF Init, Typed, TypeOK

LEMMA RequestTyped ==
    ASSUME Typed, NEW j \in Jobs, Request(j)
    PROVE  Typed'
<1>0. task[j] \in TaskRecord /\ IdleRun \in RunRecord
  BY IdleTyped DEF Typed, TypeOK
<1>1. CASE CreateQueuedNotification(j)
  BY <1>1 DEF CreateQueuedNotification, Prepare, Typed, TypeOK, envVars, callVars
<1>2. CASE EnqueueJob(j)
  <2>1. task' \in [Jobs -> TaskRecord]
    BY <1>0, <1>2, TaskUpdates DEF EnqueueJob, Typed, TypeOK
  <2>2. job' \in [Jobs -> [channels : SUBSET Channels, skipped : SUBSET Channels]]
    BY <1>2 DEF EnqueueJob, Prepare, Typed, TypeOK
  <2>. QED  BY <1>2, <2>1, <2>2 DEF EnqueueJob, Typed, TypeOK, envVars, callVars
<1>3. CASE EnqueueJobFails(j)
  BY <1>3, FaultTyped DEF EnqueueJobFails, Typed, TypeOK, envVars, callVars
<1>4. CASE TestSend(j)
  <2>1. task' \in [Jobs -> TaskRecord]
    BY <1>0, <1>4, TaskUpdates DEF TestSend, Typed, TypeOK
  <2>2. run' \in [Jobs -> RunRecord]
    <3>1. [IdleRun EXCEPT !.at = "start"] \in RunRecord
      BY DEF IdleRun, RunRecord
    <3>. QED  BY <1>4, <3>1 DEF TestSend, Typed, TypeOK
  <2>3. job' \in [Jobs -> [channels : SUBSET Channels, skipped : SUBSET Channels]]
    BY <1>4 DEF TestSend, Typed, TypeOK
  <2>. QED  BY <1>4, <2>1, <2>2, <2>3 DEF TestSend, Typed, TypeOK, envVars, callVars
<1>. QED  BY <1>1, <1>2, <1>3, <1>4 DEF Request

LEMMA QueueTyped ==
    ASSUME Typed, NEW j \in Jobs, PickUp(j) \/ SendFails(j) \/ Acknowledge(j)
    PROVE  Typed'
<1>0. task[j] \in TaskRecord /\ IdleRun \in RunRecord
  BY IdleTyped DEF Typed, TypeOK
<1>1. [IdleRun EXCEPT !.at = "start"] \in RunRecord
  BY DEF IdleRun, RunRecord
<1>2. task' \in [Jobs -> TaskRecord]
  <2>1. task \in [Jobs -> TaskRecord]
    BY DEF Typed, TypeOK
  <2>2. \E r \in TaskRecord : task' = [task EXCEPT ![j] = r]
    <3>1. CASE PickUp(j)
      BY <1>0, <3>1, TaskUpdates DEF PickUp
    <3>2. CASE SendFails(j)
      BY <1>0, <3>2, TaskUpdates DEF SendFails
    <3>3. CASE Acknowledge(j)
      BY <1>0, <3>3, TaskUpdates DEF Acknowledge
    <3>. QED  BY <3>1, <3>2, <3>3
  <2>. QED  BY <2>1, <2>2
<1>3. run' \in [Jobs -> RunRecord]
  BY <1>0, <1>1 DEF PickUp, SendFails, Acknowledge, Typed, TypeOK
<1>4. Fault \/ faults' = faults
  BY DEF PickUp, SendFails, Acknowledge
<1>. QED  BY <1>2, <1>3, <1>4, FaultTyped
          DEF PickUp, SendFails, Acknowledge, Typed, TypeOK, envVars, callVars, Works

LEMMA ConfigureTyped ==
    ASSUME Typed, Configure
    PROVE  Typed'
<1>1. ASSUME NEW c \in Channels, NEW ps \in SUBSET Providers, ChangeIntegrations(c, ps)
      PROVE  Typed'
  BY <1>1, BoundsAreNat
     DEF ChangeIntegrations, Change, Typed, TypeOK, jobVars, callVars
<1>2. ASSUME NEW h \in Hooks, NEW es \in (SUBSET Events) \ {{}}, CreateWebhook(h, es)
      PROVE  Typed'
  <2>1. hook' \in [Hooks -> [active : BOOLEAN, events : SUBSET Events]]
    BY <1>2 DEF CreateWebhook, Registered, Typed, TypeOK
  <2>. QED  BY <1>2, <2>1, BoundsAreNat
            DEF CreateWebhook, Change, Typed, TypeOK, jobVars, callVars
<1>3. ASSUME NEW h \in Hooks, DeleteWebhook(h) PROVE Typed'
  <2>1. hook' \in [Hooks -> [active : BOOLEAN, events : SUBSET Events]]
    <3>1. /\ hook \in [Hooks -> [active : BOOLEAN, events : SUBSET Events]]
          /\ hook' = [hook EXCEPT ![h] = [hook[h] EXCEPT !.active = FALSE]]
      BY <1>3 DEF DeleteWebhook, Typed, TypeOK
    <3>2. [hook[h] EXCEPT !.active = FALSE] \in [active : BOOLEAN, events : SUBSET Events]
      BY <3>1
    <3>. QED  BY <3>1, <3>2
  <2>2. changes' \in 0 .. MaxChanges
    BY <1>3, BoundsAreNat DEF DeleteWebhook, Change, Typed, TypeOK
  <2>. QED  BY <1>3, <2>1, <2>2
            DEF DeleteWebhook, Typed, TypeOK, jobVars, callVars
<1>. QED  BY <1>1, <1>2, <1>3 DEF Configure

\* The steps of send change the run of j to some record with the fields they name.
Points == {"idle", "start", "skip", "deliver", "record", "settle", "list", "dispatch",
           "ack"}

LEMMA RunUpdates ==
    ASSUME NEW r \in RunRecord, NEW p \in Points, NEW S \in SUBSET Channels
    PROVE  /\ [r EXCEPT !.at = p] \in RunRecord
           /\ [r EXCEPT !.skip = S, !.at = p] \in RunRecord
           /\ \A T \in SUBSET Channels :
                 [r EXCEPT !.skip = S, !.todo = T, !.at = p] \in RunRecord
           /\ \A b \in BOOLEAN :
                 [r EXCEPT !.at = p, !.channel = S, !.took = b] \in RunRecord
           /\ \A T, ok, bad \in SUBSET Channels :
                 [r EXCEPT !.todo = T, !.channel = S, !.ok = ok, !.bad = bad, !.at = p]
                    \in RunRecord
           /\ \A hs \in SUBSET Hooks : [r EXCEPT !.hooks = hs, !.at = p] \in RunRecord
BY DEF RunRecord, Points

LEMMA RunTyped ==
    ASSUME Typed, NEW j \in Jobs, NEW r \in RunRecord, run' = [run EXCEPT ![j] = r]
    PROVE  run' \in [Jobs -> RunRecord]
BY DEF Typed, TypeOK

LEMMA SendTyped ==
    ASSUME Typed, NEW j \in Jobs, Send(j)
    PROVE  Typed'
<1>0. /\ run[j] \in RunRecord
      /\ run[j].skip \subseteq Channels /\ run[j].todo \subseteq Channels
      /\ run[j].ok \subseteq Channels /\ run[j].bad \subseteq Channels
      /\ run[j].channel \subseteq Channels /\ run[j].hooks \subseteq Hooks
      /\ job[j].channels \subseteq Channels /\ job[j].skipped \subseteq Channels
  BY DEF Typed, TypeOK, RunRecord
<1>1. CASE StartSend(j)
  <2> DEFINE p == IF IsTerminal(note'[j]) THEN "ack"
                  ELSE NextPoint(job[j].skipped, job[j].channels)
             r == [run[j] EXCEPT !.skip = job[j].skipped, !.todo = job[j].channels,
                                 !.at = p]
  <2>1. p \in Points
    BY NextPointTyped DEF Points
  <2>2. r \in RunRecord
    <3>. HIDE DEF p
    <3>. QED  BY <1>0, <2>1, RunUpdates
  <2>3. run' = [run EXCEPT ![j] = r]
    BY <1>1 DEF StartSend
  <2>4. run' \in [Jobs -> RunRecord]
    <3>. HIDE DEF r
    <3>. QED  BY <2>2, <2>3, RunTyped
  <2>5. note' = [note EXCEPT ![j] = "pending"]
    BY <1>1 DEF StartSend
  <2>6. note' \in [Jobs -> {"none", "queued", "pending"} \cup Final]
    BY <2>5 DEF Typed, TypeOK
  <2>7. UNCHANGED <<api, job, attempt, accepted, task, envVars, call, callVars, faults>>
    BY <1>1 DEF StartSend
  <2>. QED  BY <2>4, <2>6, <2>7 DEF Typed, TypeOK, envVars, callVars
<1>2. CASE RecordSkipped(j)
  <2>1. PICK c \in run[j].skip :
           /\ \/ Works /\ attempt' = [attempt EXCEPT ![<<j, c>>] = "skipped"]
              \/ Swallowed /\ UNCHANGED attempt
           /\ run' = [run EXCEPT ![j] =
                 [@ EXCEPT !.skip = run[j].skip \ {c},
                           !.at = NextPoint(run[j].skip \ {c}, run[j].todo)]]
    BY <1>2 DEF RecordSkipped
  <2>2. NextPoint(run[j].skip \ {c}, run[j].todo) \in Points
    BY NextPointTyped DEF Points
  <2> DEFINE r == [run[j] EXCEPT !.skip = run[j].skip \ {c},
                       !.at = NextPoint(run[j].skip \ {c}, run[j].todo)]
  <2>3. r \in RunRecord
    BY <1>0, <2>2, RunUpdates
  <2>4. run' \in [Jobs -> RunRecord]
    <3>1. run' = [run EXCEPT ![j] = r]
      BY <2>1
    <3>. HIDE DEF r
    <3>. QED  BY <2>3, <3>1, RunTyped
  <2>5. attempt' \in [Jobs \X Channels -> {"none", "sent", "failed", "skipped"}]
    BY <2>1 DEF Typed, TypeOK
  <2>. QED  BY <1>2, <2>1, <2>4, <2>5, FaultTyped
            DEF RecordSkipped, Typed, TypeOK, envVars, callVars
<1>3. CASE SendChannel(j)
  <2>1. PICK c \in run[j].todo, took \in BOOLEAN, out \in BOOLEAN :
           /\ accepted' = [accepted EXCEPT ![<<j, c>>] = IF out THEN @ + 1 ELSE @]
           /\ run' = [run EXCEPT ![j] = [@ EXCEPT !.at = "record", !.channel = {c},
                                                  !.took = took]]
    BY <1>3 DEF SendChannel
  <2>2. [run[j] EXCEPT !.at = "record", !.channel = {c}, !.took = took] \in RunRecord
    <3>1. {c} \in SUBSET Channels /\ "record" \in Points
      BY <1>0 DEF Points
    <3>. QED  BY <1>0, <3>1, RunUpdates
  <2>3. run' \in [Jobs -> RunRecord]
    <3>. DEFINE r == [run[j] EXCEPT !.at = "record", !.channel = {c}, !.took = took]
    <3>1. run' = [run EXCEPT ![j] = r] /\ r \in RunRecord
      BY <2>1, <2>2
    <3>. HIDE DEF r
    <3>. QED  BY <3>1, RunTyped
  <2>4. accepted' \in [Jobs \X Channels -> Nat]
    BY <1>0, <2>1 DEF Typed, TypeOK
  <2>. QED  BY <1>3, <2>3, <2>4 DEF SendChannel, Typed, TypeOK, envVars, callVars
<1>4. CASE NoProvider(j)
  <2>1. PICK c \in run[j].todo :
           run' = [run EXCEPT ![j] = [@ EXCEPT !.at = "record", !.channel = {c},
                                               !.took = FALSE]]
    BY <1>4 DEF NoProvider
  <2>2. [run[j] EXCEPT !.at = "record", !.channel = {c}, !.took = FALSE] \in RunRecord
    <3>1. {c} \in SUBSET Channels /\ "record" \in Points
      BY <1>0 DEF Points
    <3>. QED  BY <1>0, <3>1, RunUpdates
  <2>3. run' \in [Jobs -> RunRecord]
    <3>. DEFINE r == [run[j] EXCEPT !.at = "record", !.channel = {c}, !.took = FALSE]
    <3>1. run' = [run EXCEPT ![j] = r] /\ r \in RunRecord
      BY <2>1, <2>2
    <3>. HIDE DEF r
    <3>. QED  BY <3>1, RunTyped
  <2>4. Fault \/ Works
    BY <1>4 DEF NoProvider
  <2>. QED  BY <1>4, <2>3, <2>4, FaultTyped
            DEF NoProvider, Typed, TypeOK, envVars, callVars
<1>5. CASE RecordAttempt(j)
  <2>1. PICK c \in run[j].channel :
           /\ \/ /\ Works
                 /\ attempt' = [attempt EXCEPT ![<<j, c>>] =
                                   IF run[j].took THEN "sent" ELSE "failed"]
              \/ Swallowed /\ UNCHANGED attempt
           /\ run' = [run EXCEPT ![j] =
                 [@ EXCEPT !.todo = run[j].todo \ {c}, !.channel = {},
                           !.ok  = run[j].ok \cup (IF run[j].took THEN {c} ELSE {}),
                           !.bad = run[j].bad \cup (IF run[j].took THEN {} ELSE {c}),
                           !.at  = NextPoint({}, run[j].todo \ {c})]]
    BY <1>5 DEF RecordAttempt
  <2> DEFINE ok  == run[j].ok \cup (IF run[j].took THEN {c} ELSE {})
             bad == run[j].bad \cup (IF run[j].took THEN {} ELSE {c})
             p   == NextPoint({}, run[j].todo \ {c})
  <2>2. ok \subseteq Channels /\ bad \subseteq Channels
    BY <1>0
  <2>3. p \in Points
    BY NextPointTyped DEF Points
  <2> DEFINE r == [run[j] EXCEPT !.todo = run[j].todo \ {c}, !.channel = {}, !.ok = ok,
                                 !.bad = bad, !.at = p]
  <2>4. r \in RunRecord
    <3>1. run[j].todo \ {c} \in SUBSET Channels /\ {} \in SUBSET Channels
      BY <1>0
    <3>. HIDE DEF ok, bad, p
    <3>. QED  BY <1>0, <2>2, <2>3, <3>1, RunUpdates
  <2>5. run' \in [Jobs -> RunRecord]
    <3>1. run' = [run EXCEPT ![j] = r]
      BY <2>1
    <3>. HIDE DEF r
    <3>. QED  BY <2>4, <3>1, RunTyped
  <2>6. attempt' \in [Jobs \X Channels -> {"none", "sent", "failed", "skipped"}]
    BY <2>1 DEF Typed, TypeOK
  <2>. QED  BY <1>5, <2>1, <2>5, <2>6, FaultTyped
            DEF RecordAttempt, Typed, TypeOK, envVars, callVars
<1>6. CASE SettleStatus(j)
  <2>1. [run[j] EXCEPT !.at = "list"] \in RunRecord
    BY <1>0, RunUpdates DEF Points
  <2>. QED  BY <1>6, <2>1, FinalStatusTyped
            DEF SettleStatus, Typed, TypeOK, envVars, callVars
<1>7. CASE ListHooks(j)
  <2> DEFINE hs == {h \in Hooks : Subscribed(h, EventOf(note[j]))}
  <2>1. /\ [run[j] EXCEPT !.hooks = hs,
                           !.at = IF hs = {} THEN "ack" ELSE "dispatch"] \in RunRecord
        /\ [run[j] EXCEPT !.at = "ack"] \in RunRecord
    <3>1. hs \subseteq Hooks
      OBVIOUS
    <3>. HIDE DEF hs
    <3>. QED  BY <1>0, <3>1, RunUpdates DEF Points
  <2>2. run' \in [Jobs -> RunRecord]
    BY <1>7, <2>1 DEF ListHooks, Typed, TypeOK
  <2>3. Works \/ Swallowed
    BY <1>7 DEF ListHooks
  <2>. QED  BY <1>7, <2>2, <2>3, FaultTyped
            DEF ListHooks, Typed, TypeOK, envVars, callVars
<1>8. CASE EnqueueWebhook(j)
  <2>1. PICK h \in run[j].hooks :
           /\ \/ /\ Works
                 /\ call' = [call EXCEPT ![<<j, h, task[j].retried>>] =
                       [state |-> "pending", retried |-> 0, event |-> EventOf(note[j])]]
              \/ Swallowed /\ UNCHANGED call
           /\ run' = [run EXCEPT ![j] =
                 [@ EXCEPT !.hooks = run[j].hooks \ {h},
                           !.at = IF run[j].hooks = {h} THEN "ack" ELSE "dispatch"]]
    BY <1>8 DEF EnqueueWebhook
  <2> DEFINE r == [run[j] EXCEPT !.hooks = run[j].hooks \ {h},
                       !.at = IF run[j].hooks = {h} THEN "ack" ELSE "dispatch"]
  <2>2. r \in RunRecord
    <3>1. run[j].hooks \ {h} \subseteq Hooks
      BY <1>0
    <3>. QED  BY <1>0, <3>1, RunUpdates DEF Points
  <2>3. run' \in [Jobs -> RunRecord]
    <3>1. run' = [run EXCEPT ![j] = r]
      BY <2>1
    <3>. HIDE DEF r
    <3>. QED  BY <2>2, <3>1, RunTyped
  <2>4. [state |-> "pending", retried |-> 0, event |-> EventOf(note[j])] \in CallRecord
    BY EventTyped, BoundsAreNat DEF CallRecord, Runs
  <2>5. call' \in [Calls -> CallRecord]
    BY <2>1, <2>4 DEF Typed, TypeOK
  <2>. QED  BY <1>8, <2>1, <2>3, <2>5, FaultTyped
            DEF EnqueueWebhook, Typed, TypeOK, envVars, callVars
<1>9. CASE Acknowledge(j)
  BY <1>9, QueueTyped
<1>. QED  BY <1>1, <1>2, <1>3, <1>4, <1>5, <1>6, <1>7, <1>8, <1>9 DEF Send

LEMMA ExecuteTyped ==
    ASSUME Typed, NEW w \in Calls, PickUpCall(w) \/ Execute(w) \/ CallFails(w)
    PROVE  Typed'
<1>0. call[w] \in CallRecord /\ caller[w] \in CallerRecord /\ IdleCaller \in CallerRecord
  BY IdleTyped DEF Typed, TypeOK
<1>1. CASE PickUpCall(w)
  <2>1. [IdleCaller EXCEPT !.at = "fetch"] \in CallerRecord
    BY DEF IdleCaller, CallerRecord
  <2>2. caller' \in [Calls -> CallerRecord] /\ call' \in [Calls -> CallRecord]
    BY <1>0, <1>1, <2>1, CallUpdates DEF PickUpCall, Typed, TypeOK
  <2>. QED  BY <1>1, <2>2 DEF PickUpCall, Typed, TypeOK, envVars, jobVars
<1>2. CASE FetchHook(w)
  <2>1. [caller[w] EXCEPT !.at = "post"] \in CallerRecord
    BY <1>0 DEF CallerRecord
  <2>2. caller' \in [Calls -> CallerRecord]
    BY <1>2, <2>1 DEF FetchHook, Typed, TypeOK
  <2>. QED  BY <1>2, <2>2 DEF FetchHook, Typed, TypeOK, envVars, jobVars
<1>3. CASE HookGone(w)
  <2>1. caller' \in [Calls -> CallerRecord] /\ call' \in [Calls -> CallRecord]
    BY <1>0, <1>3, CallUpdates DEF HookGone, Typed, TypeOK
  <2>. QED  BY <1>3, <2>1, RecordDeliveryTyped
            DEF HookGone, Typed, TypeOK, envVars, jobVars
<1>4. CASE Post(w)
  <2>1. request' \in [Calls -> [made : Nat, late : Nat]]
    BY <1>4 DEF Post, Typed, TypeOK
  <2>2. caller' \in [Calls -> CallerRecord]
    BY <1>4 DEF Post, Typed, TypeOK, CallerRecord
  <2>. QED  BY <1>4, <2>1, <2>2 DEF Post, Typed, TypeOK, envVars, jobVars
<1>5. CASE LogDelivery(w)
  <2>1. [caller[w] EXCEPT !.at = "ack"] \in CallerRecord
    BY <1>0 DEF CallerRecord
  <2>2. caller' \in [Calls -> CallerRecord] /\ call' \in [Calls -> CallRecord]
    <3>1. caller \in [Calls -> CallerRecord] /\ call \in [Calls -> CallRecord]
      BY DEF Typed, TypeOK
    <3>2. /\ \E r \in CallerRecord : caller' = [caller EXCEPT ![w] = r]
          /\ call' = call \/ \E r \in CallRecord : call' = [call EXCEPT ![w] = r]
      BY <1>0, <1>5, <2>1, CallUpdates DEF LogDelivery
    <3>. QED  BY <3>1, <3>2
  <2>. QED  BY <1>5, <2>2, RecordDeliveryTyped
            DEF LogDelivery, Typed, TypeOK, envVars, jobVars
<1>6. CASE AcknowledgeCall(w)
  BY <1>0, <1>6, CallUpdates DEF AcknowledgeCall, Typed, TypeOK, envVars, jobVars
<1>7. CASE CallFails(w)
  <2>1. caller' \in [Calls -> CallerRecord] /\ call' \in [Calls -> CallRecord]
    BY <1>0, <1>7, CallUpdates DEF CallFails, Typed, TypeOK
  <2>. QED  BY <1>7, <2>1, FaultTyped
            DEF CallFails, Typed, TypeOK, envVars, jobVars
<1>. QED  BY <1>1, <1>2, <1>3, <1>4, <1>5, <1>6, <1>7 DEF Execute

LEMMA TypedKept ==
    ASSUME Typed, [Next]_vars
    PROVE  Typed'
<1>1. CASE UNCHANGED vars
  BY <1>1 DEF vars, Typed, TypeOK
<1>. QED  BY <1>1, RequestTyped, QueueTyped, SendTyped, ExecuteTyped, ConfigureTyped
          DEF Next

LEMMA AlwaysTyped == Spec => []Typed
BY TypedAtFirst, TypedKept, PTL DEF Spec

\* Every variable keeps its type: whatever runs, retries, faults and changes
\* happen, the rows and the queue hold what the code can have written there.
THEOREM TypeCorrect == Spec => []TypeOK
<1>1. Typed => TypeOK
  BY DEF Typed
<1>. QED  BY <1>1, AlwaysTyped, PTL
----------------------------------------------------------------------------
(***************************************************************************)
(* The inductive invariant: what holds of one job, whatever others do.     *)
(***************************************************************************)

\* Nothing was delivered, recorded or announced for the job.
Blank(j) ==
    /\ \A c \in Channels : accepted[<<j, c>>] = 0 /\ attempt[<<j, c>>] = "none"
    /\ \A h \in Hooks, r \in Runs :
          call[<<j, h, r>>].state = "none" /\ call[<<j, h, r>>].event = "none"

\* A job the API has not enqueued has no task, and one without a task is blank.
Fresh(j) ==
    /\ api[j] \in {"none", "created", "rejected"} => task[j].state = "none"
    /\ task[j].state = "none" => task[j].retried = 0 /\ Blank(j)

\* The row is "queued" only until the first run of send has written it.
Untouched(j) ==
    note[j] = "queued" => Blank(j) /\ (task[j].state = "active" => run[j].at = "start")

\* send delivers one channel at a time.
OneAtATime(j) ==
    /\ At(j, "start") => run[j] = [IdleRun EXCEPT !.at = "start"]
    /\ At(j, "skip") \/ At(j, "deliver") => run[j].channel = {}
    /\ At(j, "record") => \E c \in Channels : run[j].channel = {c}

\* A channel is owed no more than the runs of the task that are over, and this
\* run's message only once it is no longer among those to do.
Counted(j) ==
    \A c \in Channels :
       /\ accepted[<<j, c>>] <= task[j].retried + 1
       /\ task[j].state = "pending" \/ At(j, "start") =>
             accepted[<<j, c>>] <= task[j].retried
       /\ At(j, "skip") \/ At(j, "deliver") \/ At(j, "record") =>
             (c \in run[j].todo \ run[j].channel => accepted[<<j, c>>] <= task[j].retried)

\* A provider took a message on some channel of the job.
Taken(j) == \E c \in job[j].channels : accepted[<<j, c>>] >= 1

\* The counters of send, the status it settles and the event it announces all
\* rest on a provider having taken the message.
Backed(j) ==
    /\ task[j].state = "active" /\ run[j].at # "start" =>
          /\ run[j].todo \subseteq job[j].channels
          /\ run[j].channel \subseteq job[j].channels
          /\ \A c \in run[j].ok : c \in job[j].channels /\ accepted[<<j, c>>] >= 1
    /\ At(j, "record") /\ run[j].took =>
          \A c \in run[j].channel : accepted[<<j, c>>] >= 1
    /\ At(j, "list") \/ At(j, "dispatch") =>
          (EventOf(note[j]) = "notification.sent" => Taken(j))
    /\ \A h \in Hooks, r \in Runs :
          call[<<j, h, r>>].event = "notification.sent" => Taken(j)

JobInv(j) == Fresh(j) /\ Untouched(j) /\ OneAtATime(j) /\ Counted(j) /\ Backed(j)

DeliveryInv == Typed /\ \A j \in Jobs : JobInv(j)

\* What a step leaves of job k when it is not about k; a step of a webhook task
\* may change the state of that task, which is already there.
Same(k) ==
    /\ api'[k] = api[k] /\ job'[k] = job[k] /\ note'[k] = note[k]
    /\ task'[k] = task[k] /\ run'[k] = run[k]
    /\ \A c \in Channels : /\ attempt'[<<k, c>>] = attempt[<<k, c>>]
                           /\ accepted'[<<k, c>>] = accepted[<<k, c>>]
    /\ \A h \in Hooks, r \in Runs :
          /\ call'[<<k, h, r>>].event = call[<<k, h, r>>].event
          /\ call[<<k, h, r>>].state = "none" => call'[<<k, h, r>>].state = "none"

LEMMA Frame ==
    ASSUME Typed, NEW k \in Jobs, JobInv(k), Same(k)
    PROVE  JobInv(k)'
<1>1. Blank(k) => Blank(k)'
  BY DEF Same, Blank
<1>2. Fresh(k)' /\ Untouched(k)'
  BY <1>1 DEF JobInv, Fresh, Untouched, Same
<1>3. OneAtATime(k)'
  BY DEF JobInv, OneAtATime, At, Same, IdleRun
<1>4. Counted(k)'
  BY DEF JobInv, Counted, At, Same
<1>5. Taken(k) => Taken(k)'
  <2>1. job[k].channels \subseteq Channels
    BY DEF Typed, TypeOK
  <2>. QED  BY <2>1 DEF Taken, Same
<1>6. Backed(k)'
  <2>1. /\ run[k].todo \subseteq Channels /\ run[k].channel \subseteq Channels
        /\ run[k].ok \subseteq Channels
    BY DEF Typed, TypeOK, RunRecord
  <2>2. Backed(k)
    BY DEF JobInv
  <2>3. (task[k].state = "active" /\ run[k].at # "start" =>
           /\ run[k].todo \subseteq job[k].channels
           /\ run[k].channel \subseteq job[k].channels
           /\ \A c \in run[k].ok : c \in job[k].channels /\ accepted[<<k, c>>] >= 1)'
    BY <2>1, <2>2 DEF Backed, Same
  <2>4. (At(k, "record") /\ run[k].took =>
           \A c \in run[k].channel : accepted[<<k, c>>] >= 1)'
    BY <2>1, <2>2 DEF Backed, At, Same
  <2>5. (At(k, "list") \/ At(k, "dispatch") =>
           (EventOf(note[k]) = "notification.sent" => Taken(k)))'
    BY <1>5, <2>2 DEF Backed, At, Same, EventOf
  <2>6. (\A h \in Hooks, r \in Runs :
           call[<<k, h, r>>].event = "notification.sent" => Taken(k))'
    BY <1>5, <2>2 DEF Backed, Same
  <2>. QED  BY <2>3, <2>4, <2>5, <2>6 DEF Backed
<1>. QED  BY <1>2, <1>3, <1>4, <1>6 DEF JobInv
----------------------------------------------------------------------------
\* A step of the request, the task or the handler of j is about no other job.
LEMMA OthersSame ==
    ASSUME Typed, NEW j \in Jobs, Request(j) \/ PickUp(j) \/ Send(j) \/ SendFails(j),
           NEW k \in Jobs \ {j}
    PROVE  Same(k)
<1>. USE DEF Same, Typed, TypeOK
<1>1. CASE Request(j)
  BY <1>1 DEF Request, CreateQueuedNotification, EnqueueJob, EnqueueJobFails, TestSend,
              Prepare
<1>2. CASE PickUp(j) \/ SendFails(j) \/ Acknowledge(j)
  BY <1>2 DEF PickUp, SendFails, Acknowledge
<1>3. CASE StartSend(j) \/ SettleStatus(j) \/ ListHooks(j)
  BY <1>3 DEF StartSend, SettleStatus, ListHooks
<1>4. CASE RecordSkipped(j) \/ RecordAttempt(j)
  <2>1. /\ attempt' = attempt \/ \E c, x : attempt' = [attempt EXCEPT ![<<j, c>>] = x]
        /\ \E r : run' = [run EXCEPT ![j] = r]
        /\ UNCHANGED <<api, job, note, accepted, task, call>>
    <3>1. CASE RecordSkipped(j)
      BY <3>1, Zenon DEF RecordSkipped
    <3>2. CASE RecordAttempt(j)
      BY <3>2, Zenon DEF RecordAttempt
    <3>. QED  BY <1>4, <3>1, <3>2
  <2>2. run'[k] = run[k]
    BY <2>1
  <2>3. ASSUME NEW d \in Channels
        PROVE  attempt'[<<k, d>>] = attempt[<<k, d>>]
    <3>1. attempt \in [Jobs \X Channels -> {"none", "sent", "failed", "skipped"}]
      OBVIOUS
    <3>2. ASSUME NEW c, NEW x, attempt' = [attempt EXCEPT ![<<j, c>>] = x]
          PROVE  attempt'[<<k, d>>] = attempt[<<k, d>>]
      <4>1. <<k, d>> \in Jobs \X Channels /\ <<k, d>> # <<j, c>>
        OBVIOUS
      <4>. QED  BY <3>1, <3>2, <4>1
    <3>. QED  BY <2>1, <3>2
  <2>. QED  BY <2>1, <2>2, <2>3
<1>5. CASE SendChannel(j) \/ NoProvider(j)
  <2>1. /\ accepted' = accepted \/ \E c, x : accepted' = [accepted EXCEPT ![<<j, c>>] = x]
        /\ \E r : run' = [run EXCEPT ![j] = r]
        /\ UNCHANGED <<api, job, note, attempt, task, call>>
    <3>1. CASE SendChannel(j)
      BY <3>1, Zenon DEF SendChannel
    <3>2. CASE NoProvider(j)
      BY <3>2, Zenon DEF NoProvider
    <3>. QED  BY <1>5, <3>1, <3>2
  <2>2. run'[k] = run[k]
    BY <2>1
  <2>3. ASSUME NEW d \in Channels
        PROVE  accepted'[<<k, d>>] = accepted[<<k, d>>]
    <3>1. ASSUME NEW c, NEW x, accepted' = [accepted EXCEPT ![<<j, c>>] = x]
          PROVE  accepted'[<<k, d>>] = accepted[<<k, d>>]
      <4>1. accepted \in [Jobs \X Channels -> Nat] /\ <<k, d>> \in Jobs \X Channels
        OBVIOUS
      <4>2. <<k, d>> # <<j, c>>
        OBVIOUS
      <4>. QED  BY <3>1, <4>1, <4>2
    <3>. QED  BY <2>1, <3>1
  <2>. QED  BY <2>1, <2>2, <2>3
<1>6. CASE EnqueueWebhook(j)
  <2>1. \A h \in Hooks, g \in Hooks, r \in Runs, i \in Runs : <<k, g, i>> # <<j, h, r>>
    OBVIOUS
  <2>2. task[j].retried \in Runs /\ run[j].hooks \subseteq Hooks
    BY DEF TaskRecord, RunRecord
  <2>3. \A h \in Hooks, r \in Runs : call'[<<k, h, r>>] = call[<<k, h, r>>]
    BY <1>6, <2>1, <2>2 DEF EnqueueWebhook, Calls
  <2>. QED  BY <1>6, <2>3 DEF EnqueueWebhook
<1>. QED  BY <1>1, <1>2, <1>3, <1>4, <1>5, <1>6 DEF Send

LEMMA RequestKeeps ==
    ASSUME Typed, NEW j \in Jobs, JobInv(j), Request(j)
    PROVE  JobInv(j)'
<1>0. task[j].state = "none" /\ task[j].retried = 0 /\ Blank(j)
  BY DEF JobInv, Fresh, Request, CreateQueuedNotification, EnqueueJob, EnqueueJobFails,
         TestSend
<1>1. Blank(j)'
  <2>1. UNCHANGED <<attempt, accepted, call>>
    BY DEF Request, CreateQueuedNotification, EnqueueJob, EnqueueJobFails, TestSend
  <2>. QED  BY <1>0, <2>1 DEF Blank
<1>2. /\ task'[j].retried = 0
      /\ \/ task'[j].state = "none" /\ note'[j] \in {note[j], "queued"}
         \/ task'[j].state = "pending" /\ api'[j] = "enqueued" /\ note' = note
         \/ /\ task'[j].state = "active" /\ api'[j] = "test" /\ note' = note
            /\ run'[j] = [IdleRun EXCEPT !.at = "start"]
  <2>0. /\ task \in [Jobs -> TaskRecord] /\ run \in [Jobs -> RunRecord]
        /\ api \in [Jobs -> {"none", "created", "enqueued", "rejected", "test"}]
        /\ note \in [Jobs -> {"none", "queued", "pending"} \cup Final]
    BY DEF Typed, TypeOK
  <2>1. CASE CreateQueuedNotification(j)
    BY <1>0, <2>0, <2>1 DEF CreateQueuedNotification
  <2>2. CASE EnqueueJob(j)
    BY <1>0, <2>0, <2>2 DEF EnqueueJob, TaskRecord
  <2>3. CASE EnqueueJobFails(j)
    BY <1>0, <2>0, <2>3 DEF EnqueueJobFails
  <2>4. CASE TestSend(j)
    BY <1>0, <2>0, <2>4 DEF TestSend, TaskRecord
  <2>. QED  BY <2>1, <2>2, <2>3, <2>4 DEF Request
<1>3. Fresh(j)'
  BY <1>1, <1>2 DEF Fresh
<1>4. Untouched(j)'
  BY <1>1, <1>2 DEF Untouched, IdleRun
<1>5. OneAtATime(j)'
  BY <1>2 DEF OneAtATime, At, IdleRun
<1>6. Counted(j)'
  BY <1>1, <1>2 DEF Counted, Blank
<1>7. Backed(j)'
  BY <1>1, <1>2 DEF Backed, Blank, At, IdleRun
<1>. QED  BY <1>3, <1>4, <1>5, <1>6, <1>7 DEF JobInv

LEMMA QueueKeeps ==
    ASSUME Typed, NEW j \in Jobs, JobInv(j), PickUp(j) \/ SendFails(j) \/ Acknowledge(j)
    PROVE  JobInv(j)'
<1>0. /\ UNCHANGED <<api, job, note, attempt, accepted, call>>
      /\ \/ task[j].state = "pending" \/ task[j].state = "active"
  BY DEF PickUp, SendFails, Acknowledge, At
<1>1. \/ /\ task[j].state = "pending" /\ task'[j].state = "active"
         /\ task'[j].retried = task[j].retried
         /\ run'[j] = [IdleRun EXCEPT !.at = "start"]
      \/ /\ task'[j].state = "pending" /\ task'[j].retried = task[j].retried + 1
      \/ /\ task'[j].state \in {"archived", "lost", "done"}
         /\ task'[j].retried = task[j].retried
  <2>0. task \in [Jobs -> TaskRecord] /\ run \in [Jobs -> RunRecord]
    BY DEF Typed, TypeOK
  <2>1. CASE PickUp(j)
    BY <2>0, <2>1 DEF PickUp, TaskRecord
  <2>2. CASE SendFails(j)
    <3>1. task'[j] = IF api[j] = "test" THEN [task[j] EXCEPT !.state = "lost"]
                     ELSE Retried(task[j])
      BY <2>0, <2>2 DEF SendFails
    <3>. QED  BY <2>0, <3>1 DEF TaskRecord, Retried
  <2>3. CASE Acknowledge(j)
    BY <2>0, <2>3 DEF Acknowledge, TaskRecord
  <2>. QED  BY <2>1, <2>2, <2>3
<1>2. task[j].retried \in Nat /\ \A c \in Channels : accepted[<<j, c>>] \in Nat
  BY BoundsAreNat DEF Typed, TypeOK, TaskRecord, Runs
<1>3. Fresh(j)'
  BY <1>0, <1>1 DEF Fresh, JobInv
<1>4. Untouched(j)'
  BY <1>0, <1>1 DEF Untouched, Blank, IdleRun, JobInv
<1>5. OneAtATime(j)'
  BY <1>0, <1>1 DEF OneAtATime, At, IdleRun, JobInv
<1>6. Counted(j)'
  BY <1>0, <1>1, <1>2 DEF Counted, At, IdleRun, JobInv
<1>7. Backed(j)'
  <2>1. Taken(j)' <=> Taken(j)
    BY <1>0 DEF Taken
  <2>. QED  BY <1>0, <1>1, <2>1 DEF Backed, At, IdleRun, JobInv
<1>. QED  BY <1>3, <1>4, <1>5, <1>6, <1>7 DEF JobInv

\* What every call of send leaves alone: the task, which stays active.
LEMMA SendActive ==
    ASSUME Typed, NEW j \in Jobs, JobInv(j), Send(j), ~ Acknowledge(j)
    PROVE  /\ task[j].state = "active" /\ run[j].at # "idle"
           /\ UNCHANGED <<api, job, task>>
           /\ Fresh(j)' /\ Untouched(j)'
           /\ note' = note \/ note'[j] # "queued"
<1>1. /\ task[j].state = "active" /\ run[j].at # "idle" /\ UNCHANGED <<api, job, task>>
      /\ run[j].at = "start" \/ run[j].at = "settle" \/ note' = note
  BY DEF Send, StartSend, RecordSkipped, SendChannel, NoProvider, RecordAttempt,
         SettleStatus, ListHooks, EnqueueWebhook, At
<1>2. Fresh(j)'
  BY <1>1 DEF Fresh, JobInv
<1>3. CASE run[j].at \in {"start", "settle"}
  <2>1. StartSend(j) \/ SettleStatus(j)
    BY <1>3 DEF Send, RecordSkipped, SendChannel, NoProvider, RecordAttempt,
                ListHooks, EnqueueWebhook, At
  <2>2. note'[j] # "queued"
    <3>1. \E x \in {"pending"} \cup Final : note' = [note EXCEPT ![j] = x]
      BY <2>1, FinalStatusTyped DEF StartSend, SettleStatus
    <3>2. note'[j] \in {"pending"} \cup Final
      BY <3>1 DEF Typed, TypeOK
    <3>. QED  BY <3>2 DEF Final
  <2>. QED  BY <1>1, <1>2, <2>2 DEF Untouched
<1>4. CASE run[j].at \notin {"start", "settle"}
  BY <1>1, <1>2, <1>4 DEF Untouched, JobInv
<1>. QED  BY <1>3, <1>4

LEMMA StartSendKeeps ==
    ASSUME Typed, NEW j \in Jobs, JobInv(j), StartSend(j)
    PROVE  JobInv(j)'
<1>0. /\ run[j] = [IdleRun EXCEPT !.at = "start"] /\ task[j].state = "active"
      /\ UNCHANGED <<job, task, accepted, call>>
      /\ \A c \in Channels : accepted[<<j, c>>] <= task[j].retried
      /\ job[j].channels \subseteq Channels
  BY DEF StartSend, JobInv, OneAtATime, Counted, At, Typed, TypeOK
<1>1. /\ run'[j].at \in {"skip", "deliver", "settle", "ack"}
      /\ run'[j].todo = job[j].channels /\ run'[j].channel = {} /\ run'[j].ok = {}
  BY <1>0, NextPointTyped DEF StartSend, IdleRun, Typed, TypeOK
<1>2. OneAtATime(j)'
  BY <1>1 DEF OneAtATime, At
<1>3. Counted(j)'
  BY <1>0, <1>1 DEF Counted, At, JobInv
<1>4. Backed(j)'
  <2>1. Taken(j)' <=> Taken(j)
    BY <1>0 DEF Taken
  <2>. QED  BY <1>0, <1>1, <2>1 DEF Backed, At, JobInv
<1>. QED  BY <1>2, <1>3, <1>4, SendActive DEF JobInv, Send, StartSend, Acknowledge, At

LEMMA RecordSkippedKeeps ==
    ASSUME Typed, NEW j \in Jobs, JobInv(j), RecordSkipped(j)
    PROVE  JobInv(j)'
<1>0. /\ At(j, "skip") /\ UNCHANGED <<job, note, task, accepted, call>>
      /\ run[j] \in RunRecord
  BY DEF RecordSkipped, Typed, TypeOK
<1>1. /\ run'[j].at \in {"skip", "deliver", "settle"}
      /\ run'[j].todo = run[j].todo /\ run'[j].channel = run[j].channel
      /\ run'[j].ok = run[j].ok
  BY <1>0, NextPointTyped DEF RecordSkipped, Typed, TypeOK, RunRecord
<1>2. OneAtATime(j)'
  BY <1>0, <1>1 DEF OneAtATime, At, JobInv
<1>3. Counted(j)'
  BY <1>0, <1>1 DEF Counted, At, JobInv
<1>4. Backed(j)'
  <2>1. Taken(j)' <=> Taken(j)
    BY <1>0 DEF Taken
  <2>. QED  BY <1>0, <1>1, <2>1 DEF Backed, At, JobInv
<1>. QED  BY <1>0, <1>2, <1>3, <1>4, SendActive DEF JobInv, Send, Acknowledge, At

\* The one step that sends: the channel was to do, and is now the one in hand.
LEMMA SendChannelKeeps ==
    ASSUME Typed, NEW j \in Jobs, JobInv(j), SendChannel(j) \/ NoProvider(j)
    PROVE  JobInv(j)'
<1>0. /\ At(j, "deliver") /\ UNCHANGED <<job, note, task, call>>
      /\ run[j] \in RunRecord /\ run[j].channel = {} /\ task[j].retried \in Nat
      /\ run[j].todo \subseteq Channels /\ run[j].ok \subseteq Channels
      /\ run[j].todo \subseteq job[j].channels
      /\ \A c \in Channels : accepted[<<j, c>>] \in Nat
  <2>1. At(j, "deliver") /\ UNCHANGED <<job, note, task, call>>
    BY DEF SendChannel, NoProvider
  <2>2. /\ run[j] \in RunRecord /\ task[j].retried \in Nat
        /\ run[j].todo \subseteq Channels /\ run[j].ok \subseteq Channels
        /\ \A c \in Channels : accepted[<<j, c>>] \in Nat
    BY BoundsAreNat DEF Typed, TypeOK, RunRecord, TaskRecord, Runs
  <2>3. run[j].channel = {} /\ run[j].todo \subseteq job[j].channels
    BY <2>1 DEF JobInv, OneAtATime, Backed, At
  <2>. QED  BY <2>1, <2>2, <2>3
<1>1. PICK c \in run[j].todo, took \in BOOLEAN, n \in Nat :
         /\ n = accepted[<<j, c>>] + 1 \/ (~ took /\ n = accepted[<<j, c>>])
         /\ accepted' = [accepted EXCEPT ![<<j, c>>] = n]
         /\ run' = [run EXCEPT ![j] = [@ EXCEPT !.at = "record", !.channel = {c},
                                                !.took = took]]
  <2>1. CASE SendChannel(j)
    <3>1. PICK c \in run[j].todo, took \in BOOLEAN, out \in BOOLEAN :
             /\ took => out
             /\ accepted' = [accepted EXCEPT ![<<j, c>>] = IF out THEN @ + 1 ELSE @]
             /\ run' = [run EXCEPT ![j] = [@ EXCEPT !.at = "record", !.channel = {c},
                                                    !.took = took]]
      BY <2>1 DEF SendChannel
    <3> DEFINE n == IF out THEN accepted[<<j, c>>] + 1 ELSE accepted[<<j, c>>]
    <3>2. /\ n \in Nat
          /\ n = accepted[<<j, c>>] + 1 \/ (~ took /\ n = accepted[<<j, c>>])
          /\ accepted' = [accepted EXCEPT ![<<j, c>>] = n]
      <4>1. c \in Channels /\ accepted[<<j, c>>] \in Nat
        BY <1>0
      <4>2. n \in Nat
        BY <4>1
      <4>3. n = accepted[<<j, c>>] + 1 \/ (~ took /\ n = accepted[<<j, c>>])
        BY <3>1
      <4>4. accepted' = [accepted EXCEPT ![<<j, c>>] = n]
        BY <3>1
      <4>. QED  BY <4>2, <4>3, <4>4
    <3>. QED  BY <3>1, <3>2
  <2>2. CASE NoProvider(j)
    <3>1. PICK c \in run[j].todo :
             run' = [run EXCEPT ![j] = [@ EXCEPT !.at = "record", !.channel = {c},
                                                 !.took = FALSE]]
      BY <2>2 DEF NoProvider
    <3>2. accepted' = [accepted EXCEPT ![<<j, c>>] = accepted[<<j, c>>]]
      BY <2>2 DEF NoProvider, Typed, TypeOK
    <3>. QED  BY <1>0, <3>1, <3>2
  <2>. QED  BY <2>1, <2>2
<1>2. /\ run'[j].at = "record" /\ run'[j].todo = run[j].todo
      /\ run'[j].channel = {c} /\ run'[j].took = took /\ run'[j].ok = run[j].ok
  BY <1>0, <1>1 DEF Typed, TypeOK, RunRecord
<1>3. /\ accepted'[<<j, c>>] = n
      /\ \A d \in Channels : d # c => accepted'[<<j, d>>] = accepted[<<j, d>>]
      /\ \A d \in Channels : accepted'[<<j, d>>] >= accepted[<<j, d>>]
  <2>1. accepted \in [Jobs \X Channels -> Nat] /\ c \in Channels
    BY <1>0 DEF Typed, TypeOK
  <2>. QED  BY <1>0, <1>1, <2>1
<1>4. OneAtATime(j)'
  BY <1>0, <1>2 DEF OneAtATime, At
<1>5. Counted(j)'
  <2>1. accepted[<<j, c>>] <= task[j].retried
    BY <1>0, <1>1 DEF JobInv, Counted
  <2>2. accepted'[<<j, c>>] <= task[j].retried + 1
    BY <1>0, <1>1, <1>3, <2>1
  <2>. QED  BY <1>0, <1>2, <1>3, <2>2 DEF Counted, At, JobInv
<1>6. Backed(j)'
  <2>1. \A d \in Channels : accepted'[<<j, d>>] \in Nat
    BY <1>0, <1>1, <1>3
  <2>2. \A d \in Channels : accepted[<<j, d>>] >= 1 => accepted'[<<j, d>>] >= 1
    BY <1>0, <1>3, <2>1
  <2>3. Taken(j) => Taken(j)'
    BY <1>0, <2>2 DEF Taken, Typed, TypeOK
  <2>4. took => accepted'[<<j, c>>] >= 1
    BY <1>0, <1>1, <1>3
  <2>. QED  BY <1>0, <1>2, <2>2, <2>3, <2>4 DEF Backed, At, JobInv
<1>. QED  BY <1>0, <1>4, <1>5, <1>6, SendActive DEF JobInv, Send, Acknowledge, At

LEMMA RecordAttemptKeeps ==
    ASSUME Typed, NEW j \in Jobs, JobInv(j), RecordAttempt(j)
    PROVE  JobInv(j)'
<1>0. /\ At(j, "record") /\ UNCHANGED <<job, note, task, accepted, call>>
      /\ run[j] \in RunRecord
  BY DEF RecordAttempt, Typed, TypeOK
<1>1. PICK c \in run[j].channel :
         /\ run[j].channel = {c}
         /\ run'[j].at \in {"skip", "deliver", "settle"}
         /\ run'[j].todo = run[j].todo \ {c} /\ run'[j].channel = {}
         /\ run'[j].ok = run[j].ok \cup (IF run[j].took THEN {c} ELSE {})
  <2>1. PICK c \in run[j].channel :
           run' = [run EXCEPT ![j] =
              [@ EXCEPT !.todo = run[j].todo \ {c}, !.channel = {},
                        !.ok  = run[j].ok \cup (IF run[j].took THEN {c} ELSE {}),
                        !.bad = run[j].bad \cup (IF run[j].took THEN {} ELSE {c}),
                        !.at  = NextPoint({}, run[j].todo \ {c})]]
    BY DEF RecordAttempt
  <2>2. run[j].channel = {c}
    BY <1>0, <2>1 DEF JobInv, OneAtATime
  <2>. QED  BY <1>0, <2>1, <2>2, NextPointTyped DEF Typed, TypeOK, RunRecord
<1>2. OneAtATime(j)'
  BY <1>1 DEF OneAtATime, At
<1>3. Counted(j)'
  BY <1>0, <1>1 DEF Counted, At, JobInv
<1>4. Backed(j)'
  <2>1. Taken(j)' <=> Taken(j)
    BY <1>0 DEF Taken
  <2>2. run[j].todo \subseteq job[j].channels /\ run[j].channel \subseteq job[j].channels
    BY <1>0 DEF Backed, At, JobInv
  <2>3. \A d \in run'[j].ok : d \in job[j].channels /\ accepted[<<j, d>>] >= 1
    BY <1>0, <1>1, <2>2 DEF Backed, At, JobInv
  <2>. QED  BY <1>0, <1>1, <2>1, <2>2, <2>3 DEF Backed, At, JobInv
<1>. QED  BY <1>0, <1>2, <1>3, <1>4, SendActive DEF JobInv, Send, Acknowledge, At

\* A status announced as "notification.sent" counts a channel as delivered.
LEMMA SentNeedsOk ==
    ASSUME NEW ok, NEW bad, NEW skipped,
           EventOf(FinalStatus(ok, bad, skipped)) = "notification.sent"
    PROVE  ok # {}
BY DEF EventOf, FinalStatus

LEMMA SettleStatusKeeps ==
    ASSUME Typed, NEW j \in Jobs, JobInv(j), SettleStatus(j)
    PROVE  JobInv(j)'
<1>0. /\ At(j, "settle") /\ UNCHANGED <<job, task, accepted, call>>
      /\ run[j] \in RunRecord
  BY DEF SettleStatus, Typed, TypeOK
<1>1. /\ run'[j].at = "list" /\ run'[j].todo = run[j].todo
      /\ run'[j].channel = run[j].channel /\ run'[j].ok = run[j].ok
      /\ note'[j] = FinalStatus(run[j].ok, run[j].bad, job[j].skipped)
  BY <1>0 DEF SettleStatus, Typed, TypeOK, RunRecord
<1>2. OneAtATime(j)'
  BY <1>1 DEF OneAtATime, At
<1>3. Counted(j)'
  BY <1>0, <1>1 DEF Counted, At, JobInv
<1>4. Backed(j)'
  <2>1. Taken(j)' <=> Taken(j)
    BY <1>0 DEF Taken
  <2>2. \A c \in run[j].ok : c \in job[j].channels /\ accepted[<<j, c>>] >= 1
    BY <1>0 DEF Backed, At, JobInv
  <2>3. EventOf(note'[j]) = "notification.sent" => Taken(j)
    BY <1>1, <2>2, SentNeedsOk DEF Taken
  <2>. QED  BY <1>0, <1>1, <2>1, <2>3 DEF Backed, At, JobInv
<1>. QED  BY <1>0, <1>2, <1>3, <1>4, SendActive DEF JobInv, Send, Acknowledge, At

LEMMA DispatchKeeps ==
    ASSUME Typed, NEW j \in Jobs, JobInv(j), ListHooks(j) \/ EnqueueWebhook(j)
    PROVE  JobInv(j)'
<1>0. /\ At(j, "list") \/ At(j, "dispatch")
      /\ UNCHANGED <<job, note, task, accepted>>
      /\ run[j] \in RunRecord /\ run[j].hooks \subseteq Hooks /\ task[j].retried \in Runs
  BY DEF ListHooks, EnqueueWebhook, Typed, TypeOK, RunRecord, TaskRecord
<1>1. /\ run'[j].at \in {"dispatch", "ack"} /\ run'[j].todo = run[j].todo
      /\ run'[j].channel = run[j].channel /\ run'[j].ok = run[j].ok
  <2>0. run \in [Jobs -> RunRecord]
    BY DEF Typed, TypeOK
  <2>1. ASSUME NEW hs, NEW p \in {"dispatch", "ack"},
               run' = [run EXCEPT ![j] = [run[j] EXCEPT !.hooks = hs, !.at = p]]
        PROVE  /\ run'[j].at \in {"dispatch", "ack"} /\ run'[j].todo = run[j].todo
               /\ run'[j].channel = run[j].channel /\ run'[j].ok = run[j].ok
    BY <1>0, <2>0, <2>1 DEF RunRecord
  <2>2. ASSUME run' = [run EXCEPT ![j] = [run[j] EXCEPT !.at = "ack"]]
        PROVE  /\ run'[j].at \in {"dispatch", "ack"} /\ run'[j].todo = run[j].todo
               /\ run'[j].channel = run[j].channel /\ run'[j].ok = run[j].ok
    BY <1>0, <2>0, <2>2 DEF RunRecord
  <2>3. CASE ListHooks(j)
    <3>. DEFINE hs == {h \in Hooks : Subscribed(h, EventOf(note[j]))}
                p == IF hs = {} THEN "ack" ELSE "dispatch"
    <3>1. \/ run' = [run EXCEPT ![j] = [run[j] EXCEPT !.hooks = hs, !.at = p]]
          \/ run' = [run EXCEPT ![j] = [run[j] EXCEPT !.at = "ack"]]
      BY <2>3 DEF ListHooks
    <3>2. p \in {"dispatch", "ack"}
      OBVIOUS
    <3>. HIDE DEF hs, p
    <3>. QED  BY <2>1, <2>2, <3>1, <3>2
  <2>4. CASE EnqueueWebhook(j)
    <3>1. PICK h \in run[j].hooks : run' = [run EXCEPT ![j] =
             [run[j] EXCEPT !.hooks = run[j].hooks \ {h},
                            !.at = IF run[j].hooks = {h} THEN "ack" ELSE "dispatch"]]
      BY <2>4 DEF EnqueueWebhook
    <3>. DEFINE hs == run[j].hooks \ {h}
                p == IF run[j].hooks = {h} THEN "ack" ELSE "dispatch"
    <3>2. run' = [run EXCEPT ![j] = [run[j] EXCEPT !.hooks = hs, !.at = p]]
      BY <3>1
    <3>3. p \in {"dispatch", "ack"}
      OBVIOUS
    <3>. HIDE DEF hs, p
    <3>. QED  BY <2>1, <3>2, <3>3
  <2>. QED  BY <2>3, <2>4
<1>2. \A h \in Hooks, r \in Runs :
         call'[<<j, h, r>>].event \in {call[<<j, h, r>>].event, EventOf(note[j])}
  <2>0. call \in [Calls -> CallRecord]
    BY DEF Typed, TypeOK
  <2>1. CASE ListHooks(j)
    BY <2>1 DEF ListHooks
  <2>2. CASE EnqueueWebhook(j)
    <3>1. call' = call \/ \E w : call' = [call EXCEPT ![w] =
             [state |-> "pending", retried |-> 0, event |-> EventOf(note[j])]]
      BY <2>2, Zenon DEF EnqueueWebhook
    <3>. QED  BY <2>0, <3>1 DEF Calls
  <2>. QED  BY <2>1, <2>2
<1>3. (EventOf(note[j]) = "notification.sent" => Taken(j)) /\ (Taken(j)' <=> Taken(j))
  BY <1>0 DEF Backed, JobInv, Taken
<1>4. OneAtATime(j)'
  BY <1>1 DEF OneAtATime, At
<1>5. Counted(j)'
  BY <1>0, <1>1 DEF Counted, At, JobInv
<1>6. Backed(j)'
  <2>1. \A h \in Hooks, r \in Runs :
           call'[<<j, h, r>>].event = "notification.sent" => Taken(j)
    BY <1>2, <1>3 DEF Backed, JobInv
  <2>. QED  BY <1>0, <1>1, <1>3, <2>1 DEF Backed, At, JobInv
<1>. QED  BY <1>0, <1>4, <1>5, <1>6, SendActive DEF JobInv, Send, Acknowledge, At

LEMMA SendKeeps ==
    ASSUME Typed, NEW j \in Jobs, JobInv(j), Send(j)
    PROVE  JobInv(j)'
BY StartSendKeeps, RecordSkippedKeeps, SendChannelKeeps, RecordAttemptKeeps,
   SettleStatusKeeps, DispatchKeeps, QueueKeeps DEF Send

\* The handlers of webhook tasks, and the environment, are about no job.
LEMMA CallsSame ==
    ASSUME Typed, NEW w \in Calls, PickUpCall(w) \/ Execute(w) \/ CallFails(w),
           NEW k \in Jobs
    PROVE  Same(k)
<1>1. UNCHANGED jobVars
  BY DEF PickUpCall, Execute, CallFails, FetchHook, HookGone, Post, LogDelivery,
         AcknowledgeCall
<1>2. call[w] \in CallRecord /\ call \in [Calls -> CallRecord]
  BY DEF Typed, TypeOK
<1>3. call' = call \/ \E r : /\ call' = [call EXCEPT ![w] = r]
                            /\ r.event = call[w].event /\ call[w].state # "none"
  <2>1. CASE PickUpCall(w)
    BY <1>2, <2>1 DEF PickUpCall, CallRecord
  <2>2. CASE HookGone(w)
    BY <1>2, <2>2 DEF HookGone, CallAt, CallRecord
  <2>3. CASE LogDelivery(w)
    BY <1>2, <2>3 DEF LogDelivery, CallAt, CallRecord, Retried
  <2>4. CASE AcknowledgeCall(w)
    BY <1>2, <2>4 DEF AcknowledgeCall, CallAt, CallRecord
  <2>5. CASE CallFails(w)
    BY <1>2, <2>5 DEF CallFails, CallRecord, Retried
  <2>6. CASE FetchHook(w) \/ Post(w)
    BY <2>6 DEF FetchHook, Post
  <2>. QED  BY <2>1, <2>2, <2>3, <2>4, <2>5, <2>6 DEF Execute
<1>4. \A h \in Hooks, r \in Runs :
         /\ call'[<<k, h, r>>].event = call[<<k, h, r>>].event
         /\ call[<<k, h, r>>].state = "none" => call'[<<k, h, r>>].state = "none"
  <2>1. \A x \in Calls : /\ call'[x].event = call[x].event
                         /\ call[x].state = "none" => call'[x].state = "none"
    BY <1>2, <1>3
  <2>. QED  BY <2>1 DEF Calls
<1>. QED  BY <1>1, <1>4 DEF Same, jobVars

LEMMA ConfigureSame ==
    ASSUME Configure, NEW k \in Jobs
    PROVE  Same(k)
BY DEF Configure, ChangeIntegrations, CreateWebhook, DeleteWebhook, jobVars, Same
----------------------------------------------------------------------------
LEMMA InvAtFirst == Init => DeliveryInv
<1>. SUFFICES ASSUME Init, NEW j \in Jobs PROVE JobInv(j)
  BY TypedAtFirst DEF DeliveryInv
<1>1. task[j].state = "none" /\ task[j].retried = 0 /\ note[j] = "none" /\ Blank(j)
  BY DEF Init, Blank, Calls
<1>. QED  BY <1>1 DEF JobInv, Fresh, Untouched, OneAtATime, Counted, Backed, At, Blank

LEMMA InvKept ==
    ASSUME DeliveryInv, [Next]_vars
    PROVE  DeliveryInv'
<1>1. Typed /\ Typed'
  BY TypedKept DEF DeliveryInv
<1>. SUFFICES ASSUME NEW k \in Jobs PROVE JobInv(k)'
  BY <1>1 DEF DeliveryInv
<1>2. JobInv(k)
  BY DEF DeliveryInv
<1>3. ASSUME NEW j \in Jobs, Request(j) \/ PickUp(j) \/ Send(j) \/ SendFails(j)
      PROVE  JobInv(k)'
  <2>1. CASE k = j
    BY <1>1, <1>2, <1>3, <2>1, RequestKeeps, QueueKeeps, SendKeeps
  <2>2. CASE k # j
    BY <1>1, <1>2, <1>3, <2>2, OthersSame, Frame
  <2>. QED  BY <2>1, <2>2
<1>4. ASSUME NEW w \in Calls, PickUpCall(w) \/ Execute(w) \/ CallFails(w)
      PROVE  JobInv(k)'
  BY <1>1, <1>2, <1>4, CallsSame, Frame
<1>5. CASE Configure
  BY <1>1, <1>2, <1>5, ConfigureSame, Frame
<1>6. CASE UNCHANGED vars
  <2>1. Same(k)
    BY <1>6 DEF vars, Same
  <2>. QED  BY <1>1, <1>2, <2>1, Frame
<1>. QED  BY <1>3, <1>4, <1>5, <1>6 DEF Next

LEMMA InvAlways == Spec => []DeliveryInv
BY InvAtFirst, InvKept, PTL DEF Spec

\* A job is sent through at most one provider per channel in each run of send:
\* the loop over providers stops at the first, and a channel already counted is
\* never gone through again before the task is retried.
THEOREM AtMostOnePerRun == Spec => []OneMessagePerRun
<1>1. DeliveryInv => OneMessagePerRun
  BY DEF DeliveryInv, JobInv, Counted, OneMessagePerRun
<1>. QED  BY <1>1, InvAlways, PTL

\* Dispatch tells a hook "notification.sent" only of a notification that some
\* provider took on one of its channels, whatever was retried in between.
THEOREM SentIsBacked == Spec => []SentEventHasBacking
<1>1. DeliveryInv => SentEventHasBacking
  <2>. SUFFICES ASSUME DeliveryInv, NEW w \in Calls, call[w].event = "notification.sent"
                PROVE  Taken(w[1])
    BY DEF SentEventHasBacking, Taken
  <2>1. w[1] \in Jobs /\ w[2] \in Hooks /\ w[3] \in Runs /\ w = <<w[1], w[2], w[3]>>
    BY CallParts
  <2>2. call[<<w[1], w[2], w[3]>>].event = "notification.sent"
    BY <2>1
  <2>. QED  BY <2>1, <2>2 DEF DeliveryInv, JobInv, Backed
<1>. QED  BY <1>1, InvAlways, PTL

\* A row that still says "queued" belongs to a job nothing was done for: the
\* row triggerWorkflow creates never overwrites what send wrote.
THEOREM QueuedIsUntouched == Spec => []QueuedMeansUntouched
<1>1. DeliveryInv => QueuedMeansUntouched
  BY DEF DeliveryInv, JobInv, Untouched, Blank, QueuedMeansUntouched
<1>. QED  BY <1>1, InvAlways, PTL

----------------------------------------------------------------------------
(***************************************************************************)
(* What comes of a notification: the status of its row against the         *)
(* delivery attempts stored for it, and the requests of its webhook tasks. *)
(* The inductive invariant adds to the one above.                          *)
(***************************************************************************)

(***************************************************************************)
(* Webhook tasks.                                                          *)
(***************************************************************************)

\* A hook that is active has events: a row without any is no row at all.
HooksNamed == \A h \in Hooks : hook[h].active => hook[h].events # {}

\* A handler about to post read a row that was there; once a request came late,
\* the row is deleted for good and the handler is past its post.
Late(w) ==
    /\ caller[w].at = "post" => hook[w[2]].events # {}
    /\ \/ request[w].late = 0
       \/ /\ request[w].late = 1
          /\ ~ hook[w[2]].active /\ hook[w[2]].events # {}
          /\ caller[w].at # "post"

\* One request for each run of the task that is over, and one for this run once
\* it has posted; a run that got past the log wrote what it was answered.
Called(w) ==
    /\ call[w].state = "none" => request[w].made = 0
    /\ call[w].state = "pending" \/ CallAt(w, "fetch") \/ CallAt(w, "post") =>
          request[w].made <= call[w].retried
    /\ request[w].made <= call[w].retried + 1
    /\ faults.swallowed = 0 /\ (CallAt(w, "ack") \/ call[w].state = "done") =>
          "sent" \in logged[w]

\* A run of send enqueues tasks of its own: none for a run to come, and none in
\* this one for a hook still to be told.
Unsent(j, h) ==
    \/ task[j].state \in {"none", "pending"}
    \/ task[j].state = "active" /\ run[j].at \notin {"dispatch", "ack"}
    \/ At(j, "dispatch") /\ h \in run[j].hooks

Ahead(j) ==
    \A h \in Hooks, r \in Runs :
       r > task[j].retried \/ (r = task[j].retried /\ Unsent(j, h)) =>
          call[<<j, h, r>>].state = "none"
----------------------------------------------------------------------------
(***************************************************************************)
(* The status of a notification and its delivery attempts.                 *)
(***************************************************************************)

\* A channel is delivered or skipped, never both, and its row says which.
Kinds(j) ==
    /\ job[j].channels \cap job[j].skipped = {}
    /\ \A c \in Channels :
          /\ attempt[<<j, c>>] = "skipped" => c \in job[j].skipped
          /\ attempt[<<j, c>>] \in {"sent", "failed"} => c \in job[j].channels

\* Only a run of send goes past "queued".
Begun(j) == task[j].state = "none" => note[j] \in {"none", "queued"}

InLoop(j) == At(j, "skip") \/ At(j, "deliver") \/ At(j, "record") \/ At(j, "settle")

\* Where the loops of send are; the row is not settled while they run.
Looping(j) ==
    InLoop(j) =>
       /\ note[j] = "pending"
       /\ run[j].skip \subseteq job[j].skipped /\ run[j].todo \subseteq job[j].channels
       /\ run[j].at # "skip" => run[j].skip = {}
       /\ run[j].at = "settle" => run[j].todo = {}
       /\ run[j].at = "record" => run[j].channel \subseteq run[j].todo

\* The counters of the loops agree with the rows they wrote.
Counters(j) ==
    InLoop(j) =>
       /\ run[j].ok \cup run[j].bad = job[j].channels \ run[j].todo
       /\ \A c \in run[j].ok  : attempt[<<j, c>>] = "sent"
       /\ \A c \in run[j].bad : attempt[<<j, c>>] = "failed"
       /\ \A c \in job[j].skipped \ run[j].skip : attempt[<<j, c>>] = "skipped"

\* A settled row counts the rows of the attempts, all of them.
Settled(j) ==
    IsTerminal(note[j]) =>
       /\ \A c \in job[j].channels : attempt[<<j, c>>] \in {"sent", "failed"}
       /\ \A c \in job[j].skipped : attempt[<<j, c>>] = "skipped"
       /\ note[j] = FinalStatus(RowsOf(j, "sent"), RowsOf(j, "failed"), job[j].skipped)

Outcome(j) ==
    /\ Ahead(j) /\ Kinds(j) /\ Begun(j) /\ Looping(j)
    /\ faults.swallowed = 0 => Counters(j) /\ Settled(j)

OutcomeInv ==
    /\ DeliveryInv
    /\ HooksNamed
    /\ \A w \in Calls : Late(w) /\ Called(w)
    /\ \A j \in Jobs : Outcome(j)
----------------------------------------------------------------------------
(***************************************************************************)
(* Webhook tasks: one lemma per handler step, then the steps of others.    *)
(***************************************************************************)
LEMMA SwallowedGrows ==
    ASSUME Typed, [Next]_vars
    PROVE  faults'.swallowed = 0 => faults.swallowed = 0
<1>0. faults \in [met : 0 .. MaxFaults, swallowed : 0 .. MaxFaults]
  BY DEF Typed, TypeOK
<1>1. Fault \/ Swallowed \/ Works => (faults'.swallowed = 0 => faults.swallowed = 0)
  BY <1>0, BoundsAreNat DEF Fault, Swallowed, Works
<1>2. ASSUME NEW j \in Jobs, Request(j) \/ PickUp(j) \/ Send(j) \/ SendFails(j)
      PROVE  Fault \/ Swallowed \/ Works
  BY <1>2 DEF Request, CreateQueuedNotification, EnqueueJob, EnqueueJobFails, TestSend,
              PickUp, SendFails, Send, StartSend, RecordSkipped, SendChannel, NoProvider,
              RecordAttempt, SettleStatus, ListHooks, EnqueueWebhook, Acknowledge, Works
<1>3. ASSUME NEW w \in Calls, PickUpCall(w) \/ Execute(w) \/ CallFails(w)
      PROVE  Fault \/ Swallowed \/ Works
  BY <1>3 DEF PickUpCall, CallFails, Execute, FetchHook, HookGone, Post, LogDelivery,
              AcknowledgeCall, RecordDelivery, Works
<1>4. Configure \/ UNCHANGED vars => Works
  BY DEF Configure, ChangeIntegrations, CreateWebhook, DeleteWebhook, vars, Works
<1>. QED  BY <1>1, <1>2, <1>3, <1>4 DEF Next

\* What the steps of webhook tasks and of everyone else do to the hooks.
LEMMA HooksKept ==
    ASSUME Typed, HooksNamed, [Next]_vars
    PROVE  /\ HooksNamed'
           /\ \A h \in Hooks : hook[h].events # {} =>
                 /\ hook'[h].events # {}
                 /\ ~ hook[h].active => ~ hook'[h].active
<1>0. hook \in [Hooks -> [active : BOOLEAN, events : SUBSET Events]]
  BY DEF Typed, TypeOK
<1>1. CASE hook' = hook
  BY <1>1 DEF HooksNamed
<1>2. ASSUME NEW h \in Hooks, NEW es \in (SUBSET Events) \ {{}}, CreateWebhook(h, es)
      PROVE  /\ HooksNamed'
             /\ \A g \in Hooks : hook[g].events # {} =>
                   /\ hook'[g].events # {}
                   /\ ~ hook[g].active => ~ hook'[g].active
  <2>1. hook' = [hook EXCEPT ![h] = Registered(es)] /\ hook[h] = Unregistered
    BY <1>2 DEF CreateWebhook
  <2>2. Registered(es).events # {} /\ Unregistered.events = {}
    <3>1. Registered(es).events = es /\ Unregistered.events = {}
      BY Zenon DEF Registered, Unregistered
    <3>2. es # {}
      OBVIOUS
    <3>. QED  BY <3>1, <3>2
  <2>3. /\ hook'[h] = Registered(es)
        /\ \A g \in Hooks : g # h => hook'[g] = hook[g]
    BY <1>0, <2>1
  <2>4. /\ hook'[h].events # {} /\ hook[h].events = {}
        /\ \A g \in Hooks : g # h => hook'[g] = hook[g]
    BY <2>1, <2>2, <2>3
  <2>5. HooksNamed'
    BY <2>4 DEF HooksNamed
  <2>. QED  BY <2>4, <2>5
<1>3. ASSUME NEW h \in Hooks, DeleteWebhook(h)
      PROVE  /\ HooksNamed'
             /\ \A g \in Hooks : hook[g].events # {} =>
                   /\ hook'[g].events # {}
                   /\ ~ hook[g].active => ~ hook'[g].active
  <2>1. hook' = [hook EXCEPT ![h] = [hook[h] EXCEPT !.active = FALSE]]
    BY <1>3 DEF DeleteWebhook
  <2> DEFINE row == [hook[h] EXCEPT !.active = FALSE]
  <2>2. row.active = FALSE /\ row.events = hook[h].events
    BY <1>0
  <2>3. hook' = [hook EXCEPT ![h] = row]
    BY <2>1
  <2>. HIDE DEF row
  <2>4. /\ hook'[h] = row
        /\ \A g \in Hooks : g # h => hook'[g] = hook[g]
    BY <1>0, <2>3
  <2>5. /\ ~ hook'[h].active /\ hook'[h].events = hook[h].events
        /\ \A g \in Hooks : g # h => hook'[g] = hook[g]
    BY <2>2, <2>4
  <2>6. HooksNamed'
    BY <2>5 DEF HooksNamed
  <2>. QED  BY <2>5, <2>6
<1>4. ASSUME NEW j \in Jobs, Request(j) \/ PickUp(j) \/ Send(j) \/ SendFails(j)
      PROVE  hook' = hook
  BY <1>4 DEF Request, CreateQueuedNotification, EnqueueJob, EnqueueJobFails, TestSend,
              PickUp, SendFails, Send, StartSend, RecordSkipped, SendChannel, NoProvider,
              RecordAttempt, SettleStatus, ListHooks, EnqueueWebhook, Acknowledge, envVars
<1>5. ASSUME NEW w \in Calls, PickUpCall(w) \/ Execute(w) \/ CallFails(w)
      PROVE  hook' = hook
  BY <1>5 DEF PickUpCall, CallFails, Execute, FetchHook, HookGone, Post, LogDelivery,
              AcknowledgeCall, envVars
<1>6. ASSUME NEW c \in Channels, NEW ps \in SUBSET Providers, ChangeIntegrations(c, ps)
      PROVE  hook' = hook
  BY <1>6 DEF ChangeIntegrations
<1>7. UNCHANGED vars => hook' = hook
  BY DEF vars
<1>. QED  BY <1>1, <1>2, <1>3, <1>4, <1>5, <1>6, <1>7 DEF Next, Configure

\* A step of task w is about no other webhook task.
LEMMA OtherCalls ==
    ASSUME Typed, NEW w \in Calls, PickUpCall(w) \/ Execute(w) \/ CallFails(w),
           NEW x \in Calls \ {w}
    PROVE  /\ call'[x] = call[x] /\ caller'[x] = caller[x]
           /\ request'[x] = request[x] /\ logged'[x] = logged[x]
<1>. USE DEF Typed, TypeOK
<1>1. CASE PickUpCall(w) \/ CallFails(w)
  BY <1>1 DEF PickUpCall, CallFails
<1>2. CASE FetchHook(w) \/ Post(w) \/ AcknowledgeCall(w)
  BY <1>2 DEF FetchHook, Post, AcknowledgeCall
<1>3. CASE HookGone(w) \/ LogDelivery(w)
  BY <1>3 DEF HookGone, LogDelivery, RecordDelivery
<1>. QED  BY <1>1, <1>2, <1>3 DEF Execute

\* Late and Called depend on the row of the task, of its handler and of its hook.
LEMMA CallFrame ==
    ASSUME NEW w \in Calls, Late(w), Called(w),
           call'[w] = call[w], caller'[w] = caller[w],
           request'[w] = request[w], logged'[w] = logged[w],
           faults'.swallowed = 0 => faults.swallowed = 0,
           hook[w[2]].events # {} =>
              hook'[w[2]].events # {} /\ (~ hook[w[2]].active => ~ hook'[w[2]].active)
    PROVE  Late(w)' /\ Called(w)'
<1>1. Late(w)'
  BY DEF Late
<1>2. Called(w)'
  BY DEF Called, CallAt
<1>. QED  BY <1>1, <1>2

\* What each step of a webhook task does to its row, its handler and its requests.
LEMMA CallSteps ==
    ASSUME Typed, NEW w \in Calls, PickUpCall(w) \/ Execute(w) \/ CallFails(w)
    PROVE  \/ /\ call[w].state = "pending" /\ call'[w].state = "active"
              /\ call'[w].retried = call[w].retried
              /\ caller'[w].at = "fetch"
              /\ request'[w] = request[w] /\ logged'[w] = logged[w]
           \/ /\ CallAt(w, "fetch") /\ Subscribed(w[2], call[w].event)
              /\ call'[w] = call[w] /\ caller'[w].at = "post"
              /\ request'[w] = request[w] /\ logged'[w] = logged[w]
           \/ /\ CallAt(w, "post") /\ call'[w] = call[w] /\ caller'[w].at = "log"
              /\ request'[w].made = request[w].made + 1
              /\ request'[w].late = IF hook[w[2]].active THEN request[w].late
                                                         ELSE request[w].late + 1
              /\ logged'[w] = logged[w]
           \/ /\ CallAt(w, "log") /\ call'[w] = call[w] /\ caller'[w].at = "ack"
              /\ request'[w] = request[w]
              /\ faults'.swallowed = 0 => "sent" \in logged'[w]
           \/ /\ CallAt(w, "ack") /\ call'[w].state = "done"
              /\ call'[w].retried = call[w].retried /\ caller'[w].at = "idle"
              /\ request'[w] = request[w] /\ logged'[w] = logged[w]
           \/ /\ call[w].state = "active" /\ caller'[w].at = "idle"
              /\ \/ call'[w].state = "archived" /\ call'[w].retried = call[w].retried
                 \/ call'[w].state = "pending" /\ call'[w].retried = call[w].retried + 1
              /\ request'[w] = request[w] /\ logged[w] \subseteq logged'[w]
<1>0. /\ call \in [Calls -> CallRecord] /\ caller \in [Calls -> CallerRecord]
      /\ request \in [Calls -> [made : Nat, late : Nat]]
      /\ logged \in [Calls -> SUBSET {"sent", "failed"}]
      /\ faults \in [met : 0 .. MaxFaults, swallowed : 0 .. MaxFaults]
  BY DEF Typed, TypeOK
<1>r. /\ Retried(call[w]).state = "archived" /\ Retried(call[w]).retried = call[w].retried
      \/ /\ Retried(call[w]).state = "pending"
         /\ Retried(call[w]).retried = call[w].retried + 1
  BY <1>0 DEF Retried, CallRecord
<1>1. CASE PickUpCall(w)
  BY <1>0, <1>1 DEF PickUpCall, CallRecord, IdleCaller
<1>2. CASE FetchHook(w)
  BY <1>0, <1>2 DEF FetchHook, CallerRecord
<1>3. CASE HookGone(w)
  <2>1. logged[w] \subseteq logged'[w]
    BY <1>0, <1>3 DEF HookGone, RecordDelivery
  <2>. QED  BY <1>0, <1>3, <2>1 DEF HookGone, CallAt, CallRecord, IdleCaller
<1>4. CASE Post(w)
  <2>1. CallAt(w, "post") /\ call' = call /\ logged' = logged
    BY <1>4 DEF Post
  <2>2. caller'[w].at = "log"
    BY <1>0, <1>4 DEF Post
  <2>3. /\ request'[w].made = request[w].made + 1
        /\ request'[w].late = IF hook[w[2]].active THEN request[w].late
                                                   ELSE request[w].late + 1
    BY <1>0, <1>4 DEF Post
  <2>. QED  BY <2>1, <2>2, <2>3
<1>5. CASE LogDelivery(w)
  <2>1. CallAt(w, "log") /\ request' = request /\ logged[w] \subseteq logged'[w]
    BY <1>0, <1>5 DEF LogDelivery, RecordDelivery
  <2>2. CASE caller[w].answer = "2xx"
    <3>1. call' = call /\ caller'[w].at = "ack"
      BY <1>0, <1>5, <2>2 DEF LogDelivery, CallerRecord
    <3>2. faults'.swallowed = 0 => "sent" \in logged'[w]
      <4>1. RecordDelivery(w, "sent")
        BY <1>5, <2>2 DEF LogDelivery
      <4>. QED  BY <1>0, <4>1, BoundsAreNat DEF RecordDelivery, Swallowed
    <3>. QED  BY <2>1, <3>1, <3>2
  <2>3. CASE caller[w].answer # "2xx"
    <3>1. /\ caller'[w].at = "idle"
          /\ \/ call'[w] = [call[w] EXCEPT !.state = "archived"]
             \/ call'[w] = Retried(call[w])
      BY <1>0, <1>5, <2>3 DEF LogDelivery, IdleCaller
    <3>. QED  BY <1>0, <1>r, <2>1, <3>1 DEF CallAt, CallRecord
  <2>. QED  BY <2>2, <2>3
<1>6. CASE AcknowledgeCall(w)
  BY <1>0, <1>6 DEF AcknowledgeCall, CallRecord, IdleCaller
<1>7. CASE CallFails(w)
  BY <1>0, <1>r, <1>7 DEF CallFails, IdleCaller
<1>. QED  BY <1>1, <1>2, <1>3, <1>4, <1>5, <1>6, <1>7 DEF Execute

LEMMA CallKeeps ==
    ASSUME Typed, Typed', NEW w \in Calls, Late(w), Called(w), HooksNamed, hook' = hook,
           PickUpCall(w) \/ Execute(w) \/ CallFails(w),
           faults'.swallowed = 0 => faults.swallowed = 0
    PROVE  Late(w)' /\ Called(w)'
<1>0. /\ w[2] \in Hooks /\ call[w].retried \in Nat
      /\ request[w].made \in Nat /\ request[w].late \in Nat
  <2>1. w[2] \in Hooks
    BY CallParts
  <2>. QED  BY <2>1, BoundsAreNat DEF Typed, TypeOK, CallRecord, Runs
<1>1. Late(w)'
  <2>1. Subscribed(w[2], call[w].event) => hook[w[2]].events # {} /\ hook[w[2]].active
    BY DEF Subscribed
  <2>. QED  BY <1>0, <2>1, CallSteps DEF Late, CallAt
<1>2. Called(w)'
  BY <1>0, CallSteps DEF Called, CallAt
<1>. QED  BY <1>1, <1>2
----------------------------------------------------------------------------
(***************************************************************************)
(* Jobs: first the frame, then one lemma per step of the job's own.        *)
(***************************************************************************)
LEMMA RowsSame ==
    ASSUME NEW j \in Jobs, NEW status,
           \A c \in Channels : attempt'[<<j, c>>] = attempt[<<j, c>>]
    PROVE  RowsOf(j, status)' = RowsOf(j, status)
BY DEF RowsOf

LEMMA OutcomeFrame ==
    ASSUME Typed, NEW k \in Jobs, Outcome(k), Same(k),
           faults'.swallowed = 0 => faults.swallowed = 0
    PROVE  Outcome(k)'
<1>1. /\ job[k].channels \subseteq Channels /\ job[k].skipped \subseteq Channels
      /\ run[k].ok \subseteq Channels /\ run[k].bad \subseteq Channels
  BY DEF Typed, TypeOK, RunRecord
<1>2. Ahead(k)'
  <2>1. \A h \in Hooks : Unsent(k, h)' <=> Unsent(k, h)
    BY DEF Same, Unsent, At
  <2>. QED  BY <2>1 DEF Same, Ahead, Outcome
<1>3. Kinds(k)' /\ Begun(k)'
  BY DEF Same, Kinds, Begun, Outcome
<1>4. Looping(k)'
  BY DEF Same, Looping, InLoop, At, Outcome
<1>5. Counters(k) => Counters(k)'
  BY <1>1 DEF Same, Counters, InLoop, At
<1>6. Settled(k) => Settled(k)'
  <2>1. \A c \in Channels : attempt'[<<k, c>>] = attempt[<<k, c>>]
    BY DEF Same
  <2>2. /\ RowsOf(k, "sent")' = RowsOf(k, "sent")
        /\ RowsOf(k, "failed")' = RowsOf(k, "failed")
    BY <2>1, RowsSame
  <2>. QED  BY <1>1, <2>1, <2>2 DEF Same, Settled
<1>. QED  BY <1>2, <1>3, <1>4, <1>5, <1>6 DEF Outcome

LEMMA RequestOutcome ==
    ASSUME Typed, NEW j \in Jobs, JobInv(j), Outcome(j), Request(j)
    PROVE  Outcome(j)'
<1>0. task[j].state = "none" /\ task[j].retried = 0 /\ Blank(j)
  BY DEF JobInv, Fresh, Request, CreateQueuedNotification, EnqueueJob, EnqueueJobFails,
         TestSend
<1>1. Blank(j)'
  <2>1. UNCHANGED <<attempt, accepted, call>>
    BY DEF Request, CreateQueuedNotification, EnqueueJob, EnqueueJobFails, TestSend
  <2>. QED  BY <1>0, <2>1 DEF Blank
<1>2. /\ note'[j] \in {"none", "queued"}
      /\ \/ task'[j].state \in {"none", "pending"}
         \/ task'[j].state = "active" /\ run'[j].at = "start"
      /\ job'[j].channels \cap job'[j].skipped = {}
  <2>0. /\ task \in [Jobs -> TaskRecord] /\ run \in [Jobs -> RunRecord]
        /\ job \in [Jobs -> [channels : SUBSET Channels, skipped : SUBSET Channels]]
        /\ note \in [Jobs -> {"none", "queued", "pending"} \cup Final]
        /\ note[j] \in {"none", "queued"} /\ job[j].channels \cap job[j].skipped = {}
    BY <1>0 DEF Typed, TypeOK, Outcome, Begun, Kinds
  <2>p. Prepare(j) => job'[j].channels \cap job'[j].skipped = {}
    BY <2>0 DEF Prepare
  <2>1. CASE CreateQueuedNotification(j)
    BY <1>0, <2>0, <2>p, <2>1 DEF CreateQueuedNotification
  <2>2. CASE EnqueueJob(j)
    BY <1>0, <2>0, <2>p, <2>2 DEF EnqueueJob, TaskRecord
  <2>3. CASE EnqueueJobFails(j)
    BY <1>0, <2>0, <2>3 DEF EnqueueJobFails
  <2>4. CASE TestSend(j)
    <3>1. job'[j].channels \cap job'[j].skipped = {}
      BY <2>0, <2>4 DEF TestSend
    <3>. QED  BY <1>0, <2>0, <2>4, <3>1 DEF TestSend, TaskRecord, IdleRun
  <2>. QED  BY <2>1, <2>2, <2>3, <2>4 DEF Request
<1>3. ~ InLoop(j)' /\ ~ IsTerminal(note'[j])
  BY <1>2 DEF InLoop, At, IsTerminal, Final
<1>. QED  BY <1>1, <1>2, <1>3
          DEF Outcome, Ahead, Kinds, Begun, Looping, Counters, Settled, Blank

\* A step that leaves the rows alone and the loops behind keeps a settled row.
LEMMA SettledKept ==
    ASSUME NEW j \in Jobs, Settled(j), UNCHANGED <<job, note, attempt>>
    PROVE  Settled(j)'
BY DEF Settled, RowsOf

LEMMA QueueOutcome ==
    ASSUME Typed, NEW j \in Jobs, Outcome(j), PickUp(j) \/ SendFails(j) \/ Acknowledge(j),
           faults'.swallowed = 0 => faults.swallowed = 0
    PROVE  Outcome(j)'
<1>0. UNCHANGED <<job, note, attempt, call>>
  BY DEF PickUp, SendFails, Acknowledge, At
<1>1. \/ /\ task[j].state = "pending" /\ task'[j].state = "active"
         /\ task'[j].retried = task[j].retried /\ run'[j].at = "start"
      \/ /\ task'[j].state = "pending" /\ task'[j].retried = task[j].retried + 1
      \/ /\ task'[j].state \in {"archived", "lost", "done"}
         /\ task'[j].retried = task[j].retried
  <2>0. task \in [Jobs -> TaskRecord] /\ run \in [Jobs -> RunRecord]
    BY DEF Typed, TypeOK
  <2>1. CASE PickUp(j)
    BY <2>0, <2>1 DEF PickUp, TaskRecord, IdleRun
  <2>2. CASE SendFails(j)
    <3>1. task'[j] = IF api[j] = "test" THEN [task[j] EXCEPT !.state = "lost"]
                     ELSE Retried(task[j])
      BY <2>0, <2>2 DEF SendFails
    <3>. QED  BY <2>0, <3>1 DEF TaskRecord, Retried
  <2>3. CASE Acknowledge(j)
    BY <2>0, <2>3 DEF Acknowledge, TaskRecord
  <2>. QED  BY <2>1, <2>2, <2>3
<1>2. task[j].retried \in Nat
  BY BoundsAreNat DEF Typed, TypeOK, TaskRecord, Runs
<1>3. Ahead(j)'
  <2>1. \A r \in Runs : r \in Nat
    BY BoundsAreNat DEF Runs
  <2>. QED  BY <1>0, <1>1, <1>2, <2>1 DEF Outcome, Ahead, Unsent, At
<1>4. ~ InLoop(j)' /\ Begun(j)' /\ Kinds(j)'
  BY <1>0, <1>1 DEF Outcome, InLoop, At, Begun, Kinds
<1>. QED  BY <1>0, <1>3, <1>4, SettledKept DEF Outcome, Looping, Counters

\* What NextPoint says of the loops that are left.
LEMMA NextPointMeans ==
    ASSUME NEW skip, NEW todo
    PROVE  /\ NextPoint(skip, todo) # "skip" => skip = {}
           /\ NextPoint(skip, todo) = "settle" => todo = {}
           /\ NextPoint(skip, todo) \in {"skip", "deliver", "settle"}
BY DEF NextPoint

\* The calls of send before the hooks are listed enqueue nothing.
LEMMA LoopAhead ==
    ASSUME Typed, NEW j \in Jobs, Ahead(j), task[j].state = "active",
           run[j].at \notin {"dispatch", "ack"}, UNCHANGED <<task, call>>
    PROVE  Ahead(j)'
BY DEF Ahead, Unsent, At

LEMMA StartOutcome ==
    ASSUME Typed, NEW j \in Jobs, JobInv(j), Outcome(j), StartSend(j)
    PROVE  Outcome(j)'
<1>0. /\ run[j] = [IdleRun EXCEPT !.at = "start"] /\ task[j].state = "active"
      /\ UNCHANGED <<job, task, attempt, call>>
      /\ job[j].channels \cap job[j].skipped = {}
      /\ run \in [Jobs -> RunRecord] /\ note' = [note EXCEPT ![j] = "pending"]
  BY DEF StartSend, JobInv, OneAtATime, Outcome, Kinds, At, Typed, TypeOK
<1>1. note'[j] = "pending" /\ ~ IsTerminal(note'[j])
  BY <1>0 DEF Typed, TypeOK, IsTerminal, Final
<1>2. /\ run'[j].skip = job[j].skipped /\ run'[j].todo = job[j].channels
      /\ run'[j].at = NextPoint(job[j].skipped, job[j].channels)
      /\ run'[j].ok = {} /\ run'[j].bad = {}
  BY <1>0, <1>1 DEF StartSend, IdleRun
<1>3. Looping(j)'
  BY <1>0, <1>1, <1>2, NextPointMeans DEF Looping, InLoop, At
<1>4. Counters(j)'
  BY <1>0, <1>2 DEF Counters
<1>5. Ahead(j)'
  BY <1>0, LoopAhead DEF IdleRun, Outcome
<1>6. Kinds(j)' /\ Begun(j)' /\ Settled(j)'
  BY <1>0, <1>1 DEF Outcome, Kinds, Begun, Settled
<1>. QED  BY <1>3, <1>4, <1>5, <1>6 DEF Outcome

LEMMA SkippedOutcome ==
    ASSUME Typed, NEW j \in Jobs, Outcome(j), RecordSkipped(j),
           faults'.swallowed = 0 => faults.swallowed = 0
    PROVE  Outcome(j)'
<1>0. /\ At(j, "skip") /\ task[j].state = "active" /\ run[j].at = "skip" /\ InLoop(j)
      /\ UNCHANGED <<job, note, task, call>> /\ note[j] = "pending"
      /\ run[j].skip \subseteq job[j].skipped /\ run[j].todo \subseteq job[j].channels
      /\ job[j].channels \cap job[j].skipped = {} /\ job[j].skipped \subseteq Channels
      /\ run[j] \in RunRecord /\ run \in [Jobs -> RunRecord]
      /\ attempt \in [Jobs \X Channels -> {"none", "sent", "failed", "skipped"}]
  BY DEF RecordSkipped, Outcome, Kinds, Looping, InLoop, At, Typed, TypeOK
<1>1. PICK c \in run[j].skip :
         /\ \/ Works /\ attempt' = [attempt EXCEPT ![<<j, c>>] = "skipped"]
            \/ Swallowed /\ UNCHANGED attempt
         /\ run' = [run EXCEPT ![j] =
               [@ EXCEPT !.skip = run[j].skip \ {c},
                         !.at = NextPoint(run[j].skip \ {c}, run[j].todo)]]
  BY DEF RecordSkipped
<1>2. /\ run'[j].skip = run[j].skip \ {c} /\ run'[j].todo = run[j].todo
      /\ run'[j].at = NextPoint(run[j].skip \ {c}, run[j].todo)
      /\ run'[j].ok = run[j].ok /\ run'[j].bad = run[j].bad
  BY <1>0, <1>1 DEF RunRecord
<1>3. /\ c \in Channels /\ c \in job[j].skipped /\ c \notin job[j].channels
      /\ \A d \in Channels \ {c} : attempt'[<<j, d>>] = attempt[<<j, d>>]
      /\ attempt'[<<j, c>>] \in {attempt[<<j, c>>], "skipped"}
      /\ faults'.swallowed = 0 => attempt'[<<j, c>>] = "skipped"
  <2>1. c \in Channels /\ c \in job[j].skipped /\ c \notin job[j].channels
    BY <1>0
  <2>2. CASE Works /\ attempt' = [attempt EXCEPT ![<<j, c>>] = "skipped"]
    BY <1>0, <2>1, <2>2
  <2>3. CASE Swallowed /\ UNCHANGED attempt
    <3>1. faults'.swallowed # 0
      BY <2>3, BoundsAreNat DEF Swallowed, Typed, TypeOK
    <3>. QED  BY <2>1, <2>3, <3>1
  <2>. QED  BY <1>1, <2>2, <2>3
<1>4. Kinds(j)'
  BY <1>0, <1>3 DEF Outcome, Kinds
<1>5. Looping(j)'
  BY <1>0, <1>2, NextPointMeans DEF Looping, InLoop, At
<1>6. faults'.swallowed = 0 => Counters(j)'
  <2>. SUFFICES ASSUME faults'.swallowed = 0 PROVE Counters(j)'
    OBVIOUS
  <2>1. /\ run[j].ok \cup run[j].bad = job[j].channels \ run[j].todo
        /\ \A d \in run[j].ok  : attempt[<<j, d>>] = "sent"
        /\ \A d \in run[j].bad : attempt[<<j, d>>] = "failed"
        /\ \A d \in job[j].skipped \ run[j].skip : attempt[<<j, d>>] = "skipped"
    BY <1>0 DEF Outcome, Counters
  <2>2. /\ \A d \in run[j].ok \cup run[j].bad : d \in Channels \ {c}
    BY <1>0, <1>3, <2>1 DEF Typed, TypeOK, RunRecord
  <2>3. \A d \in job[j].skipped \ run'[j].skip : attempt'[<<j, d>>] = "skipped"
    BY <1>0, <1>2, <1>3, <2>1
  <2>. QED  BY <1>0, <1>2, <1>3, <2>1, <2>2, <2>3 DEF Counters
<1>7. Ahead(j)' /\ Begun(j)' /\ Settled(j)'
  BY <1>0, LoopAhead DEF Outcome, Begun, Settled, IsTerminal, Final
<1>. QED  BY <1>4, <1>5, <1>6, <1>7 DEF Outcome

LEMMA SendOutcome ==
    ASSUME Typed, NEW j \in Jobs, Outcome(j), SendChannel(j) \/ NoProvider(j),
           faults'.swallowed = 0 => faults.swallowed = 0
    PROVE  Outcome(j)'
<1>0. /\ task[j].state = "active" /\ run[j].at = "deliver" /\ InLoop(j)
      /\ UNCHANGED <<job, note, task, attempt, call>> /\ note[j] = "pending"
      /\ run[j].skip = {} /\ run[j].todo \subseteq job[j].channels
      /\ run[j] \in RunRecord /\ run \in [Jobs -> RunRecord]
  BY DEF SendChannel, NoProvider, Outcome, Looping, InLoop, At, Typed, TypeOK
<1>1. PICK c \in run[j].todo, took \in BOOLEAN :
         run' = [run EXCEPT ![j] = [@ EXCEPT !.at = "record", !.channel = {c},
                                             !.took = took]]
  <2>1. CASE SendChannel(j)
    BY <2>1, Zenon DEF SendChannel
  <2>2. CASE NoProvider(j)
    BY <2>2, Zenon DEF NoProvider
  <2>. QED  BY <2>1, <2>2
<1>2. /\ run'[j].skip = run[j].skip /\ run'[j].todo = run[j].todo
      /\ run'[j].at = "record" /\ run'[j].channel = {c}
      /\ run'[j].ok = run[j].ok /\ run'[j].bad = run[j].bad
  BY <1>0, <1>1 DEF RunRecord
<1>3. Looping(j)'
  BY <1>0, <1>2 DEF Looping, InLoop, At
<1>4. Counters(j) => Counters(j)'
  BY <1>0, <1>2 DEF Counters
<1>5. Ahead(j)'
  BY <1>0, LoopAhead DEF Outcome
<1>6. Kinds(j)' /\ Begun(j)' /\ Settled(j)'
  BY <1>0 DEF Outcome, Kinds, Begun, Settled, IsTerminal, Final
<1>. QED  BY <1>3, <1>4, <1>5, <1>6 DEF Outcome

LEMMA AttemptOutcome ==
    ASSUME Typed, NEW j \in Jobs, JobInv(j), Outcome(j), RecordAttempt(j),
           faults'.swallowed = 0 => faults.swallowed = 0
    PROVE  Outcome(j)'
<1>0. /\ task[j].state = "active" /\ run[j].at = "record" /\ InLoop(j) /\ At(j, "record")
      /\ UNCHANGED <<job, note, task, call>> /\ note[j] = "pending"
      /\ run[j].skip = {} /\ run[j].todo \subseteq job[j].channels
      /\ run[j].channel \subseteq run[j].todo
      /\ job[j].channels \cap job[j].skipped = {} /\ job[j].channels \subseteq Channels
      /\ job[j].skipped \subseteq Channels
      /\ run[j] \in RunRecord /\ run \in [Jobs -> RunRecord]
      /\ attempt \in [Jobs \X Channels -> {"none", "sent", "failed", "skipped"}]
  BY DEF RecordAttempt, Outcome, Kinds, Looping, InLoop, At, Typed, TypeOK
<1>1. PICK c \in run[j].channel :
         /\ \/ /\ Works
               /\ attempt' = [attempt EXCEPT ![<<j, c>>] =
                                 IF run[j].took THEN "sent" ELSE "failed"]
            \/ Swallowed /\ UNCHANGED attempt
         /\ run' = [run EXCEPT ![j] =
               [@ EXCEPT !.todo = run[j].todo \ {c}, !.channel = {},
                         !.ok  = run[j].ok \cup (IF run[j].took THEN {c} ELSE {}),
                         !.bad = run[j].bad \cup (IF run[j].took THEN {} ELSE {c}),
                         !.at  = NextPoint({}, run[j].todo \ {c})]]
  BY DEF RecordAttempt
<1>2. /\ run'[j].skip = run[j].skip /\ run'[j].todo = run[j].todo \ {c}
      /\ run'[j].at = NextPoint({}, run[j].todo \ {c})
      /\ run'[j].ok = run[j].ok \cup (IF run[j].took THEN {c} ELSE {})
      /\ run'[j].bad = run[j].bad \cup (IF run[j].took THEN {} ELSE {c})
  BY <1>0, <1>1 DEF RunRecord
<1>3. /\ c \in Channels /\ c \in job[j].channels /\ c \notin job[j].skipped
      /\ \A d \in Channels \ {c} : attempt'[<<j, d>>] = attempt[<<j, d>>]
      /\ attempt'[<<j, c>>] \in {attempt[<<j, c>>], "sent", "failed"}
      /\ faults'.swallowed = 0 =>
            attempt'[<<j, c>>] = IF run[j].took THEN "sent" ELSE "failed"
  <2>1. c \in Channels /\ c \in job[j].channels /\ c \notin job[j].skipped
    BY <1>0
  <2>2. CASE Works /\ attempt' = [attempt EXCEPT ![<<j, c>>] =
                                     IF run[j].took THEN "sent" ELSE "failed"]
    BY <1>0, <2>1, <2>2
  <2>3. CASE Swallowed /\ UNCHANGED attempt
    <3>1. faults'.swallowed # 0
      BY <2>3, BoundsAreNat DEF Swallowed, Typed, TypeOK
    <3>. QED  BY <2>1, <2>3, <3>1
  <2>. QED  BY <1>1, <2>2, <2>3
<1>4. Kinds(j)'
  BY <1>0, <1>3 DEF Outcome, Kinds
<1>5. Looping(j)'
  BY <1>0, <1>2, NextPointMeans DEF Looping, InLoop, At
<1>6. faults'.swallowed = 0 => Counters(j)'
  <2>. SUFFICES ASSUME faults'.swallowed = 0 PROVE Counters(j)'
    OBVIOUS
  <2>1. /\ run[j].ok \cup run[j].bad = job[j].channels \ run[j].todo
        /\ \A d \in run[j].ok  : attempt[<<j, d>>] = "sent"
        /\ \A d \in run[j].bad : attempt[<<j, d>>] = "failed"
        /\ \A d \in job[j].skipped : attempt[<<j, d>>] = "skipped"
    BY <1>0 DEF Outcome, Counters
  <2>2. c \in run[j].todo
    BY <1>0
  <2>3. \A d \in run[j].ok \cup run[j].bad : d \in Channels \ {c}
    BY <1>0, <2>1, <2>2
  <2>4. run'[j].ok \cup run'[j].bad = (run[j].ok \cup run[j].bad) \cup {c}
    BY <1>2
  <2>5. run'[j].ok \cup run'[j].bad = job[j].channels \ run'[j].todo
    BY <1>2, <1>3, <2>1, <2>2, <2>4
  <2>6. \A d \in run'[j].ok : attempt'[<<j, d>>] = "sent"
    BY <1>2, <1>3, <2>1, <2>3
  <2>7. \A d \in run'[j].bad : attempt'[<<j, d>>] = "failed"
    BY <1>2, <1>3, <2>1, <2>3
  <2>8. \A d \in job[j].skipped : attempt'[<<j, d>>] = "skipped"
    BY <1>0, <1>3, <2>1
  <2>. QED  BY <1>0, <2>5, <2>6, <2>7, <2>8 DEF Counters
<1>7. Ahead(j)' /\ Begun(j)' /\ Settled(j)'
  BY <1>0, LoopAhead DEF Outcome, Begun, Settled, IsTerminal, Final
<1>. QED  BY <1>4, <1>5, <1>6, <1>7 DEF Outcome

\* When the loops are over, the counters are the rows.
LEMMA CountersAreRows ==
    ASSUME Typed, NEW j \in Jobs, Kinds(j), Looping(j), Counters(j), At(j, "settle")
    PROVE  /\ RowsOf(j, "sent") = run[j].ok /\ RowsOf(j, "failed") = run[j].bad
           /\ \A c \in job[j].channels : attempt[<<j, c>>] \in {"sent", "failed"}
           /\ \A c \in job[j].skipped : attempt[<<j, c>>] = "skipped"
<1>1. /\ run[j].ok \cup run[j].bad = job[j].channels
      /\ \A c \in run[j].ok  : attempt[<<j, c>>] = "sent"
      /\ \A c \in run[j].bad : attempt[<<j, c>>] = "failed"
      /\ \A c \in job[j].skipped : attempt[<<j, c>>] = "skipped"
      /\ run[j].ok \subseteq Channels /\ run[j].bad \subseteq Channels
  BY DEF Looping, Counters, InLoop, At, Typed, TypeOK, RunRecord
<1>2. \A c \in Channels : attempt[<<j, c>>] \in {"sent", "failed"} =>
         c \in run[j].ok \cup run[j].bad
  BY <1>1 DEF Kinds
<1>3. \A c : c \in RowsOf(j, "sent") <=> c \in run[j].ok
  BY <1>1, <1>2 DEF RowsOf
<1>4. \A c : c \in RowsOf(j, "failed") <=> c \in run[j].bad
  BY <1>1, <1>2 DEF RowsOf
<1>. QED  BY <1>1, <1>3, <1>4

LEMMA SettleOutcome ==
    ASSUME Typed, NEW j \in Jobs, Outcome(j), SettleStatus(j),
           faults'.swallowed = 0 => faults.swallowed = 0
    PROVE  Outcome(j)'
<1>0. /\ task[j].state = "active" /\ run[j].at = "settle" /\ At(j, "settle")
      /\ UNCHANGED <<job, task, attempt, call>> /\ run[j] \in RunRecord
  BY DEF SettleStatus, At, Typed, TypeOK
<1>1. /\ run'[j].at = "list"
      /\ note'[j] = FinalStatus(run[j].ok, run[j].bad, job[j].skipped)
  BY <1>0 DEF SettleStatus, Typed, TypeOK, RunRecord
<1>2. ~ InLoop(j)'
  BY <1>1 DEF InLoop, At
<1>3. Counters(j) => Settled(j)'
  <2>. SUFFICES ASSUME Counters(j) PROVE Settled(j)'
    OBVIOUS
  <2>1. /\ RowsOf(j, "sent") = run[j].ok /\ RowsOf(j, "failed") = run[j].bad
        /\ \A c \in job[j].channels : attempt[<<j, c>>] \in {"sent", "failed"}
        /\ \A c \in job[j].skipped : attempt[<<j, c>>] = "skipped"
    BY <1>0, CountersAreRows DEF Outcome
  <2>2. /\ RowsOf(j, "sent")' = RowsOf(j, "sent")
        /\ RowsOf(j, "failed")' = RowsOf(j, "failed")
    BY <1>0, RowsSame
  <2>. QED  BY <1>0, <1>1, <2>1, <2>2 DEF Settled
<1>4. Ahead(j)'
  BY <1>0, LoopAhead DEF Outcome
<1>5. Kinds(j)' /\ Begun(j)'
  BY <1>0 DEF Outcome, Kinds, Begun
<1>. QED  BY <1>2, <1>3, <1>4, <1>5 DEF Outcome, Looping, Counters

LEMMA ListOutcome ==
    ASSUME Typed, NEW j \in Jobs, Outcome(j), ListHooks(j),
           faults'.swallowed = 0 => faults.swallowed = 0
    PROVE  Outcome(j)'
<1>0. /\ task[j].state = "active" /\ run[j].at = "list"
      /\ UNCHANGED <<job, note, task, attempt, call>>
      /\ run[j] \in RunRecord /\ run \in [Jobs -> RunRecord]
  BY DEF ListHooks, At, Typed, TypeOK
<1>1. run'[j].at \in {"dispatch", "ack"}
  <2> DEFINE hs == {h \in Hooks : Subscribed(h, EventOf(note[j]))}
             p  == IF hs = {} THEN "ack" ELSE "dispatch"
  <2>1. \/ run' = [run EXCEPT ![j] = [run[j] EXCEPT !.hooks = hs, !.at = p]]
        \/ run' = [run EXCEPT ![j] = [run[j] EXCEPT !.at = "ack"]]
    BY DEF ListHooks
  <2>2. p \in {"dispatch", "ack"}
    OBVIOUS
  <2>. HIDE DEF hs, p
  <2>3. CASE run' = [run EXCEPT ![j] = [run[j] EXCEPT !.hooks = hs, !.at = p]]
    <3>1. run'[j].at = p
      BY <1>0, <2>3 DEF RunRecord
    <3>. QED  BY <2>2, <3>1
  <2>4. CASE run' = [run EXCEPT ![j] = [run[j] EXCEPT !.at = "ack"]]
    BY <1>0, <2>4 DEF RunRecord
  <2>. QED  BY <2>1, <2>3, <2>4
<1>2. ~ InLoop(j)'
  BY <1>1 DEF InLoop, At
<1>3. Ahead(j)'
  BY <1>0, LoopAhead DEF Outcome
<1>4. Kinds(j)' /\ Begun(j)'
  BY <1>0 DEF Outcome, Kinds, Begun
<1>. QED  BY <1>0, <1>2, <1>3, <1>4, SettledKept DEF Outcome, Looping, Counters

\* The task a run enqueues for a hook is new.
LEMMA EnqueueSteps ==
    ASSUME Typed, NEW j \in Jobs, Outcome(j), EnqueueWebhook(j)
    PROVE  \E h \in Hooks :
              /\ call[<<j, h, task[j].retried>>].state = "none"
              /\ run'[j].hooks = run[j].hooks \ {h} /\ run'[j].at \in {"dispatch", "ack"}
              /\ \A w \in Calls : w # <<j, h, task[j].retried>> => call'[w] = call[w]
              /\ call' = call \/ call'[<<j, h, task[j].retried>>].state = "pending"
              /\ task[j].state = "active" /\ run[j].at = "dispatch"
              /\ task[j].retried \in Runs /\ <<j, h, task[j].retried>> \in Calls
              /\ UNCHANGED <<job, note, task, attempt, caller, request, logged, hook>>
<1>0. /\ task[j].state = "active" /\ run[j].at = "dispatch"
      /\ UNCHANGED <<job, note, task, attempt, caller, request, logged, hook>>
      /\ run[j] \in RunRecord /\ run \in [Jobs -> RunRecord] /\ run[j].hooks \subseteq Hooks
      /\ task[j].retried \in Runs /\ call \in [Calls -> CallRecord]
  BY DEF EnqueueWebhook, At, Typed, TypeOK, RunRecord, TaskRecord, envVars, callVars
<1>1. PICK h \in run[j].hooks :
         /\ call' = call \/ call' = [call EXCEPT ![<<j, h, task[j].retried>>] =
                [state |-> "pending", retried |-> 0, event |-> EventOf(note[j])]]
         /\ run' = [run EXCEPT ![j] =
               [@ EXCEPT !.hooks = run[j].hooks \ {h},
                         !.at = IF run[j].hooks = {h} THEN "ack" ELSE "dispatch"]]
  BY DEF EnqueueWebhook
<1>2. h \in Hooks /\ <<j, h, task[j].retried>> \in Calls
  BY <1>0, <1>1 DEF Calls
<1>3. run'[j].hooks = run[j].hooks \ {h} /\ run'[j].at \in {"dispatch", "ack"}
  BY <1>0, <1>1 DEF RunRecord
<1>4. call[<<j, h, task[j].retried>>].state = "none"
  BY <1>0, <1>1, <1>2 DEF Outcome, Ahead, Unsent, At
<1>5. \A w \in Calls : w # <<j, h, task[j].retried>> => call'[w] = call[w]
  BY <1>0, <1>1
<1>6. call' = call \/ call'[<<j, h, task[j].retried>>].state = "pending"
  BY <1>0, <1>1, <1>2
<1>. QED  BY <1>0, <1>2, <1>3, <1>4, <1>5, <1>6

LEMMA EnqueueOutcome ==
    ASSUME Typed, NEW j \in Jobs, Outcome(j), EnqueueWebhook(j),
           faults'.swallowed = 0 => faults.swallowed = 0
    PROVE  Outcome(j)'
<1>1. PICK h \in Hooks :
         /\ call[<<j, h, task[j].retried>>].state = "none"
         /\ run'[j].hooks = run[j].hooks \ {h} /\ run'[j].at \in {"dispatch", "ack"}
         /\ \A w \in Calls : w # <<j, h, task[j].retried>> => call'[w] = call[w]
         /\ task[j].state = "active" /\ run[j].at = "dispatch"
         /\ task[j].retried \in Runs
         /\ UNCHANGED <<job, note, task, attempt>>
  BY EnqueueSteps
<1>2. ~ InLoop(j)'
  BY <1>1 DEF InLoop, At
<1>3. Ahead(j)'
  <2>. SUFFICES ASSUME NEW g \in Hooks, NEW r \in Runs,
                       r > task'[j].retried \/ (r = task'[j].retried /\ Unsent(j, g)')
                PROVE  call'[<<j, g, r>>].state = "none"
    BY DEF Ahead
  <2>1. r > task[j].retried \/ (r = task[j].retried /\ Unsent(j, g) /\ g # h)
    BY <1>1 DEF Unsent, At
  <2>2. call[<<j, g, r>>].state = "none"
    BY <2>1 DEF Outcome, Ahead
  <2>3. r # task[j].retried \/ g # h
    BY <1>1, <2>1, BoundsAreNat DEF Runs
  <2>4. <<j, g, r>> # <<j, h, task[j].retried>> /\ <<j, g, r>> \in Calls
    BY <2>3 DEF Calls
  <2>. QED  BY <1>1, <2>2, <2>4
<1>4. Kinds(j)' /\ Begun(j)'
  BY <1>1 DEF Outcome, Kinds, Begun
<1>. QED  BY <1>1, <1>2, <1>3, <1>4, SettledKept DEF Outcome, Looping, Counters

LEMMA SendsOutcome ==
    ASSUME Typed, NEW j \in Jobs, JobInv(j), Outcome(j), Send(j),
           faults'.swallowed = 0 => faults.swallowed = 0
    PROVE  Outcome(j)'
BY StartOutcome, SkippedOutcome, SendOutcome, AttemptOutcome, SettleOutcome, ListOutcome,
   EnqueueOutcome, QueueOutcome DEF Send

\* What a step of a job leaves of the webhook tasks.
LEMMA JobStepCalls ==
    ASSUME Typed, NEW j \in Jobs, Outcome(j),
           Request(j) \/ PickUp(j) \/ Send(j) \/ SendFails(j),
           NEW w \in Calls, Late(w), Called(w),
           faults'.swallowed = 0 => faults.swallowed = 0
    PROVE  Late(w)' /\ Called(w)'
<1>0. call \in [Calls -> CallRecord] /\ call[w].retried \in Nat /\ request[w].made \in Nat
  BY BoundsAreNat DEF Typed, TypeOK, CallRecord, Runs
<1>1. CASE EnqueueWebhook(j)
  <2>1. PICK h \in Hooks :
           /\ call[<<j, h, task[j].retried>>].state = "none"
           /\ \A x \in Calls : x # <<j, h, task[j].retried>> => call'[x] = call[x]
           /\ call' = call \/ call'[<<j, h, task[j].retried>>].state = "pending"
           /\ UNCHANGED <<caller, request, logged, hook>>
    BY <1>1, EnqueueSteps
  <2>2. CASE call'[w] = call[w]
    BY <2>1, <2>2, CallFrame
  <2>3. CASE call'[w] # call[w]
    <3>1. call[w].state = "none" /\ call'[w].state = "pending" /\ request[w].made = 0
      BY <2>1, <2>3 DEF Called
    <3>2. call'[w].retried \in Nat
      <4>1. call'[w] \in CallRecord
        BY <1>1, SendTyped DEF Send, Typed, TypeOK
      <4>. QED  BY <4>1, BoundsAreNat DEF CallRecord, Runs
    <3>3. Called(w)'
      BY <2>1, <3>1, <3>2 DEF Called, CallAt
    <3>4. Late(w)'
      BY <2>1 DEF Late
    <3>. QED  BY <3>3, <3>4
  <2>. QED  BY <2>2, <2>3
<1>2. CASE ~ EnqueueWebhook(j)
  <2>1. UNCHANGED <<call, caller, request, logged, hook>>
    BY <1>2 DEF Request, CreateQueuedNotification, EnqueueJob, EnqueueJobFails, TestSend,
                PickUp, SendFails, Send, StartSend, RecordSkipped, SendChannel, NoProvider,
                RecordAttempt, SettleStatus, ListHooks, Acknowledge, envVars, callVars
  <2>. QED  BY <2>1, CallFrame
<1>. QED  BY <1>1, <1>2
----------------------------------------------------------------------------
LEMMA OutcomeAtFirst == Init => OutcomeInv
<1>. SUFFICES ASSUME Init PROVE OutcomeInv
  OBVIOUS
<1>1. DeliveryInv
  BY InvAtFirst
<1>2. HooksNamed
  <2>1. /\ Unregistered.active = FALSE /\ Registered(Events).events = Events
    BY Zenon DEF Unregistered, Registered
  <2>2. Events # {}
    BY DEF Events
  <2>3. \A h \in Hooks : hook[h] = Unregistered \/ hook[h] = Registered(Events)
    BY DEF Init
  <2>. QED  BY <2>1, <2>2, <2>3 DEF HooksNamed
<1>3. ASSUME NEW w \in Calls PROVE Late(w) /\ Called(w)
  BY DEF Init, Late, Called, CallAt, IdleCaller
<1>4. ASSUME NEW j \in Jobs PROVE Outcome(j)
  <2>1. /\ task[j].state = "none" /\ note[j] = "none"
        /\ job[j].channels = {} /\ job[j].skipped = {}
        /\ \A c \in Channels : attempt[<<j, c>>] = "none"
        /\ \A h \in Hooks, r \in Runs : call[<<j, h, r>>].state = "none"
    BY DEF Init, Calls
  <2>. QED  BY <2>1 DEF Outcome, Ahead, Kinds, Begun, Looping, InLoop, At, Counters, Settled,
                        IsTerminal, Final
<1>. QED  BY <1>1, <1>2, <1>3, <1>4 DEF OutcomeInv

LEMMA OutcomeKept ==
    ASSUME OutcomeInv, [Next]_vars
    PROVE  OutcomeInv'
<1>0. /\ Typed /\ DeliveryInv' /\ HooksNamed
      /\ \A w \in Calls : Late(w) /\ Called(w)
      /\ \A j \in Jobs : JobInv(j) /\ Outcome(j)
  BY InvKept DEF OutcomeInv, DeliveryInv
<1>1. faults'.swallowed = 0 => faults.swallowed = 0
  BY <1>0, SwallowedGrows
<1>2. /\ HooksNamed'
      /\ \A h \in Hooks : hook[h].events # {} =>
            /\ hook'[h].events # {}
            /\ ~ hook[h].active => ~ hook'[h].active
  BY <1>0, HooksKept
<1>3. ASSUME NEW w \in Calls PROVE Late(w)' /\ Called(w)'
  <2>0. w[2] \in Hooks
    BY CallParts
  <2>1. ASSUME NEW j \in Jobs, Request(j) \/ PickUp(j) \/ Send(j) \/ SendFails(j)
        PROVE  Late(w)' /\ Called(w)'
    BY <1>0, <1>1, <2>1, JobStepCalls
  <2>2. ASSUME NEW x \in Calls, PickUpCall(x) \/ Execute(x) \/ CallFails(x)
        PROVE  Late(w)' /\ Called(w)'
    <3>1. CASE x = w
      <4>1. hook' = hook
        BY <2>2 DEF PickUpCall, CallFails, Execute, FetchHook, HookGone, Post, LogDelivery,
                    AcknowledgeCall, envVars
      <4>2. Typed'
        BY <1>0, TypedKept
      <4>. QED  BY <1>0, <1>1, <2>2, <3>1, <4>1, <4>2, CallKeeps
    <3>2. CASE x # w
      <4>1. /\ call'[w] = call[w] /\ caller'[w] = caller[w]
            /\ request'[w] = request[w] /\ logged'[w] = logged[w]
        BY <1>0, <2>2, <3>2, OtherCalls
      <4>. QED  BY <1>0, <1>1, <1>2, <2>0, <4>1, CallFrame
    <3>. QED  BY <3>1, <3>2
  <2>3. CASE Configure \/ UNCHANGED vars
    <3>1. UNCHANGED <<call, caller, request, logged>>
      BY <2>3 DEF Configure, ChangeIntegrations, CreateWebhook, DeleteWebhook, callVars, vars
    <3>. QED  BY <1>0, <1>1, <1>2, <2>0, <3>1, CallFrame
  <2>. QED  BY <2>1, <2>2, <2>3 DEF Next
<1>4. ASSUME NEW k \in Jobs PROVE Outcome(k)'
  <2>1. ASSUME NEW j \in Jobs, Request(j) \/ PickUp(j) \/ Send(j) \/ SendFails(j)
        PROVE  Outcome(k)'
    <3>1. CASE k = j
      BY <1>0, <1>1, <2>1, <3>1, RequestOutcome, QueueOutcome, SendsOutcome
    <3>2. CASE k # j
      BY <1>0, <1>1, <2>1, <3>2, OthersSame, OutcomeFrame
    <3>. QED  BY <3>1, <3>2
  <2>2. ASSUME NEW w \in Calls, PickUpCall(w) \/ Execute(w) \/ CallFails(w)
        PROVE  Outcome(k)'
    BY <1>0, <1>1, <2>2, CallsSame, OutcomeFrame
  <2>3. CASE Configure
    BY <1>0, <1>1, <2>3, ConfigureSame, OutcomeFrame
  <2>4. CASE UNCHANGED vars
    <3>1. Same(k)
      BY <2>4 DEF vars, Same
    <3>. QED  BY <1>0, <1>1, <3>1, OutcomeFrame
  <2>. QED  BY <2>1, <2>2, <2>3, <2>4 DEF Next
<1>. QED  BY <1>0, <1>2, <1>3, <1>4 DEF OutcomeInv

LEMMA OutcomeAlways == Spec => []OutcomeInv
BY OutcomeAtFirst, OutcomeKept, PTL DEF Spec

\* A settled notification agrees with its delivery_attempts unless a write
\* failed that recordSkipped, recordSuccess or recordFailed only log: the loops of
\* send overwrite whatever an earlier run left before UpdateStatus counts.
THEOREM StatusMatches == Spec => []StatusMatchesAttempts
<1>1. ASSUME OutcomeInv PROVE StatusMatchesAttempts
  <2>. SUFFICES ASSUME faults.swallowed = 0, NEW j \in Jobs, IsTerminal(note[j])
                PROVE  /\ RowsOf(j, "sent") \cup RowsOf(j, "failed") = job[j].channels
                       /\ RowsOf(j, "skipped") = job[j].skipped
                       /\ note[j] = "sent" <=>
                             /\ RowsOf(j, "sent") # {} /\ job[j].skipped = {}
                             /\ RowsOf(j, "failed") = {}
                       /\ note[j] = "failed" => RowsOf(j, "sent") = {}
    BY DEF StatusMatchesAttempts
  <2>1. /\ \A c \in job[j].channels : attempt[<<j, c>>] \in {"sent", "failed"}
        /\ \A c \in job[j].skipped : attempt[<<j, c>>] = "skipped"
        /\ note[j] = FinalStatus(RowsOf(j, "sent"), RowsOf(j, "failed"), job[j].skipped)
        /\ Kinds(j) /\ job[j].channels \subseteq Channels /\ job[j].skipped \subseteq Channels
    BY <1>1 DEF OutcomeInv, Outcome, Settled, DeliveryInv, Typed, TypeOK
  <2>2. RowsOf(j, "sent") \cup RowsOf(j, "failed") = job[j].channels
    BY <2>1 DEF Kinds, RowsOf
  <2>3. RowsOf(j, "skipped") = job[j].skipped
    BY <2>1 DEF Kinds, RowsOf
  <2> DEFINE ok == RowsOf(j, "sent")  bad == RowsOf(j, "failed")
  <2>4. note[j] = FinalStatus(ok, bad, job[j].skipped)
    BY <2>1
  <2>. HIDE DEF ok, bad
  <2>5. note[j] = "sent" <=> ok # {} /\ job[j].skipped = {} /\ bad = {}
    BY <2>4 DEF FinalStatus
  <2>6. note[j] = "failed" => ok = {}
    BY <2>4 DEF FinalStatus
  <2>. QED  BY <2>2, <2>3, <2>5, <2>6 DEF ok, bad
<1>. QED  BY <1>1, OutcomeAlways, PTL

\* A webhook task makes at most one request to a hook that was deleted, whatever
\* is retried: Execute reads the row again on each run, and a row once deleted
\* is never active again.
THEOREM AtMostOneLate == Spec => []OneLateRequest
<1>1. OutcomeInv => OneLateRequest
  BY DEF OutcomeInv, Late, OneLateRequest
<1>. QED  BY <1>1, OutcomeAlways, PTL

\* A webhook task posts at most once per run, and one that asynq deletes as done
\* was answered 2xx and logged so, unless that write failed silently.
THEOREM DoneIsLogged == Spec => []DoneMeansLogged
<1>1. ASSUME OutcomeInv PROVE DoneMeansLogged
  <2>. SUFFICES ASSUME NEW w \in Calls
                PROVE  /\ request[w].made <= MaxRetry + 1
                       /\ call[w].state = "done" /\ faults.swallowed = 0 =>
                             "sent" \in logged[w]
    BY DEF DoneMeansLogged
  <2>1. Called(w) /\ call[w].retried <= MaxRetry /\ call[w].retried \in Nat
        /\ request[w].made \in Nat
    BY <1>1, BoundsAreNat
       DEF OutcomeInv, DeliveryInv, Typed, TypeOK, CallRecord, Runs
  <2>. QED  BY <2>1, BoundsAreNat DEF Called
<1>. QED  BY <1>1, OutcomeAlways, PTL
=============================================================================
