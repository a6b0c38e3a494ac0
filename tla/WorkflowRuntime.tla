-------------------------- MODULE WorkflowRuntime --------------------------
(***************************************************************************)
(* The queue-orchestrated workflow runtime: Service.TriggerEvent creates   *)
(* an execution and enqueues its first step; every workflow:step task is   *)
(* handled by Service.ProcessStep, which updates the rows of the execution *)
(* and of the step and enqueues the next steps.                            *)
(*                                                                         *)
(* Each call to the database or to the queue is one action, so handlers of *)
(* different tasks interleave between any two of them.  The queue (asynq)  *)
(* is external: a task is pending, active or archived; a unique lock on    *)
(* its payload, that is on <<execution, step>>, is taken when it is        *)
(* enqueued and released when it succeeds or when the lock's TTL lapses.   *)
(***************************************************************************)
EXTENDS Naturals, Sequences, WorkflowGraph

CONSTANTS
    Executions,         \* ids of workflow executions
    TasksPerStep,       \* bound: tasks that may coexist for one step
    NoStep,             \* a NULL current_step_id
    Definitions,        \* the definitions an editor may save
    InitialDefinition,
    MaxRetry,           \* asynq.MaxRetry of every task
    MaxEdits,           \* bound: edits of the workflow while it runs
    MaxFaults,          \* bound: failed calls, crashes and lapsed locks
    LocksLapse,         \* may a unique lock lapse before its task succeeds?
    NullsRejected       \* does the store enforce NOT NULL on output_json?

ASSUME DefinitionsAssumption ==
    /\ \A d \in Definitions : WellFormed(d)
    /\ InitialDefinition \in Definitions

ASSUME BoundsAssumption ==
    /\ TasksPerStep \in Nat
    /\ NoStep \notin Steps
    /\ MaxRetry \in Nat
    /\ MaxEdits \in Nat
    /\ MaxFaults \in Nat
    /\ LocksLapse \in BOOLEAN
    /\ NullsRejected \in BOOLEAN

\* What a payload decides: the conditions of any version it satisfies.
Conditions ==
    {s \in Steps : \E d \in Definitions :
        s \in NodesOf(d) /\ d.type[s] = "condition"}

Slots  == 1 .. TasksPerStep
NoSlot == 0                              \* a lock nobody holds

StepKeys == Executions \X Steps          \* the payload of a workflow:step task
TaskIds  == Executions \X Steps \X Slots
KeyOf(t) == <<t[1], t[2]>>

VARIABLES
    workflow,    \* the workflows row: definition, status; and its past versions
    edits,       \* edits made so far (bounded by MaxEdits)
    faults,      \* faults met so far (bounded by MaxFaults)
    execution,   \* workflow_executions rows: status, current step
    trigger,     \* progress of the TriggerEvent call that created each row
    origin,      \* what CreateExecution saw: payload, and (history) definition
    stepRow,     \* workflow_step_executions rows: status, attempts
    task,        \* asynq: state and retry count of each task
    lock,        \* asynq: the slot of the task that holds each unique lock
    worker,      \* the handler of each active task: where it is, what it read
    sent         \* notification jobs handed to the queue by each step

wfVars   == <<workflow, edits>>
apiVars  == <<trigger, origin>>
vars == <<workflow, edits, faults, execution, trigger, origin, stepRow, task, lock,
          worker, sent>>
----------------------------------------------------------------------------
WorkflowStatuses  == {"active", "paused", "archived"}
ExecutionStatuses == {"none", "queued", "running", "completed", "failed"}
StepStatuses      == {"none", "running", "completed", "failed"}

\* Where a handler is: the call ProcessStep makes next.
Points == {"idle", "load", "lookup", "begin", "mark", "notify", "complete",
           "dispatch", "finish", "failStep", "failExecution", "ack"}

IdleWorker == [at |-> "idle", def |-> InitialDefinition, found |-> FALSE,
               attempts |-> 0, todo |-> {}]

\* A row of asynq's task table, and what the handler of a task holds.
TaskRecord   == [state : {"none", "pending", "active", "archived"},
                 retried : 0 .. MaxRetry]
WorkerRecord == [at : Points, def : Definitions, found : BOOLEAN,
                 attempts : Nat, todo : SUBSET Nat]

TypeOK ==
    /\ workflow \in [definition : Definitions, status : WorkflowStatuses,
                     versions : SUBSET Definitions]
    /\ workflow.definition \in workflow.versions
    /\ edits \in 0 .. MaxEdits
    /\ faults \in 0 .. MaxFaults
    /\ execution \in [Executions -> [status : ExecutionStatuses,
                                     current : Steps \cup {NoStep}]]
    /\ trigger \in [Executions -> {"none", "created", "enqueued", "rejected"}]
    /\ origin \in [Executions -> [payload : SUBSET Steps, def : Definitions]]
    /\ stepRow \in [StepKeys -> [status : StepStatuses, attempts : Nat]]
    /\ task \in [TaskIds -> TaskRecord]
    /\ lock \in [StepKeys -> Slots \cup {NoSlot}]
    /\ worker \in [TaskIds -> WorkerRecord]
    /\ sent \in [StepKeys -> Nat]

Init ==
    /\ workflow = [definition |-> InitialDefinition, status |-> "active",
                   versions |-> {InitialDefinition}]
    /\ edits = 0
    /\ faults = 0
    /\ execution = [e \in Executions |-> [status |-> "none", current |-> NoStep]]
    /\ trigger = [e \in Executions |-> "none"]
    /\ origin = [e \in Executions |-> [payload |-> {}, def |-> InitialDefinition]]
    /\ stepRow = [k \in StepKeys |-> [status |-> "none", attempts |-> 0]]
    /\ task = [t \in TaskIds |-> [state |-> "none", retried |-> 0]]
    /\ lock = [k \in StepKeys |-> NoSlot]
    /\ worker = [t \in TaskIds |-> IdleWorker]
    /\ sent = [k \in StepKeys |-> 0]
----------------------------------------------------------------------------
(***************************************************************************)
(* The queue.                                                              *)
(***************************************************************************)

\* The environment fails a call, kills a worker or lets a lock lapse.
Fault == faults < MaxFaults /\ faults' = faults + 1

\* Mutated form: enqueued without asynq.Unique.
Enqueue_NotUnique(e, s) ==
    \E g \in Slots :
        /\ IsLeast(g, {h \in Slots : task[<<e, s, h>>].state = "none"})
        /\ task' = [task EXCEPT ![<<e, s, g>>] = [state |-> "pending", retried |-> 0]]
        /\ lock' = [lock EXCEPT ![<<e, s>>] = g]

\* Producer.EnqueueWorkflowStep / EnqueueWorkflowStepIn succeed: the unique
\* lock on the payload was free. A delayed or retried task is pending: the
\* order in which pending tasks are picked up is arbitrary.
Enqueue(e, s) ==
    /\ lock[<<e, s>>] = NoSlot
    /\ \E g \in Slots :
          /\ IsLeast(g, {h \in Slots : task[<<e, s, h>>].state = "none"})
          /\ task' = [task EXCEPT ![<<e, s, g>>] =
                         [state |-> "pending", retried |-> 0]]
          /\ lock' = [lock EXCEPT ![<<e, s>>] = g]

\* asynq.ErrDuplicateTask
Duplicate(e, s) == lock[<<e, s>>] # NoSlot

\* Mutated forms: one retry too many; an exhausted task left in the active list.
GiveUpOrRetry_OffByOne(t) ==
    /\ task' = [task EXCEPT ![t] =
                   IF task[t].retried <= MaxRetry
                   THEN [state |-> "pending", retried |-> task[t].retried + 1]
                   ELSE [state |-> "archived", retried |-> task[t].retried]]
    /\ worker' = [worker EXCEPT ![t] = IdleWorker]

GiveUpOrRetry_NeverArchives(t) ==
    /\ task' = IF task[t].retried < MaxRetry
               THEN [task EXCEPT ![t] = [state |-> "pending",
                                         retried |-> task[t].retried + 1]]
               ELSE task
    /\ worker' = [worker EXCEPT ![t] = IdleWorker]

\* A handler returned an error, timed out or died: asynq schedules a retry
\* until the retries are used up, then archives the task. The lock stays.
GiveUpOrRetry(t) ==
    /\ task' = [task EXCEPT ![t] =
                   IF task[t].retried < MaxRetry
                   THEN [state |-> "pending", retried |-> task[t].retried + 1]
                   ELSE [state |-> "archived", retried |-> task[t].retried]]
    /\ worker' = [worker EXCEPT ![t] = IdleWorker]

\* asynq.SkipRetry: no retry, whatever the count.
Archive(t) ==
    /\ task' = [task EXCEPT ![t] = [@ EXCEPT !.state = "archived"]]
    /\ worker' = [worker EXCEPT ![t] = IdleWorker]

\* The TTL of the unique lock (5 minutes from the enqueue, whatever the task
\* is doing) runs out.
LockLapses(k) ==
    /\ LocksLapse
    /\ Fault
    /\ lock[k] # NoSlot
    /\ lock' = [lock EXCEPT ![k] = NoSlot]
    /\ UNCHANGED <<wfVars, apiVars, execution, stepRow, task, worker, sent>>

PickUp(t) ==
    /\ task[t].state = "pending"
    /\ task' = [task EXCEPT ![t] = [@ EXCEPT !.state = "active"]]
    /\ worker' = [worker EXCEPT ![t] = [IdleWorker EXCEPT !.at = "load"]]
    /\ UNCHANGED <<faults, wfVars, apiVars, execution, stepRow, lock, sent>>
----------------------------------------------------------------------------
(***************************************************************************)
(* The API: Service.TriggerEvent, Update, Pause, Resume, Delete.           *)
(***************************************************************************)

\* Mutated form: starts at any node instead of a node without incoming edges.
CreateExecution_AnyNode(e) ==
    /\ trigger[e] = "none"
    /\ workflow.status = "active"
    /\ \E s \in NodesOf(workflow.definition), p \in SUBSET Conditions :
          /\ execution' = [execution EXCEPT ![e] =
                              [status |-> "queued", current |-> s]]
          /\ origin' = [origin EXCEPT ![e] =
                           [payload |-> p, def |-> workflow.definition]]
    /\ trigger' = [trigger EXCEPT ![e] = "created"]
    /\ UNCHANGED <<faults, wfVars, stepRow, task, lock, worker, sent>>

\* GetActiveByTriggerEvent, firstStepID and CreateExecution.
CreateExecution(e) ==
    /\ trigger[e] = "none"
    /\ workflow.status = "active"
    /\ \E s \in Steps, p \in SUBSET Conditions :
          /\ IsFirstStep(workflow.definition, s)
          /\ execution' = [execution EXCEPT ![e] =
                              [status |-> "queued", current |-> s]]
          /\ origin' = [origin EXCEPT ![e] =
                           [payload |-> p, def |-> workflow.definition]]
    /\ trigger' = [trigger EXCEPT ![e] = "created"]
    /\ UNCHANGED <<faults, wfVars, stepRow, task, lock, worker, sent>>

EnqueueFirst(e) ==
    /\ trigger[e] = "created"
    /\ Enqueue(e, execution[e].current)
    /\ trigger' = [trigger EXCEPT ![e] = "enqueued"]
    /\ UNCHANGED <<faults, wfVars, origin, execution, stepRow, worker, sent>>

\* The enqueue fails, or the API dies before it: the row stays as created.
EnqueueFirstFails(e) ==
    /\ Fault
    /\ trigger[e] = "created"
    /\ trigger' = [trigger EXCEPT ![e] = "rejected"]
    /\ UNCHANGED <<wfVars, origin, execution, stepRow, task, lock, worker, sent>>

Edit(w) ==
    /\ edits < MaxEdits
    /\ w # workflow
    /\ workflow' = w
    /\ edits' = edits + 1
    /\ UNCHANGED <<faults, apiVars, execution, stepRow, task, lock, worker, sent>>

\* Update with a definition overwrites the row and makes it active, whatever
\* its status was; the version number is left as it is.
UpdateDefinition(d) ==
    Edit([definition |-> d, status |-> "active",
          versions |-> workflow.versions \cup {d}])

Pause  == Edit([workflow EXCEPT !.status = "paused"])
Resume == Edit([workflow EXCEPT !.status = "active"])
Delete == Edit([workflow EXCEPT !.status = "archived"])
----------------------------------------------------------------------------
(***************************************************************************)
(* ProcessStep, one action per call it makes.                              *)
(***************************************************************************)
At(t, point) == task[t].state = "active" /\ worker[t].at = point

GoTo(t, point) == worker' = [worker EXCEPT ![t] = [@ EXCEPT !.at = point]]

TypeAt(t) == worker[t].def.type[t[2]]

\* GetExecutionByID, GetByID, parseDefinition and findNode: the handler keeps
\* the definition it read. A node that is gone is ErrInvalidWorkflow.
LoadWorkflow(t) ==
    /\ At(t, "load")
    /\ IF t[2] \in NodesOf(workflow.definition)
       THEN /\ worker' = [worker EXCEPT ![t] =
                   [@ EXCEPT !.at = "lookup", !.def = workflow.definition]]
            /\ UNCHANGED task
       ELSE Archive(t)
    /\ UNCHANGED <<faults, wfVars, apiVars, execution, stepRow, lock, sent>>

\* GetStepExecution
LookupStep(t) ==
    /\ At(t, "lookup")
    /\ worker' = [worker EXCEPT ![t] =
           [@ EXCEPT !.at = "begin",
                     !.found = stepRow[KeyOf(t)].status # "none",
                     !.attempts = stepRow[KeyOf(t)].attempts]]
    /\ UNCHANGED <<faults, wfVars, apiVars, execution, stepRow, task, lock, sent>>

\* CreateStepExecution inserts NULL in output_json and error_json, and loses to
\* a row created meanwhile (unique execution_id, step_id).
CreateRejected(t) ==
    /\ ~ worker[t].found
    /\ NullsRejected \/ stepRow[KeyOf(t)].status # "none"

\* Mutated form: a rerun keeps the attempt number it read.
BeginStep_SameAttempt(t) ==
    /\ At(t, "begin")
    /\ ~ CreateRejected(t)
    /\ LET n == IF worker[t].found THEN worker[t].attempts ELSE 1
       IN  /\ stepRow' = [stepRow EXCEPT ![KeyOf(t)] =
                             [status |-> "running", attempts |-> n]]
           /\ worker' = [worker EXCEPT ![t] = [@ EXCEPT !.at = "mark", !.attempts = n]]
    /\ UNCHANGED <<faults, wfVars, apiVars, execution, task, lock, sent>>

\* CreateStepExecution or UpdateStepExecutionState to "running". The attempt
\* number is computed from the row LookupStep read.
BeginStep(t) ==
    /\ At(t, "begin")
    /\ ~ CreateRejected(t)
    /\ LET n == worker[t].attempts + 1
       IN  /\ stepRow' = [stepRow EXCEPT ![KeyOf(t)] =
                             [status |-> "running", attempts |-> n]]
           /\ worker' = [worker EXCEPT ![t] = [@ EXCEPT !.at = "mark", !.attempts = n]]
    /\ UNCHANGED <<faults, wfVars, apiVars, execution, task, lock, sent>>

BeginStepRejected(t) ==
    /\ At(t, "begin")
    /\ CreateRejected(t)
    /\ GiveUpOrRetry(t)
    /\ UNCHANGED <<faults, wfVars, apiVars, execution, stepRow, lock, sent>>

\* Mutated form: a condition passes no branch to nextNodeIDs.
MarkRunning_EveryBranch(t) ==
    LET next == NextEdges(worker[t].def, t[2], "")
    IN  /\ At(t, "mark")
        /\ execution' = [execution EXCEPT ![t[1]] =
                            [status |-> "running", current |-> t[2]]]
        /\ worker' = [worker EXCEPT ![t] =
               [@ EXCEPT !.todo = next,
                         !.at = CASE TypeAt(t) = "notification" -> "notify"
                                  [] TypeAt(t) = "delay" /\ next # {} -> "dispatch"
                                  [] OTHER -> "complete"]]
        /\ UNCHANGED <<faults, wfVars, apiVars, stepRow, task, lock, sent>>

\* UpdateExecutionState "running", then the switch on the node's type:
\* handleNotificationStep, handleDelayStep (which enqueues before it completes
\* the step), handleConditionStep and the trigger case.
MarkRunning(t) ==
    LET next == NextOf(worker[t].def, t[2], origin[t[1]].payload)
    IN  /\ At(t, "mark")
        /\ execution' = [execution EXCEPT ![t[1]] =
                            [status |-> "running", current |-> t[2]]]
        /\ worker' = [worker EXCEPT ![t] =
               [@ EXCEPT !.todo = next,
                         !.at = CASE TypeAt(t) = "notification" -> "notify"
                                  [] TypeAt(t) = "delay" /\ next # {} -> "dispatch"
                                  [] OTHER -> "complete"]]
        /\ UNCHANGED <<faults, wfVars, apiVars, stepRow, task, lock, sent>>

\* producer.Enqueue of the notification, under a job id that is new each time
EnqueueNotification(t) ==
    /\ At(t, "notify")
    /\ sent' = [sent EXCEPT ![KeyOf(t)] = @ + 1]
    /\ GoTo(t, "complete")
    /\ UNCHANGED <<faults, wfVars, apiVars, execution, stepRow, task, lock>>

\* Mutated form: the error is logged and the step goes on.
NotificationFails_Swallowed(t) ==
    /\ Fault
    /\ At(t, "notify")
    /\ GoTo(t, "complete")
    /\ UNCHANGED <<wfVars, apiVars, execution, stepRow, task, lock, sent>>

\* No subscriber, no usable template or contact, or the enqueue fails; it may
\* fail after the job reached the queue (the reply is lost).
NotificationFails(t) ==
    /\ Fault
    /\ At(t, "notify")
    /\ sent' \in {sent, [sent EXCEPT ![KeyOf(t)] = @ + 1]}
    /\ GoTo(t, "failStep")
    /\ UNCHANGED <<wfVars, apiVars, execution, stepRow, task, lock>>

\* Mutated form: the step is completed and its successors are forgotten.
CompleteStep_NoDispatch(t) ==
    /\ At(t, "complete")
    /\ stepRow' = [stepRow EXCEPT ![KeyOf(t)] =
                      [status |-> "completed", attempts |-> worker[t].attempts]]
    /\ GoTo(t, "finish")
    /\ UNCHANGED <<faults, wfVars, apiVars, execution, task, lock, sent>>

\* UpdateStepExecutionState "completed"
CompleteStep(t) ==
    /\ At(t, "complete")
    /\ stepRow' = [stepRow EXCEPT ![KeyOf(t)] =
                      [status |-> "completed", attempts |-> worker[t].attempts]]
    /\ GoTo(t, IF worker[t].todo = {} THEN "finish" ELSE "dispatch")
    /\ UNCHANGED <<faults, wfVars, apiVars, execution, task, lock, sent>>

\* Mutated form: only nextNodes[0] is enqueued.
DispatchNext_FirstOnly(t) ==
    /\ At(t, "dispatch")
    /\ \E i \in worker[t].todo :
          /\ IsLeast(i, worker[t].todo)
          /\ Enqueue(t[1], worker[t].def.edges[i].target)
          /\ worker' = [worker EXCEPT ![t] = [@ EXCEPT !.todo = {},
                 !.at = IF TypeAt(t) = "delay" THEN "complete" ELSE "finish"]]
    /\ UNCHANGED <<faults, wfVars, apiVars, execution, stepRow, sent>>

\* The loop over nextNodes: enqueue the next one, in edge order.
DispatchNext(t) ==
    /\ At(t, "dispatch")
    /\ \E i \in worker[t].todo :
          /\ IsLeast(i, worker[t].todo)
          /\ Enqueue(t[1], worker[t].def.edges[i].target)
          /\ LET rest == worker[t].todo \ {i}
             IN  worker' = [worker EXCEPT ![t] =
                     [@ EXCEPT !.todo = rest,
                               !.at = CASE rest # {} -> "dispatch"
                                        [] rest = {} /\ TypeAt(t) = "delay" -> "complete"
                                        [] OTHER -> "finish"]]
    /\ UNCHANGED <<faults, wfVars, apiVars, execution, stepRow, sent>>

\* The next one is still locked: a delay step fails, any other step returns
\* the error with its row already completed.
DispatchDuplicate(t) ==
    /\ At(t, "dispatch")
    /\ \E i \in worker[t].todo :
          /\ IsLeast(i, worker[t].todo)
          /\ Duplicate(t[1], worker[t].def.edges[i].target)
    /\ IF TypeAt(t) = "delay"
       THEN GoTo(t, "failStep") /\ UNCHANGED task
       ELSE GiveUpOrRetry(t)
    /\ UNCHANGED <<faults, wfVars, apiVars, execution, stepRow, lock, sent>>

\* Mutated form: tests what is left of the loop instead of nextNodes.
FinishExecution_AfterLoop(t) ==
    /\ At(t, "finish")
    /\ worker[t].todo = {}
    /\ execution' = [execution EXCEPT ![t[1]] =
                        [status |-> "completed", current |-> NoStep]]
    /\ GoTo(t, "ack")
    /\ UNCHANGED <<faults, wfVars, apiVars, stepRow, task, lock, sent>>

\* UpdateExecutionState "completed" after a step without successors, "queued"
\* at the first successor otherwise.
FinishExecution(t) ==
    LET next == NextOf(worker[t].def, t[2], origin[t[1]].payload)
    IN  /\ At(t, "finish")
        /\ \/ /\ next = {}
              /\ execution' = [execution EXCEPT ![t[1]] =
                                  [status |-> "completed", current |-> NoStep]]
           \/ \E i \in next :
                 /\ IsLeast(i, next)
                 /\ execution' = [execution EXCEPT ![t[1]] =
                        [status |-> "queued",
                         current |-> worker[t].def.edges[i].target]]
        /\ GoTo(t, "ack")
        /\ UNCHANGED <<faults, wfVars, apiVars, stepRow, task, lock, sent>>

\* The handler returned nil: asynq deletes the task, and its lock if the task
\* still holds it.
Acknowledge(t) ==
    /\ At(t, "ack")
    /\ task' = [task EXCEPT ![t] = [state |-> "none", retried |-> 0]]
    /\ lock' = [lock EXCEPT ![KeyOf(t)] = IF @ = t[3] THEN NoSlot ELSE @]
    /\ worker' = [worker EXCEPT ![t] = IdleWorker]
    /\ UNCHANGED <<faults, wfVars, apiVars, execution, stepRow, sent>>

\* failCurrentStep: the step's row, then the execution's, then the cause goes
\* back to asynq, which retries the task.
FailStep(t) ==
    /\ At(t, "failStep")
    /\ stepRow' = [stepRow EXCEPT ![KeyOf(t)] =
                      [status |-> "failed", attempts |-> worker[t].attempts]]
    /\ GoTo(t, "failExecution")
    /\ UNCHANGED <<faults, wfVars, apiVars, execution, task, lock, sent>>

FailExecution(t) ==
    /\ At(t, "failExecution")
    /\ execution' = [execution EXCEPT ![t[1]] =
                        [status |-> "failed", current |-> t[2]]]
    /\ GiveUpOrRetry(t)
    /\ UNCHANGED <<faults, wfVars, apiVars, stepRow, lock, sent>>

\* Any call of the handler fails, the task times out, or the worker dies: the
\* rows stay as they are. At "ack" it is the acknowledgement that is lost.
HandlerFails(t) ==
    /\ Fault
    /\ task[t].state = "active"
    /\ GiveUpOrRetry(t)
    /\ UNCHANGED <<wfVars, apiVars, execution, stepRow, lock, sent>>
----------------------------------------------------------------------------
ProcessStep(t) ==
    \/ LoadWorkflow(t) \/ LookupStep(t) \/ BeginStep(t) \/ BeginStepRejected(t)
    \/ MarkRunning(t) \/ EnqueueNotification(t) \/ CompleteStep(t)
    \/ DispatchNext(t) \/ DispatchDuplicate(t) \/ FinishExecution(t)
    \/ Acknowledge(t) \/ FailStep(t) \/ FailExecution(t)

Disturb(t) == NotificationFails(t) \/ HandlerFails(t)

TriggerEvent(e) == CreateExecution(e) \/ EnqueueFirst(e) \/ EnqueueFirstFails(e)

EditWorkflow ==
    \/ \E d \in Definitions : UpdateDefinition(d)
    \/ Pause \/ Resume \/ Delete

Next ==
    \/ \E e \in Executions : TriggerEvent(e)
    \/ \E t \in TaskIds : PickUp(t) \/ ProcessStep(t) \/ Disturb(t)
    \/ \E k \in StepKeys : LockLapses(k)
    \/ EditWorkflow

Spec == Init /\ [][Next]_vars

\* The asynq server keeps picking up pending tasks, and a handler that started
\* keeps making its calls until it returns or is cut off.
FairSpec ==
    /\ Spec
    /\ \A t \in TaskIds : WF_vars(PickUp(t)) /\ WF_vars(ProcessStep(t) \/ Disturb(t))
----------------------------------------------------------------------------
(***************************************************************************)
(* Properties.                                                             *)
(***************************************************************************)
Begun(e, s)       == stepRow[<<e, s>>].status # "none"
Completed(e, s)   == stepRow[<<e, s>>].status = "completed"
Outstanding(e, s) == \E g \in Slots : task[<<e, s, g>>].state # "none"
Live(e, s)        == \E g \in Slots : task[<<e, s, g>>].state \in {"pending", "active"}
Dropped(e, s)     == \E g \in Slots : task[<<e, s, g>>].state = "archived"
Reached(e, s)     == Begun(e, s) \/ Outstanding(e, s)

\* s is where the definition d starts, or d leads to it from a step that began.
LedTo(d, e, s) ==
    \/ IsFirstStep(d, s)
    \/ \E p \in NodesOf(d) :
          Begun(e, p) /\ s \in Successors(d, p, origin[e].payload)

\* Causality: however tasks are retried, duplicated or interleaved, a step is
\* queued or run only if some version of the definition starts with it, or
\* leads to it from a step that began, along the branch the payload selects.
StepsFollowEdges ==
    \A e \in Executions, s \in Steps :
        Reached(e, s) => \E d \in workflow.versions : LedTo(d, e, s)

\* No lost dispatch: once a completed step has no task left, every step that
\* follows it was handed to the queue, although the enqueues, the row update
\* and the acknowledgement are separate calls that may each fail.
NoLostDispatch ==
    \A e \in Executions, s \in Steps :
        Completed(e, s) /\ ~ Outstanding(e, s) =>
            \E d \in workflow.versions :
                /\ s \in NodesOf(d)
                /\ \A n \in Successors(d, s, origin[e].payload) : Reached(e, n)

\* A notification step whose row says completed has handed at least one
\* notification job to the queue.
CompletedMeansSent ==
    \A e \in Executions, s \in Steps :
        /\ Completed(e, s)
        /\ \A d \in workflow.versions :
              s \in NodesOf(d) => d.type[s] = "notification"
        => sent[<<e, s>>] >= 1

\* While unique locks do not lapse, a step never has two tasks, so no two
\* workers run the same step of an execution at once.
OneTaskPerStep ==
    ~ LocksLapse =>
        \A e \in Executions, s \in Steps, g, h \in Slots :
            /\ task[<<e, s, g>>].state # "none"
            /\ task[<<e, s, h>>].state # "none"
            => g = h

\* While unique locks do not lapse, the attempts column accounts for every
\* notification job: each run of the step enqueues at most one.
SendsWithinAttempts ==
    ~ LocksLapse => \A k \in StepKeys : sent[k] <= stepRow[k].attempts

\* An execution is marked completed only after a step without successors was
\* completed; that step is still completed, or is being run again.
CompletedReachedLeaf ==
    \A e \in Executions : execution[e].status = "completed" =>
        \E d \in workflow.versions : \E s \in NodesOf(d) :
            /\ NextOf(d, s, origin[e].payload) = {}
            /\ Begun(e, s)
            /\ Completed(e, s) \/ Outstanding(e, s)

\* Every task ends: it succeeds or its retries run out. No step is run for ever.
TasksSettle ==
    \A t \in TaskIds :
        task[t].state = "pending" ~> task[t].state \in {"none", "archived"}

\* Every step that follows a completed step eventually begins, unless a task
\* of the execution was dropped after its last retry.
SuccessorsBegin ==
    \A e \in Executions, s, n \in Steps :
        /\ Completed(e, s)
        /\ n \in Successors(origin[e].def, s, origin[e].payload)
        ~> Begun(e, n) \/ \E x \in Steps : Dropped(e, x)
----------------------------------------------------------------------------
(***************************************************************************)
(* What docs and tests of the repository say, and the code does not do.    *)
(***************************************************************************)

\* docs/workflow.md 18: "Existing executions continue using the original
\* version." Every step that begins follows the definition of the trigger.
OriginalVersionOnly ==
    \A e \in Executions, s \in Steps :
        Begun(e, s) => s \in NodesOf(origin[e].def) /\ LedTo(origin[e].def, e, s)

\* docs/workflow.md 16: "Runtime state MUST be updated after every step." When
\* every step of an execution that began is completed and no task is left, the
\* execution is completed.
QuietMeansCompleted ==
    \A e \in Executions :
        /\ trigger[e] = "enqueued"
        /\ \A s \in Steps : ~ Outstanding(e, s) /\ (Begun(e, s) => Completed(e, s))
        => execution[e].status = "completed"

\* runtime_test.go TestProcessStepTriggerQueuesNextStep: a step that is run
\* without faults gets its row and ends completed.
FirstStepCompletes ==
    \A e \in Executions, s \in Steps :
        trigger[e] = "enqueued" /\ IsFirstStep(origin[e].def, s) ~> Completed(e, s)
============================================================================
