----------------------- MODULE WorkflowDispatchProofs -----------------------
(***************************************************************************)
(* What ends well in WorkflowRuntime, proved for every value of the        *)
(* constants: a completed step has handed all its successors to the queue, *)
(* a completed execution has completed a step without successors, and the  *)
(* attempts of a step account for the notification jobs it sent.           *)
(***************************************************************************)
EXTENDS WorkflowRuntimeProofs

\* The handler of t, or the queue on t, makes a step.
Acts(t) == PickUp(t) \/ ProcessStep(t) \/ Disturb(t)

\* The handler fails, and its task goes back to the queue.
Returns(t) == GiveUpOrRetry(t) \/ Archive(t)
----------------------------------------------------------------------------
(***************************************************************************)
(* What each step leaves in the task and in the handler.                   *)
(***************************************************************************)

LEMMA ReturnMoves ==
    ASSUME TypeOK, NEW t \in TaskIds, Returns(t)
    PROVE  worker'[t] = IdleWorker /\ task'[t].state \in {"pending", "archived"}
BY DEF Returns, GiveUpOrRetry, Archive, TypeOK, TaskRecord

LEMMA GoToMoves ==
    ASSUME TypeOK, NEW t \in TaskIds, NEW p, GoTo(t, p)
    PROVE  /\ worker'[t].at = p
           /\ worker'[t].def = worker[t].def
           /\ worker'[t].todo = worker[t].todo
           /\ worker'[t].attempts = worker[t].attempts
BY DEF GoTo, TypeOK, WorkerRecord

LEMMA PickUpMoves ==
    ASSUME TypeOK, NEW t \in TaskIds, PickUp(t)
    PROVE  /\ worker'[t].at = "load" /\ worker'[t].todo = {}
           /\ task'[t].state = "active" /\ task[t].state = "pending"
<1>1. worker'[t] = [IdleWorker EXCEPT !.at = "load"]
  BY DEF PickUp, TypeOK
<1>2. task'[t].state = "active"
  BY DEF PickUp, TypeOK, TaskRecord
<1>. QED  BY <1>1, <1>2 DEF IdleWorker, PickUp

LEMMA LoadMoves ==
    ASSUME TypeOK, NEW t \in TaskIds, LoadWorkflow(t)
    PROVE  \/ worker'[t].at = "lookup" /\ task' = task
           \/ Returns(t)
<1>1. CASE t[2] \in NodesOf(workflow.definition)
  <2>1. worker'[t] = [worker[t] EXCEPT !.at = "lookup", !.def = workflow.definition]
    BY <1>1 DEF LoadWorkflow, TypeOK
  <2>2. worker'[t].at = "lookup"
    BY <2>1 DEF TypeOK, WorkerRecord
  <2>. QED  BY <1>1, <2>2 DEF LoadWorkflow
<1>2. CASE t[2] \notin NodesOf(workflow.definition)
  BY <1>2 DEF LoadWorkflow, Returns
<1>. QED  BY <1>1, <1>2

LEMMA LookupMoves ==
    ASSUME TypeOK, NEW t \in TaskIds, LookupStep(t)
    PROVE  /\ worker'[t].at = "begin"
           /\ worker'[t].attempts = stepRow[KeyOf(t)].attempts
<1>1. worker'[t] = [worker[t] EXCEPT !.at = "begin",
                                     !.found = stepRow[KeyOf(t)].status # "none",
                                     !.attempts = stepRow[KeyOf(t)].attempts]
  BY DEF LookupStep, TypeOK
<1>. QED  BY <1>1 DEF TypeOK, WorkerRecord

LEMMA BeginMoves ==
    ASSUME TypeOK, NEW t \in TaskIds, BeginStep(t)
    PROVE  /\ worker'[t].at = "mark"
           /\ worker'[t].attempts = worker[t].attempts + 1
           /\ stepRow'[KeyOf(t)].attempts = worker[t].attempts + 1
<1>1. worker'[t] = [worker[t] EXCEPT !.at = "mark", !.attempts = worker[t].attempts + 1]
  BY DEF BeginStep, TypeOK
<1>2. stepRow'[KeyOf(t)] = [status |-> "running", attempts |-> worker[t].attempts + 1]
  BY TaskIdParts DEF BeginStep, TypeOK
<1>. QED  BY <1>1, <1>2 DEF TypeOK, WorkerRecord

LEMMA MarkMoves ==
    ASSUME TypeOK, NEW t \in TaskIds, MarkRunning(t)
    PROVE  /\ worker'[t].at \in {"notify", "complete", "dispatch"}
           /\ worker'[t].at = "dispatch" => TypeAt(t) = "delay"
           /\ worker'[t].def = worker[t].def
           /\ worker'[t].todo = NextOf(worker[t].def, t[2], origin[t[1]].payload)
           /\ worker'[t].attempts = worker[t].attempts
<1>. DEFINE next == NextOf(worker[t].def, t[2], origin[t[1]].payload)
            p == CASE TypeAt(t) = "notification" -> "notify"
                   [] TypeAt(t) = "delay" /\ next # {} -> "dispatch"
                   [] OTHER -> "complete"
<1>1. worker'[t] = [worker[t] EXCEPT !.todo = next, !.at = p]
  BY DEF MarkRunning, TypeOK
<1>2. p \in {"notify", "complete", "dispatch"} /\ (p = "dispatch" => TypeAt(t) = "delay")
  OBVIOUS
<1>. HIDE DEF next, p
<1>3. /\ worker'[t].at = p /\ worker'[t].def = worker[t].def
      /\ worker'[t].todo = next /\ worker'[t].attempts = worker[t].attempts
  BY <1>1 DEF TypeOK, WorkerRecord
<1>. QED  BY <1>2, <1>3 DEF next

LEMMA DispatchMoves ==
    ASSUME TypeOK, NEW t \in TaskIds, DispatchNext(t)
    PROVE  \E i \in worker[t].todo :
              /\ Enqueue(t[1], worker[t].def.edges[i].target)
              /\ worker'[t].def = worker[t].def
              /\ worker'[t].attempts = worker[t].attempts
              /\ worker'[t].todo = worker[t].todo \ {i}
              /\ worker'[t].at \in {"dispatch", "complete", "finish"}
              /\ worker'[t].at = "complete" => TypeAt(t) = "delay"
              /\ worker'[t].at = "finish" => worker'[t].todo = {} /\ TypeAt(t) # "delay"
<1>1. PICK i \in worker[t].todo :
         /\ Enqueue(t[1], worker[t].def.edges[i].target)
         /\ worker' = [worker EXCEPT ![t] =
               [@ EXCEPT !.todo = worker[t].todo \ {i},
                         !.at = CASE worker[t].todo \ {i} # {} -> "dispatch"
                                  [] worker[t].todo \ {i} = {}
                                        /\ TypeAt(t) = "delay" -> "complete"
                                  [] OTHER -> "finish"]]
  BY DEF DispatchNext
<1>. DEFINE rest == worker[t].todo \ {i}
            p == CASE rest # {} -> "dispatch"
                   [] rest = {} /\ TypeAt(t) = "delay" -> "complete"
                   [] OTHER -> "finish"
<1>2. worker'[t] = [worker[t] EXCEPT !.todo = rest, !.at = p]
  BY <1>1 DEF TypeOK
<1>3. /\ p \in {"dispatch", "complete", "finish"}
      /\ p = "complete" => TypeAt(t) = "delay"
      /\ p = "finish" => rest = {} /\ TypeAt(t) # "delay"
  OBVIOUS
<1>. HIDE DEF p, rest
<1>4. /\ worker'[t].at = p /\ worker'[t].def = worker[t].def
      /\ worker'[t].todo = rest /\ worker'[t].attempts = worker[t].attempts
  BY <1>2 DEF TypeOK, WorkerRecord
<1>. QED  BY <1>1, <1>3, <1>4 DEF rest
----------------------------------------------------------------------------
(***************************************************************************)
(* What a step leaves alone.                                               *)
(***************************************************************************)

\* A task that exists, or comes to exist, is touched by its own handler alone.
LEMMA EnqueueBystander ==
    ASSUME TypeOK, NEW e, NEW s, Enqueue(e, s), NEW t \in TaskIds
    PROVE  task'[t] = task[t] \/ (task[t].state = "none" /\ task'[t].state = "pending")
<1>1. PICK g \in Slots :
         /\ task[<<e, s, g>>].state = "none"
         /\ task' = [task EXCEPT ![<<e, s, g>>] = [state |-> "pending", retried |-> 0]]
  BY DEF Enqueue, IsLeast
<1>. QED  BY <1>1 DEF TypeOK

LEMMA Bystander ==
    ASSUME TypeOK, [Next]_vars, NEW t \in TaskIds, ~ Acts(t)
    PROVE  /\ worker'[t] = worker[t]
           /\ task'[t] = task[t] \/ (task[t].state = "none" /\ task'[t].state = "pending")
<1>1. CASE \E e \in Executions : TriggerEvent(e)
  BY <1>1, EnqueueBystander
     DEF TriggerEvent, CreateExecution, EnqueueFirst, EnqueueFirstFails
<1>2. ASSUME NEW u \in TaskIds, Acts(u)
      PROVE  /\ worker'[t] = worker[t]
             /\ task'[t] = task[t] \/ (task[t].state = "none" /\ task'[t].state = "pending")
  <2>1. u # t
    BY <1>2
  <2>2. worker' = worker \/ \E r : worker' = [worker EXCEPT ![u] = r]
    BY <1>2, Zenon
       DEF Acts, PickUp, ProcessStep, LoadWorkflow, LookupStep, BeginStep, BeginStepRejected,
           MarkRunning, EnqueueNotification, CompleteStep, DispatchNext,
           DispatchDuplicate, FinishExecution, Acknowledge, FailStep, FailExecution,
           Disturb, HandlerFails, NotificationFails, GiveUpOrRetry, Archive, GoTo
  <2>3. worker'[t] = worker[t]
    BY <2>1, <2>2 DEF TypeOK
  <2>4. CASE DispatchNext(u)
    BY <2>3, <2>4, EnqueueBystander DEF DispatchNext
  <2>5. CASE ~ DispatchNext(u)
    <3>1. task' = task \/ \E r : task' = [task EXCEPT ![u] = r]
      BY <1>2, <2>5, Zenon
         DEF Acts, PickUp, ProcessStep, LoadWorkflow, LookupStep, BeginStep,
             BeginStepRejected, MarkRunning, EnqueueNotification, CompleteStep,
             DispatchDuplicate, FinishExecution, Acknowledge, FailStep, FailExecution,
             Disturb, HandlerFails, NotificationFails, GiveUpOrRetry, Archive
    <3>. QED  BY <2>1, <2>3, <3>1 DEF TypeOK
  <2>. QED  BY <2>4, <2>5
<1>3. CASE \E k \in StepKeys : LockLapses(k)
  BY <1>3 DEF LockLapses
<1>4. CASE EditWorkflow
  BY <1>4 DEF EditWorkflow, UpdateDefinition, Pause, Resume, Delete, Edit
<1>5. CASE UNCHANGED vars
  BY <1>5 DEF vars
<1>. QED  BY <1>1, <1>2, <1>3, <1>4, <1>5 DEF Next, Acts

\* Rows are written, and jobs sent, by the handlers of their own step.
LEMMA RowWriters ==
    ASSUME TypeOK, [Next]_vars, NEW k \in StepKeys
    PROVE  \/ stepRow'[k] = stepRow[k]
           \/ \E t \in TaskIds : /\ KeyOf(t) = k
                                 /\ BeginStep(t) \/ CompleteStep(t) \/ FailStep(t)
<1>1. stepRow' = stepRow \/ \E t \in TaskIds : BeginStep(t) \/ CompleteStep(t) \/ FailStep(t)
  BY Zenon
     DEF Next, vars, TriggerEvent, CreateExecution, EnqueueFirst, EnqueueFirstFails,
         PickUp, ProcessStep, LoadWorkflow, LookupStep, BeginStepRejected, MarkRunning,
         EnqueueNotification, DispatchNext, DispatchDuplicate, FinishExecution,
         Acknowledge, FailExecution, Disturb, HandlerFails, NotificationFails,
         LockLapses, EditWorkflow, UpdateDefinition, Pause, Resume, Delete, Edit
<1>2. ASSUME NEW t \in TaskIds, BeginStep(t) \/ CompleteStep(t) \/ FailStep(t),
             KeyOf(t) # k
      PROVE  stepRow'[k] = stepRow[k]
  <2>1. \E r : stepRow' = [stepRow EXCEPT ![KeyOf(t)] = r]
    BY <1>2 DEF BeginStep, CompleteStep, FailStep
  <2>. QED  BY <1>2, <2>1 DEF TypeOK
<1>. QED  BY <1>1, <1>2

LEMMA JobSenders ==
    ASSUME TypeOK, [Next]_vars, NEW k \in StepKeys
    PROVE  \/ sent'[k] = sent[k]
           \/ \E t \in TaskIds : /\ KeyOf(t) = k
                                 /\ EnqueueNotification(t) \/ NotificationFails(t)
                                 /\ sent'[k] = sent[k] + 1
<1>1. \/ sent' = sent
      \/ \E t \in TaskIds : /\ EnqueueNotification(t) \/ NotificationFails(t)
                            /\ sent' = [sent EXCEPT ![KeyOf(t)] = @ + 1]
  BY DEF Next, vars, TriggerEvent, CreateExecution, EnqueueFirst, EnqueueFirstFails, PickUp,
         ProcessStep, LoadWorkflow, LookupStep, BeginStep, BeginStepRejected, MarkRunning,
         EnqueueNotification, CompleteStep, DispatchNext, DispatchDuplicate,
         FinishExecution, Acknowledge, FailStep, FailExecution, Disturb, HandlerFails,
         NotificationFails, LockLapses, EditWorkflow, UpdateDefinition, Pause, Resume,
         Delete, Edit
<1>. QED  BY <1>1 DEF TypeOK

\* The payload of an execution stays, once anything of it is reached.
LEMMA PayloadStays ==
    ASSUME CausalityInv, [Next]_vars, NEW e \in Executions, NEW s \in Steps, Reached(e, s)
    PROVE  origin'[e] = origin[e]
<1>1. trigger[e] = "enqueued"
  BY DEF CausalityInv, TriggerFirst
<1>2. origin' = origin \/ \E x \in Executions : \E r :
         trigger[x] = "none" /\ origin' = [origin EXCEPT ![x] = r]
  BY Zenon
     DEF Next, vars, TriggerEvent, CreateExecution, EnqueueFirst, EnqueueFirstFails,
         PickUp, ProcessStep, LoadWorkflow, LookupStep, BeginStep, BeginStepRejected,
         MarkRunning, EnqueueNotification, CompleteStep, DispatchNext, DispatchDuplicate,
         FinishExecution, Acknowledge, FailStep, FailExecution, Disturb, HandlerFails,
         NotificationFails, LockLapses, EditWorkflow, UpdateDefinition, Pause, Resume,
         Delete, Edit, apiVars
<1>. QED  BY <1>1, <1>2 DEF CausalityInv, TypeOK

\* What a handler at work on a step knows of its execution.
LEMMA HandlerReached ==
    ASSUME CausalityInv, NEW t \in TaskIds, worker[t].at \in Runs
    PROVE  /\ t[1] \in Executions /\ t[2] \in Steps
           /\ worker[t].def \in workflow.versions /\ worker[t].def \in Definitions
           /\ t[2] \in NodesOf(worker[t].def)
           /\ Begun(t[1], t[2]) /\ Reached(t[1], t[2])
BY TaskIdParts DEF CausalityInv, HandlersKnow, HandlerKnows, Reached, TypeOK

\* What is acknowledged is the only task that disappears.
LEMMA OnlyAcknowledged ==
    ASSUME TypeOK, [Next]_vars, NEW t \in TaskIds,
           task[t].state # "none", task'[t].state = "none"
    PROVE  Acknowledge(t)
<1>1. Acts(t)
  BY Bystander
<1>2. ~ PickUp(t) /\ ~ Returns(t)
  BY PickUpMoves, ReturnMoves
<1>3. ~ DispatchNext(t)
  BY EnqueueBystander DEF DispatchNext
<1>. QED
  BY <1>1, <1>2, <1>3
     DEF Acts, ProcessStep, Disturb, Returns, LoadWorkflow, LookupStep, BeginStep,
         BeginStepRejected, MarkRunning, EnqueueNotification, CompleteStep,
         DispatchDuplicate, FinishExecution, FailStep, FailExecution, HandlerFails,
         NotificationFails

\* A step that was reached stays so: its task leaves the queue only by being
\* acknowledged, and then its row exists.
LEMMA ReachedLasts ==
    ASSUME CausalityInv, [Next]_vars, NEW e \in Executions, NEW s \in Steps, Reached(e, s)
    PROVE  Reached(e, s)'
<1>1. CASE Begun(e, s)
  BY <1>1, Lasts DEF CausalityInv, Lasting, Reached
<1>2. CASE ~ Begun(e, s)
  <2>1. PICK g \in Slots : task[<<e, s, g>>].state # "none"
    BY <1>2 DEF Reached, Outstanding
  <2>. DEFINE t == <<e, s, g>>
  <2>2. t \in TaskIds /\ t[1] = e /\ t[2] = s
    BY DEF TaskIds
  <2>3. task'[t].state # "none"
    <3>. SUFFICES ASSUME task'[t].state = "none" PROVE FALSE
      OBVIOUS
    <3>1. worker[t].at = "ack"
      BY <2>1, <2>2, OnlyAcknowledged DEF CausalityInv, Acknowledge, At
    <3>2. Begun(e, s)
      BY <2>2, <3>1, HandlerReached DEF Runs, Begins, Points
    <3>. QED  BY <1>2, <3>2
  <2>. QED  BY <2>3 DEF Reached, Outstanding
<1>. QED  BY <1>1, <1>2
----------------------------------------------------------------------------
(***************************************************************************)
(* No lost dispatch. The property speaks of steps whose tasks are gone; it *)
(* is kept because of what a handler has done by the time it acknowledges: *)
(* every successor it chose is still on its list or was reached.           *)
(***************************************************************************)

\* The points after the switch of ProcessStep on the type of the node, at which
\* a handler may still complete the step.
Switched == {"notify", "complete", "dispatch", "finish", "ack"}

HandlerDispatches(t) ==
    /\ worker[t].at \in Switched =>
          \A i \in NextOf(worker[t].def, t[2], origin[t[1]].payload) \ worker[t].todo :
              Reached(t[1], worker[t].def.edges[i].target)
    /\ worker[t].at \in {"finish", "ack"} => worker[t].todo = {}

HandlersDispatch == \A t \in TaskIds : HandlerDispatches(t)

\* A handler that holds what it held has no less dispatched.
LEMMA DispatchedLasts ==
    ASSUME CausalityInv, [Next]_vars, NEW t \in TaskIds, HandlerDispatches(t),
           worker[t].at \in Switched,
           worker'[t].def = worker[t].def, worker'[t].todo = worker[t].todo,
           worker'[t].at \in {"finish", "ack"} => worker[t].todo = {}
    PROVE  HandlerDispatches(t)'
<1>1. worker[t].at \in Runs
  BY DEF Switched, Runs, Begins, Points
<1>2. origin'[t[1]] = origin[t[1]]
  BY <1>1, HandlerReached, PayloadStays
<1>3. ASSUME NEW i \in NextOf(worker[t].def, t[2], origin[t[1]].payload) \ worker[t].todo
      PROVE  Reached(t[1], worker[t].def.edges[i].target)'
  <2>1. Reached(t[1], worker[t].def.edges[i].target)
    BY DEF HandlerDispatches
  <2>2. worker[t].def.edges[i].target \in Steps /\ t[1] \in Executions
    BY <1>1, HandlerReached, NextOfEdges
  <2>3. Reached(t[1], worker[t].def.edges[i].target)'
    BY <2>1, <2>2, ReachedLasts
  <2>. QED  BY <2>3
<1>. QED  BY <1>2, <1>3 DEF HandlerDispatches

LEMMA DispatchNextKeeps ==
    ASSUME CausalityInv, [Next]_vars, NEW t \in TaskIds, HandlerDispatches(t),
           DispatchNext(t)
    PROVE  HandlerDispatches(t)'
<1>0. TypeOK /\ worker[t].at = "dispatch" /\ worker[t].at \in Runs
  BY DEF CausalityInv, DispatchNext, At, Runs, Begins, Points
<1>1. PICK i \in worker[t].todo :
         /\ Enqueue(t[1], worker[t].def.edges[i].target)
         /\ worker'[t].def = worker[t].def
         /\ worker'[t].todo = worker[t].todo \ {i}
         /\ worker'[t].at \in {"dispatch", "complete", "finish"}
         /\ worker'[t].at = "finish" => worker'[t].todo = {}
  BY <1>0, DispatchMoves
<1>2. origin'[t[1]] = origin[t[1]] /\ t[1] \in Executions
  BY <1>0, HandlerReached, PayloadStays
<1>3. i \in NextOf(worker[t].def, t[2], origin[t[1]].payload)
  BY DEF CausalityInv, HandlersKnow, HandlerKnows
<1>4. Reached(t[1], worker[t].def.edges[i].target)'
  <2>1. PICK s \in Steps : s = worker[t].def.edges[i].target
    BY <1>0, <1>3, HandlerReached, NextOfEdges
  <2>2. PICK g \in Slots :
           task' = [task EXCEPT ![<<t[1], s, g>>] = [state |-> "pending", retried |-> 0]]
    BY <1>1, <2>1 DEF Enqueue
  <2>3. <<t[1], s, g>> \in TaskIds
    BY <1>2 DEF TaskIds
  <2>4. task'[<<t[1], s, g>>].state # "none"
    BY <1>0, <2>2, <2>3 DEF TypeOK
  <2>5. Reached(t[1], s)'
    BY <2>4 DEF Reached, Outstanding
  <2>. QED  BY <1>1, <2>1, <2>5
<1>5. ASSUME NEW j \in NextOf(worker[t].def, t[2], origin[t[1]].payload), j \notin worker[t].todo
      PROVE  Reached(t[1], worker[t].def.edges[j].target)'
  <2>1. PICK s \in Steps : s = worker[t].def.edges[j].target
    BY <1>0, HandlerReached, NextOfEdges
  <2>2. Reached(t[1], s)
    BY <1>0, <1>5, <2>1 DEF HandlerDispatches, Switched
  <2>3. Reached(t[1], s)'
    BY <1>2, <2>2, ReachedLasts
  <2>. QED  BY <1>1, <2>1, <2>3
<1>6. ASSUME NEW j \in NextOf(worker[t].def, t[2], origin[t[1]].payload) \ (worker[t].todo \ {i})
      PROVE  Reached(t[1], worker[t].def.edges[j].target)'
  BY <1>4, <1>5
<1>. QED  BY <1>1, <1>2, <1>6 DEF HandlerDispatches

LEMMA HandlersDispatchKept ==
    ASSUME CausalityInv, HandlersDispatch, [Next]_vars
    PROVE  HandlersDispatch'
<1>. SUFFICES ASSUME NEW t \in TaskIds PROVE HandlerDispatches(t)'
  BY DEF HandlersDispatch
<1>0. TypeOK /\ HandlerDispatches(t)
  BY DEF CausalityInv, HandlersDispatch
<1>1. ASSUME worker'[t].at \notin Switched PROVE HandlerDispatches(t)'
  BY <1>1 DEF HandlerDispatches, Switched
<1>2. CASE ~ Acts(t)
  <2>1. worker'[t] = worker[t]
    BY <1>0, <1>2, Bystander
  <2>2. CASE worker[t].at \in Switched
    BY <1>0, <2>1, <2>2, DispatchedLasts DEF HandlerDispatches
  <2>. QED  BY <1>1, <2>1, <2>2
<1>3. ASSUME Returns(t) PROVE HandlerDispatches(t)'
  BY <1>0, <1>1, <1>3, ReturnMoves DEF IdleWorker, Switched
<1>4. ASSUME NEW p \in Points \ Switched, GoTo(t, p) PROVE HandlerDispatches(t)'
  BY <1>0, <1>1, <1>4, GoToMoves
<1>5. CASE PickUp(t) \/ LoadWorkflow(t) \/ LookupStep(t) \/ BeginStep(t)
  BY <1>0, <1>1, <1>3, <1>5, PickUpMoves, LoadMoves, LookupMoves, BeginMoves DEF Switched
<1>6. CASE MarkRunning(t)
  <2>1. /\ worker'[t].def = worker[t].def
        /\ worker'[t].at \in {"notify", "complete", "dispatch"}
        /\ worker'[t].todo = NextOf(worker[t].def, t[2], origin[t[1]].payload)
    BY <1>0, <1>6, MarkMoves
  <2>2. origin' = origin
    BY <1>6 DEF MarkRunning, apiVars
  <2>. QED  BY <2>1, <2>2 DEF HandlerDispatches
<1>7. CASE EnqueueNotification(t) \/ CompleteStep(t) \/ FinishExecution(t)
  <2>1. worker[t].at \in Switched
    BY <1>7 DEF EnqueueNotification, CompleteStep, FinishExecution, At, Switched
  <2>2. /\ worker'[t].def = worker[t].def /\ worker'[t].todo = worker[t].todo
        /\ worker'[t].at \in {"finish", "ack"} => worker[t].todo = {}
    <3>1. CASE EnqueueNotification(t)
      BY <1>0, <3>1, GoToMoves DEF EnqueueNotification
    <3>2. CASE CompleteStep(t)
      BY <1>0, <3>2, GoToMoves DEF CompleteStep
    <3>3. CASE FinishExecution(t)
      BY <1>0, <3>3, GoToMoves DEF FinishExecution, At, HandlerDispatches
    <3>. QED  BY <1>7, <3>1, <3>2, <3>3
  <2>. QED  BY <1>0, <2>1, <2>2, DispatchedLasts
<1>8. CASE DispatchNext(t)
  BY <1>0, <1>8, DispatchNextKeeps
<1>9. CASE Acknowledge(t)
  BY <1>0, <1>1, <1>9 DEF Acknowledge, IdleWorker, Switched, TypeOK
<1>10. CASE BeginStepRejected(t) \/ FailExecution(t) \/ HandlerFails(t) \/ DispatchDuplicate(t)
            \/ FailStep(t) \/ NotificationFails(t)
  BY <1>3, <1>4, <1>10
     DEF BeginStepRejected, FailExecution, HandlerFails, DispatchDuplicate, FailStep,
         NotificationFails, Returns, Points, Switched
<1>. QED
  BY <1>2, <1>5, <1>6, <1>7, <1>8, <1>9, <1>10 DEF Acts, ProcessStep, Disturb

LEMMA DispatchAlways == Spec => [](CausalityInv /\ HandlersDispatch)
<1>1. Init => HandlersDispatch
  BY DEF Init, HandlersDispatch, HandlerDispatches, IdleWorker, Switched
<1>2. CausalityInv /\ HandlersDispatch /\ [Next]_vars => HandlersDispatch'
  BY HandlersDispatchKept
<1>. QED  BY <1>1, <1>2, CausalityAlways, PTL DEF Spec

LEMMA NoLossKept ==
    ASSUME CausalityInv, HandlersDispatch, NoLostDispatch, [Next]_vars
    PROVE  NoLostDispatch'
<1>. SUFFICES ASSUME NEW e \in Executions, NEW s \in Steps,
                     Completed(e, s)', ~ Outstanding(e, s)'
              PROVE  \E d \in workflow'.versions :
                        /\ s \in NodesOf(d)
                        /\ \A n \in Successors(d, s, origin'[e].payload) : Reached(e, n)'
  BY DEF NoLostDispatch
<1>0. TypeOK /\ Lasting
  BY Lasts DEF CausalityInv
<1>1. ASSUME NEW d \in workflow.versions, s \in NodesOf(d), Reached(e, s),
             \A n \in Successors(d, s, origin[e].payload) : Reached(e, n)
      PROVE  \E c \in workflow'.versions :
                /\ s \in NodesOf(c)
                /\ \A n \in Successors(c, s, origin'[e].payload) : Reached(e, n)'
  <2>1. d \in workflow'.versions /\ d \in Definitions
    BY <1>0 DEF Lasting, TypeOK
  <2>2. origin'[e] = origin[e]
    BY <1>1, PayloadStays
  <2>3. ASSUME NEW n \in Successors(d, s, origin[e].payload)
        PROVE  Reached(e, n)'
    <3>1. n \in Steps
      BY <1>1, <2>1, NextOfEdges DEF Successors
    <3>. QED  BY <1>1, <3>1, ReachedLasts
  <2>. QED  BY <1>1, <2>1, <2>2, <2>3
<1>2. CASE Completed(e, s) /\ ~ Outstanding(e, s)
  <2>1. PICK d \in workflow.versions :
           /\ s \in NodesOf(d)
           /\ \A n \in Successors(d, s, origin[e].payload) : Reached(e, n)
    BY <1>2 DEF NoLostDispatch
  <2>2. Reached(e, s)
    BY <1>2 DEF Reached, Begun, Completed
  <2>. QED  BY <1>1, <2>1, <2>2
<1>3. CASE Outstanding(e, s)
  <2>1. PICK g \in Slots : task[<<e, s, g>>].state # "none" /\ task'[<<e, s, g>>].state = "none"
    BY <1>3, <1>0, TypeKept DEF Outstanding
  <2>2. PICK t \in TaskIds : t = <<e, s, g>>
    BY DEF TaskIds
  <2>3. worker[t].at = "ack" /\ t[1] = e /\ t[2] = s
    BY <1>0, <2>1, <2>2, OnlyAcknowledged DEF Acknowledge, At
  <2>4. /\ worker[t].def \in workflow.versions /\ s \in NodesOf(worker[t].def)
        /\ Reached(e, s)
    BY <2>3, HandlerReached DEF Runs, Begins, Points
  <2>5. \A n \in Successors(worker[t].def, s, origin[e].payload) : Reached(e, n)
    BY <2>3 DEF HandlersDispatch, HandlerDispatches, Switched, Successors
  <2>6. PICK d \in workflow.versions : d = worker[t].def
    BY <2>4
  <2>. QED  BY <1>1, <2>4, <2>5, <2>6
<1>4. CASE ~ Completed(e, s) /\ ~ Outstanding(e, s)
  <2>1. PICK t \in TaskIds :
           KeyOf(t) = <<e, s>> /\ (BeginStep(t) \/ CompleteStep(t) \/ FailStep(t))
    BY <1>0, <1>4, RowWriters DEF Completed, StepKeys
  <2>2. task[t].state = "active" /\ t[1] = e /\ t[2] = s
    BY <2>1 DEF BeginStep, CompleteStep, FailStep, At, KeyOf
  <2>. QED  BY <1>4, <2>2, ActiveOutstanding
<1>. QED  BY <1>2, <1>3, <1>4

\* Once a completed step has no task left, every step that follows it in some
\* version of the definition was handed to the queue, although ProcessStep
\* enqueues, completes the row and is acknowledged in separate calls.
THEOREM NoLoss == Spec => []NoLostDispatch
<1>1. Init => NoLostDispatch
  BY DEF Init, NoLostDispatch, Completed, StepKeys
<1>2. CausalityInv /\ HandlersDispatch /\ NoLostDispatch /\ [Next]_vars => NoLostDispatch'
  BY NoLossKept
<1>. QED  BY <1>1, <1>2, DispatchAlways, PTL DEF Spec
----------------------------------------------------------------------------
(***************************************************************************)
(* A completed execution has completed a leaf. A row that is not completed *)
(* is owed: one of its tasks has yet to complete it, or to be picked up.   *)
(***************************************************************************)

\* The handler is past CompleteStep (a delay step dispatches before it).
Past(t) ==
    \/ worker[t].at \in {"finish", "ack"}
    \/ worker[t].at = "dispatch" /\ TypeAt(t) # "delay"

Owes(t) == task[t].state # "none" /\ ~ Past(t)

RowsOwed ==
    \A e \in Executions, s \in Steps : Begun(e, s) =>
        Completed(e, s) \/ \E g \in Slots : Owes(<<e, s, g>>)

LeafReached ==
    \A e \in Executions : execution[e].status = "completed" =>
        \E d \in workflow.versions : \E s \in NodesOf(d) :
            NextOf(d, s, origin[e].payload) = {} /\ Begun(e, s)

\* A handler at work owes its row, whatever the step does to the queue.
LEMMA EarlyOwes ==
    ASSUME TypeOK, NEW t \in TaskIds, task[t].state # "none", task' = task,
           worker'[t].at \notin {"dispatch", "finish", "ack"}
    PROVE  Owes(t)'
BY DEF Owes, Past

LEMMA ReturnOwes ==
    ASSUME TypeOK, NEW t \in TaskIds, Returns(t)
    PROVE  Owes(t)'
BY ReturnMoves DEF Owes, Past, IdleWorker

LEMMA OwesLasts ==
    ASSUME TypeOK, [Next]_vars, NEW t \in TaskIds, Owes(t)
    PROVE  Owes(t)' \/ CompleteStep(t)
<1>1. CASE ~ Acts(t)
  BY <1>1, Bystander DEF Owes, Past, TypeAt
<1>2. CASE PickUp(t)
  BY <1>2, PickUpMoves DEF Owes, Past
<1>3. CASE LoadWorkflow(t)
  BY <1>3, LoadMoves, EarlyOwes, ReturnOwes DEF Owes
<1>4. CASE LookupStep(t) \/ BeginStep(t)
  BY <1>4, LookupMoves, BeginMoves, EarlyOwes DEF Owes, LookupStep, BeginStep
<1>5. CASE MarkRunning(t)
  BY <1>5, MarkMoves DEF Owes, Past, TypeAt, MarkRunning
<1>6. CASE EnqueueNotification(t) \/ FailStep(t) \/ NotificationFails(t)
  BY <1>6, GoToMoves, EarlyOwes DEF Owes, EnqueueNotification, FailStep, NotificationFails
<1>7. CASE DispatchNext(t)
  <2>1. TypeAt(t) = "delay" /\ task[t].state # "none"
    BY <1>7 DEF Owes, Past, DispatchNext, At
  <2>2. task'[t].state # "none"
    BY <1>7, <2>1, EnqueueBystander DEF DispatchNext
  <2>3. worker'[t].def = worker[t].def /\ worker'[t].at \in {"dispatch", "complete"}
    BY <1>7, <2>1, DispatchMoves
  <2>. QED  BY <2>1, <2>2, <2>3 DEF Owes, Past, TypeAt
<1>8. CASE DispatchDuplicate(t)
  BY <1>8, GoToMoves, EarlyOwes, ReturnOwes DEF Owes, DispatchDuplicate, Returns
<1>9. CASE BeginStepRejected(t) \/ FailExecution(t) \/ HandlerFails(t)
  BY <1>9, ReturnOwes DEF BeginStepRejected, FailExecution, HandlerFails, Returns
<1>10. ~ FinishExecution(t) /\ ~ Acknowledge(t)
  BY DEF Owes, Past, FinishExecution, Acknowledge, At
<1>. QED
  BY <1>1, <1>2, <1>3, <1>4, <1>5, <1>6, <1>7, <1>8, <1>9, <1>10
     DEF Acts, ProcessStep, Disturb

LEMMA RowsOwedKept ==
    ASSUME TypeOK, RowsOwed, [Next]_vars
    PROVE  RowsOwed'
<1>. SUFFICES ASSUME NEW e \in Executions, NEW s \in Steps, Begun(e, s)'
              PROVE  Completed(e, s)' \/ \E g \in Slots : Owes(<<e, s, g>>)'
  BY DEF RowsOwed
<1>1. ASSUME NEW t \in TaskIds, KeyOf(t) = <<e, s>>, CompleteStep(t) PROVE Completed(e, s)'
  BY <1>1 DEF CompleteStep, Completed, TypeOK, StepKeys
<1>2. ASSUME NEW t \in TaskIds, KeyOf(t) = <<e, s>>, Owes(t)'
      PROVE  \E g \in Slots : Owes(<<e, s, g>>)'
  <2>1. t = <<e, s, t[3]>> /\ t[3] \in Slots
    BY <1>2, TaskIdParts DEF KeyOf
  <2>2. PICK g \in Slots : t = <<e, s, g>>
    BY <2>1
  <2>. QED  BY <1>2, <2>2
<1>3. CASE stepRow'[<<e, s>>] = stepRow[<<e, s>>] /\ ~ Completed(e, s)
  <2>1. PICK g \in Slots : Owes(<<e, s, g>>)
    BY <1>3 DEF RowsOwed, Begun
  <2>2. <<e, s, g>> \in TaskIds /\ KeyOf(<<e, s, g>>) = <<e, s>>
    BY DEF TaskIds, KeyOf
  <2>. QED  BY <1>1, <2>1, <2>2, OwesLasts
<1>4. CASE stepRow'[<<e, s>>] = stepRow[<<e, s>>] /\ Completed(e, s)
  BY <1>4 DEF Completed
<1>5. CASE stepRow'[<<e, s>>] # stepRow[<<e, s>>]
  <2>1. PICK t \in TaskIds :
           KeyOf(t) = <<e, s>> /\ (BeginStep(t) \/ CompleteStep(t) \/ FailStep(t))
    BY <1>5, RowWriters DEF StepKeys
  <2>2. CASE BeginStep(t)
    BY <1>2, <2>1, <2>2, BeginMoves, EarlyOwes DEF BeginStep, At
  <2>3. CASE FailStep(t)
    BY <1>2, <2>1, <2>3, GoToMoves, EarlyOwes DEF FailStep, At
  <2>. QED  BY <1>1, <2>1, <2>2, <2>3
<1>. QED  BY <1>3, <1>4, <1>5

\* An execution becomes completed in FinishExecution, after a step without
\* successors.
LEMMA ExecutionFinishers ==
    ASSUME TypeOK, [Next]_vars, NEW e \in Executions,
           execution[e].status # "completed", execution'[e].status = "completed"
    PROVE  \E t \in TaskIds :
              /\ t[1] = e /\ worker[t].at = "finish"
              /\ NextOf(worker[t].def, t[2], origin[e].payload) = {}
              /\ origin' = origin
<1>1. PICK t \in TaskIds : FinishExecution(t)
  <2>1. ASSUME NEW x, NEW c, NEW st \in {"queued", "running", "failed"},
               execution' = [execution EXCEPT ![x] = [status |-> st, current |-> c]]
        PROVE  FALSE
    BY <2>1 DEF TypeOK
  <2>2. ASSUME execution' = execution PROVE FALSE
    BY <2>2
  <2>3. ~ \E x \in Executions : TriggerEvent(x)
    BY <2>1, <2>2 DEF TriggerEvent, CreateExecution, EnqueueFirst, EnqueueFirstFails
  <2>4. ~ \E t \in TaskIds : MarkRunning(t) \/ FailExecution(t)
    BY <2>1 DEF MarkRunning, FailExecution
  <2>. QED
    BY <2>2, <2>3, <2>4
       DEF Next, vars, PickUp, ProcessStep, LoadWorkflow, LookupStep, BeginStep,
           BeginStepRejected, EnqueueNotification, CompleteStep, DispatchNext,
           DispatchDuplicate, Acknowledge, FailStep, Disturb, HandlerFails,
           NotificationFails, LockLapses, EditWorkflow, UpdateDefinition, Pause, Resume,
           Delete, Edit
<1>. DEFINE next == NextOf(worker[t].def, t[2], origin[t[1]].payload)
<1>2. next = {} \/ \E c : execution' = [execution EXCEPT ![t[1]] =
                                          [status |-> "queued", current |-> c]]
  BY <1>1 DEF FinishExecution
<1>3. t[1] = e
  <2>1. \E r : execution' = [execution EXCEPT ![t[1]] = r]
    BY <1>1 DEF FinishExecution
  <2>. QED  BY <2>1 DEF TypeOK
<1>4. next = {}
  BY <1>2, <1>3 DEF TypeOK
<1>. QED  BY <1>1, <1>3, <1>4 DEF FinishExecution, At, apiVars

LEMMA LeafReachedKept ==
    ASSUME CausalityInv, LeafReached, [Next]_vars
    PROVE  LeafReached'
<1>. SUFFICES ASSUME NEW e \in Executions, execution'[e].status = "completed"
              PROVE  \E d \in workflow'.versions : \E s \in NodesOf(d) :
                        NextOf(d, s, origin'[e].payload) = {} /\ Begun(e, s)'
  BY DEF LeafReached
<1>0. TypeOK /\ Lasting
  BY Lasts DEF CausalityInv
<1>1. PICK d \in workflow.versions : \E s \in NodesOf(d) :
         NextOf(d, s, origin[e].payload) = {} /\ Begun(e, s)
  <2>1. CASE execution[e].status = "completed"
    BY <2>1 DEF LeafReached
  <2>2. CASE execution[e].status # "completed"
    <3>1. PICK t \in TaskIds :
             /\ t[1] = e /\ worker[t].at = "finish"
             /\ NextOf(worker[t].def, t[2], origin[e].payload) = {}
      BY <1>0, <2>2, ExecutionFinishers
    <3>. QED  BY <3>1, HandlerReached DEF Runs, Begins, Points
  <2>. QED  BY <2>1, <2>2
<1>2. PICK s \in NodesOf(d) : NextOf(d, s, origin[e].payload) = {} /\ Begun(e, s)
  BY <1>1
<1>3. s \in Steps
  BY <1>0, NodesAreSteps DEF TypeOK
<1>4. Begun(e, s)' /\ d \in workflow'.versions
  BY <1>0, <1>2, <1>3 DEF Lasting
<1>5. origin'[e] = origin[e]
  BY <1>2, <1>3, PayloadStays DEF Reached
<1>. QED  BY <1>2, <1>4, <1>5

\* An execution is marked completed only after a step without successors was
\* completed: FinishExecution reads the row of no step, yet at any time some
\* such step has a completed row, or a task that is about to complete it again.
THEOREM LeafCompleted == Spec => []CompletedReachedLeaf
<1>1. Init => RowsOwed /\ LeafReached
  BY DEF Init, RowsOwed, LeafReached, Begun, StepKeys
<1>2. CausalityInv /\ RowsOwed /\ LeafReached /\ [Next]_vars => (RowsOwed /\ LeafReached)'
  BY RowsOwedKept, LeafReachedKept DEF CausalityInv
<1>3. CausalityInv /\ RowsOwed /\ LeafReached => CompletedReachedLeaf
  <2>. SUFFICES ASSUME CausalityInv, RowsOwed, LeafReached, NEW e \in Executions,
                       execution[e].status = "completed"
                PROVE  \E d \in workflow.versions : \E s \in NodesOf(d) :
                          /\ NextOf(d, s, origin[e].payload) = {} /\ Begun(e, s)
                          /\ Completed(e, s) \/ Outstanding(e, s)
    BY DEF CompletedReachedLeaf
  <2>1. PICK d \in workflow.versions : \E s \in NodesOf(d) :
           NextOf(d, s, origin[e].payload) = {} /\ Begun(e, s)
    BY DEF LeafReached
  <2>2. PICK s \in NodesOf(d) : NextOf(d, s, origin[e].payload) = {} /\ Begun(e, s)
    BY <2>1
  <2>3. s \in Steps
    BY NodesAreSteps DEF CausalityInv, TypeOK
  <2>. QED  BY <2>2, <2>3 DEF RowsOwed, Owes, Outstanding
<1>. QED  BY <1>1, <1>2, <1>3, CausalityAlways, PTL DEF Spec
----------------------------------------------------------------------------
(***************************************************************************)
(* The attempts of a step account for the jobs it sent, while unique locks *)
(* do not lapse: then the handler that read the row is its only writer.    *)
(***************************************************************************)
Busy == \A t \in TaskIds : worker[t].at # "idle" => task[t].state = "active"

Attempted(t) ==
    /\ worker[t].at \in Runs \cup {"begin"} =>
          worker[t].attempts = stepRow[KeyOf(t)].attempts
    /\ worker[t].at \in {"mark", "notify"} => sent[KeyOf(t)] < stepRow[KeyOf(t)].attempts

Attempts == ~ LocksLapse => \A t \in TaskIds : Attempted(t)

LEMMA BusyKept ==
    ASSUME TypeOK, Busy, [Next]_vars
    PROVE  Busy'
<1>. SUFFICES ASSUME NEW t \in TaskIds, worker'[t].at # "idle"
              PROVE  task'[t].state = "active"
  BY DEF Busy
<1>1. CASE ~ Acts(t)
  BY <1>1, Bystander DEF Busy
<1>2. CASE PickUp(t)
  BY <1>2, PickUpMoves
<1>3. ~ Returns(t)
  BY ReturnMoves DEF IdleWorker
<1>4. CASE LoadWorkflow(t)
  BY <1>3, <1>4, LoadMoves DEF LoadWorkflow, At
<1>5. CASE DispatchNext(t)
  BY <1>5, EnqueueBystander DEF DispatchNext, At
<1>6. CASE DispatchDuplicate(t)
  BY <1>3, <1>6 DEF DispatchDuplicate, At, Returns
<1>7. ~ Acknowledge(t)
  BY DEF Acknowledge, IdleWorker, TypeOK
<1>. QED
  BY <1>1, <1>2, <1>3, <1>4, <1>5, <1>6, <1>7
     DEF Acts, ProcessStep, Disturb, LookupStep, BeginStep, BeginStepRejected, MarkRunning,
         EnqueueNotification, CompleteStep, FinishExecution, FailStep, FailExecution,
         HandlerFails, NotificationFails, At, Returns

\* A step has one handler, while its lock does not lapse.
LEMMA OneHandler ==
    ASSUME TypeOK, LockHeld, ~ LocksLapse, NEW t \in TaskIds, NEW u \in TaskIds,
           KeyOf(t) = KeyOf(u), task[t].state # "none", task[u].state # "none"
    PROVE  t = u
<1>1. t[3] = u[3]
  BY DEF LockHeld
<1>. QED  BY <1>1, TaskIdParts DEF KeyOf

\* What the handler of a step counts on is written by nobody else.
LEMMA CountsLast ==
    ASSUME TypeOK, LockHeld, ~ LocksLapse, [Next]_vars, NEW t \in TaskIds,
           task[t].state # "none", ~ Acts(t)
    PROVE  stepRow'[KeyOf(t)] = stepRow[KeyOf(t)] /\ sent'[KeyOf(t)] = sent[KeyOf(t)]
<1>1. ASSUME NEW u \in TaskIds, KeyOf(u) = KeyOf(t), Acts(u), task[u].state # "none"
      PROVE  FALSE
  BY <1>1, OneHandler
<1>2. stepRow'[KeyOf(t)] = stepRow[KeyOf(t)]
  BY <1>1, RowWriters, TaskIdParts
     DEF Acts, ProcessStep, BeginStep, CompleteStep, FailStep, At
<1>3. sent'[KeyOf(t)] = sent[KeyOf(t)]
  BY <1>1, JobSenders, TaskIdParts
     DEF Acts, ProcessStep, Disturb, EnqueueNotification, NotificationFails, At
<1>. QED  BY <1>2, <1>3

\* A handler that moves on with the attempts it has, and writes no other.
LEMMA MoveAttempted ==
    ASSUME TypeOK, NEW t \in TaskIds, Attempted(t),
           worker[t].at \in Runs,
           worker'[t].attempts = worker[t].attempts, worker'[t].at \notin {"mark", "notify"},
           stepRow' = stepRow \/ \E st : stepRow' = [stepRow EXCEPT ![KeyOf(t)] =
                                     [status |-> st, attempts |-> worker[t].attempts]]
    PROVE  Attempted(t)'
<1>1. worker[t].attempts = stepRow[KeyOf(t)].attempts
  BY DEF Attempted
<1>2. stepRow'[KeyOf(t)].attempts = stepRow[KeyOf(t)].attempts
  BY <1>1, TaskIdParts DEF TypeOK
<1>. QED  BY <1>1, <1>2 DEF Attempted

LEMMA AttemptsHeld ==
    ASSUME TypeOK, LockHeld, Busy, Attempts, SendsWithinAttempts, [Next]_vars
    PROVE  Attempts'
<1>. SUFFICES ASSUME ~ LocksLapse, NEW t \in TaskIds PROVE Attempted(t)'
  BY DEF Attempts
<1>0. Attempted(t) /\ KeyOf(t) \in StepKeys
  BY TaskIdParts DEF Attempts
<1>1. ASSUME worker'[t].at \in {"idle", "load", "lookup"} PROVE Attempted(t)'
  BY <1>1 DEF Attempted, Runs, Begins
<1>2. CASE ~ Acts(t)
  <2>1. worker'[t] = worker[t]
    BY <1>2, Bystander
  <2>2. CASE worker[t].at = "idle"
    BY <1>1, <2>1, <2>2
  <2>3. CASE worker[t].at # "idle"
    <3>1. task[t].state # "none"
      BY <2>3 DEF Busy
    <3>. QED  BY <1>0, <1>2, <2>1, <3>1, CountsLast DEF Attempted
  <2>. QED  BY <2>2, <2>3
<1>3. ASSUME Returns(t) PROVE Attempted(t)'
  BY <1>1, <1>3, ReturnMoves DEF IdleWorker
<1>4. CASE PickUp(t) \/ LoadWorkflow(t)
  BY <1>1, <1>3, <1>4, PickUpMoves, LoadMoves
<1>5. CASE LookupStep(t)
  BY <1>5, LookupMoves DEF Attempted, LookupStep
<1>6. CASE BeginStep(t)
  <2>1. worker[t].attempts = stepRow[KeyOf(t)].attempts /\ worker[t].attempts \in Nat
    BY <1>0, <1>6 DEF Attempted, BeginStep, At, TypeOK, WorkerRecord
  <2>2. sent[KeyOf(t)] <= worker[t].attempts /\ sent[KeyOf(t)] \in Nat
    BY <1>0, <2>1 DEF SendsWithinAttempts, TypeOK
  <2>3. /\ sent' = sent /\ worker'[t].attempts = worker[t].attempts + 1
        /\ stepRow'[KeyOf(t)].attempts = worker[t].attempts + 1
    BY <1>6, BeginMoves DEF BeginStep
  <2>. QED  BY <2>1, <2>2, <2>3 DEF Attempted
<1>7. CASE MarkRunning(t)
  <2>1. worker[t].at = "mark" /\ stepRow' = stepRow /\ sent' = sent
    BY <1>7 DEF MarkRunning, At
  <2>2. /\ worker'[t].attempts = worker[t].attempts
        /\ worker'[t].at \in {"notify", "complete", "dispatch"}
    BY <1>7, MarkMoves
  <2>. QED  BY <1>0, <2>1, <2>2 DEF Attempted, Runs, Begins, Points
<1>8. ASSUME NEW p \in Points \ {"mark", "notify"}, GoTo(t, p), worker[t].at \in Runs,
             stepRow' = stepRow \/ \E st : stepRow' = [stepRow EXCEPT ![KeyOf(t)] =
                                       [status |-> st, attempts |-> worker[t].attempts]]
      PROVE  Attempted(t)'
  BY <1>0, <1>8, GoToMoves, MoveAttempted
<1>9. CASE EnqueueNotification(t) \/ NotificationFails(t) \/ FinishExecution(t)
  BY <1>8, <1>9
     DEF EnqueueNotification, NotificationFails, FinishExecution, At, Runs, Begins, Points
<1>10. CASE CompleteStep(t)
  BY <1>8, <1>10 DEF CompleteStep, At, Runs, Begins, Points
<1>11. CASE FailStep(t)
  BY <1>8, <1>11 DEF FailStep, At, Runs, Begins, Points
<1>12. CASE DispatchNext(t)
  <2>1. worker[t].at = "dispatch" /\ stepRow' = stepRow
    BY <1>12 DEF DispatchNext, At
  <2>2. /\ worker'[t].attempts = worker[t].attempts
        /\ worker'[t].at \in {"dispatch", "complete", "finish"}
    BY <1>12, DispatchMoves
  <2>. QED  BY <1>0, <2>1, <2>2, MoveAttempted DEF Runs, Begins, Points
<1>13. CASE DispatchDuplicate(t)
  BY <1>3, <1>8, <1>13 DEF DispatchDuplicate, At, Runs, Begins, Points, Returns
<1>14. CASE Acknowledge(t)
  BY <1>1, <1>14 DEF Acknowledge, IdleWorker, TypeOK
<1>15. CASE BeginStepRejected(t) \/ FailExecution(t) \/ HandlerFails(t)
  BY <1>3, <1>15 DEF BeginStepRejected, FailExecution, HandlerFails, Returns
<1>. QED
  BY <1>2, <1>4, <1>5, <1>6, <1>7, <1>9, <1>10, <1>11, <1>12, <1>13, <1>14, <1>15
     DEF Acts, ProcessStep, Disturb

LEMMA SendsKept ==
    ASSUME TypeOK, Attempts, SendsWithinAttempts, [Next]_vars
    PROVE  SendsWithinAttempts'
<1>. SUFFICES ASSUME ~ LocksLapse, NEW k \in StepKeys
              PROVE  sent'[k] <= stepRow'[k].attempts
  BY DEF SendsWithinAttempts
<1>0. sent[k] <= stepRow[k].attempts /\ sent[k] \in Nat /\ stepRow[k].attempts \in Nat
  BY DEF SendsWithinAttempts, TypeOK
<1>1. stepRow[k].attempts <= stepRow'[k].attempts /\ stepRow'[k].attempts \in Nat
  <2>1. CASE stepRow'[k] = stepRow[k]
    BY <1>0, <2>1
  <2>2. ASSUME NEW t \in TaskIds, KeyOf(t) = k, BeginStep(t)
        PROVE  stepRow[k].attempts <= stepRow'[k].attempts /\ stepRow'[k].attempts \in Nat
    <3>1. worker[t].attempts = stepRow[k].attempts
      BY <2>2 DEF Attempts, Attempted, BeginStep, At
    <3>2. stepRow'[k].attempts = worker[t].attempts + 1
      BY <2>2, BeginMoves
    <3>. QED  BY <1>0, <3>1, <3>2
  <2>3. ASSUME NEW t \in TaskIds, KeyOf(t) = k, CompleteStep(t) \/ FailStep(t)
        PROVE  stepRow'[k].attempts = stepRow[k].attempts
    <3>1. worker[t].attempts = stepRow[k].attempts
      BY <2>3 DEF Attempts, Attempted, CompleteStep, FailStep, At, Runs, Begins, Points
    <3>2. \E st : stepRow' = [stepRow EXCEPT ![k] =
                                 [status |-> st, attempts |-> worker[t].attempts]]
      BY <2>3 DEF CompleteStep, FailStep
    <3>. QED  BY <3>1, <3>2 DEF TypeOK
  <2>. QED  BY <1>0, <2>1, <2>2, <2>3, RowWriters
<1>2. CASE sent'[k] = sent[k]
  BY <1>0, <1>1, <1>2
<1>3. CASE sent'[k] # sent[k]
  <2>1. PICK t \in TaskIds : /\ KeyOf(t) = k
                             /\ EnqueueNotification(t) \/ NotificationFails(t)
                             /\ sent'[k] = sent[k] + 1
    BY <1>3, JobSenders
  <2>2. sent[k] < stepRow[k].attempts
    BY <2>1 DEF Attempts, Attempted, EnqueueNotification, NotificationFails, At
  <2>. QED  BY <1>0, <1>1, <2>1, <2>2
<1>. QED  BY <1>2, <1>3

\* While unique locks do not lapse, no step hands more notification jobs to the
\* queue than the attempts its row counts, although BeginStep writes a number
\* computed from an earlier read and the enqueue may succeed without a reply.
THEOREM SendsCounted == Spec => []SendsWithinAttempts
<1>1. Init => Busy /\ Attempts /\ SendsWithinAttempts
  BY DEF Init, Busy, Attempts, Attempted, SendsWithinAttempts, IdleWorker, Runs, Begins,
         StepKeys
<1>2. TypeOK /\ LockHeld /\ Busy /\ Attempts /\ SendsWithinAttempts /\ [Next]_vars
      => (LockHeld /\ Busy /\ Attempts /\ SendsWithinAttempts)'
  BY LocksStayHeld, BusyKept, AttemptsHeld, SendsKept
<1>3. Init => LockHeld
  BY DEF Init, LockHeld
<1>. QED  BY <1>1, <1>2, <1>3, TypeCorrect, PTL DEF Spec
============================================================================
