----------------------- MODULE WorkflowRuntimeProofs -----------------------
(***************************************************************************)
(* Proofs about WorkflowRuntime, for every set of executions, every set of *)
(* well-formed definitions and every value of the bounds.                  *)
(***************************************************************************)
EXTENDS WorkflowRuntime, TLAPS

\* The parts of a task's identity.
LEMMA TaskIdParts ==
    ASSUME NEW t \in TaskIds
    PROVE  /\ t[1] \in Executions
           /\ t[2] \in Steps
           /\ t[3] \in Slots
           /\ KeyOf(t) \in StepKeys
           /\ t = <<t[1], t[2], t[3]>>
BY DEF TaskIds, KeyOf, StepKeys

\* What the edges of a well-formed definition give the runtime.
LEMMA EdgesLead ==
    ASSUME NEW d \in Definitions, NEW s, NEW branch, NEW i \in NextEdges(d, s, branch)
    PROVE  i \in Nat /\ d.edges[i].target \in Steps
<1>1. d.edges \in Seq(Edge) /\ i \in DOMAIN d.edges
  BY DefinitionsAssumption DEF WellFormed, NextEdges
<1>2. i \in 1 .. Len(d.edges) /\ d.edges[i] \in Edge
  BY <1>1
<1>. QED  BY <1>2 DEF Edge

LEMMA NextOfEdges ==
    ASSUME NEW d \in Definitions, NEW s, NEW p, NEW i \in NextOf(d, s, p)
    PROVE  i \in Nat /\ d.edges[i].target \in Steps
BY EdgesLead DEF NextOf

LEMMA FirstIsStep ==
    ASSUME NEW d \in Definitions, NEW s, IsFirstStep(d, s)
    PROVE  s \in Steps
BY DefinitionsAssumption DEF IsFirstStep, WellFormed
----------------------------------------------------------------------------

LEMMA IdleTyped == IdleWorker \in WorkerRecord
BY DefinitionsAssumption DEF WorkerRecord, IdleWorker, Points

\* Updating the fields of a typed record keeps it typed.
LEMMA WorkerUpdates ==
    ASSUME NEW w \in WorkerRecord, NEW p \in Points
    PROVE  /\ [w EXCEPT !.at = p] \in WorkerRecord
           /\ \A d \in Definitions : [w EXCEPT !.at = p, !.def = d] \in WorkerRecord
           /\ \A n \in Nat : [w EXCEPT !.at = p, !.attempts = n] \in WorkerRecord
           /\ \A f \in BOOLEAN, n \in Nat :
                 [w EXCEPT !.at = p, !.found = f, !.attempts = n] \in WorkerRecord
           /\ \A S \in SUBSET Nat : [w EXCEPT !.todo = S, !.at = p] \in WorkerRecord
BY DEF WorkerRecord

LEMMA TaskUpdates ==
    ASSUME NEW r \in TaskRecord
    PROVE  /\ \A x \in {"none", "pending", "active", "archived"} :
                 [r EXCEPT !.state = x] \in TaskRecord
           /\ \A n \in 0 .. MaxRetry :
                 [state |-> "pending", retried |-> n] \in TaskRecord
           /\ [state |-> "archived", retried |-> r.retried] \in TaskRecord
           /\ r.retried < MaxRetry => r.retried + 1 \in 0 .. MaxRetry
BY BoundsAssumption DEF TaskRecord

LEMMA EnqueueTyped ==
    ASSUME TypeOK, NEW e, NEW s, Enqueue(e, s)
    PROVE  /\ task' \in [TaskIds -> TaskRecord]
           /\ lock' \in [StepKeys -> Slots \cup {NoSlot}]
<1>1. [state |-> "pending", retried |-> 0] \in TaskRecord
  BY BoundsAssumption DEF TaskRecord
<1>2. PICK g \in Slots :
         /\ task' = [task EXCEPT ![<<e, s, g>>] = [state |-> "pending", retried |-> 0]]
         /\ lock' = [lock EXCEPT ![<<e, s>>] = g]
  BY DEF Enqueue
<1>3. task \in [TaskIds -> TaskRecord] /\ lock \in [StepKeys -> Slots \cup {NoSlot}]
  BY DEF TypeOK
<1>4. task' \in [TaskIds -> TaskRecord]
  BY <1>1, <1>2, <1>3
<1>5. lock' \in [StepKeys -> Slots \cup {NoSlot}]
  BY <1>2, <1>3
<1>. QED  BY <1>4, <1>5

LEMMA GiveUpTyped ==
    ASSUME TypeOK, NEW t \in TaskIds, GiveUpOrRetry(t) \/ Archive(t)
    PROVE  /\ task' \in [TaskIds -> TaskRecord]
           /\ worker' \in [TaskIds -> WorkerRecord]
<1>1. task[t] \in TaskRecord
  BY DEF TypeOK
<1>2. CASE GiveUpOrRetry(t)
  BY <1>1, <1>2, TaskUpdates, IdleTyped DEF TypeOK, GiveUpOrRetry
<1>3. CASE Archive(t)
  BY <1>1, <1>3, TaskUpdates, IdleTyped DEF TypeOK, Archive
<1>. QED  BY <1>2, <1>3

LEMMA GoToTyped ==
    ASSUME TypeOK, NEW t \in TaskIds, NEW p \in Points, GoTo(t, p)
    PROVE  worker' \in [TaskIds -> WorkerRecord]
BY WorkerUpdates DEF TypeOK, GoTo

LEMMA FaultTyped ==
    ASSUME TypeOK, Fault
    PROVE  faults' \in 0 .. MaxFaults
BY BoundsAssumption DEF TypeOK, Fault

LEMMA TypeKept ==
    ASSUME TypeOK, [Next]_vars
    PROVE  TypeOK'
<1>1. ASSUME NEW e \in Executions, CreateExecution(e) PROVE TypeOK'
  BY <1>1 DEF CreateExecution, TypeOK, wfVars, apiVars, ExecutionStatuses, Conditions
<1>2. ASSUME NEW e \in Executions, EnqueueFirst(e) PROVE TypeOK'
  BY <1>2, EnqueueTyped DEF EnqueueFirst, TypeOK, wfVars, apiVars
<1>3. ASSUME NEW e \in Executions, EnqueueFirstFails(e) PROVE TypeOK'
  BY <1>3, FaultTyped DEF EnqueueFirstFails, TypeOK, wfVars, apiVars
<1>4. ASSUME EditWorkflow PROVE TypeOK'
  BY <1>4, BoundsAssumption
     DEF EditWorkflow, UpdateDefinition, Pause, Resume, Delete, Edit, TypeOK,
         apiVars, WorkflowStatuses
<1>5. ASSUME NEW k \in StepKeys, LockLapses(k) PROVE TypeOK'
  BY <1>5, FaultTyped DEF LockLapses, TypeOK, wfVars, apiVars
<1>6. ASSUME NEW t \in TaskIds, PickUp(t) PROVE TypeOK'
  <2>1. task' \in [TaskIds -> TaskRecord]
    BY <1>6, TaskUpdates DEF PickUp, TypeOK
  <2>2. worker' \in [TaskIds -> WorkerRecord]
    BY <1>6, IdleTyped, WorkerUpdates DEF PickUp, TypeOK, Points
  <2>. QED  BY <1>6, <2>1, <2>2 DEF PickUp, TypeOK, wfVars, apiVars
<1>7. ASSUME NEW t \in TaskIds, LoadWorkflow(t) PROVE TypeOK'
  <2>1. worker' \in [TaskIds -> WorkerRecord] /\ task' \in [TaskIds -> TaskRecord]
    <3>1. CASE t[2] \in NodesOf(workflow.definition)
      <4>1. worker[t] \in WorkerRecord /\ workflow.definition \in Definitions
        BY DEF TypeOK
      <4>2. [worker[t] EXCEPT !.at = "lookup", !.def = workflow.definition]
               \in WorkerRecord
        BY <4>1, WorkerUpdates DEF Points
      <4>. QED  BY <1>7, <3>1, <4>2 DEF LoadWorkflow, TypeOK
    <3>2. CASE t[2] \notin NodesOf(workflow.definition)
      BY <1>7, <3>2, GiveUpTyped DEF LoadWorkflow
    <3>. QED  BY <3>1, <3>2
  <2>. QED  BY <1>7, <2>1 DEF LoadWorkflow, TypeOK, wfVars, apiVars
<1>8. ASSUME NEW t \in TaskIds, LookupStep(t) PROVE TypeOK'
  <2>1. stepRow[KeyOf(t)].attempts \in Nat
    BY TaskIdParts DEF TypeOK
  <2>2. worker' \in [TaskIds -> WorkerRecord]
    <3>1. worker[t] \in WorkerRecord
      BY DEF TypeOK
    <3>2. [worker[t] EXCEPT !.at = "begin",
                            !.found = stepRow[KeyOf(t)].status # "none",
                            !.attempts = stepRow[KeyOf(t)].attempts]
             \in WorkerRecord
      BY <2>1, <3>1, WorkerUpdates DEF Points
    <3>. QED  BY <1>8, <3>2 DEF LookupStep, TypeOK
  <2>. QED  BY <1>8, <2>2 DEF LookupStep, TypeOK, wfVars, apiVars
<1>9. ASSUME NEW t \in TaskIds, BeginStep(t) PROVE TypeOK'
  <2>1. worker[t].attempts + 1 \in Nat
    BY DEF TypeOK, WorkerRecord
  <2>2. worker' \in [TaskIds -> WorkerRecord]
    BY <1>9, <2>1, WorkerUpdates DEF BeginStep, TypeOK, Points
  <2>. QED
    BY <1>9, <2>1, <2>2, TaskIdParts
       DEF BeginStep, TypeOK, wfVars, apiVars, StepStatuses
<1>10. ASSUME NEW t \in TaskIds, BeginStepRejected(t) PROVE TypeOK'
  BY <1>10, GiveUpTyped DEF BeginStepRejected, TypeOK, wfVars, apiVars
<1>11. ASSUME NEW t \in TaskIds, MarkRunning(t) PROVE TypeOK'
  <2>1. worker[t].def \in Definitions
    BY DEF TypeOK, WorkerRecord
  <2>2. NextOf(worker[t].def, t[2], origin[t[1]].payload) \in SUBSET Nat
    BY <2>1, NextOfEdges
  <2>3. worker' \in [TaskIds -> WorkerRecord]
    <3>. DEFINE next == NextOf(worker[t].def, t[2], origin[t[1]].payload)
                p == CASE TypeAt(t) = "notification" -> "notify"
                       [] TypeAt(t) = "delay" /\ next # {} -> "dispatch"
                       [] OTHER -> "complete"
    <3>1. worker' = [worker EXCEPT ![t] = [worker[t] EXCEPT !.todo = next, !.at = p]]
      BY <1>11 DEF MarkRunning
    <3>2. p \in Points
      BY DEF Points
    <3>3. next \in SUBSET Nat
      BY <2>2
    <3>4. worker \in [TaskIds -> WorkerRecord] /\ worker[t] \in WorkerRecord
      BY DEF TypeOK
    <3>. HIDE DEF next, p
    <3>5. [worker[t] EXCEPT !.todo = next, !.at = p] \in WorkerRecord
      BY <3>2, <3>3, <3>4, WorkerUpdates
    <3>. QED  BY <3>1, <3>4, <3>5
  <2>. QED
    BY <1>11, <2>3, TaskIdParts
       DEF MarkRunning, TypeOK, wfVars, apiVars, ExecutionStatuses
<1>12. ASSUME NEW t \in TaskIds, EnqueueNotification(t) PROVE TypeOK'
  BY <1>12, GoToTyped, TaskIdParts
     DEF EnqueueNotification, TypeOK, wfVars, apiVars, Points
<1>13. ASSUME NEW t \in TaskIds, NotificationFails(t) PROVE TypeOK'
  <2>1. worker' \in [TaskIds -> WorkerRecord]
    BY <1>13, GoToTyped DEF NotificationFails, Points
  <2>2. sent' \in [StepKeys -> Nat]
    BY <1>13, TaskIdParts DEF NotificationFails, TypeOK
  <2>. QED
    BY <1>13, <2>1, <2>2, FaultTyped DEF NotificationFails, TypeOK, wfVars, apiVars
<1>14. ASSUME NEW t \in TaskIds, CompleteStep(t) PROVE TypeOK'
  <2>1. worker' \in [TaskIds -> WorkerRecord]
    BY <1>14, GoToTyped DEF CompleteStep, Points
  <2>2. worker[t].attempts \in Nat
    BY DEF TypeOK, WorkerRecord
  <2>. QED
    BY <1>14, <2>1, <2>2, TaskIdParts
       DEF CompleteStep, TypeOK, wfVars, apiVars, StepStatuses
<1>15. ASSUME NEW t \in TaskIds, DispatchNext(t) PROVE TypeOK'
  <2>1. task' \in [TaskIds -> TaskRecord] /\ lock' \in [StepKeys -> Slots \cup {NoSlot}]
    BY <1>15, EnqueueTyped DEF DispatchNext
  <2>2. worker' \in [TaskIds -> WorkerRecord]
    <3>1. PICK i \in worker[t].todo :
              worker' = [worker EXCEPT ![t] =
                  [@ EXCEPT !.todo = worker[t].todo \ {i},
                            !.at = CASE worker[t].todo \ {i} # {} -> "dispatch"
                                     [] worker[t].todo \ {i} = {}
                                           /\ TypeAt(t) = "delay" -> "complete"
                                     [] OTHER -> "finish"]]
      BY <1>15 DEF DispatchNext
    <3>2. worker[t] \in WorkerRecord /\ worker[t].todo \ {i} \in SUBSET Nat
      BY DEF TypeOK, WorkerRecord
    <3>. QED  BY <3>1, <3>2, WorkerUpdates DEF TypeOK, Points
  <2>. QED  BY <1>15, <2>1, <2>2 DEF DispatchNext, TypeOK, wfVars, apiVars
<1>16. ASSUME NEW t \in TaskIds, DispatchDuplicate(t) PROVE TypeOK'
  <2>1. worker' \in [TaskIds -> WorkerRecord] /\ task' \in [TaskIds -> TaskRecord]
    BY <1>16, GoToTyped, GiveUpTyped DEF DispatchDuplicate, TypeOK, Points
  <2>. QED  BY <1>16, <2>1 DEF DispatchDuplicate, TypeOK, wfVars, apiVars
<1>17. ASSUME NEW t \in TaskIds, FinishExecution(t) PROVE TypeOK'
  <2>1. worker[t].def \in Definitions
    BY DEF TypeOK, WorkerRecord
  <2>2. worker' \in [TaskIds -> WorkerRecord]
    BY <1>17, GoToTyped DEF FinishExecution, Points
  <2>3. execution' \in [Executions -> [status : ExecutionStatuses,
                                       current : Steps \cup {NoStep}]]
    <3>1. CASE execution' = [execution EXCEPT ![t[1]] =
                               [status |-> "completed", current |-> NoStep]]
      BY <3>1, TaskIdParts DEF TypeOK, ExecutionStatuses
    <3>2. ASSUME NEW i \in NextOf(worker[t].def, t[2], origin[t[1]].payload),
                 execution' = [execution EXCEPT ![t[1]] =
                     [status |-> "queued",
                      current |-> worker[t].def.edges[i].target]]
          PROVE  execution' \in [Executions -> [status : ExecutionStatuses,
                                               current : Steps \cup {NoStep}]]
      <4>1. worker[t].def.edges[i].target \in Steps
        BY <2>1, NextOfEdges
      <4>. QED  BY <3>2, <4>1, TaskIdParts DEF TypeOK, ExecutionStatuses
    <3>. QED  BY <1>17, <3>1, <3>2 DEF FinishExecution, IsLeast
  <2>. QED  BY <1>17, <2>2, <2>3 DEF FinishExecution, TypeOK, wfVars, apiVars
<1>18. ASSUME NEW t \in TaskIds, Acknowledge(t) PROVE TypeOK'
  <2>1. [state |-> "none", retried |-> 0] \in TaskRecord
    BY BoundsAssumption DEF TaskRecord
  <2>. QED
    BY <1>18, <2>1, IdleTyped, TaskIdParts
       DEF Acknowledge, TypeOK, wfVars, apiVars, NoSlot
<1>19. ASSUME NEW t \in TaskIds, FailStep(t) PROVE TypeOK'
  <2>1. worker' \in [TaskIds -> WorkerRecord]
    BY <1>19, GoToTyped DEF FailStep, Points
  <2>2. worker[t].attempts \in Nat
    BY DEF TypeOK, WorkerRecord
  <2>. QED
    BY <1>19, <2>1, <2>2, TaskIdParts
       DEF FailStep, TypeOK, wfVars, apiVars, StepStatuses
<1>20. ASSUME NEW t \in TaskIds, FailExecution(t) PROVE TypeOK'
  BY <1>20, GiveUpTyped, TaskIdParts
     DEF FailExecution, TypeOK, wfVars, apiVars, ExecutionStatuses
<1>21. ASSUME NEW t \in TaskIds, HandlerFails(t) PROVE TypeOK'
  BY <1>21, GiveUpTyped, FaultTyped DEF HandlerFails, TypeOK, wfVars, apiVars
<1>22. CASE UNCHANGED vars
  BY <1>22 DEF TypeOK, vars
<1>. QED
  BY <1>1, <1>2, <1>3, <1>4, <1>5, <1>6, <1>7, <1>8, <1>9, <1>10, <1>11,
     <1>12, <1>13, <1>14, <1>15, <1>16, <1>17, <1>18, <1>19, <1>20, <1>21,
     <1>22
     DEF Next, TriggerEvent, ProcessStep, Disturb

LEMMA TypeAtFirst ==
    ASSUME Init
    PROVE  TypeOK
BY DefinitionsAssumption, BoundsAssumption, IdleTyped
   DEF Init, TypeOK, WorkflowStatuses, ExecutionStatuses, StepStatuses,
       TaskRecord, NoSlot

\* Type correctness: every action keeps every variable in its range, whatever
\* the executions, the definitions and the bounds.
THEOREM TypeCorrect == Spec => []TypeOK
<1>1. Init => TypeOK
  BY TypeAtFirst
<1>2. TypeOK /\ [Next]_vars => TypeOK'
  BY TypeKept
<1>3. QED  BY <1>1, <1>2, PTL DEF Spec
----------------------------------------------------------------------------
(***************************************************************************)
(* Two safety invariants: a step never has two tasks while locks hold, and *)
(* every step that is queued or run was led to by an edge.                 *)
(***************************************************************************)

\* A task that exists holds the unique lock of its payload.
LockHeld ==
    ~ LocksLapse =>
        \A t \in TaskIds : task[t].state # "none" => lock[KeyOf(t)] = t[3]

LEMMA EnqueueKeepsLocks ==
    ASSUME TypeOK, LockHeld, NEW e, NEW s, Enqueue(e, s)
    PROVE  LockHeld'
<1>. SUFFICES ASSUME ~ LocksLapse, NEW t \in TaskIds, task'[t].state # "none"
              PROVE  lock'[KeyOf(t)] = t[3]
  BY DEF LockHeld
<1>1. PICK g \in Slots :
         /\ task' = [task EXCEPT ![<<e, s, g>>] = [state |-> "pending", retried |-> 0]]
         /\ lock' = [lock EXCEPT ![<<e, s>>] = g]
  BY DEF Enqueue
<1>2. KeyOf(t) \in StepKeys /\ t = <<t[1], t[2], t[3]>>
  BY TaskIdParts
<1>3. CASE t = <<e, s, g>>
  BY <1>1, <1>2, <1>3 DEF TypeOK, KeyOf
<1>4. CASE t # <<e, s, g>>
  <2>1. task[t].state # "none"
    BY <1>1, <1>4 DEF TypeOK
  <2>2. lock[KeyOf(t)] = t[3] /\ t[3] # NoSlot
    BY <2>1, TaskIdParts DEF LockHeld, Slots, NoSlot
  <2>3. KeyOf(t) # <<e, s>>
    BY <2>2 DEF Enqueue
  <2>. QED  BY <1>1, <1>2, <2>2, <2>3 DEF TypeOK
<1>. QED  BY <1>3, <1>4

LEMMA UpdateKeepsLocks ==
    ASSUME TypeOK, LockHeld, NEW t \in TaskIds, task[t].state # "none", lock' = lock,
           NEW r, task' = [task EXCEPT ![t] = r]
    PROVE  LockHeld'
BY DEF LockHeld, TypeOK

LEMMA AcknowledgeKeepsLocks ==
    ASSUME TypeOK, LockHeld, NEW t \in TaskIds, Acknowledge(t)
    PROVE  LockHeld'
<1>. SUFFICES ASSUME ~ LocksLapse, NEW u \in TaskIds, task'[u].state # "none"
              PROVE  lock'[KeyOf(u)] = u[3]
  BY DEF LockHeld
<1>1. u # t /\ task[u].state # "none" /\ task[t].state # "none"
  BY DEF Acknowledge, At, TypeOK
<1>2. lock[KeyOf(u)] = u[3] /\ lock[KeyOf(t)] = t[3]
  BY <1>1 DEF LockHeld
<1>3. KeyOf(u) # KeyOf(t)
  BY <1>1, <1>2, TaskIdParts DEF KeyOf
<1>. QED  BY <1>2, <1>3, TaskIdParts DEF Acknowledge, TypeOK

LEMMA LocksStayHeld ==
    ASSUME TypeOK, LockHeld, [Next]_vars
    PROVE  LockHeld'
<1>1. ASSUME UNCHANGED <<task, lock>> PROVE LockHeld'
  BY <1>1 DEF LockHeld
<1>2. ASSUME NEW t \in TaskIds, task[t].state # "none", lock' = lock,
             GiveUpOrRetry(t) \/ Archive(t)
      PROVE  LockHeld'
  BY <1>2, UpdateKeepsLocks DEF GiveUpOrRetry, Archive
<1>3. ASSUME NEW e \in Executions, TriggerEvent(e) PROVE LockHeld'
  BY <1>1, <1>3, EnqueueKeepsLocks
     DEF TriggerEvent, CreateExecution, EnqueueFirst, EnqueueFirstFails
<1>4. ASSUME NEW t \in TaskIds, PickUp(t) PROVE LockHeld'
  <2>1. task[t].state # "none" /\ lock' = lock
    BY <1>4 DEF PickUp
  <2>. QED  BY <1>4, <2>1, UpdateKeepsLocks DEF PickUp
<1>5. ASSUME NEW t \in TaskIds, ProcessStep(t) PROVE LockHeld'
  <2>1. task[t].state # "none"
    BY <1>5 DEF ProcessStep, LoadWorkflow, LookupStep, BeginStep, BeginStepRejected,
          MarkRunning, EnqueueNotification, CompleteStep, DispatchNext,
          DispatchDuplicate, FinishExecution, Acknowledge, FailStep, FailExecution, At
  <2>2. CASE LoadWorkflow(t) \/ BeginStepRejected(t) \/ DispatchDuplicate(t)
                \/ FailExecution(t)
    BY <1>1, <1>2, <2>1, <2>2
       DEF LoadWorkflow, BeginStepRejected, DispatchDuplicate, FailExecution
  <2>3. CASE LookupStep(t) \/ BeginStep(t) \/ MarkRunning(t) \/ EnqueueNotification(t)
                \/ CompleteStep(t) \/ FinishExecution(t) \/ FailStep(t)
    BY <1>1, <2>3 DEF LookupStep, BeginStep, MarkRunning, EnqueueNotification,
       CompleteStep, FinishExecution, FailStep
  <2>4. CASE DispatchNext(t)
    BY <2>4, EnqueueKeepsLocks DEF DispatchNext
  <2>5. CASE Acknowledge(t)
    BY <2>5, AcknowledgeKeepsLocks
  <2>. QED  BY <1>5, <2>2, <2>3, <2>4, <2>5 DEF ProcessStep
<1>6. ASSUME NEW t \in TaskIds, Disturb(t) PROVE LockHeld'
  BY <1>1, <1>2, <1>6 DEF Disturb, NotificationFails, HandlerFails
<1>7. ASSUME NEW k \in StepKeys, LockLapses(k) PROVE LockHeld'
  BY <1>7 DEF LockLapses, LockHeld
<1>8. CASE EditWorkflow
  BY <1>1, <1>8 DEF EditWorkflow, UpdateDefinition, Pause, Resume, Delete, Edit
<1>9. CASE UNCHANGED vars
  BY <1>1, <1>9 DEF vars
<1>. QED
  BY <1>3, <1>4, <1>5, <1>6, <1>7, <1>8, <1>9 DEF Next

\* While unique locks do not lapse, the queue never holds two tasks for one
\* step of an execution, so Service.ProcessStep never runs a step twice at once.
THEOREM OneTask == Spec => []OneTaskPerStep
<1>1. Init => LockHeld
  BY DEF Init, LockHeld
<1>2. TypeOK /\ LockHeld /\ [Next]_vars => LockHeld'
  BY LocksStayHeld
<1>3. TypeOK /\ LockHeld => OneTaskPerStep
  <2>. SUFFICES ASSUME LockHeld, ~ LocksLapse,
                       NEW e \in Executions, NEW s \in Steps,
                       NEW g \in Slots, NEW h \in Slots,
                       task[<<e, s, g>>].state # "none",
                       task[<<e, s, h>>].state # "none"
                PROVE  g = h
    BY DEF OneTaskPerStep
  <2>1. <<e, s, g>> \in TaskIds /\ <<e, s, h>> \in TaskIds
    BY DEF TaskIds
  <2>. QED  BY <2>1 DEF LockHeld, KeyOf
<1>. QED  BY <1>1, <1>2, <1>3, TypeCorrect, PTL DEF Spec
----------------------------------------------------------------------------
(***************************************************************************)
(* Causality. StepsFollowEdges is not inductive alone: an enqueue follows  *)
(* an edge only because the handler chose it from the definition it read,  *)
(* under the payload of the trigger, for a step that had already begun.    *)
(***************************************************************************)

\* The points at which the handler has a definition, and has begun the step.
Begins == {"lookup", "begin"}
Runs   == Points \ ({"idle", "load"} \cup Begins)

\* Nothing of an execution is queued before TriggerEvent enqueues its first step.
TriggerFirst ==
    \A e \in Executions :
        /\ trigger[e] # "enqueued" => \A s \in Steps : ~ Reached(e, s)
        /\ trigger[e] = "created" =>
              \E d \in workflow.versions : IsFirstStep(d, execution[e].current)

\* What a handler holds: a version of the definition that has the step, and
\* edges out of the step that its payload selects.
HandlerKnows(t) ==
    /\ worker[t].at \in Begins \cup Runs =>
          worker[t].def \in workflow.versions /\ t[2] \in NodesOf(worker[t].def)
    /\ worker[t].at \in Runs => Begun(t[1], t[2])
    /\ worker[t].todo # {} => worker[t].at \in Runs
    /\ worker[t].todo \subseteq NextOf(worker[t].def, t[2], origin[t[1]].payload)

HandlersKnow == \A t \in TaskIds : HandlerKnows(t)

CausalityInv == TypeOK /\ TriggerFirst /\ HandlersKnow /\ StepsFollowEdges

\* What no step undoes: a version, and that a step began.
Lasting ==
    /\ workflow.versions \subseteq workflow'.versions
    /\ \A e \in Executions, s \in Steps : Begun(e, s) => Begun(e, s)'

LEMMA NodesAreSteps ==
    ASSUME NEW d \in Definitions, NEW p \in NodesOf(d)
    PROVE  p \in Steps
<1>1. d.nodes \in Seq(Steps)
  BY DefinitionsAssumption DEF WellFormed
<1>2. PICK i \in DOMAIN d.nodes : p = d.nodes[i]
  BY DEF NodesOf
<1>. QED  BY <1>1, <1>2

LEMMA Lasts ==
    ASSUME TypeOK, [Next]_vars
    PROVE  Lasting
<1>1. ASSUME workflow' = workflow, stepRow' = stepRow PROVE Lasting
  BY <1>1 DEF Lasting, Begun
<1>2. ASSUME NEW t \in TaskIds, workflow' = workflow, NEW r, r.status # "none",
             stepRow' = [stepRow EXCEPT ![KeyOf(t)] = r]
      PROVE  Lasting
  BY <1>2, TaskIdParts DEF Lasting, Begun, TypeOK, StepKeys
<1>3. ASSUME NEW t \in TaskIds, PickUp(t) \/ ProcessStep(t) \/ Disturb(t) PROVE Lasting
  <2>1. CASE BeginStep(t)
    <3>. DEFINE r == [status |-> "running", attempts |-> worker[t].attempts + 1]
    <3>1. r.status # "none" /\ workflow' = workflow
      BY <2>1 DEF BeginStep, wfVars
    <3>2. stepRow' = [stepRow EXCEPT ![KeyOf(t)] = r]
      BY <2>1 DEF BeginStep
    <3>. HIDE DEF r
    <3>. QED  BY <1>2, <3>1, <3>2
  <2>2. CASE CompleteStep(t)
    <3>. DEFINE r == [status |-> "completed", attempts |-> worker[t].attempts]
    <3>1. r.status # "none" /\ workflow' = workflow
      BY <2>2 DEF CompleteStep, wfVars
    <3>2. stepRow' = [stepRow EXCEPT ![KeyOf(t)] = r]
      BY <2>2 DEF CompleteStep
    <3>. HIDE DEF r
    <3>. QED  BY <1>2, <3>1, <3>2
  <2>3. CASE FailStep(t)
    <3>. DEFINE r == [status |-> "failed", attempts |-> worker[t].attempts]
    <3>1. r.status # "none" /\ workflow' = workflow
      BY <2>3 DEF FailStep, wfVars
    <3>2. stepRow' = [stepRow EXCEPT ![KeyOf(t)] = r]
      BY <2>3 DEF FailStep
    <3>. HIDE DEF r
    <3>. QED  BY <1>2, <3>1, <3>2
  <2>4. CASE ~ (BeginStep(t) \/ CompleteStep(t) \/ FailStep(t))
    BY <1>1, <1>3, <2>4
       DEF PickUp, ProcessStep, Disturb, LoadWorkflow, LookupStep, BeginStepRejected,
           MarkRunning, EnqueueNotification, DispatchNext, DispatchDuplicate,
           FinishExecution, Acknowledge, FailExecution, NotificationFails,
           HandlerFails, wfVars
  <2>. QED  BY <2>1, <2>2, <2>3, <2>4
<1>4. ASSUME NEW e \in Executions, TriggerEvent(e) PROVE Lasting
  BY <1>1, <1>4
     DEF TriggerEvent, CreateExecution, EnqueueFirst, EnqueueFirstFails, wfVars
<1>5. ASSUME NEW k \in StepKeys, LockLapses(k) PROVE Lasting
  BY <1>1, <1>5 DEF LockLapses, wfVars
<1>6. CASE EditWorkflow
  BY <1>6 DEF EditWorkflow, UpdateDefinition, Pause, Resume, Delete, Edit, Lasting,
       Begun, TypeOK
<1>7. CASE UNCHANGED vars
  BY <1>1, <1>7 DEF vars
<1>. QED  BY <1>3, <1>4, <1>5, <1>6, <1>7 DEF Next

LEMMA LedToLasts ==
    ASSUME Lasting, NEW d \in Definitions, NEW e \in Executions, NEW s,
           origin'[e] = origin[e], LedTo(d, e, s)
    PROVE  LedTo(d, e, s)'
<1>1. CASE IsFirstStep(d, s)
  BY <1>1 DEF LedTo
<1>2. CASE ~ IsFirstStep(d, s)
  <2>1. PICK p \in NodesOf(d) : Begun(e, p) /\ s \in Successors(d, p, origin[e].payload)
    BY <1>2 DEF LedTo
  <2>2. Begun(e, p)'
    BY <2>1, NodesAreSteps DEF Lasting
  <2>. QED  BY <2>1, <2>2 DEF LedTo
<1>. QED  BY <1>1, <1>2

LEMMA KnowledgeLasts ==
    ASSUME Lasting, NEW t \in TaskIds, HandlerKnows(t), worker'[t] = worker[t],
           worker[t].todo = {} \/ origin'[t[1]] = origin[t[1]]
    PROVE  HandlerKnows(t)'
<1>1. worker'[t].at \in Begins \cup Runs =>
         worker'[t].def \in workflow'.versions /\ t[2] \in NodesOf(worker'[t].def)
  BY DEF HandlerKnows, Lasting
<1>2. worker'[t].at \in Runs => Begun(t[1], t[2])'
  BY TaskIdParts DEF HandlerKnows, Lasting
<1>3. worker'[t].todo # {} => worker'[t].at \in Runs
  BY DEF HandlerKnows
<1>4. worker'[t].todo \subseteq NextOf(worker'[t].def, t[2], origin'[t[1]].payload)
  BY DEF HandlerKnows
<1>. QED  BY <1>1, <1>2, <1>3, <1>4 DEF HandlerKnows

LEMMA IdleKnows ==
    ASSUME NEW t \in TaskIds, worker'[t] = IdleWorker
    PROVE  HandlerKnows(t)'
BY DEF HandlerKnows, IdleWorker, Begins, Runs

\* A step of the handler of t, or of the queue on t: it may change the rows of
\* the step and of the execution, the task t, and hand led-to steps to the queue.
LEMMA HandlerStep ==
    ASSUME CausalityInv, TypeOK', Lasting, NEW t \in TaskIds,
           Outstanding(t[1], t[2]),
           workflow' = workflow, trigger' = trigger, origin' = origin,
           \A e \in Executions : e # t[1] => execution'[e] = execution[e],
           \A e \in Executions, s \in Steps :
              Reached(e, s)' => \/ Reached(e, s)
                                \/ /\ e = t[1]
                                   /\ \E d \in workflow.versions : LedTo(d, e, s),
           \A u \in TaskIds : u # t => worker'[u] = worker[u],
           HandlerKnows(t)'
    PROVE  CausalityInv'
<1>1. t[1] \in Executions /\ t[2] \in Steps
  BY TaskIdParts
<1>2. trigger[t[1]] = "enqueued"
  BY <1>1 DEF CausalityInv, TriggerFirst, Reached
<1>3. TriggerFirst'
  BY <1>2 DEF CausalityInv, TriggerFirst
<1>4. HandlersKnow'
  BY KnowledgeLasts DEF CausalityInv, HandlersKnow
<1>5. StepsFollowEdges'
  <2>. SUFFICES ASSUME NEW e \in Executions, NEW s \in Steps, Reached(e, s)'
                PROVE  \E d \in workflow'.versions : LedTo(d, e, s)'
    BY DEF StepsFollowEdges
  <2>1. PICK d \in workflow.versions : LedTo(d, e, s)
    BY DEF CausalityInv, StepsFollowEdges
  <2>2. d \in Definitions
    BY <2>1 DEF CausalityInv, TypeOK
  <2>. QED  BY <2>1, <2>2, LedToLasts
<1>. QED  BY <1>3, <1>4, <1>5 DEF CausalityInv

LEMMA ActiveOutstanding ==
    ASSUME NEW t \in TaskIds, task[t].state # "none"
    PROVE  Outstanding(t[1], t[2])
BY TaskIdParts DEF Outstanding

\* A handler that enqueues nothing reaches no new step.
LEMMA NothingNew ==
    ASSUME TypeOK, NEW t \in TaskIds, task[t].state # "none",
           task' = task \/ \E r : task' = [task EXCEPT ![t] = r],
           stepRow' = stepRow \/ \E r : stepRow' = [stepRow EXCEPT ![KeyOf(t)] = r],
           NEW e \in Executions, NEW s \in Steps, Reached(e, s)'
    PROVE  Reached(e, s)
<1>1. CASE e = t[1] /\ s = t[2]
  BY <1>1, ActiveOutstanding DEF Reached
<1>2. CASE ~ (e = t[1] /\ s = t[2])
  <2>1. stepRow'[<<e, s>>] = stepRow[<<e, s>>]
    BY <1>2 DEF TypeOK, StepKeys, KeyOf
  <2>2. \A g \in Slots : task'[<<e, s, g>>] = task[<<e, s, g>>]
    BY <1>2, TaskIdParts DEF TypeOK, TaskIds
  <2>. QED  BY <2>1, <2>2 DEF Reached, Begun, Outstanding
<1>. QED  BY <1>1, <1>2

\* The handler gives its task back to the queue.
LEMMA ReturnStep ==
    ASSUME CausalityInv, TypeOK', Lasting, NEW t \in TaskIds, task[t].state # "none",
           workflow' = workflow, trigger' = trigger, origin' = origin,
           \A e \in Executions : e # t[1] => execution'[e] = execution[e],
           stepRow' = stepRow,
           GiveUpOrRetry(t) \/ Archive(t)
    PROVE  CausalityInv'
<1>1. \E r : task' = [task EXCEPT ![t] = r]
  BY DEF GiveUpOrRetry, Archive
<1>2. worker'[t] = IdleWorker /\ \A u \in TaskIds : u # t => worker'[u] = worker[u]
  BY DEF GiveUpOrRetry, Archive, CausalityInv, TypeOK
<1>3. \A e \in Executions, s \in Steps : Reached(e, s)' => Reached(e, s)
  BY <1>1, NothingNew DEF CausalityInv
<1>. QED  BY <1>2, <1>3, HandlerStep, ActiveOutstanding, IdleKnows

\* A step of the handler that keeps its task, moves on to another point and
\* enqueues nothing.
LEMMA AdvanceStep ==
    ASSUME CausalityInv, TypeOK', Lasting, NEW t \in TaskIds, task[t].state # "none",
           workflow' = workflow, trigger' = trigger, origin' = origin, task' = task,
           \A e \in Executions : e # t[1] => execution'[e] = execution[e],
           stepRow' = stepRow \/ \E r : stepRow' = [stepRow EXCEPT ![KeyOf(t)] = r],
           \E w : worker' = [worker EXCEPT ![t] = w],
           HandlerKnows(t)'
    PROVE  CausalityInv'
<1>1. \A u \in TaskIds : u # t => worker'[u] = worker[u]
  BY DEF CausalityInv, TypeOK
<1>2. \A e \in Executions, s \in Steps : Reached(e, s)' => Reached(e, s)
  BY NothingNew DEF CausalityInv
<1>. QED  BY <1>1, <1>2, HandlerStep, ActiveOutstanding

\* A handler that keeps the definition, and has begun the step, still knows.
LEMMA GoToKnows ==
    ASSUME CausalityInv, Lasting, NEW t \in TaskIds, NEW p \in Runs,
           workflow' = workflow, origin' = origin,
           worker[t].at \in Runs, GoTo(t, p)
    PROVE  HandlerKnows(t)'
<1>1. worker[t] \in WorkerRecord
  BY DEF CausalityInv, TypeOK
<1>2. worker'[t] = [worker[t] EXCEPT !.at = p]
  BY DEF GoTo, CausalityInv, TypeOK
<1>3. /\ worker'[t].at = p
      /\ worker'[t].def = worker[t].def
      /\ worker'[t].todo = worker[t].todo
  BY <1>1, <1>2 DEF WorkerRecord
<1>4. HandlerKnows(t) /\ t[1] \in Executions /\ t[2] \in Steps
  BY TaskIdParts DEF CausalityInv, HandlersKnow
<1>5. Begun(t[1], t[2])'
  BY <1>4 DEF HandlerKnows, Lasting
<1>. QED  BY <1>3, <1>4, <1>5 DEF HandlerKnows, Begins, Runs

\* TriggerEvent creates an execution nothing of which is queued.
LEMMA CreateCausal ==
    ASSUME CausalityInv, TypeOK', Lasting, NEW e \in Executions, CreateExecution(e)
    PROVE  CausalityInv'
<1>1. \A x \in Executions, s \in Steps : Reached(x, s)' <=> Reached(x, s)
  BY DEF CreateExecution, Reached, Begun, Outstanding
<1>2. \A s \in Steps : ~ Reached(e, s)
  BY DEF CreateExecution, CausalityInv, TriggerFirst
<1>3. workflow' = workflow /\ worker' = worker
  BY DEF CreateExecution, wfVars
<1>4. \A x \in Executions : x # e => /\ execution'[x] = execution[x]
                                     /\ trigger'[x] = trigger[x]
                                     /\ origin'[x] = origin[x]
  BY DEF CreateExecution, CausalityInv, TypeOK
<1>5. trigger'[e] = "created" /\ IsFirstStep(workflow.definition, execution'[e].current)
  BY DEF CreateExecution, CausalityInv, TypeOK
<1>6. TriggerFirst'
  <2>1. workflow.definition \in workflow.versions
    BY DEF CausalityInv, TypeOK
  <2>. QED
    BY <1>1, <1>2, <1>3, <1>4, <1>5, <2>1 DEF CausalityInv, TriggerFirst
<1>7. HandlersKnow'
  <2>. SUFFICES ASSUME NEW t \in TaskIds PROVE HandlerKnows(t)'
    BY DEF HandlersKnow
  <2>1. HandlerKnows(t) /\ t[1] \in Executions /\ t[2] \in Steps
    BY TaskIdParts DEF CausalityInv, HandlersKnow
  <2>2. t[1] = e => worker[t].todo = {}
    BY <1>2, <2>1 DEF HandlerKnows, Reached
  <2>. QED  BY <1>3, <1>4, <2>1, <2>2, KnowledgeLasts
<1>8. StepsFollowEdges'
  <2>. SUFFICES ASSUME NEW x \in Executions, NEW s \in Steps, Reached(x, s)'
                PROVE  \E d \in workflow'.versions : LedTo(d, x, s)'
    BY DEF StepsFollowEdges
  <2>1. Reached(x, s) /\ x # e
    BY <1>1, <1>2
  <2>2. PICK d \in workflow.versions : LedTo(d, x, s)
    BY <2>1 DEF CausalityInv, StepsFollowEdges
  <2>3. d \in Definitions
    BY <2>2 DEF CausalityInv, TypeOK
  <2>. QED  BY <1>3, <1>4, <2>1, <2>2, <2>3, LedToLasts
<1>. QED  BY <1>6, <1>7, <1>8 DEF CausalityInv

\* What an enqueue reaches.
LEMMA EnqueueReaches ==
    ASSUME TypeOK, NEW e, NEW s, Enqueue(e, s), stepRow' = stepRow,
           NEW x \in Executions, NEW n \in Steps, Reached(x, n)'
    PROVE  Reached(x, n) \/ (x = e /\ n = s)
<1>1. PICK g \in Slots :
         task' = [task EXCEPT ![<<e, s, g>>] = [state |-> "pending", retried |-> 0]]
  BY DEF Enqueue
<1>. SUFFICES ASSUME ~ (x = e /\ n = s) PROVE Reached(x, n)
  OBVIOUS
<1>2. \A h \in Slots : task'[<<x, n, h>>] = task[<<x, n, h>>]
  BY <1>1 DEF TypeOK, TaskIds
<1>. QED  BY <1>2 DEF Reached, Begun, Outstanding

\* TriggerEvent enqueues the step it chose when it created the execution.
LEMMA EnqueueFirstCausal ==
    ASSUME CausalityInv, TypeOK', Lasting, NEW e \in Executions, EnqueueFirst(e)
    PROVE  CausalityInv'
<1>1. /\ workflow' = workflow /\ worker' = worker /\ origin' = origin
      /\ stepRow' = stepRow /\ execution' = execution
  BY DEF EnqueueFirst, wfVars
<1>2. \A x \in Executions, n \in Steps :
         Reached(x, n)' => Reached(x, n) \/ (x = e /\ n = execution[e].current)
  BY <1>1, EnqueueReaches DEF EnqueueFirst, CausalityInv
<1>3. TriggerFirst'
  BY <1>1, <1>2 DEF EnqueueFirst, CausalityInv, TriggerFirst, TypeOK
<1>4. HandlersKnow'
  BY <1>1, KnowledgeLasts DEF CausalityInv, HandlersKnow
<1>5. StepsFollowEdges'
  <2>. SUFFICES ASSUME NEW x \in Executions, NEW n \in Steps, Reached(x, n)'
                PROVE  \E d \in workflow'.versions : LedTo(d, x, n)'
    BY DEF StepsFollowEdges
  <2>1. PICK d \in workflow.versions : LedTo(d, x, n)
    BY <1>2 DEF EnqueueFirst, CausalityInv, TriggerFirst, StepsFollowEdges, LedTo
  <2>2. d \in Definitions
    BY <2>1 DEF CausalityInv, TypeOK
  <2>. QED  BY <1>1, <2>1, <2>2, LedToLasts
<1>. QED  BY <1>3, <1>4, <1>5 DEF CausalityInv

\* What ProcessStep does to the handler it runs in, one action at a time.
LEMMA LoadCausal ==
    ASSUME CausalityInv, TypeOK', Lasting, NEW t \in TaskIds, LoadWorkflow(t)
    PROVE  CausalityInv'
<1>1. /\ task[t].state # "none"
      /\ workflow' = workflow /\ trigger' = trigger /\ origin' = origin
      /\ stepRow' = stepRow /\ execution' = execution
  BY DEF LoadWorkflow, At, wfVars, apiVars
<1>2. CASE t[2] \in NodesOf(workflow.definition)
  <2>. DEFINE w == [worker[t] EXCEPT !.at = "lookup", !.def = workflow.definition]
  <2>1. worker' = [worker EXCEPT ![t] = w] /\ task' = task
    BY <1>2 DEF LoadWorkflow
  <2>2. worker[t] \in WorkerRecord /\ worker[t].at = "load" /\ worker[t].todo = {}
    BY DEF LoadWorkflow, At, CausalityInv, TypeOK, HandlersKnow, HandlerKnows, Runs
  <2>3. w.at = "lookup" /\ w.def = workflow.definition /\ w.todo = {}
    BY <2>2 DEF WorkerRecord
  <2>4. worker'[t] = w
    BY <2>1 DEF CausalityInv, TypeOK
  <2>. HIDE DEF w
  <2>5. HandlerKnows(t)'
    BY <1>1, <1>2, <2>3, <2>4 DEF HandlerKnows, Begins, Runs, CausalityInv, TypeOK
  <2>. QED  BY <1>1, <2>1, <2>5, AdvanceStep
<1>3. CASE t[2] \notin NodesOf(workflow.definition)
  BY <1>1, <1>3, ReturnStep DEF LoadWorkflow
<1>. QED  BY <1>2, <1>3

LEMMA LookupCausal ==
    ASSUME CausalityInv, TypeOK', Lasting, NEW t \in TaskIds, LookupStep(t)
    PROVE  CausalityInv'
<1>. DEFINE w == [worker[t] EXCEPT !.at = "begin",
                                   !.found = stepRow[KeyOf(t)].status # "none",
                                   !.attempts = stepRow[KeyOf(t)].attempts]
<1>1. /\ task[t].state # "none" /\ worker[t].at = "lookup"
      /\ workflow' = workflow /\ trigger' = trigger /\ origin' = origin
      /\ task' = task /\ stepRow' = stepRow /\ execution' = execution
      /\ worker' = [worker EXCEPT ![t] = w]
  BY DEF LookupStep, At, wfVars, apiVars
<1>2. w.at = "begin" /\ w.def = worker[t].def /\ w.todo = worker[t].todo
  BY DEF WorkerRecord, CausalityInv, TypeOK
<1>3. worker'[t] = w
  BY <1>1 DEF CausalityInv, TypeOK
<1>. HIDE DEF w
<1>4. HandlerKnows(t)'
  BY <1>1, <1>2, <1>3 DEF HandlerKnows, HandlersKnow, Begins, Runs, CausalityInv
<1>. QED  BY <1>1, <1>4, AdvanceStep

LEMMA BeginCausal ==
    ASSUME CausalityInv, TypeOK', Lasting, NEW t \in TaskIds, BeginStep(t)
    PROVE  CausalityInv'
<1>. DEFINE n == worker[t].attempts + 1
            w == [worker[t] EXCEPT !.at = "mark", !.attempts = n]
<1>1. /\ task[t].state # "none" /\ worker[t].at = "begin"
      /\ workflow' = workflow /\ trigger' = trigger /\ origin' = origin
      /\ task' = task /\ execution' = execution
      /\ worker' = [worker EXCEPT ![t] = w]
      /\ stepRow' = [stepRow EXCEPT ![KeyOf(t)] = [status |-> "running", attempts |-> n]]
  BY DEF BeginStep, At, wfVars, apiVars
<1>2. w.at = "mark" /\ w.def = worker[t].def /\ w.todo = worker[t].todo
  BY DEF WorkerRecord, CausalityInv, TypeOK
<1>3. worker'[t] = w
  BY <1>1 DEF CausalityInv, TypeOK
<1>4. Begun(t[1], t[2])'
  BY <1>1, TaskIdParts DEF Begun, CausalityInv, TypeOK, KeyOf
<1>5. \E r : stepRow' = [stepRow EXCEPT ![KeyOf(t)] = r]
  BY <1>1
<1>. HIDE DEF w
<1>6. HandlerKnows(t)'
  BY <1>1, <1>2, <1>3, <1>4
     DEF HandlerKnows, HandlersKnow, Begins, Runs, Points, CausalityInv
<1>. QED  BY <1>1, <1>5, <1>6, AdvanceStep

LEMMA MarkCausal ==
    ASSUME CausalityInv, TypeOK', Lasting, NEW t \in TaskIds, MarkRunning(t)
    PROVE  CausalityInv'
<1>. DEFINE next == NextOf(worker[t].def, t[2], origin[t[1]].payload)
            p == CASE TypeAt(t) = "notification" -> "notify"
                   [] TypeAt(t) = "delay" /\ next # {} -> "dispatch"
                   [] OTHER -> "complete"
            w == [worker[t] EXCEPT !.todo = next, !.at = p]
<1>1. /\ task[t].state # "none" /\ worker[t].at = "mark"
      /\ workflow' = workflow /\ trigger' = trigger /\ origin' = origin
      /\ task' = task /\ stepRow' = stepRow
      /\ worker' = [worker EXCEPT ![t] = w]
  BY DEF MarkRunning, At, wfVars, apiVars
<1>2. \A e \in Executions : e # t[1] => execution'[e] = execution[e]
  BY DEF MarkRunning, CausalityInv, TypeOK
<1>3. p \in Runs
  BY DEF Runs, Begins, Points
<1>4. w.at = p /\ w.def = worker[t].def /\ w.todo = next
  <2>. HIDE DEF p, next
  <2>. QED  BY DEF WorkerRecord, CausalityInv, TypeOK
<1>5. worker'[t] = w
  BY <1>1 DEF CausalityInv, TypeOK
<1>6. Begun(t[1], t[2])'
  BY <1>1, TaskIdParts DEF HandlersKnow, HandlerKnows, CausalityInv, Lasting, Runs,
     Begins, Points
<1>7. next = NextOf(w.def, t[2], origin'[t[1]].payload)
  BY <1>1, <1>4
<1>8. worker[t].def \in workflow'.versions /\ t[2] \in NodesOf(worker[t].def)
  BY <1>1 DEF HandlersKnow, HandlerKnows, CausalityInv, Lasting, Runs, Begins, Points
<1>. HIDE DEF w, p, next
<1>9. HandlerKnows(t)'
  BY <1>3, <1>4, <1>5, <1>6, <1>7, <1>8 DEF HandlerKnows
<1>. QED  BY <1>1, <1>2, <1>9, AdvanceStep

LEMMA DispatchCausal ==
    ASSUME CausalityInv, TypeOK', Lasting, NEW t \in TaskIds, DispatchNext(t)
    PROVE  CausalityInv'
<1>1. /\ task[t].state # "none" /\ worker[t].at = "dispatch"
      /\ workflow' = workflow /\ trigger' = trigger /\ origin' = origin
      /\ stepRow' = stepRow /\ execution' = execution
  BY DEF DispatchNext, At, wfVars, apiVars
<1>2. PICK i \in worker[t].todo :
         /\ Enqueue(t[1], worker[t].def.edges[i].target)
         /\ worker' = [worker EXCEPT ![t] =
               [@ EXCEPT !.todo = worker[t].todo \ {i},
                         !.at = CASE worker[t].todo \ {i} # {} -> "dispatch"
                                  [] worker[t].todo \ {i} = {}
                                        /\ TypeAt(t) = "delay" -> "complete"
                                  [] OTHER -> "finish"]]
  BY DEF DispatchNext
<1>. DEFINE target == worker[t].def.edges[i].target
            p == CASE worker[t].todo \ {i} # {} -> "dispatch"
                   [] worker[t].todo \ {i} = {} /\ TypeAt(t) = "delay" -> "complete"
                   [] OTHER -> "finish"
            w == [worker[t] EXCEPT !.todo = worker[t].todo \ {i}, !.at = p]
<1>3. /\ worker[t].def \in workflow.versions
      /\ t[1] \in Executions /\ t[2] \in NodesOf(worker[t].def)
      /\ Begun(t[1], t[2])
      /\ worker[t].todo \subseteq NextOf(worker[t].def, t[2], origin[t[1]].payload)
  BY <1>1, TaskIdParts DEF HandlersKnow, HandlerKnows, CausalityInv, Runs, Begins, Points
<1>4. LedTo(worker[t].def, t[1], target)
  BY <1>3 DEF LedTo, Successors
<1>5. \A e \in Executions, s \in Steps :
         Reached(e, s)' => \/ Reached(e, s)
                           \/ /\ e = t[1]
                              /\ \E d \in workflow.versions : LedTo(d, e, s)
  BY <1>1, <1>2, <1>3, <1>4, EnqueueReaches DEF CausalityInv
<1>6. worker'[t] = w /\ \A u \in TaskIds : u # t => worker'[u] = worker[u]
  BY <1>2 DEF CausalityInv, TypeOK
<1>7. p \in Runs
  BY DEF Runs, Begins, Points
<1>8. w.at = p /\ w.def = worker[t].def /\ w.todo = worker[t].todo \ {i}
  <2>. HIDE DEF p
  <2>. QED  BY DEF WorkerRecord, CausalityInv, TypeOK
<1>9. Begun(t[1], t[2])'
  BY <1>3, TaskIdParts DEF Lasting
<1>. HIDE DEF w, p, target
<1>10. HandlerKnows(t)'
  BY <1>1, <1>3, <1>6, <1>7, <1>8, <1>9 DEF HandlerKnows
<1>. QED  BY <1>1, <1>5, <1>6, <1>10, HandlerStep, ActiveOutstanding

\* The steps of a handler that has begun and only moves on.
LEMMA MoveCausal ==
    ASSUME CausalityInv, TypeOK', Lasting, NEW t \in TaskIds,
           \/ EnqueueNotification(t) \/ NotificationFails(t) \/ CompleteStep(t)
           \/ FinishExecution(t) \/ FailStep(t)
    PROVE  CausalityInv'
<1>1. /\ task[t].state # "none" /\ worker[t].at \in Runs
      /\ workflow' = workflow /\ trigger' = trigger /\ origin' = origin
      /\ task' = task
  BY DEF EnqueueNotification, NotificationFails, CompleteStep, FinishExecution,
         FailStep, At, wfVars, apiVars, Runs, Begins, Points
<1>2. stepRow' = stepRow \/ \E r : stepRow' = [stepRow EXCEPT ![KeyOf(t)] = r]
  BY DEF EnqueueNotification, NotificationFails, CompleteStep, FinishExecution, FailStep
<1>3. \A e \in Executions : e # t[1] => execution'[e] = execution[e]
  BY DEF EnqueueNotification, NotificationFails, CompleteStep, FinishExecution,
         FailStep, CausalityInv, TypeOK
<1>4. \E p \in Runs : GoTo(t, p)
  BY DEF EnqueueNotification, NotificationFails, CompleteStep, FinishExecution,
         FailStep, Runs, Begins, Points
<1>5. HandlerKnows(t)'
  BY <1>1, <1>4, GoToKnows
<1>6. \E w : worker' = [worker EXCEPT ![t] = w]
  BY <1>4 DEF GoTo
<1>. QED  BY <1>1, <1>2, <1>3, <1>5, <1>6, AdvanceStep

\* The steps that give the task back to the queue.
LEMMA ReturnCausal ==
    ASSUME CausalityInv, TypeOK', Lasting, NEW t \in TaskIds,
           BeginStepRejected(t) \/ FailExecution(t) \/ HandlerFails(t)
    PROVE  CausalityInv'
<1>1. /\ task[t].state # "none"
      /\ workflow' = workflow /\ trigger' = trigger /\ origin' = origin
      /\ stepRow' = stepRow /\ GiveUpOrRetry(t)
  BY DEF BeginStepRejected, FailExecution, HandlerFails, At, wfVars, apiVars
<1>2. \A e \in Executions : e # t[1] => execution'[e] = execution[e]
  BY DEF BeginStepRejected, FailExecution, HandlerFails, CausalityInv, TypeOK
<1>. QED  BY <1>1, <1>2, ReturnStep

LEMMA DuplicateCausal ==
    ASSUME CausalityInv, TypeOK', Lasting, NEW t \in TaskIds, DispatchDuplicate(t)
    PROVE  CausalityInv'
<1>1. /\ task[t].state # "none" /\ worker[t].at = "dispatch"
      /\ workflow' = workflow /\ trigger' = trigger /\ origin' = origin
      /\ stepRow' = stepRow /\ execution' = execution
  BY DEF DispatchDuplicate, At, wfVars, apiVars
<1>2. CASE GoTo(t, "failStep") /\ UNCHANGED task
  <2>1. "failStep" \in Runs /\ "dispatch" \in Runs
    BY DEF Runs, Begins, Points
  <2>2. HandlerKnows(t)'
    BY <1>1, <1>2, <2>1, GoToKnows
  <2>3. \E w : worker' = [worker EXCEPT ![t] = w]
    BY <1>2 DEF GoTo
  <2>. QED  BY <1>1, <1>2, <2>2, <2>3, AdvanceStep
<1>3. CASE GiveUpOrRetry(t)
  BY <1>1, <1>3, ReturnStep
<1>. QED  BY <1>2, <1>3 DEF DispatchDuplicate

LEMMA PickUpCausal ==
    ASSUME CausalityInv, TypeOK', Lasting, NEW t \in TaskIds, PickUp(t)
    PROVE  CausalityInv'
<1>. DEFINE w == [IdleWorker EXCEPT !.at = "load"]
<1>1. /\ task[t].state # "none"
      /\ workflow' = workflow /\ trigger' = trigger /\ origin' = origin
      /\ stepRow' = stepRow /\ execution' = execution
      /\ worker' = [worker EXCEPT ![t] = w]
      /\ \E r : task' = [task EXCEPT ![t] = r]
  BY DEF PickUp, wfVars, apiVars
<1>2. w.at = "load" /\ w.todo = {}
  BY DEF IdleWorker
<1>3. worker'[t] = w /\ \A u \in TaskIds : u # t => worker'[u] = worker[u]
  BY <1>1 DEF CausalityInv, TypeOK
<1>. HIDE DEF w
<1>4. HandlerKnows(t)'
  BY <1>2, <1>3 DEF HandlerKnows, Begins, Runs
<1>5. \A e \in Executions, s \in Steps : Reached(e, s)' => Reached(e, s)
  BY <1>1, NothingNew DEF CausalityInv
<1>. QED  BY <1>1, <1>3, <1>4, <1>5, HandlerStep, ActiveOutstanding

LEMMA AcknowledgeCausal ==
    ASSUME CausalityInv, TypeOK', Lasting, NEW t \in TaskIds, Acknowledge(t)
    PROVE  CausalityInv'
<1>1. /\ task[t].state # "none"
      /\ workflow' = workflow /\ trigger' = trigger /\ origin' = origin
      /\ stepRow' = stepRow /\ execution' = execution
      /\ \E r : task' = [task EXCEPT ![t] = r]
  BY DEF Acknowledge, At, wfVars, apiVars
<1>2. worker'[t] = IdleWorker /\ \A u \in TaskIds : u # t => worker'[u] = worker[u]
  BY DEF Acknowledge, CausalityInv, TypeOK
<1>3. \A e \in Executions, s \in Steps : Reached(e, s)' => Reached(e, s)
  BY <1>1, NothingNew DEF CausalityInv
<1>. QED  BY <1>1, <1>2, <1>3, HandlerStep, ActiveOutstanding, IdleKnows

\* Steps that change neither a row, a task nor a handler: edits, lapsed locks,
\* a TriggerEvent that stops halfway.
LEMMA OtherCausal ==
    ASSUME CausalityInv, TypeOK', Lasting,
           UNCHANGED <<origin, execution, stepRow, task, worker>>,
           \A e \in Executions : trigger'[e] # trigger[e] =>
               trigger[e] # "enqueued" /\ trigger'[e] \notin {"created", "enqueued"}
    PROVE  CausalityInv'
<1>1. \A e \in Executions, s \in Steps : Reached(e, s)' <=> Reached(e, s)
  BY DEF Reached, Begun, Outstanding
<1>2. TriggerFirst'
  BY <1>1 DEF CausalityInv, TriggerFirst, Lasting
<1>3. HandlersKnow'
  BY KnowledgeLasts DEF CausalityInv, HandlersKnow
<1>4. StepsFollowEdges'
  <2>. SUFFICES ASSUME NEW e \in Executions, NEW s \in Steps, Reached(e, s)'
                PROVE  \E d \in workflow'.versions : LedTo(d, e, s)'
    BY DEF StepsFollowEdges
  <2>1. PICK d \in workflow.versions : LedTo(d, e, s)
    BY <1>1 DEF CausalityInv, StepsFollowEdges
  <2>2. d \in Definitions
    BY <2>1 DEF CausalityInv, TypeOK
  <2>. QED  BY <2>1, <2>2, LedToLasts DEF Lasting
<1>. QED  BY <1>2, <1>3, <1>4 DEF CausalityInv

LEMMA CausalityKept ==
    ASSUME CausalityInv, [Next]_vars
    PROVE  CausalityInv'
<1>1. TypeOK' /\ Lasting
  BY Lasts, TypeKept DEF CausalityInv
<1>2. ASSUME NEW e \in Executions, TriggerEvent(e) PROVE CausalityInv'
  <2>1. CASE EnqueueFirstFails(e)
    BY <1>1, <2>1, OtherCausal DEF EnqueueFirstFails, wfVars, CausalityInv, TypeOK
  <2>. QED  BY <1>1, <1>2, <2>1, CreateCausal, EnqueueFirstCausal DEF TriggerEvent
<1>3. ASSUME NEW t \in TaskIds, PickUp(t) \/ ProcessStep(t) \/ Disturb(t)
      PROVE  CausalityInv'
  BY <1>1, <1>3, PickUpCausal, LoadCausal, LookupCausal, BeginCausal, MarkCausal,
     DispatchCausal, MoveCausal, ReturnCausal, DuplicateCausal, AcknowledgeCausal
     DEF ProcessStep, Disturb
<1>4. ASSUME NEW k \in StepKeys, LockLapses(k) PROVE CausalityInv'
  BY <1>1, <1>4, OtherCausal DEF LockLapses, wfVars, apiVars
<1>5. CASE EditWorkflow
  BY <1>1, <1>5, OtherCausal
     DEF EditWorkflow, UpdateDefinition, Pause, Resume, Delete, Edit, apiVars
<1>6. CASE UNCHANGED vars
  BY <1>1, <1>6, OtherCausal DEF vars
<1>. QED  BY <1>2, <1>3, <1>4, <1>5, <1>6 DEF Next

LEMMA CausalityAlways == Spec => []CausalityInv
<1>1. Init => CausalityInv
  <2>. SUFFICES ASSUME Init PROVE CausalityInv
    OBVIOUS
  <2>1. TypeOK
    BY TypeAtFirst
  <2>2. \A e \in Executions, s \in Steps : ~ Reached(e, s)
    BY DEF Init, Reached, Begun, Outstanding, StepKeys, TaskIds
  <2>3. HandlersKnow
    BY DEF Init, HandlersKnow, HandlerKnows, IdleWorker, Begins, Runs
  <2>. QED
    BY <2>1, <2>2, <2>3 DEF Init, CausalityInv, TriggerFirst, StepsFollowEdges
<1>2. CausalityInv /\ [Next]_vars => CausalityInv'
  BY CausalityKept
<1>. QED  BY <1>1, <1>2, PTL DEF Spec

\* However tasks are retried, duplicated or interleaved, and however the
\* workflow is edited meanwhile, a step is queued or run only if some version of
\* the definition starts with it or leads to it from a step that began.
THEOREM Causality == Spec => []StepsFollowEdges
<1>1. CausalityInv => StepsFollowEdges
  BY DEF CausalityInv
<1>. QED  BY <1>1, CausalityAlways, PTL
============================================================================
