---------------------- MODULE WorkflowRefinementProofs ----------------------
(***************************************************************************)
(* WorkflowRuntime implements WorkflowTraversal, for every value of the    *)
(* constants.  The proof rests on the invariant of causality and on what   *)
(* handlers and completed rows say of the notifications sent.              *)
(***************************************************************************)
EXTENDS WorkflowRefinement, WorkflowRuntimeProofs

\* An execution has a status once its row was created.
RowsCreated == \A e \in Executions : trigger[e] = "none" => execution[e].status = "none"

\* A handler about to complete a notification step has sent its job.
HandlersSent ==
    \A t \in TaskIds : At(t, "complete") /\ TypeAt(t) = "notification" =>
        sent[KeyOf(t)] >= 1

\* So has the one that completed the row, under the version it held.
RowsSent ==
    \A e \in Executions, s \in Steps : Completed(e, s) =>
        \E d \in workflow.versions :
            /\ s \in NodesOf(d)
            /\ d.type[s] = "notification" => sent[<<e, s>>] >= 1

NotifiedInv == RowsCreated /\ HandlersSent /\ RowsSent

LEMMA SentGrows ==
    ASSUME TypeOK, [Next]_vars, NEW k \in StepKeys
    PROVE  sent'[k] \in Nat /\ sent'[k] >= sent[k]
<1>1. sent \in [StepKeys -> Nat]
  BY DEF TypeOK
<1>2. sent' = sent \/ \E t \in TaskIds : sent' = [sent EXCEPT ![KeyOf(t)] = @ + 1]
  BY DEF Next, vars, TriggerEvent, CreateExecution, EnqueueFirst, EnqueueFirstFails, PickUp,
         ProcessStep, LoadWorkflow, LookupStep, BeginStep, BeginStepRejected, MarkRunning,
         EnqueueNotification, CompleteStep, DispatchNext, DispatchDuplicate,
         FinishExecution, Acknowledge, FailStep, FailExecution, Disturb, HandlerFails,
         NotificationFails, LockLapses, EditWorkflow, UpdateDefinition, Pause, Resume,
         Delete, Edit
<1>. QED  BY <1>1, <1>2

LEMMA RowsCreatedKept ==
    ASSUME TypeOK, TriggerFirst, RowsCreated, [Next]_vars
    PROVE  RowsCreated'
<1>1. ASSUME execution' = execution, \A e \in Executions : trigger'[e] = "none" => trigger[e] = "none"
      PROVE  RowsCreated'
  BY <1>1 DEF RowsCreated
<1>2. ASSUME NEW e \in Executions, TriggerEvent(e) PROVE RowsCreated'
  BY <1>2 DEF TriggerEvent, CreateExecution, EnqueueFirst, EnqueueFirstFails, RowsCreated,
              TypeOK
<1>3. ASSUME NEW t \in TaskIds, PickUp(t) \/ ProcessStep(t) \/ Disturb(t)
      PROVE  RowsCreated'
  <2>1. task[t].state # "none" /\ trigger' = trigger
    BY <1>3 DEF PickUp, ProcessStep, LoadWorkflow, LookupStep, BeginStep,
         BeginStepRejected, MarkRunning, EnqueueNotification, CompleteStep, DispatchNext,
         DispatchDuplicate, FinishExecution, Acknowledge, FailStep, FailExecution, Disturb,
         HandlerFails, NotificationFails, At, apiVars
  <2>2. trigger[t[1]] = "enqueued"
    BY <2>1, ActiveOutstanding, TaskIdParts DEF TriggerFirst, Reached
  <2>3. execution' = execution \/ \E r : execution' = [execution EXCEPT ![t[1]] = r]
    BY <1>3, Zenon
       DEF PickUp, ProcessStep, LoadWorkflow, LookupStep, BeginStep, BeginStepRejected,
           MarkRunning, EnqueueNotification, CompleteStep, DispatchNext,
           DispatchDuplicate, FinishExecution, Acknowledge, FailStep, FailExecution,
           Disturb, HandlerFails, NotificationFails
  <2>4. \A e \in Executions : e # t[1] => execution'[e] = execution[e]
    BY <2>3 DEF TypeOK
  <2>. QED  BY <2>1, <2>2, <2>4 DEF RowsCreated
<1>4. ASSUME NEW k \in StepKeys, LockLapses(k) PROVE RowsCreated'
  BY <1>1, <1>4 DEF LockLapses, apiVars
<1>5. CASE EditWorkflow
  BY <1>1, <1>5 DEF EditWorkflow, UpdateDefinition, Pause, Resume, Delete, Edit, apiVars
<1>6. CASE UNCHANGED vars
  BY <1>1, <1>6 DEF vars
<1>. QED  BY <1>2, <1>3, <1>4, <1>5, <1>6 DEF Next

LEMMA HandlersSentKept ==
    ASSUME TypeOK, HandlersSent, [Next]_vars
    PROVE  HandlersSent'
<1>. SUFFICES ASSUME NEW t \in TaskIds, At(t, "complete")', TypeAt(t)' = "notification"
              PROVE  sent'[KeyOf(t)] >= 1
  BY DEF HandlersSent
<1>0. /\ KeyOf(t) \in StepKeys /\ sent'[KeyOf(t)] \in Nat /\ sent[KeyOf(t)] \in Nat
      /\ sent'[KeyOf(t)] >= sent[KeyOf(t)]
  BY TaskIdParts, SentGrows DEF TypeOK
<1>1. CASE At(t, "complete") /\ worker'[t] = worker[t]
  BY <1>0, <1>1 DEF HandlersSent, TypeAt
<1>2. ASSUME worker'[t] = worker[t], task'[t] = task[t] \/ task'[t].state = "pending"
      PROVE  sent'[KeyOf(t)] >= 1
  BY <1>1, <1>2 DEF At
<1>3. ASSUME NEW e, NEW s, Enqueue(e, s)
      PROVE  task'[t] = task[t] \/ task'[t].state = "pending"
  BY <1>3 DEF Enqueue, TypeOK
<1>4. ASSUME NEW e \in Executions, TriggerEvent(e) PROVE sent'[KeyOf(t)] >= 1
  BY <1>2, <1>3, <1>4 DEF TriggerEvent, CreateExecution, EnqueueFirst, EnqueueFirstFails
<1>5. ASSUME NEW u \in TaskIds, u # t, PickUp(u) \/ ProcessStep(u) \/ Disturb(u)
      PROVE  sent'[KeyOf(t)] >= 1
  <2>1. worker'[t] = worker[t]
    <3>1. worker' = worker \/ \E r : worker' = [worker EXCEPT ![u] = r]
      BY <1>5, Zenon
         DEF PickUp, ProcessStep, LoadWorkflow, LookupStep, BeginStep, BeginStepRejected,
             MarkRunning, EnqueueNotification, CompleteStep, DispatchNext,
             DispatchDuplicate, FinishExecution, Acknowledge, FailStep, FailExecution,
             Disturb, HandlerFails, NotificationFails, GiveUpOrRetry, Archive, GoTo
    <3>. QED  BY <1>5, <3>1 DEF TypeOK
  <2>2. CASE DispatchNext(u)
    BY <1>2, <1>3, <2>1, <2>2 DEF DispatchNext
  <2>3. CASE ~ DispatchNext(u)
    <3>1. task' = task \/ \E r : task' = [task EXCEPT ![u] = r]
      BY <1>5, <2>3, Zenon
         DEF PickUp, ProcessStep, LoadWorkflow, LookupStep, BeginStep, BeginStepRejected,
             MarkRunning, EnqueueNotification, CompleteStep,
             DispatchDuplicate, FinishExecution, Acknowledge, FailStep, FailExecution,
             Disturb, HandlerFails, NotificationFails, GiveUpOrRetry, Archive
    <3>2. task'[t] = task[t]
      BY <1>5, <3>1 DEF TypeOK
    <3>. QED  BY <1>2, <2>1, <3>2
  <2>. QED  BY <2>2, <2>3
<1>6. ASSUME PickUp(t) \/ ProcessStep(t) \/ Disturb(t)
      PROVE  sent'[KeyOf(t)] >= 1
  <2>0. worker \in [TaskIds -> WorkerRecord] /\ worker[t] \in WorkerRecord
    BY DEF TypeOK
  <2>1. CASE MarkRunning(t)
    <3>1. PICK next : worker' = [worker EXCEPT ![t] =
             [@ EXCEPT !.todo = next,
                       !.at = CASE TypeAt(t) = "notification" -> "notify"
                                [] TypeAt(t) = "delay" /\ next # {} -> "dispatch"
                                [] OTHER -> "complete"]]
      BY <2>1 DEF MarkRunning
    <3>2. TypeAt(t)' = TypeAt(t)
      BY <2>0, <3>1 DEF WorkerRecord, TypeAt
    <3>3. worker'[t].at = "notify"
      BY <2>0, <3>1, <3>2 DEF WorkerRecord
    <3>. QED  BY <3>3 DEF At
  <2>2. CASE EnqueueNotification(t)
    BY <1>0, <2>2 DEF EnqueueNotification, TypeOK
  <2>3. CASE DispatchNext(t)
    <3>1. PICK rest : worker' = [worker EXCEPT ![t] =
             [@ EXCEPT !.todo = rest,
                       !.at = CASE rest # {} -> "dispatch"
                                [] rest = {} /\ TypeAt(t) = "delay" -> "complete"
                                [] OTHER -> "finish"]]
      BY <2>3 DEF DispatchNext
    <3>2. TypeAt(t)' = TypeAt(t)
      BY <2>0, <3>1 DEF WorkerRecord, TypeAt
    <3>3. worker'[t].at # "complete"
      BY <2>0, <3>1, <3>2 DEF WorkerRecord
    <3>. QED  BY <3>3 DEF At
  <2>4. CASE ~ (MarkRunning(t) \/ EnqueueNotification(t) \/ DispatchNext(t))
    <3>1. worker'[t].at # "complete"
      <4>1. CASE PickUp(t)
        BY <2>0, <4>1 DEF PickUp, IdleWorker
      <4>8. CASE LookupStep(t)
        BY <2>0, <4>8 DEF LookupStep, WorkerRecord
      <4>9. CASE BeginStep(t)
        <5>1. worker' = [worker EXCEPT ![t] = [worker[t] EXCEPT !.at = "mark",
                            !.attempts = worker[t].attempts + 1]]
          BY <4>9 DEF BeginStep
        <5>. QED  BY <2>0, <5>1 DEF WorkerRecord
      <4>2. ASSUME NEW p, p # "complete", GoTo(t, p) PROVE worker'[t].at # "complete"
        BY <2>0, <4>2 DEF GoTo, WorkerRecord
      <4>3. CASE CompleteStep(t) \/ FinishExecution(t) \/ FailStep(t) \/ NotificationFails(t)
        BY <4>2, <4>3 DEF CompleteStep, FinishExecution, FailStep, NotificationFails
      <4>4. ASSUME GiveUpOrRetry(t) \/ Archive(t) PROVE worker'[t].at # "complete"
        BY <2>0, <4>4 DEF GiveUpOrRetry, Archive, IdleWorker
      <4>5. CASE LoadWorkflow(t)
        BY <2>0, <4>4, <4>5 DEF LoadWorkflow, WorkerRecord
      <4>6. CASE DispatchDuplicate(t) \/ BeginStepRejected(t) \/ FailExecution(t)
                    \/ HandlerFails(t)
        BY <4>2, <4>4, <4>6 DEF DispatchDuplicate, BeginStepRejected, FailExecution,
                                HandlerFails
      <4>7. CASE Acknowledge(t)
        BY <2>0, <4>7 DEF Acknowledge, IdleWorker
      <4>. QED  BY <1>6, <2>4, <4>1, <4>3, <4>5, <4>6, <4>7, <4>8, <4>9
                   DEF ProcessStep, Disturb
    <3>. QED  BY <3>1 DEF At
  <2>. QED  BY <2>1, <2>2, <2>3, <2>4
<1>7. ASSUME NEW k \in StepKeys, LockLapses(k) PROVE sent'[KeyOf(t)] >= 1
  BY <1>2, <1>7 DEF LockLapses
<1>8. CASE EditWorkflow
  BY <1>2, <1>8 DEF EditWorkflow, UpdateDefinition, Pause, Resume, Delete, Edit
<1>9. CASE UNCHANGED vars
  BY <1>2, <1>9 DEF vars
<1>. QED  BY <1>4, <1>5, <1>6, <1>7, <1>8, <1>9 DEF Next

LEMMA RowsSentKept ==
    ASSUME TypeOK, HandlersKnow, HandlersSent, RowsSent, [Next]_vars
    PROVE  RowsSent'
<1>0. Lasting
  BY Lasts
<1>. SUFFICES ASSUME NEW e \in Executions, NEW s \in Steps, Completed(e, s)'
              PROVE  \E d \in workflow'.versions :
                        /\ s \in NodesOf(d)
                        /\ d.type[s] = "notification" => sent'[<<e, s>>] >= 1
  BY DEF RowsSent
<1>1. /\ <<e, s>> \in StepKeys /\ sent'[<<e, s>>] \in Nat /\ sent[<<e, s>>] \in Nat
      /\ sent'[<<e, s>>] >= sent[<<e, s>>]
  BY SentGrows DEF TypeOK, StepKeys
<1>2. CASE Completed(e, s)
  <2>1. PICK d \in workflow.versions :
           s \in NodesOf(d) /\ (d.type[s] = "notification" => sent[<<e, s>>] >= 1)
    BY <1>2 DEF RowsSent
  <2>. QED  BY <1>0, <1>1, <2>1 DEF Lasting
<1>3. CASE ~ Completed(e, s)
  <2>1. PICK t \in TaskIds : CompleteStep(t) /\ KeyOf(t) = <<e, s>>
    <3>1. stepRow \in [StepKeys -> [status : StepStatuses, attempts : Nat]]
      BY DEF TypeOK
    <3>2. stepRow' # stepRow
      BY <1>3 DEF Completed
    <3>3. \E t \in TaskIds : BeginStep(t) \/ CompleteStep(t) \/ FailStep(t)
      BY <3>2, Zenon
         DEF Next, vars, TriggerEvent, CreateExecution, EnqueueFirst, EnqueueFirstFails,
             PickUp, ProcessStep, LoadWorkflow, LookupStep, BeginStepRejected, MarkRunning,
             EnqueueNotification, DispatchNext, DispatchDuplicate, FinishExecution,
             Acknowledge, FailExecution, Disturb, HandlerFails, NotificationFails,
             LockLapses, EditWorkflow, UpdateDefinition, Pause, Resume, Delete, Edit
    <3>4. PICK t \in TaskIds : BeginStep(t) \/ CompleteStep(t) \/ FailStep(t)
      BY <3>3
    <3>5. \E x \in {"running", "completed", "failed"} : \E n :
             /\ stepRow' = [stepRow EXCEPT ![KeyOf(t)] = [status |-> x, attempts |-> n]]
             /\ x = "completed" => CompleteStep(t)
      BY <3>4 DEF BeginStep, CompleteStep, FailStep
    <3>. QED  BY <1>1, <1>3, <3>1, <3>5 DEF Completed
  <2>2. t = <<t[1], t[2], t[3]>> /\ t[1] = e /\ t[2] = s
    BY <2>1, TaskIdParts DEF KeyOf
  <2>3. /\ workflow' = workflow
        /\ worker[t].def \in workflow.versions /\ s \in NodesOf(worker[t].def)
    BY <2>1, <2>2 DEF CompleteStep, At, HandlersKnow, HandlerKnows, Runs, Points, Begins,
                      wfVars
  <2>4. worker[t].def.type[s] = "notification" => sent[<<e, s>>] >= 1
    BY <2>1, <2>2 DEF CompleteStep, HandlersSent, TypeAt
  <2>. QED  BY <1>1, <2>3, <2>4
<1>. QED  BY <1>2, <1>3

LEMMA NotifiedAlways == Spec => []NotifiedInv
<1>1. Init => NotifiedInv
  BY DEF Init, NotifiedInv, RowsCreated, HandlersSent, RowsSent, At, Completed, StepKeys
<1>2. CausalityInv /\ NotifiedInv /\ [Next]_vars => NotifiedInv'
  BY RowsCreatedKept, HandlersSentKept, RowsSentKept DEF CausalityInv, NotifiedInv
<1>. QED  BY <1>1, <1>2, CausalityAlways, PTL DEF Spec

\* However calls fail and handlers race, a notification step whose row says
\* completed has handed a job to the queue.
THEOREM CompletedSent == Spec => []CompletedMeansSent
<1>1. NotifiedInv => CompletedMeansSent
  BY DEF NotifiedInv, RowsSent, CompletedMeansSent
<1>. QED  BY <1>1, NotifiedAlways, PTL
----------------------------------------------------------------------------
(***************************************************************************)
(* The refinement: what each write of a row is in the traversal.           *)
(***************************************************************************)

LEMMA SameGraph ==
    ASSUME NEW d, NEW s, NEW p
    PROVE  /\ Traversal!NodesOf(d) = NodesOf(d)
           /\ Traversal!IsFirstStep(d, s) <=> IsFirstStep(d, s)
           /\ Traversal!NextOf(d, s, p) = NextOf(d, s, p)
           /\ Traversal!Successors(d, s, p) = Successors(d, s, p)
BY DEF Traversal!NodesOf, NodesOf, Traversal!IsFirstStep, IsFirstStep, Traversal!NextOf,
       NextOf, Traversal!Successors, Successors, Traversal!NextEdges, NextEdges,
       Traversal!BranchTaken, BranchTaken

LEMMA RowWritten ==
    ASSUME TypeOK, NEW t \in TaskIds, NEW x, NEW n, x # "none",
           stepRow' = [stepRow EXCEPT ![KeyOf(t)] = [status |-> x, attempts |-> n]]
    PROVE  /\ TravBegun' = [TravBegun EXCEPT ![t[1]] = TravBegun[t[1]] \cup {t[2]}]
           /\ x = "completed" =>
                 TravDone' = [TravDone EXCEPT ![t[1]] = TravDone[t[1]] \cup {t[2]}]
           /\ x # "completed" =>
                 TravDone' = [TravDone EXCEPT ![t[1]] = TravDone[t[1]] \ {t[2]}]
<1>1. t[1] \in Executions /\ t[2] \in Steps /\ KeyOf(t) = <<t[1], t[2]>>
  BY TaskIdParts DEF KeyOf
<1>2. \A e \in Executions, s \in Steps :
         stepRow'[<<e, s>>].status = IF e = t[1] /\ s = t[2] THEN x
                                     ELSE stepRow[<<e, s>>].status
  BY <1>1 DEF TypeOK, StepKeys
<1>3. TravBegun' = [TravBegun EXCEPT ![t[1]] = TravBegun[t[1]] \cup {t[2]}]
  <2>1. ASSUME NEW e \in Executions
        PROVE  {s \in Steps : Begun(e, s)'} =
                  IF e = t[1] THEN {s \in Steps : Begun(e, s)} \cup {t[2]}
                  ELSE {s \in Steps : Begun(e, s)}
    <3>1. \A s \in Steps : Begun(e, s)' <=> Begun(e, s) \/ (e = t[1] /\ s = t[2])
      BY <1>1, <1>2 DEF Begun
    <3>. QED  BY <1>1, <3>1
  <2>. QED  BY <1>1, <2>1 DEF TravBegun
<1>4. x = "completed" =>
         TravDone' = [TravDone EXCEPT ![t[1]] = TravDone[t[1]] \cup {t[2]}]
  <2>. SUFFICES ASSUME x = "completed"
                PROVE  TravDone' = [TravDone EXCEPT ![t[1]] = TravDone[t[1]] \cup {t[2]}]
    OBVIOUS
  <2>1. ASSUME NEW e \in Executions
        PROVE  {s \in Steps : Completed(e, s)'} =
                  IF e = t[1] THEN {s \in Steps : Completed(e, s)} \cup {t[2]}
                  ELSE {s \in Steps : Completed(e, s)}
    <3>1. \A s \in Steps : Completed(e, s)' <=> Completed(e, s) \/ (e = t[1] /\ s = t[2])
      BY <1>1, <1>2 DEF Completed
    <3>. QED  BY <1>1, <3>1
  <2>. QED  BY <1>1, <2>1 DEF TravDone
<1>5. x # "completed" =>
         TravDone' = [TravDone EXCEPT ![t[1]] = TravDone[t[1]] \ {t[2]}]
  <2>. SUFFICES ASSUME x # "completed"
                PROVE  TravDone' = [TravDone EXCEPT ![t[1]] = TravDone[t[1]] \ {t[2]}]
    OBVIOUS
  <2>1. ASSUME NEW e \in Executions
        PROVE  {s \in Steps : Completed(e, s)'} =
                  IF e = t[1] THEN {s \in Steps : Completed(e, s)} \ {t[2]}
                  ELSE {s \in Steps : Completed(e, s)}
    <3>1. \A s \in Steps : Completed(e, s)' <=> Completed(e, s) /\ ~ (e = t[1] /\ s = t[2])
      BY <1>1, <1>2 DEF Completed
    <3>. QED  BY <1>1, <3>1
  <2>. QED  BY <1>1, <2>1 DEF TravDone
<1>. QED  BY <1>3, <1>4, <1>5

LEMMA RowsUntouched ==
    ASSUME stepRow' = stepRow
    PROVE  TravBegun' = TravBegun /\ TravDone' = TravDone
BY DEF TravBegun, TravDone, Begun, Completed

LEMMA JobSent ==
    ASSUME TypeOK, NEW t \in TaskIds, sent' = [sent EXCEPT ![KeyOf(t)] = @ + 1]
    PROVE  TravNotified' = [TravNotified EXCEPT ![t[1]] = TravNotified[t[1]] \cup {t[2]}]
<1>1. t[1] \in Executions /\ t[2] \in Steps /\ KeyOf(t) = <<t[1], t[2]>>
  BY TaskIdParts DEF KeyOf
<1>2. sent \in [StepKeys -> Nat] /\ \A e \in Executions, s \in Steps : <<e, s>> \in StepKeys
  BY DEF TypeOK, StepKeys
<1>3. ASSUME NEW e \in Executions
      PROVE  {s \in Steps : sent'[<<e, s>>] >= 1} =
                IF e = t[1] THEN {s \in Steps : sent[<<e, s>>] >= 1} \cup {t[2]}
                ELSE {s \in Steps : sent[<<e, s>>] >= 1}
  <2>1. ASSUME NEW s \in Steps
        PROVE  sent'[<<e, s>>] >= 1 <=> sent[<<e, s>>] >= 1 \/ (e = t[1] /\ s = t[2])
    <3>1. CASE e = t[1] /\ s = t[2]
      <4>1. sent'[<<e, s>>] = sent[<<e, s>>] + 1 /\ sent[<<e, s>>] \in Nat
        BY <1>1, <1>2, <3>1
      <4>. QED  BY <3>1, <4>1
    <3>2. CASE ~ (e = t[1] /\ s = t[2])
      <4>1. sent'[<<e, s>>] = sent[<<e, s>>]
        BY <1>1, <1>2, <3>2
      <4>. QED  BY <3>2, <4>1
    <3>. QED  BY <3>1, <3>2
  <2>. QED  BY <1>1, <2>1
<1>. QED  BY <1>1, <1>3 DEF TravNotified

LEMMA StatusWritten ==
    ASSUME TypeOK, NEW e \in Executions, NEW x, NEW y,
           execution' = [execution EXCEPT ![e] = [status |-> x, current |-> y]]
    PROVE  TravOutcome' = [TravOutcome EXCEPT ![e] = x]
BY DEF TypeOK, TravOutcome

\* What a handler that has begun its step gives the traversal.
LEMMA HandlerInTraversal ==
    ASSUME CausalityInv, NEW t \in TaskIds, worker[t].at \in Runs
    PROVE  /\ t[1] \in Executions /\ t[2] \in Steps
           /\ t[2] \in TravBegun[t[1]]
           /\ worker[t].def \in workflow.versions
           /\ t[2] \in NodesOf(worker[t].def)
           /\ TravPayload[t[1]] = origin[t[1]].payload
BY TaskIdParts DEF CausalityInv, HandlersKnow, HandlerKnows, TravBegun, TravPayload

LEMMA StepSimulated ==
    ASSUME CausalityInv, NotifiedInv, [Next]_vars
    PROVE  [Traversal!Next]_(Traversal!travVars)
<1>. USE DEF Traversal!travVars
<1>0. TypeOK
  BY DEF CausalityInv
<1>1. ASSUME UNCHANGED <<workflow, origin, execution, stepRow, sent>>
      PROVE  UNCHANGED Traversal!travVars
  BY <1>1 DEF TravPayload, TravOutcome, TravBegun, TravNotified, TravDone, Begun, Completed
<1>2. ASSUME NEW e \in Executions, CreateExecution(e) PROVE Traversal!Next
  <2>1. PICK s \in Steps, p \in SUBSET Conditions :
           /\ execution' = [execution EXCEPT ![e] = [status |-> "queued", current |-> s]]
           /\ origin' = [origin EXCEPT ![e] =
                            [payload |-> p, def |-> workflow.definition]]
    BY <1>2 DEF CreateExecution
  <2>2. TravOutcome[e] = "none"
    BY <1>2 DEF CreateExecution, NotifiedInv, RowsCreated, TravOutcome
  <2>3. TravOutcome' = [TravOutcome EXCEPT ![e] = "queued"]
    BY <1>0, <2>1, StatusWritten
  <2>4. TravPayload' = [TravPayload EXCEPT ![e] = p]
    BY <1>0, <2>1 DEF TravPayload, TypeOK
  <2>5. UNCHANGED <<workflow.versions, TravBegun, TravNotified, TravDone>>
    BY <1>2, RowsUntouched DEF CreateExecution, wfVars, TravNotified
  <2>6. p \in SUBSET Steps
    BY DEF Conditions
  <2>. QED  BY <2>2, <2>3, <2>4, <2>5, <2>6 DEF Traversal!Next, Traversal!Trigger
<1>3. ASSUME NEW d \in Definitions, UpdateDefinition(d) PROVE Traversal!Next
  <2>1. workflow'.versions = workflow.versions \cup {d}
    BY <1>3 DEF UpdateDefinition, Edit
  <2>2. UNCHANGED <<TravPayload, TravOutcome, TravBegun, TravNotified, TravDone>>
    BY <1>3, RowsUntouched
       DEF UpdateDefinition, Edit, apiVars, TravPayload, TravOutcome, TravNotified
  <2>. QED  BY <2>1, <2>2 DEF Traversal!Next, Traversal!Save
<1>4. ASSUME NEW t \in TaskIds, BeginStep(t) PROVE Traversal!Next
  <2>1. t[1] \in Executions /\ t[2] \in Steps /\ Reached(t[1], t[2])
    BY <1>4, TaskIdParts, ActiveOutstanding DEF BeginStep, At, Reached
  <2>2. PICK d \in workflow.versions : LedTo(d, t[1], t[2])
    BY <2>1 DEF CausalityInv, StepsFollowEdges
  <2>3. \/ Traversal!IsFirstStep(d, t[2])
        \/ \E p \in TravBegun[t[1]] \cap Traversal!NodesOf(d) :
              t[2] \in Traversal!Successors(d, p, TravPayload[t[1]])
    <3>1. d \in Definitions /\ TravPayload[t[1]] = origin[t[1]].payload
      BY <1>0, <2>1 DEF TypeOK, TravPayload
    <3>2. CASE IsFirstStep(d, t[2])
      BY <3>2, SameGraph
    <3>3. CASE ~ IsFirstStep(d, t[2])
      <4>1. PICK p \in NodesOf(d) :
               Begun(t[1], p) /\ t[2] \in Successors(d, p, origin[t[1]].payload)
        BY <2>2, <3>3 DEF LedTo
      <4>2. p \in TravBegun[t[1]]
        BY <2>1, <3>1, <4>1, NodesAreSteps DEF TravBegun
      <4>. QED  BY <3>1, <4>1, <4>2, SameGraph
    <3>. QED  BY <3>2, <3>3
  <2>4. /\ TravBegun' = [TravBegun EXCEPT ![t[1]] = TravBegun[t[1]] \cup {t[2]}]
        /\ TravDone' = [TravDone EXCEPT ![t[1]] = TravDone[t[1]] \ {t[2]}]
    <3>1. PICK n : stepRow' = [stepRow EXCEPT ![KeyOf(t)] =
                                  [status |-> "running", attempts |-> n]]
      BY <1>4 DEF BeginStep
    <3>2. "running" # "none" /\ "running" # "completed"
      OBVIOUS
    <3>. QED  BY <1>0, <3>1, <3>2, RowWritten
  <2>5. UNCHANGED <<workflow.versions, TravPayload, TravOutcome, TravNotified>>
    BY <1>4 DEF BeginStep, wfVars, apiVars, TravPayload, TravOutcome, TravNotified
  <2>. QED  BY <2>1, <2>3, <2>4, <2>5 DEF Traversal!Next, Traversal!BeginStep
<1>5. ASSUME NEW t \in TaskIds, At(t, "notify"), sent' = [sent EXCEPT ![KeyOf(t)] = @ + 1],
             UNCHANGED <<workflow, origin, execution, stepRow>>
      PROVE  Traversal!Next
  <2>1. t[1] \in Executions /\ t[2] \in Steps /\ t[2] \in TravBegun[t[1]]
    BY <1>5, HandlerInTraversal DEF At, Runs, Points, Begins
  <2>2. TravNotified' = [TravNotified EXCEPT ![t[1]] = TravNotified[t[1]] \cup {t[2]}]
    BY <1>0, <1>5, JobSent
  <2>3. UNCHANGED <<workflow.versions, TravPayload, TravOutcome, TravBegun, TravDone>>
    BY <1>5, RowsUntouched DEF TravPayload, TravOutcome
  <2>. QED  BY <2>1, <2>2, <2>3 DEF Traversal!Next, Traversal!SendNotification
<1>6. ASSUME NEW t \in TaskIds, CompleteStep(t) PROVE Traversal!Next
  <2>1. /\ t[1] \in Executions /\ t[2] \in Steps /\ t[2] \in TravBegun[t[1]]
        /\ worker[t].def \in workflow.versions /\ t[2] \in NodesOf(worker[t].def)
    BY <1>6, HandlerInTraversal DEF CompleteStep, At, Runs, Points, Begins
  <2>2. Traversal!AlwaysNotifies(t[2]) => t[2] \in TravNotified[t[1]]
    <3>1. TypeAt(t) = "notification" => sent[<<t[1], t[2]>>] >= 1
      BY <1>6 DEF CompleteStep, NotifiedInv, HandlersSent, KeyOf
    <3>2. Traversal!AlwaysNotifies(t[2]) => TypeAt(t) = "notification"
      BY <2>1, SameGraph DEF Traversal!AlwaysNotifies, TypeAt
    <3>. QED  BY <2>1, <3>1, <3>2 DEF TravNotified
  <2>3. /\ TravBegun' = [TravBegun EXCEPT ![t[1]] = TravBegun[t[1]] \cup {t[2]}]
        /\ TravDone' = [TravDone EXCEPT ![t[1]] = TravDone[t[1]] \cup {t[2]}]
    BY <1>0, <1>6, RowWritten DEF CompleteStep
  <2>4. TravBegun' = TravBegun
    BY <2>1, <2>3 DEF TravBegun
  <2>5. UNCHANGED <<workflow.versions, TravPayload, TravOutcome, TravNotified>>
    BY <1>6 DEF CompleteStep, wfVars, apiVars, TravPayload, TravOutcome, TravNotified
  <2>. QED  BY <2>1, <2>2, <2>3, <2>4, <2>5 DEF Traversal!Next, Traversal!CompleteStep
<1>7. ASSUME NEW t \in TaskIds, FailStep(t) PROVE Traversal!Next
  <2>1. t[1] \in Executions /\ t[2] \in Steps /\ t[2] \in TravBegun[t[1]]
    BY <1>7, HandlerInTraversal DEF FailStep, At, Runs, Points, Begins
  <2>2. /\ TravBegun' = [TravBegun EXCEPT ![t[1]] = TravBegun[t[1]] \cup {t[2]}]
        /\ TravDone' = [TravDone EXCEPT ![t[1]] = TravDone[t[1]] \ {t[2]}]
    <3>1. PICK n : stepRow' = [stepRow EXCEPT ![KeyOf(t)] =
                                  [status |-> "failed", attempts |-> n]]
      BY <1>7 DEF FailStep
    <3>2. "failed" # "none" /\ "failed" # "completed"
      OBVIOUS
    <3>. QED  BY <1>0, <3>1, <3>2, RowWritten
  <2>3. TravBegun' = TravBegun
    BY <2>1, <2>2 DEF TravBegun
  <2>4. UNCHANGED <<workflow.versions, TravPayload, TravOutcome, TravNotified>>
    BY <1>7 DEF FailStep, wfVars, apiVars, TravPayload, TravOutcome, TravNotified
  <2>. QED  BY <2>1, <2>2, <2>3, <2>4 DEF Traversal!Next, Traversal!FailStep
<1>8. ASSUME NEW t \in TaskIds, worker[t].at \in Runs,
             NEW x \in {"queued", "running", "completed", "failed"}, NEW y,
             execution' = [execution EXCEPT ![t[1]] = [status |-> x, current |-> y]],
             x = "completed" =>
                NextOf(worker[t].def, t[2], origin[t[1]].payload) = {},
             UNCHANGED <<workflow, origin, stepRow, sent>>
      PROVE  Traversal!Next
  <2>1. /\ t[1] \in Executions /\ t[2] \in TravBegun[t[1]]
        /\ worker[t].def \in workflow.versions /\ t[2] \in NodesOf(worker[t].def)
        /\ TravPayload[t[1]] = origin[t[1]].payload
    BY <1>8, HandlerInTraversal
  <2>2. TravOutcome' = [TravOutcome EXCEPT ![t[1]] = x]
    BY <1>0, <1>8, <2>1, StatusWritten
  <2>3. x = "completed" =>
           \E d \in workflow.versions :
              \E s \in TravBegun[t[1]] \cap Traversal!NodesOf(d) :
                 Traversal!NextOf(d, s, TravPayload[t[1]]) = {}
    BY <1>8, <2>1, SameGraph
  <2>4. UNCHANGED <<workflow.versions, TravPayload, TravBegun, TravNotified, TravDone>>
    BY <1>8, RowsUntouched DEF TravPayload, TravNotified
  <2>5. Traversal!Report(t[1], x)
    BY <2>1, <2>2, <2>3, <2>4 DEF Traversal!Report
  <2>. QED  BY <2>1, <2>5 DEF Traversal!Next
<1>9. ASSUME NEW t \in TaskIds, PickUp(t) \/ ProcessStep(t) \/ Disturb(t)
      PROVE  [Traversal!Next]_(Traversal!travVars)
  <2>1. CASE \/ PickUp(t) \/ LoadWorkflow(t) \/ LookupStep(t) \/ BeginStepRejected(t)
             \/ DispatchNext(t) \/ DispatchDuplicate(t) \/ Acknowledge(t) \/ HandlerFails(t)
    BY <1>1, <2>1
       DEF PickUp, LoadWorkflow, LookupStep, BeginStepRejected, DispatchNext,
           DispatchDuplicate, Acknowledge, HandlerFails, wfVars, apiVars
  <2>2. CASE BeginStep(t) \/ CompleteStep(t) \/ FailStep(t)
    BY <1>4, <1>6, <1>7, <2>2
  <2>3. CASE MarkRunning(t)
    BY <1>8, <2>3 DEF MarkRunning, At, Runs, Points, Begins, wfVars, apiVars
  <2>4. CASE EnqueueNotification(t)
    BY <1>5, <2>4 DEF EnqueueNotification, wfVars, apiVars
  <2>5. CASE NotificationFails(t)
    BY <1>1, <1>5, <2>5 DEF NotificationFails, wfVars, apiVars
  <2>6. CASE FinishExecution(t)
    BY <1>8, <2>6 DEF FinishExecution, At, Runs, Points, Begins, wfVars, apiVars
  <2>7. CASE FailExecution(t)
    BY <1>8, <2>7 DEF FailExecution, At, Runs, Points, Begins, wfVars, apiVars
  <2>. QED
    BY <1>9, <2>1, <2>2, <2>3, <2>4, <2>5, <2>6, <2>7 DEF ProcessStep, Disturb
<1>10. ASSUME NEW e \in Executions, TriggerEvent(e)
       PROVE  [Traversal!Next]_(Traversal!travVars)
  <2>1. CASE CreateExecution(e)
    BY <1>2, <2>1
  <2>2. CASE EnqueueFirst(e) \/ EnqueueFirstFails(e)
    BY <1>1, <2>2 DEF EnqueueFirst, EnqueueFirstFails, wfVars
  <2>. QED  BY <1>10, <2>1, <2>2 DEF TriggerEvent
<1>11. CASE EditWorkflow
  <2>1. ASSUME Pause \/ Resume \/ Delete
        PROVE  UNCHANGED Traversal!travVars
    <3>1. workflow'.versions = workflow.versions
      BY <1>0, <2>1 DEF TypeOK, Pause, Resume, Delete, Edit
    <3>2. UNCHANGED <<TravPayload, TravOutcome, TravBegun, TravNotified, TravDone>>
      BY <2>1, RowsUntouched
         DEF Pause, Resume, Delete, Edit, apiVars, TravPayload, TravOutcome, TravNotified
    <3>. QED  BY <3>1, <3>2
  <2>. QED  BY <1>3, <1>11, <2>1 DEF EditWorkflow
<1>12. ASSUME NEW k \in StepKeys, LockLapses(k) PROVE UNCHANGED Traversal!travVars
  BY <1>1, <1>12 DEF LockLapses, wfVars, apiVars
<1>13. CASE UNCHANGED vars
  BY <1>1, <1>13 DEF vars
<1>. QED  BY <1>9, <1>10, <1>11, <1>12, <1>13 DEF Next

LEMMA InitSimulated ==
    ASSUME Init
    PROVE  Traversal!Init
BY DEF Init, Traversal!Init, TravPayload, TravOutcome, TravBegun, TravNotified, TravDone,
       Begun, Completed, StepKeys

\* Seen through its rows and the jobs it sent, the runtime is a traversal of the
\* saved versions, whatever is retried, duplicated, interleaved or edited: every
\* step of it is a step of WorkflowTraversal or leaves that unchanged.
THEOREM Refinement == Spec => ImplementsTraversal
<1>1. CausalityInv /\ NotifiedInv /\ [Next]_vars => [Traversal!Next]_(Traversal!travVars)
  BY StepSimulated
<1>. QED
  BY <1>1, InitSimulated, CausalityAlways, NotifiedAlways, PTL
     DEF Spec, ImplementsTraversal, Traversal!Spec
=============================================================================
