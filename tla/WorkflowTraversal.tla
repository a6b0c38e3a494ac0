------------------------- MODULE WorkflowTraversal -------------------------
(***************************************************************************)
(* What the execution of a workflow promises, whatever queue runs it: the  *)
(* steps of an execution begin along the edges of saved versions of the    *)
(* definition, a notification step is done only once its notification was  *)
(* sent, and an execution is completed only at a leaf.  Retries, rows,     *)
(* tasks and locks are left out; WorkflowRefinement shows that             *)
(* WorkflowRuntime implements this.                                        *)
(***************************************************************************)
EXTENDS WorkflowGraph

CONSTANTS Executions, Definitions, InitialDefinition

VARIABLES
    versions,    \* definitions saved so far
    payload,     \* of each execution: the conditions its payload satisfies
    outcome,     \* of each execution
    begun,       \* steps that have begun
    notified,    \* steps that have sent a notification
    done         \* steps that are completed and not being run again

travVars == <<versions, payload, outcome, begun, notified, done>>

Init ==
    /\ versions = {InitialDefinition}
    /\ payload = [e \in Executions |-> {}]
    /\ outcome = [e \in Executions |-> "none"]
    /\ begun = [e \in Executions |-> {}]
    /\ notified = [e \in Executions |-> {}]
    /\ done = [e \in Executions |-> {}]

Save(d) ==
    /\ versions' = versions \cup {d}
    /\ UNCHANGED <<payload, outcome, begun, notified, done>>

Trigger(e, p) ==
    /\ outcome[e] = "none"
    /\ outcome' = [outcome EXCEPT ![e] = "queued"]
    /\ payload' = [payload EXCEPT ![e] = p]
    /\ UNCHANGED <<versions, begun, notified, done>>

\* A step begins, for the first time or again.
BeginStep(e, s) ==
    /\ \E d \in versions :
          \/ IsFirstStep(d, s)
          \/ \E p \in begun[e] \cap NodesOf(d) : s \in Successors(d, p, payload[e])
    /\ begun' = [begun EXCEPT ![e] = @ \cup {s}]
    /\ done' = [done EXCEPT ![e] = @ \ {s}]
    /\ UNCHANGED <<versions, payload, outcome, notified>>

SendNotification(e, s) ==
    /\ s \in begun[e]
    /\ notified' = [notified EXCEPT ![e] = @ \cup {s}]
    /\ UNCHANGED <<versions, payload, outcome, begun, done>>

\* In every version that has the step, it is a notification.
AlwaysNotifies(s) ==
    \A d \in versions : s \in NodesOf(d) => d.type[s] = "notification"

CompleteStep(e, s) ==
    /\ s \in begun[e]
    /\ AlwaysNotifies(s) => s \in notified[e]
    /\ done' = [done EXCEPT ![e] = @ \cup {s}]
    /\ UNCHANGED <<versions, payload, outcome, begun, notified>>

FailStep(e, s) ==
    /\ s \in begun[e]
    /\ done' = [done EXCEPT ![e] = @ \ {s}]
    /\ UNCHANGED <<versions, payload, outcome, begun, notified>>

\* The status of the execution: of the step that wrote it last.
Report(e, o) ==
    /\ begun[e] # {}
    /\ o = "completed" => \E d \in versions : \E s \in begun[e] \cap NodesOf(d) :
                              NextOf(d, s, payload[e]) = {}
    /\ outcome' = [outcome EXCEPT ![e] = o]
    /\ UNCHANGED <<versions, payload, begun, notified, done>>

Next ==
    \/ \E d \in Definitions : Save(d)
    \/ \E e \in Executions : \E p \in SUBSET Steps : Trigger(e, p)
    \/ \E e \in Executions, s \in Steps :
          BeginStep(e, s) \/ SendNotification(e, s) \/ CompleteStep(e, s) \/ FailStep(e, s)
    \/ \E e \in Executions, o \in {"queued", "running", "completed", "failed"} :
          Report(e, o)

Spec == Init /\ [][Next]_travVars
============================================================================
