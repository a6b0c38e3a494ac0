------------------------- MODULE WorkflowRefinement ------------------------
(***************************************************************************)
(* WorkflowRuntime implements WorkflowTraversal.  The mapping reads the    *)
(* database rows and the jobs sent, never the queue or a handler: a step   *)
(* has begun when it has a row, and is done when the row says completed.   *)
(***************************************************************************)
EXTENDS WorkflowRuntime

TravPayload  == [e \in Executions |-> origin[e].payload]
TravOutcome  == [e \in Executions |-> execution[e].status]
TravBegun    == [e \in Executions |-> {s \in Steps : Begun(e, s)}]
TravNotified == [e \in Executions |-> {s \in Steps : sent[<<e, s>>] >= 1}]
TravDone     == [e \in Executions |-> {s \in Steps : Completed(e, s)}]

Traversal == INSTANCE WorkflowTraversal WITH
    versions <- workflow.versions,
    payload  <- TravPayload,
    outcome  <- TravOutcome,
    begun    <- TravBegun,
    notified <- TravNotified,
    done     <- TravDone

\* Seen through its rows, every execution is a traversal of the saved versions,
\* though its steps run in tasks that are retried, duplicated and interleaved:
\* no step begins that no edge leads to, none is done before its notification
\* was sent, and no execution is reported completed that has not reached a leaf.
ImplementsTraversal == Traversal!Spec
============================================================================
