---------------------------- MODULE WorkflowPage ----------------------------
(***************************************************************************)
(* The page that lists workflows, creates, pauses, resumes and deletes     *)
(* them.  It keeps its own copy of the list, fetched when it opens and     *)
(* after every operation.  An operation is an asynchronous function: its   *)
(* request, its own fetch and the cleaning up behind them run while the    *)
(* user goes on, and while the builder, in another tab or just opened,     *)
(* saves a workflow.                                                       *)
(***************************************************************************)
EXTENDS Integers, FiniteSets

CONSTANTS Workflows,       \* the workflows of the environment
          NoWorkflow,      \* null
          WorkflowKey,     \* the key made from the name of each, or that is to be
          MaxOperations,   \* bound on the operations and the openings of the page
          MaxInFlight      \* bound on those that overlap

ASSUME WorkflowsAssumption == NoWorkflow \notin Workflows

VARIABLES status,      \* workflows.status
          screen,      \* the state of the page
          operation,   \* the asynchronous functions, in the order of their calls
          mishap       \* what may excuse a page that misleads, so far

workflowPageVars == <<status, screen, operation, mishap>>

Operations   == 1..MaxOperations
Statuses     == {"absent", "active", "paused", "archived"}
NoOperation  == [kind |-> "none", id |-> NoWorkflow, at |-> "idle",
                 list |-> [w \in Workflows |-> "hidden"], mounted |-> FALSE]
Underway     == {n \in Operations : operation[n].at \notin {"idle", "done"}}
\* What crosses: operations on two workflows, a dialog dismissed or the page left while an
\* operation runs.
Mishaps      == {"failed", "put", "crossed"}
Smooth       == mishap \subseteq {"crossed"}

\* No page: the user is elsewhere in the dashboard.
Elsewhere == [shown |-> FALSE, pausing |-> NoWorkflow, deleting |-> NoWorkflow,
              mutating |-> NoWorkflow, loading |-> FALSE, naming |-> FALSE, creating |-> FALSE,
              list |-> [w \in Workflows |-> "hidden"]]

\* idx_workflows_active_key: of the workflows with one key, one may be active.
KeyTaken(w) == \E v \in Workflows \ {w} : WorkflowKey[v] = WorkflowKey[w] /\ status[v] = "active"

\* The list leaves archived workflows out.
Listed(s) == IF s \in {"absent", "archived"} THEN "hidden" ELSE s
ServerList == [w \in Workflows |-> Listed(status[w])]

\* Every variable stays within its domain.
WorkflowPageTypeOK ==
    /\ status \in [Workflows -> Statuses]
    /\ screen \in [shown: BOOLEAN, pausing: Workflows \cup {NoWorkflow},
                   deleting: Workflows \cup {NoWorkflow}, mutating: Workflows \cup {NoWorkflow},
                   loading: BOOLEAN, naming: BOOLEAN, creating: BOOLEAN,
                   list: [Workflows -> {"active", "paused", "hidden"}]]
    /\ operation \in [Operations ->
                        [kind: {"none", "load", "create", "pause", "resume", "archive"},
                         id: Workflows \cup {NoWorkflow},
                         at: {"idle", "sent", "checked", "answered", "fetch", "read", "done"},
                         list: [Workflows -> {"active", "paused", "hidden"}],
                         mounted: BOOLEAN]]
    /\ mishap \subseteq Mishaps

WorkflowPageInit ==
    /\ status \in [Workflows -> {"absent", "active", "paused"}]
    /\ \A w \in Workflows : status[w] = "active" => ~KeyTaken(w)
    /\ screen = [Elsewhere EXCEPT !.shown = TRUE, !.list = ServerList]
    /\ operation = [n \in Operations |-> NoOperation]
    /\ mishap = {}

----------------------------------------------------------------------------
(* What the user can do. *)

\* An asynchronous function, up to its first await.
StartOperation(kind, w, at, s) ==
    /\ Cardinality(Underway) < MaxInFlight
    /\ \E n \in Operations :
        /\ operation[n].at = "idle" /\ \A m \in 1..(n - 1) : operation[m].at # "idle"
        /\ operation' = [operation EXCEPT ![n] = [NoOperation EXCEPT !.kind = kind, !.id = w,
                                                    !.at = at, !.mounted = TRUE]]
        /\ screen' = s
        /\ mishap' = IF \E m \in Underway : operation[m].id # w THEN mishap \cup {"crossed"}
                     ELSE mishap
        /\ UNCHANGED status

ShowScreen(s) == screen' = s /\ UNCHANGED <<status, operation, mishap>>

\* togglePause, the resume of requestPause and deleteWorkflow.
Launch(kind, w) == StartOperation(kind, w, "sent", [screen EXCEPT !.mutating = w])

\* The page with no dialog, which would be modal.
Uncovered ==
    screen.shown /\ {screen.pausing, screen.deleting} = {NoWorkflow} /\ ~screen.naming

\* The menu of a row: the table is there unless the list is loading.
Menu(w) == Uncovered /\ ~screen.loading /\ screen.list[w] # "hidden" /\ screen.mutating # w

\* requestPause resumes a workflow that is shown as paused at once, and asks for a
\* confirmation otherwise.
RequestPause(w) ==
    /\ Menu(w)
    /\ IF screen.list[w] = "paused" THEN Launch("resume", w)
       ELSE ShowScreen([screen EXCEPT !.pausing = w])

RequestDelete(w) == Menu(w) /\ ShowScreen([screen EXCEPT !.deleting = w])

\* The buttons that confirm are disabled while an operation on the item runs.
ConfirmPause ==
    screen.pausing \notin {NoWorkflow, screen.mutating} /\ Launch("pause", screen.pausing)

ConfirmDelete ==
    screen.deleting \notin {NoWorkflow, screen.mutating} /\ Launch("archive", screen.deleting)

\* Cancel is disabled while the item is mutated, but Escape, the cross and a click
\* beside the dialog close it all the same.
CloseDialog ==
    /\ {screen.pausing, screen.deleting} # {NoWorkflow}
    /\ screen' = [screen EXCEPT !.pausing = NoWorkflow, !.deleting = NoWorkflow]
    /\ mishap' = IF \E n \in Underway : operation[n].id \in {screen.pausing, screen.deleting} \ {NoWorkflow}
                 THEN mishap \cup {"crossed"} ELSE mishap
    /\ UNCHANGED <<status, operation>>

\* The dialog for a new workflow, and continueToBuilder.  What the dialog holds, creating
\* included, outlives it: only its content goes when it closes.
OpenCreate  == Uncovered /\ ShowScreen([screen EXCEPT !.naming = TRUE])
CloseCreate == screen.naming /\ ShowScreen([screen EXCEPT !.naming = FALSE])

ContinueToBuilder(w) ==
    /\ screen.naming /\ ~screen.creating
    /\ status[w] = "absent" /\ \A n \in Operations : operation[n].id # w
    /\ StartOperation("create", w, "sent", [screen EXCEPT !.creating = TRUE])

\* The functions of a page that is gone run on and find nothing to update.
Unmounted(ops) == [n \in Operations |-> [ops[n] EXCEPT !.mounted = FALSE]]

\* The user follows a link, to the builder for one, ...
LeavePage ==
    /\ Uncovered
    /\ screen' = Elsewhere
    /\ operation' = Unmounted(operation)
    /\ mishap' = IF Underway = {} THEN mishap ELSE mishap \cup {"crossed"}
    /\ UNCHANGED status

\* ... and comes back to a new page, which fetches the list.
OpenPage ==
    /\ ~screen.shown
    /\ StartOperation("load", NoWorkflow, "fetch", [Elsewhere EXCEPT !.shown = TRUE, !.loading = TRUE])

----------------------------------------------------------------------------
(* The API. *)

Served(n, here, there) ==
    /\ operation[n].at = here
    /\ operation' = [operation EXCEPT ![n].at = there]
    /\ UNCHANGED <<screen, mishap>>

\* Pause reads the workflow first; one that is paused already is answered as it is.
CheckPaused(n) ==
    /\ operation[n].kind = "pause"
    /\ Served(n, "sent", IF status[operation[n].id] = "paused" THEN "answered" ELSE "checked")
    /\ UNCHANGED status

PauseRow(n) ==
    /\ Served(n, "checked", "answered")
    /\ status' = [status EXCEPT ![operation[n].id] = "paused"]

\* Resuming and creating make a workflow active, which the index may refuse.
Refused(n) ==
    operation[n].kind \in {"resume", "create"} /\ operation[n].at = "sent" /\ KeyTaken(operation[n].id)

ResumeRow(n) ==
    /\ operation[n].kind = "resume" /\ ~Refused(n)
    /\ Served(n, "sent", "answered")
    /\ status' = [status EXCEPT ![operation[n].id] = "active"]

ArchiveRow(n) ==
    /\ operation[n].kind = "archive"
    /\ Served(n, "sent", "answered")
    /\ status' = [status EXCEPT ![operation[n].id] = "archived"]

CreateRow(n) ==
    /\ operation[n].kind = "create" /\ ~Refused(n)
    /\ Served(n, "sent", "answered")
    /\ status' = [status EXCEPT ![operation[n].id] = "active"]

\* A save of the builder makes the workflow active, whatever it was, unless the index
\* refuses that.  Bound: one save, or one loss.
PutDefinition(w) ==
    /\ Smooth
    /\ status[w] # "absent" /\ ~KeyTaken(w)
    /\ status' = [status EXCEPT ![w] = "active"]
    /\ mishap' = mishap \cup {"put"}
    /\ UNCHANGED <<screen, operation>>

----------------------------------------------------------------------------
(* The rest of the functions, as answers arrive. *)

\* The answer is there: the function fetches the list, which hides the table.
RefetchWorkflows(n) ==
    /\ operation[n].at = "answered" /\ operation[n].kind # "create"
    /\ operation' = [operation EXCEPT ![n].at = "fetch"]
    /\ screen' = IF operation[n].mounted THEN [screen EXCEPT !.loading = TRUE] ELSE screen
    /\ UNCHANGED <<status, mishap>>

ReadList(n) ==
    /\ operation[n].at = "fetch"
    /\ operation' = [operation EXCEPT ![n] = [operation[n] EXCEPT !.at = "read", !.list = ServerList]]
    /\ UNCHANGED <<status, screen, mishap>>

\* Mutated form: only the operation that pauses clears mutatingID.
Finally_KeepsMutating(n, s) ==
    CASE operation[n].kind = "create"  -> [s EXCEPT !.creating = FALSE]
      [] operation[n].kind = "pause"   -> [s EXCEPT !.mutating = NoWorkflow, !.pausing = NoWorkflow]
      [] operation[n].kind = "archive" -> [s EXCEPT !.deleting = NoWorkflow]
      [] OTHER                         -> s

\* finally: nothing is mutated, and the dialog of the operation is closed, whichever
\* workflow it is about by now.
Finally(n, s) ==
    CASE operation[n].kind = "load"    -> s
      [] operation[n].kind = "create"  -> [s EXCEPT !.creating = FALSE]
      [] operation[n].kind = "resume"  -> [s EXCEPT !.mutating = NoWorkflow]
      [] operation[n].kind = "pause"   -> [s EXCEPT !.mutating = NoWorkflow, !.pausing = NoWorkflow]
      [] operation[n].kind = "archive" -> [s EXCEPT !.mutating = NoWorkflow, !.deleting = NoWorkflow]

Finished(n) == [NoOperation EXCEPT !.kind = operation[n].kind, !.id = operation[n].id, !.at = "done"]

FinishOperation(n, s) ==
    /\ operation' = [operation EXCEPT ![n] = Finished(n)]
    /\ screen' = IF operation[n].mounted THEN Finally(n, s) ELSE screen
    /\ UNCHANGED status

\* The workflow exists: the user is taken to the builder, wherever they are by now.
CreateReturns(n) ==
    /\ operation[n].kind = "create" /\ operation[n].at = "answered"
    /\ operation' = Unmounted([operation EXCEPT ![n] = Finished(n)])
    /\ screen' = Elsewhere
    /\ mishap' = IF Underway = {n} THEN mishap ELSE mishap \cup {"crossed"}
    /\ UNCHANGED status

\* fetchWorkflows ends: with the list that was read, however old, ...
ListReturns(n) ==
    /\ operation[n].at = "read"
    /\ FinishOperation(n, [screen EXCEPT !.list = operation[n].list, !.loading = FALSE])
    /\ UNCHANGED mishap

\* ... or, when the request failed, with an empty one.
ListFails(n) ==
    /\ operation[n].at \in {"fetch", "read"} /\ Smooth
    /\ FinishOperation(n, [screen EXCEPT !.list = [w \in Workflows |-> "hidden"], !.loading = FALSE])
    /\ mishap' = mishap \cup {"failed"}

\* The request of the operation fails, refused or lost, before or after its effect: no
\* fetch follows.
OperationFails(n) ==
    /\ operation[n].at \in {"sent", "checked", "answered"}
    /\ Smooth \/ Refused(n)
    /\ FinishOperation(n, screen)
    /\ mishap' = mishap \cup {"failed"}

WorkflowPageNext ==
    \/ \E w \in Workflows :
        RequestPause(w) \/ RequestDelete(w) \/ ContinueToBuilder(w) \/ PutDefinition(w)
    \/ ConfirmPause \/ ConfirmDelete \/ CloseDialog \/ OpenCreate \/ CloseCreate
    \/ LeavePage \/ OpenPage
    \/ \E n \in Operations :
        \/ CheckPaused(n) \/ PauseRow(n) \/ ResumeRow(n) \/ ArchiveRow(n) \/ CreateRow(n)
        \/ RefetchWorkflows(n) \/ ReadList(n) \/ CreateReturns(n)
        \/ ListReturns(n) \/ ListFails(n) \/ OperationFails(n)

WorkflowPageSpec == WorkflowPageInit /\ [][WorkflowPageNext]_workflowPageVars

----------------------------------------------------------------------------
(* Properties. *)

StatusAsked(kind) == CASE kind = "pause" -> "paused" [] kind = "archive" -> "archived"
                 [] kind \in {"create", "resume"} -> "active"

\* What the user asked of w last, its status being what it was if nothing.
AsLastAsked(w) ==
    \A n \in Operations :
        /\ operation[n].id = w
        /\ \A m \in Operations : m > n => operation[m].id # w
        => status[w] = StatusAsked(operation[n].kind)

\* With nothing in flight the page is usable again; if no request failed and nothing
\* crossed, every workflow is as the user asked last and the list says so, unless a save
\* of the builder made one active.
PageSettles ==
    Underway = {} =>
        /\ screen.mutating = NoWorkflow /\ ~screen.loading /\ ~screen.creating
        /\ mishap = {} =>
            /\ screen.shown => screen.list = ServerList
            /\ \A w \in Workflows : AsLastAsked(w)

\* mutatingID keeps a second request for a workflow back until the first one is done,
\* unless it was needed for another workflow meanwhile, or the page is a new one, and
\* one workflow is created at a time, even if the dialog is closed and opened again.
OneAtATime ==
    \A n, m \in Underway :
        /\ n # m
        /\ \/ operation[n].id = operation[m].id /\ operation[n].id # NoWorkflow
           \/ operation[n].kind = "create" /\ operation[m].kind = "create"
        => "crossed" \in mishap

\* A dialog closes by itself only at the end of the operation it confirmed, unless
\* something crossed.
OwnDialogs ==
    \A w \in Workflows :
        /\ screen.pausing = w /\ screen'.pausing # w
        /\ "crossed" \notin mishap' /\ screen'.shown
        => \/ operation' = operation
           \/ \E n \in Underway : operation[n].id = w /\ operation'[n].at = "done"
=============================================================================
