----------------------------- MODULE CanvasHost -----------------------------
(***************************************************************************)
(* The builder's canvas keeps the workflow in a store of its own, next to  *)
(* the draft that the page saves.  Two effects keep them in step: what     *)
(* changes in the store is handed to the page in a transition, which       *)
(* React renders when it finds time; and what changes on the page, the     *)
(* echo of an edit as well as a fetched version, replaces the store, some  *)
(* time after the render that shows it.  Each edit is a draft; drafts are  *)
(* numbered as they are made or fetched, 0 is the one the page opens with. *)
(*                                                                         *)
(* WorkflowBuilder has the edits themselves, BuilderAutosave the saving.   *)
(***************************************************************************)
EXTENDS Integers

CONSTANT MaxDrafts     \* bound on the drafts

ASSUME CanvasHostAssumption == MaxDrafts \in Nat

VARIABLES store,       \* the draft on the canvas, and what is selected there
          value,       \* the draft of the page
          echo,        \* the draft on its way to the page
          due,         \* whether the page's draft was rendered but not yet looked at
          seen,        \* what the two effects remember: lastExternalValueRef and
                       \* lastDraftSignatureRef
          drafts,      \* drafts so far
          newest,      \* what the user made or was given last
          mixups       \* what may excuse the canvas, so far

canvasHostVars == <<store, value, echo, due, seen, drafts, newest, mixups>>

Drafts   == 0..MaxDrafts
NoEcho   == -1
Selected == {"nothing", "step", "edge"}

\* Every variable stays within its domain.
CanvasHostTypeOK ==
    /\ store \in [draft: Drafts, selected: Selected]
    /\ value \in Drafts
    /\ echo \in Drafts \cup {NoEcho}
    /\ due \in BOOLEAN
    /\ seen \in [external: Drafts, draft: Drafts]
    /\ drafts \in Drafts /\ newest \in Drafts
    /\ mixups \subseteq {"hasty", "replaced", "crossed"}

CanvasHostInit ==
    /\ store = [draft |-> 0, selected |-> "nothing"]
    /\ value = 0
    /\ echo = NoEcho
    /\ due = FALSE
    /\ seen = [external |-> 0, draft |-> 0]
    /\ drafts = 0 /\ newest = 0
    /\ mixups = {}

----------------------------------------------------------------------------
(* The effects. *)

\* setCanvasFromDraft; the steps on the canvas are new ones, so that none is selected.
Taken == [draft |-> value, selected |-> "nothing"]

\* Both effects, with the store at s: the page's draft replaces it if it is due and is not
\* the one seen last; then a draft that is not the last one noted goes to the page.
Effects(s) ==
    LET now == IF due /\ value # seen.external THEN Taken ELSE s
    IN  /\ store' = now
        /\ due' = FALSE
        /\ seen' = [external |-> IF due THEN value ELSE seen.external, draft |-> now.draft]
        /\ echo' = IF now.draft # seen.draft THEN now.draft ELSE echo

\* The effects of a render that the user did not cause run when the browser is idle.
RunEffects ==
    /\ due
    /\ Effects(store)
    /\ UNCHANGED <<value, drafts, newest, mixups>>

\* React renders the page with what the canvas handed on.
RenderEcho ==
    /\ echo # NoEcho /\ ~due
    /\ value' = echo
    /\ echo' = NoEcho
    /\ due' = TRUE
    /\ UNCHANGED <<store, seen, drafts, newest, mixups>>

\* useWorkflowBuilderDraft takes over a fetched version, an old draft or a new one.  It is
\* rendered before the transition under way, and wins over it.
TakeFetched(d) ==
    /\ ~due
    /\ d <= drafts + 1
    /\ drafts' = IF d > drafts THEN d ELSE drafts
    /\ value' = d
    /\ due' = TRUE
    /\ echo' = IF echo = NoEcho THEN NoEcho ELSE d
    /\ newest' = IF d > drafts THEN d ELSE newest
    /\ mixups' = mixups \cup (IF d \in {newest, drafts + 1} THEN {} ELSE {"replaced"})
                        \cup (IF echo = NoEcho THEN {} ELSE {"crossed"})
    /\ UNCHANGED <<store, seen>>

----------------------------------------------------------------------------
(* The user.  React runs the effects that are due before it renders what an *)
(* event changed, and those of that render at once.                         *)

Choose(what) ==
    /\ Effects([store EXCEPT !.selected = what])
    /\ UNCHANGED <<value, drafts, newest, mixups>>

\* A click on a step, or on "Edit" of a step that sends nothing (the one of a notification
\* leads to the page of its channel).
ClickStep == Choose("step")
ClickEdge == Choose("edge")
ClickPane == Choose("nothing")

\* An edit makes a new draft of the one on the canvas.
Edit(selection) ==
    /\ drafts < MaxDrafts
    /\ drafts' = drafts + 1
    /\ newest' = drafts + 1
    /\ Effects([draft |-> drafts + 1, selected |-> selection])
    /\ mixups' = IF due THEN mixups \cup {"hasty"} ELSE mixups
    /\ UNCHANGED value

\* The plus of an edge, or the one below the last step: the new step is selected.
InsertStep == Edit("step")

\* The buttons of a step, which the trigger's lack: its copy is selected, or nothing.
CopyStep   == Edit("step")
DeleteStep == Edit("nothing")

\* The name, in the inspector of the selected step.  (Its delay cannot be changed there: the
\* step to change is looked up by the id it has in the definition, not on the canvas.)
RenameStep == store.selected = "step" /\ Edit("step")

CanvasHostNext ==
    \/ RunEffects
    \/ RenderEcho
    \/ \E d \in Drafts : TakeFetched(d)
    \/ ClickStep
    \/ ClickEdge
    \/ ClickPane
    \/ InsertStep
    \/ CopyStep
    \/ DeleteStep
    \/ RenameStep

CanvasHostSpec == CanvasHostInit /\ [][CanvasHostNext]_canvasHostVars

----------------------------------------------------------------------------
(* Properties. *)

InStep == echo = NoEcho /\ ~due

\* With nothing on its way, the canvas shows the draft that the page saves, unless a version
\* was fetched while an edit was on its way: it may take the edit from the page only.
CanvasShowsDraft == InStep /\ "crossed" \notin mixups => store.draft = value

\* And that is what the user made last, unless an older version was fetched, or an edit fell
\* between a render and its effects, which put the draft before it back on the canvas.
EditsArrive == InStep /\ {"hasty", "replaced"} \cap mixups = {} => value = newest
=============================================================================
