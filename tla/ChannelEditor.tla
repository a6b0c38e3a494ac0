---------------------------- MODULE ChannelEditor ----------------------------
(***************************************************************************)
(* The page that edits the template of one e-mail or SMS step.  The        *)
(* subject and the body of an e-mail are saved by timers of their own, by  *)
(* one routine: it writes the template, then the workflow whose step names *)
(* the template.  Saves are not queued, so they may overtake each other,   *)
(* and the page may load what a save left behind is about to replace.      *)
(* What is typed into an SMS only changes the page.                        *)
(*                                                                         *)
(* Texts are numbered in the order in which they are typed; 0 is none.     *)
(* BuilderAutosave has what else of the workflow the second write carries. *)
(***************************************************************************)
EXTENDS Integers

CONSTANTS MaxTexts,    \* bound on the texts typed
          MaxWrites,   \* bound on the saves
          MaxOpenings  \* bound on the visits

ASSUME EditorConstants == MaxTexts \in Nat /\ MaxOpenings \in Nat

VARIABLES medium,      \* the channel of the step
          template,    \* the row of the step's template, once there is one
          linked,      \* whether the stored step names the template
          payload,     \* the test payload of the stored workflow
          editor,      \* the page
          clocks,      \* the timers that run
          writes,      \* the saves, in the order of their starts
          texts,       \* texts typed so far
          openings,    \* visits so far
          slips        \* what may excuse the page, so far

channelEditorVars == <<medium, template, linked, payload, editor, clocks, writes, texts, openings, slips>>

Texts    == 0..MaxTexts
Content  == [subject: Texts, body: Texts]
Blank    == [subject |-> 0, body |-> 0]
WriteIds == 1..MaxWrites
NoWrite  == [at |-> "none", content |-> Blank, payload |-> 0, mine |-> FALSE]
Gone     == [at |-> "away", content |-> Blank, payload |-> 0, typed |-> 0, last |-> 0,
             known |-> FALSE, saving |-> "idle"]
Outstanding == {n \in WriteIds : writes[n].at \in {"template", "stored", "workflow", "saved"}}

\* Every variable stays within its domain.
ChannelEditorTypeOK ==
    /\ medium \in {"email", "sms"}
    /\ template \in Content
    /\ linked \in BOOLEAN
    /\ payload \in Texts
    /\ editor \in [at: {"away", "loading", "open", "broken"}, content: Content, payload: Texts,
                   typed: Texts, last: Texts, known: BOOLEAN, saving: {"idle", "saving", "saved", "error"}]
    /\ clocks \subseteq {"typing", "body", "subject"}
    /\ writes \in [WriteIds -> [at: {"none", "template", "stored", "workflow", "saved", "over"},
                                content: Content, payload: Texts, mine: BOOLEAN]]
    /\ texts \in Texts
    /\ openings \in 0..MaxOpenings
    /\ slips \subseteq {"overlap", "behind", "unread", "unsent"}
    /\ editor.at = "away" => clocks = {}

ChannelEditorInit ==
    /\ medium \in {"email", "sms"}
    /\ template = Blank
    /\ linked = FALSE
    /\ payload = 0
    /\ editor = Gone
    /\ clocks = {}
    /\ writes = [n \in WriteIds |-> NoWrite]
    /\ texts = 0
    /\ openings = 0
    /\ slips = {}

----------------------------------------------------------------------------
(* Coming and going. *)

\* The page opens; the workflow is requested.
OpenEditor ==
    /\ editor.at = "away"
    /\ openings < MaxOpenings
    /\ openings' = openings + 1
    /\ editor' = [Gone EXCEPT !.at = "loading"]
    /\ UNCHANGED <<medium, template, linked, payload, clocks, writes, texts, slips>>

\* The workflow arrives: a step without a template starts from nothing, for the other the
\* template is requested.
LoadStep ==
    /\ editor.at = "loading" /\ ~editor.known
    /\ editor' = [editor EXCEPT !.payload = payload, !.known = linked,
                                !.at = IF linked THEN "loading" ELSE "open"]
    /\ slips' = slips \cup (IF Outstanding = {} THEN {} ELSE {"behind"})
                    \cup (IF linked \/ template = Blank THEN {} ELSE {"unread"})
    /\ UNCHANGED <<medium, template, linked, payload, clocks, writes, texts, openings>>

\* The template arrives.
LoadTemplate ==
    /\ editor.at = "loading" /\ editor.known
    /\ editor' = [editor EXCEPT !.at = "open", !.content = template]
    /\ slips' = IF Outstanding = {} THEN slips ELSE slips \cup {"behind"}
    /\ UNCHANGED <<medium, template, linked, payload, clocks, writes, texts, openings>>

\* Either request fails.  The page shows the error above empty editors; without the workflow
\* nothing they take is saved, without the template they replace it.
LoadFails ==
    /\ editor.at = "loading"
    /\ editor' = [editor EXCEPT !.at = IF editor.known THEN "open" ELSE "broken", !.payload = 0]
    /\ slips' = IF editor.known THEN slips \cup {"unread"} ELSE slips
    /\ UNCHANGED <<medium, template, linked, payload, clocks, writes, texts, openings>>

\* The user leaves: the timers go, what is under way goes on.
LeaveEditor ==
    /\ editor.at # "away"
    /\ editor' = Gone
    /\ clocks' = {}
    /\ writes' = [n \in WriteIds |->
            IF writes[n].mine /\ writes[n].at \in {"template", "stored"}
            THEN [writes[n] EXCEPT !.mine = FALSE, !.payload = editor.payload]
            ELSE [writes[n] EXCEPT !.mine = FALSE]]
    /\ UNCHANGED <<medium, template, linked, payload, texts, openings, slips>>

----------------------------------------------------------------------------
(* Typing. *)

EditorShown == editor.at \in {"open", "broken"}

\* The fields the panel has for the channel: an SMS has no subject.
Fields == IF medium = "sms" THEN {"body"} ELSE {"subject", "body"}

\* The user types in the body of an e-mail; its editor holds it back for 400 ms.
TypeEmail ==
    /\ EditorShown /\ medium = "email"
    /\ texts < MaxTexts
    /\ texts' = texts + 1
    /\ editor' = [editor EXCEPT !.typed = texts + 1]
    /\ clocks' = clocks \cup {"typing"}
    /\ UNCHANGED <<medium, template, linked, payload, writes, openings, slips>>

\* Or in an SMS, whose editor hands it to the page at once, past the page's timer.
TypeSms ==
    /\ EditorShown /\ medium = "sms"
    /\ texts < MaxTexts
    /\ texts' = texts + 1
    /\ editor' = [editor EXCEPT !.content.body = texts + 1]
    /\ UNCHANGED <<medium, template, linked, payload, clocks, writes, openings, slips>>

\* handleHtmlChange: the body reaches the page, and its timer starts again.
HandOnBody ==
    /\ "typing" \in clocks
    /\ editor' = [editor EXCEPT !.content.body = editor.typed, !.last = editor.typed]
    /\ clocks' = (clocks \ {"typing"}) \cup {"body"}
    /\ UNCHANGED <<medium, template, linked, payload, writes, texts, openings, slips>>

\* handleSubjectChange: the subject's timer starts again.
TypeSubject ==
    /\ EditorShown /\ "subject" \in Fields
    /\ texts < MaxTexts
    /\ texts' = texts + 1
    /\ editor' = [editor EXCEPT !.content.subject = texts + 1]
    /\ clocks' = clocks \cup {"subject"}
    /\ UNCHANGED <<medium, template, linked, payload, writes, openings, slips>>

\* The user changes the test payload.  What is no JSON stays in its field; the rest reaches
\* the page, and is saved with the next save of a subject or body.
TypePayload ==
    /\ EditorShown
    /\ texts < MaxTexts
    /\ texts' = texts + 1
    /\ editor' = [editor EXCEPT !.payload = texts + 1]
    /\ slips' = slips \cup {"unsent"}
    /\ UNCHANGED <<medium, template, linked, payload, clocks, writes, openings>>

----------------------------------------------------------------------------
(* Saving. *)

\* performAutosave, with the subject as it is and the body last taken from the editor.
StartWrite(n) ==
    /\ writes[n].at = "none" /\ \A m \in 1..(n - 1) : writes[m].at # "none"
    /\ writes' = [writes EXCEPT ![n] =
            [at |-> "template", mine |-> TRUE, payload |-> 0,
             content |-> [editor.content EXCEPT !.body = editor.last]]]
    /\ editor' = [editor EXCEPT !.saving = "saving"]
    /\ slips' = IF Outstanding = {} THEN slips ELSE slips \cup {"overlap"}

\* Mutated form: a subject may be saved before the body has changed.
FireClock_AnyBody(c) ==
    /\ c \in clocks \ {"typing"}
    /\ clocks' = clocks \ {c}
    /\ IF editor.at = "open"
       THEN \E n \in WriteIds : StartWrite(n)
       ELSE UNCHANGED <<writes, editor, slips>>
    /\ UNCHANGED <<medium, template, linked, payload, texts, openings>>

\* A timer fires.  A subject is not saved before the body has changed on this visit, and
\* nothing is without the workflow.
FireClock(c) ==
    /\ c \in clocks \ {"typing"}
    /\ clocks' = clocks \ {c}
    /\ IF editor.at = "open" /\ editor.last # 0
       THEN \E n \in WriteIds : StartWrite(n)
       ELSE UNCHANGED <<writes, editor, slips>>
    /\ UNCHANGED <<medium, template, linked, payload, texts, openings>>

\* The API writes the row: by its id, or by its name, which is the same for every save of
\* this step; there is one row in either case.
WriteTemplate(n) ==
    /\ writes[n].at = "template"
    /\ template' = writes[n].content
    /\ writes' = [writes EXCEPT ![n].at = "stored"]
    /\ UNCHANGED <<medium, linked, payload, editor, clocks, texts, openings, slips>>

\* Its answer arrives, and the workflow is sent with the id of the template and the payload
\* as it is by now; a page that is gone remembers its last.
TemplateWritten(n) ==
    /\ writes[n].at = "stored"
    /\ writes' = [writes EXCEPT ![n].at = "workflow",
                               ![n].payload = IF writes[n].mine THEN editor.payload ELSE writes[n].payload]
    /\ editor' = IF writes[n].mine THEN [editor EXCEPT !.known = TRUE] ELSE editor
    /\ slips' = IF writes[n].mine THEN slips \ {"unsent"} ELSE slips
    /\ UNCHANGED <<medium, template, linked, payload, clocks, texts, openings>>

\* The API replaces the workflow.
WriteWorkflow(n) ==
    /\ writes[n].at = "workflow"
    /\ linked' = TRUE
    /\ payload' = writes[n].payload
    /\ writes' = [writes EXCEPT ![n].at = "saved"]
    /\ UNCHANGED <<medium, template, editor, clocks, texts, openings, slips>>

\* The page shows how the save ended, whichever it was.
WriteEnds(n, result) ==
    /\ writes' = [writes EXCEPT ![n] = [NoWrite EXCEPT !.at = "over"]]
    /\ editor' = IF writes[n].mine THEN [editor EXCEPT !.saving = result] ELSE editor
    /\ UNCHANGED <<medium, template, linked, payload, clocks, texts, openings, slips>>

WorkflowWritten(n) == writes[n].at = "saved" /\ WriteEnds(n, "saved")

\* A request is refused or its answer is lost; it is not sent again.
WriteFails(n) == n \in Outstanding /\ WriteEnds(n, "error")

ChannelEditorNext ==
    \/ OpenEditor
    \/ LoadStep
    \/ LoadTemplate
    \/ LoadFails
    \/ LeaveEditor
    \/ TypeEmail
    \/ TypeSms
    \/ HandOnBody
    \/ TypeSubject
    \/ TypePayload
    \/ \E c \in {"body", "subject"} : FireClock(c)
    \/ \E n \in WriteIds :
        \/ WriteTemplate(n)
        \/ TemplateWritten(n)
        \/ WriteWorkflow(n)
        \/ WorkflowWritten(n)
        \/ WriteFails(n)

ChannelEditorSpec == ChannelEditorInit /\ [][ChannelEditorNext]_channelEditorVars

----------------------------------------------------------------------------
(* Properties. *)

\* Once the body has changed on this visit, no timer runs and no save is under way, the step
\* names a template that holds the subject and the body the page shows, and the workflow holds
\* its payload unless that was changed later, unless the page says that the last save failed,
\* or two saves overlapped (the earlier may be the last to write, and the one that failed the
\* first to be answered).  The body of an SMS is never saved.
SavedIsStored ==
    /\ medium = "email" /\ editor.at = "open" /\ editor.last # 0 /\ editor.saving # "error"
    /\ clocks = {} /\ Outstanding = {} /\ "overlap" \notin slips
    => linked /\ template = editor.content /\ ("unsent" \in slips \/ payload = editor.payload)

\* A save puts newer text in the place of older, never the reverse, unless saves overlapped,
\* the page was loaded while a save of an earlier visit was under way, or it started from
\* empty editors although there was a template: one that could not be read, or one whose
\* second write failed, so that no step names it.
NothingOlder ==
    slips' \ {"unsent"} = {} =>
        /\ template'.subject >= template.subject /\ template'.body >= template.body
        /\ payload' >= payload
=============================================================================
