---------------------------- MODULE TriggerPanel ----------------------------
(***************************************************************************)
(* The panel of the builder from which a user sends a workflow to one      *)
(* recipient and watches the delivery.  It is in a drawer, and begins      *)
(* anew each time that is opened.  The form (recipient, contacts, payload) *)
(* may change at any time, also while a send is on its way; the answer of  *)
(* a send names its notification, which the panel then polls.              *)
(* Polls of several notifications may be under way; each reads the status  *)
(* of the notification and then its delivery attempts, which the worker    *)
(* writes in the opposite order.                                           *)
(***************************************************************************)
EXTENDS Integers, FiniteSets

CONSTANTS Found,       \* subscribers the search finds
          Profile,     \* the signed-in user
          Attempts,    \* channels of a send
          MaxSends,    \* bound on the sends
          MaxChanges   \* bound on the changes of a form, which number its versions

ASSUME PanelConstants == Attempts \in Nat /\ MaxChanges \in Nat

VARIABLES drawer,      \* whether the drawer with the panel is open
          form,        \* what the panel shows as recipient and payload
          draft,       \* recipient being edited in the form, NoOne: none
          profiled,    \* whether the user's profile has been loaded
          mutation,    \* the send the button observes, 0: none
          shown,       \* notificationId: the send whose delivery is shown, 0: none
          sends,       \* the sends
          polls,       \* the fetch of each notification, if one runs
          polled,      \* what is cached of each notification
          lapses       \* what the user did while a send was on its way

panelVars == <<drawer, form, draft, profiled, mutation, shown, sends, polls, polled, lapses>>

NoOne    == "nobody"
SendIds  == 1..MaxSends
Whom     == Found \cup {Profile}
Form     == [who: Whom \cup {NoOne}, version: 0..MaxChanges]
OnItsWay == {"asked", "accepted"}
NoSend   == [at |-> "none", form |-> [who |-> NoOne, version |-> 0], attempts |-> 0,
             final |-> FALSE, watched |-> FALSE]
View     == [final: BOOLEAN, events: 0..Attempts, unread: BOOLEAN]
Unknown  == [final |-> FALSE, events |-> 0, unread |-> FALSE]
NoPoll   == [at |-> "idle", view |-> Unknown]

\* Every variable stays within its domain, and the panel observes and shows sends only.
PanelTypeOK ==
    /\ drawer \in BOOLEAN
    /\ form \in Form
    /\ draft \in Whom \cup {NoOne}
    /\ profiled \in BOOLEAN
    /\ mutation \in SendIds \cup {0}
    /\ shown \in SendIds \cup {0}
    /\ sends \in [SendIds -> [at: OnItsWay \cup {"none", "answered", "failed"}, form: Form,
                              attempts: 0..Attempts, final: BOOLEAN, watched: BOOLEAN]]
    /\ polls \in [SendIds -> [at: {"idle", "status", "attempts", "answer"}, view: View]]
    /\ polled \in [SendIds -> View]
    /\ lapses \subseteq {"changed", "left"}
    /\ shown # 0 => sends[shown].at = "answered"
    /\ mutation # 0 => sends[mutation].at # "none"

\* The workflow list may lead to the builder with the panel open.
PanelInit ==
    /\ drawer \in BOOLEAN
    /\ form = [who |-> NoOne, version |-> 0]
    /\ draft = NoOne
    /\ profiled = FALSE
    /\ mutation = 0
    /\ shown = 0
    /\ sends = [n \in SendIds |-> NoSend]
    /\ polls = [n \in SendIds |-> NoPoll]
    /\ polled = [n \in SendIds |-> Unknown]
    /\ lapses = {}

Pending == {n \in SendIds : sends[n].at \in OnItsWay}

\* The recipient of a panel that just opened, or was cleared.
Default == IF profiled THEN Profile ELSE NoOne

----------------------------------------------------------------------------
(* The drawer. *)

\* The drawer opens; its other tab, a piece of code to copy, is to the panel as if closed.
OpenPanel ==
    /\ ~drawer
    /\ drawer' = TRUE
    /\ UNCHANGED <<form, draft, profiled, mutation, shown, sends, polls, polled, lapses>>

\* The panel goes, and with it the form and who would hear of the sends on their way.
ClosePanel ==
    /\ drawer
    /\ drawer' = FALSE
    /\ form' = [who |-> Default, version |-> 0]
    /\ draft' = NoOne
    /\ mutation' = 0
    /\ shown' = 0
    /\ sends' = [n \in SendIds |-> [sends[n] EXCEPT !.watched = FALSE]]
    /\ lapses' = IF Pending = {} THEN {} ELSE {"left"}
    /\ UNCHANGED <<profiled, polls, polled>>

----------------------------------------------------------------------------
(* The form. *)

\* The form becomes one for `who`, and no delivery is shown any more.
ChangeForm(who) ==
    /\ drawer /\ form.version < MaxChanges
    /\ form' = [who |-> who, version |-> form.version + 1]
    /\ shown' = 0
    /\ lapses' = IF Pending = {} THEN lapses ELSE lapses \cup {"changed"}
    /\ UNCHANGED <<drawer, profiled, sends, polls, polled>>

\* The profile arrives; the user is the default recipient.
LoadProfile ==
    /\ ~profiled
    /\ profiled' = TRUE
    /\ form' = IF form.who = NoOne THEN [form EXCEPT !.who = Profile] ELSE form
    /\ UNCHANGED <<drawer, draft, mutation, shown, sends, polls, polled, lapses>>

\* Mutated form: the delivery of the last send stays.
SelectSubscriber_KeepsShown(r) ==
    /\ drawer /\ form.version < MaxChanges
    /\ form' = [who |-> r, version |-> form.version + 1]
    /\ lapses' = IF Pending = {} THEN lapses ELSE lapses \cup {"changed"}
    /\ mutation' = 0
    /\ UNCHANGED <<drawer, draft, profiled, shown, sends, polls, polled>>

\* handleSelectSubscriber: the button observes no send any more, also one on its way.  A
\* recipient being edited stays in the editor.
SelectSubscriber(r) ==
    /\ ChangeForm(r)
    /\ mutation' = 0
    /\ UNCHANGED draft

\* handleClearSubscriber: back to the default recipient, in an editor of its own.
ClearSubscriber ==
    /\ ChangeForm(Default)
    /\ mutation' = 0
    /\ draft' = NoOne

\* SubscriberInfoEditor: the contacts are edited in a copy of the recipient, which
\* replaces the recipient, whoever has been selected since.  It offers Edit, or the fields
\* with Save and Cancel.
Editing == draft # NoOne

StartEdit ==
    /\ drawer /\ form.who # NoOne
    /\ ~Editing
    /\ draft' = form.who
    /\ UNCHANGED <<drawer, form, profiled, mutation, shown, sends, polls, polled, lapses>>
CancelEdit ==
    /\ Editing
    /\ draft' = NoOne
    /\ UNCHANGED <<drawer, form, profiled, mutation, shown, sends, polls, polled, lapses>>
SaveEdit ==
    /\ Editing
    /\ ChangeForm(draft)
    /\ draft' = NoOne
    /\ UNCHANGED mutation

\* PayloadEditor: another payload for the same recipient.
SavePayload ==
    /\ ChangeForm(form.who)
    /\ UNCHANGED <<draft, mutation>>

----------------------------------------------------------------------------
(* The sends. *)

\* isValid: a recipient, and nothing the button observes is going on.
Enabled ==
    /\ drawer
    /\ form.who # NoOne
    /\ mutation # 0 => sends[mutation].at \notin OnItsWay
    /\ shown # 0 => polled[shown].final

\* handleTrigger: the request leaves with the form as it is.
SendForm(n) ==
    /\ Enabled
    /\ sends[n].at = "none" /\ \A m \in 1..(n - 1) : sends[m].at # "none"
    /\ sends' = [sends EXCEPT ![n] = [NoSend EXCEPT !.at = "asked", !.form = form,
                                               !.watched = TRUE]]
    /\ mutation' = n
    /\ UNCHANGED <<drawer, form, draft, profiled, shown, polls, polled, lapses>>

\* The API creates the notification and enqueues its job.
AcceptSend(n) ==
    /\ sends[n].at = "asked"
    /\ sends' = [sends EXCEPT ![n].at = "accepted"]
    /\ UNCHANGED <<drawer, form, draft, profiled, mutation, shown, polls, polled, lapses>>

\* The answer arrives, and its notification is shown whatever the form has become, unless
\* the panel that asked is gone.
SendAnswered(n) ==
    /\ sends[n].at = "accepted"
    /\ sends' = [sends EXCEPT ![n].at = "answered"]
    /\ shown' = IF sends[n].watched THEN n ELSE shown
    /\ UNCHANGED <<drawer, form, draft, profiled, mutation, polls, polled, lapses>>

\* The request is refused, or its answer is lost.
SendRefused(n) ==
    /\ sends[n].at \in OnItsWay
    /\ sends' = [sends EXCEPT ![n].at = "failed"]
    /\ UNCHANGED <<drawer, form, draft, profiled, mutation, shown, polls, polled, lapses>>

\* The worker records the attempt of each channel, then the final status.
Deliver(n) ==
    /\ sends[n].at \in {"accepted", "answered"}
    /\ ~sends[n].final
    /\ sends' = IF sends[n].attempts < Attempts THEN [sends EXCEPT ![n].attempts = @ + 1]
                                                 ELSE [sends EXCEPT ![n].final = TRUE]
    /\ UNCHANGED <<drawer, form, draft, profiled, mutation, shown, polls, polled, lapses>>

----------------------------------------------------------------------------
(* The polls. *)

\* refetchInterval: until the cached status is a final one.
AskPoll(n) ==
    /\ shown = n
    /\ polls[n].at = "idle"
    /\ ~polled[n].final
    /\ polls' = [polls EXCEPT ![n].at = "status"]
    /\ UNCHANGED <<drawer, form, draft, profiled, mutation, shown, sends, polled, lapses>>

\* GetByProjectWithAttempts: the status, then the attempts; when they cannot be read the
\* answer has none.
ReadStatus(n) ==
    /\ polls[n].at = "status"
    /\ polls' = [polls EXCEPT ![n].at = "attempts", ![n].view.final = sends[n].final]
    /\ UNCHANGED <<drawer, form, draft, profiled, mutation, shown, sends, polled, lapses>>
ReadAttempts(n) ==
    /\ polls[n].at = "attempts"
    /\ \/ polls' = [polls EXCEPT ![n].at = "answer", ![n].view.events = sends[n].attempts]
       \/ polls' = [polls EXCEPT ![n].at = "answer", ![n].view.unread = TRUE]
    /\ UNCHANGED <<drawer, form, draft, profiled, mutation, shown, sends, polled, lapses>>

\* The answer goes to the cache, under the id it was asked for.
PollReturns(n) ==
    /\ polls[n].at = "answer"
    /\ polled' = [polled EXCEPT ![n] = polls[n].view]
    /\ polls' = [polls EXCEPT ![n] = NoPoll]
    /\ UNCHANGED <<drawer, form, draft, profiled, mutation, shown, sends, lapses>>

\* The poll fails: the panel asks again.
PollFails(n) ==
    /\ polls[n].at # "idle"
    /\ polls' = [polls EXCEPT ![n] = NoPoll]
    /\ UNCHANGED <<drawer, form, draft, profiled, mutation, shown, sends, polled, lapses>>

PanelNext ==
    \/ OpenPanel
    \/ ClosePanel
    \/ LoadProfile
    \/ \E r \in Found : SelectSubscriber(r)
    \/ ClearSubscriber
    \/ StartEdit
    \/ CancelEdit
    \/ SaveEdit
    \/ SavePayload
    \/ \E n \in SendIds :
        \/ SendForm(n)
        \/ AcceptSend(n)
        \/ SendAnswered(n)
        \/ SendRefused(n)
        \/ Deliver(n)
        \/ AskPoll(n)
        \/ ReadStatus(n)
        \/ ReadAttempts(n)
        \/ PollReturns(n)
        \/ PollFails(n)

PanelSpec == PanelInit /\ [][PanelNext]_panelVars

----------------------------------------------------------------------------
(* Properties. *)

\* The delivery that the panel shows is that of a send of the very form it shows, unless the
\* form was changed while a request was on its way (its late answer is shown under the new
\* form); to close the drawer ends this, for the answer finds no panel.  At most one request
\* is on its way, unless the form was changed (selecting a subscriber makes the button forget
\* that request) or the drawer was closed then.  A delivery shown as ended shows every
\* attempt, however polls are late, lost or overtaken, unless they could not be read.
PanelShowsOwnSend ==
    /\ shown # 0 /\ "changed" \notin lapses => sends[shown].form = form
    /\ lapses = {} => Cardinality(Pending) <= 1
    /\ \A n \in SendIds : polled[n].final /\ ~polled[n].unread => polled[n].events = Attempts
=============================================================================
