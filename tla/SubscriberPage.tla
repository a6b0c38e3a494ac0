--------------------------- MODULE SubscriberPage ---------------------------
(***************************************************************************)
(* The page that lists subscribers, adds, edits and deletes them.  It      *)
(* shows the cached answer of the last GET; every request that succeeds    *)
(* has the list fetched again.  The sheet that edits a subscriber is       *)
(* always mounted: its form keeps what was typed into it, its preferences  *)
(* are reset to those of the subscriber it opens for.  Each dialog may be  *)
(* closed while its request runs.  A fetch that fails replaces the page,   *)
(* and what is open on it, by a message with a button to try again.        *)
(***************************************************************************)
EXTENDS Integers, FiniteSets

CONSTANTS People,       \* subscribers, or subscribers to be
          NoPerson,     \* null
          Channels,     \* email, sms, push
          MaxRequests   \* bound on the requests the user makes

ASSUME PeopleAssumption == NoPerson \notin People

VARIABLES people,    \* the table `subscribers`
          listed,    \* the cached list
          refetch,   \* the fetch of the list
          sheet,     \* the subscriber edited, their preferences as toggled, what was typed
          dialog,    \* the subscriber to delete, and the dialog that adds one
          request,   \* the requests of the page, in the order of their calls
          spoiled    \* what may excuse a page that misleads, so far

subscriberPageVars == <<people, listed, refetch, sheet, dialog, request, spoiled>>

Requests == 1..MaxRequests
Spoilers == {"crossed", "stale", "lost"}

\* The channels for every workflow, and those for one, if it has an entry of its own.
NoEntry     == [own |-> FALSE, channels |-> {}]
Entry(cs)   == [own |-> TRUE, channels |-> cs]
Preferences == [global: SUBSET Channels, workflow: {NoEntry} \cup {Entry(cs) : cs \in SUBSET Channels}]
DefaultPreferences == [global |-> Channels, workflow |-> NoEntry]

\* A row holds somebody's details: name, addresses, metadata.
Absent   == [there |-> FALSE, details |-> NoPerson, preferences |-> DefaultPreferences]
Created(p) == [there |-> TRUE, details |-> p, preferences |-> DefaultPreferences]
Rows     == [there: BOOLEAN, details: People \cup {NoPerson}, preferences: Preferences]

NoRequest  == [kind |-> "none", at |-> "idle", id |-> NoPerson, row |-> Absent, mounted |-> TRUE]
NoRefetch  == [at |-> "idle", rows |-> [p \in People |-> Absent], failed |-> FALSE]
NoSheet    == [id |-> NoPerson, opened |-> DefaultPreferences, preferences |-> DefaultPreferences,
               typed |-> NoPerson]
OnTheWay   == {n \in Requests : request[n].at \in {"sent", "answered"}}
InProgress(kind) == \E n \in OnTheWay : request[n].kind = kind /\ request[n].mounted

\* Every variable stays within its domain.
SubscriberPageTypeOK ==
    /\ people \in [People -> Rows]
    /\ listed \in [People -> Rows]
    /\ refetch \in [at: {"idle", "asked", "read"}, rows: [People -> Rows], failed: BOOLEAN]
    /\ sheet \in [id: People \cup {NoPerson}, opened: Preferences, preferences: Preferences,
                  typed: People \cup {NoPerson}]
    /\ dialog \in [deleting: People \cup {NoPerson}, adding: BOOLEAN]
    /\ request \in [Requests -> [kind: {"none", "create", "update", "delete"},
                                 at: {"idle", "sent", "answered", "done"},
                                 id: People \cup {NoPerson}, row: Rows, mounted: BOOLEAN]]
    /\ spoiled \subseteq Spoilers

SubscriberPageInit ==
    /\ \E there \in SUBSET People : people = [p \in People |-> IF p \in there THEN Created(p) ELSE Absent]
    /\ listed = people
    /\ refetch = NoRefetch
    /\ sheet = NoSheet
    /\ dialog = [deleting |-> NoPerson, adding |-> FALSE]
    /\ request = [n \in Requests |-> NoRequest]
    /\ spoiled = {}

----------------------------------------------------------------------------
(* What the user can do, while the page is there: see SubscriberPageNext. *)

\* The sheet and the dialogs are modal.
NothingOpen == sheet.id = NoPerson /\ dialog.deleting = NoPerson /\ ~dialog.adding

\* Something is opened, changed, closed or sent while a request runs.
Cross == spoiled' = IF OnTheWay = {} THEN spoiled ELSE spoiled \cup {"crossed"}

SendRequest(kind, p, row) ==
    /\ \E n \in Requests :
        /\ request[n].at = "idle" /\ \A m \in 1..(n - 1) : request[m].at # "idle"
        /\ request' = [request EXCEPT ![n] = [kind |-> kind, at |-> "sent", id |-> p, row |-> row,
                                              mounted |-> TRUE]]
    /\ Cross
    /\ UNCHANGED <<people, listed, refetch, sheet, dialog>>

\* Edit, from the cached list.  Preferences are reset, the fields are not: they are those
\* typed last, for whomever.
OpenSheet(p) ==
    /\ NothingOpen /\ listed[p].there
    /\ sheet' = [sheet EXCEPT !.id = p, !.opened = listed[p].preferences,
                                !.preferences = listed[p].preferences]
    /\ Cross
    /\ UNCHANGED <<people, listed, refetch, dialog, request>>

\* Nothing in the sheet is disabled while it is saved.  Bound: it is changed until something
\* spoils its saves.
ChangeSheet(s) ==
    /\ sheet.id # NoPerson /\ spoiled = {}
    /\ sheet' = s
    /\ Cross
    /\ UNCHANGED <<people, listed, refetch, dialog, request>>

\* The user fills the fields in for the subscriber the sheet is about.
TypeDetails == ChangeSheet([sheet EXCEPT !.typed = sheet.id])

Flip(cs, c) == IF c \in cs THEN cs \ {c} ELSE cs \cup {c}

ToggleGlobal(c) == ChangeSheet([sheet EXCEPT !.preferences.global = Flip(@, c)])

\* The first toggle for a workflow starts from no channel, though all were shown on.
ToggleWorkflow(c) ==
    /\ c \in sheet.preferences.global
    /\ ChangeSheet([sheet EXCEPT !.preferences.workflow = Entry(Flip(@.channels, c))])

\* The channels shown as on for the workflow, and for any other.
Shown(prefs) ==
    [global |-> prefs.global,
     workflow |-> prefs.global \cap
                    (IF prefs.workflow.own THEN prefs.workflow.channels ELSE prefs.global)]

\* Mutated form: an entry within the global channels is taken for the same.
Payload_Subset(prefs) ==
    IF prefs.workflow.channels \subseteq prefs.global THEN [prefs EXCEPT !.workflow = NoEntry] ELSE prefs

\* buildPreferencesPayload leaves out an entry that is the same as the global channels.
Payload(prefs) ==
    IF prefs.workflow.channels = prefs.global THEN [prefs EXCEPT !.workflow = NoEntry] ELSE prefs

\* Save: the form wants a name.
SaveSubscriber ==
    /\ sheet.id # NoPerson /\ sheet.typed # NoPerson
    /\ ~InProgress("update")
    /\ SendRequest("update", sheet.id,
            [there |-> TRUE, details |-> sheet.typed, preferences |-> Payload(sheet.preferences)])

CloseSheet ==
    /\ sheet.id # NoPerson
    /\ sheet' = [NoSheet EXCEPT !.typed = sheet.typed]
    /\ Cross
    /\ UNCHANGED <<people, listed, refetch, dialog, request>>

ChangeDialog(d) ==
    /\ dialog' = d
    /\ Cross
    /\ UNCHANGED <<people, listed, refetch, sheet, request>>

OpenDelete(p) == NothingOpen /\ listed[p].there /\ ChangeDialog([dialog EXCEPT !.deleting = p])

\* Cancel is disabled while a request to delete runs, Escape is not.
CloseDelete == dialog.deleting # NoPerson /\ ChangeDialog([dialog EXCEPT !.deleting = NoPerson])

ConfirmRemoval ==
    /\ dialog.deleting # NoPerson /\ ~InProgress("delete")
    /\ SendRequest("delete", dialog.deleting, Absent)

OpenAdd == NothingOpen /\ ChangeDialog([dialog EXCEPT !.adding = TRUE])

\* The form that adds a subscriber goes with its dialog, and its callbacks with it.
CloseAdd ==
    /\ dialog.adding
    /\ dialog' = [dialog EXCEPT !.adding = FALSE]
    /\ request' = [n \in Requests |->
                    IF request[n].kind = "create" THEN [request[n] EXCEPT !.mounted = FALSE] ELSE request[n]]
    /\ Cross
    /\ UNCHANGED <<people, listed, refetch, sheet>>

SubmitAdd(p) ==
    /\ dialog.adding /\ ~InProgress("create")
    /\ people[p] = Absent /\ \A n \in Requests : request[n].id # p
    /\ SendRequest("create", p, Created(p))

----------------------------------------------------------------------------
(* The API. *)

\* A row that is deleted is neither updated nor found.
NotFound(n) == request[n].kind # "create" /\ ~people[request[n].id].there

\* The whole row is written, whatever it was.
ServeRequest(n) ==
    /\ request[n].at = "sent" /\ (NotFound(n) => request[n].kind = "delete")
    /\ people' = [people EXCEPT ![request[n].id] = request[n].row]
    /\ request' = [request EXCEPT ![n].at = "answered"]
    /\ UNCHANGED <<listed, refetch, sheet, dialog, spoiled>>

\* Another session, or a send, writes a subscriber.  Bound: one spoiled list.
Unspoiled == spoiled = {}
ChangedElsewhere(p) ==
    /\ people[p].there /\ Unspoiled
    /\ people' \in {[people EXCEPT ![p] = Absent], [people EXCEPT ![p].preferences.global = {}]}
    /\ spoiled' = spoiled \cup {"stale"}
    /\ UNCHANGED <<listed, refetch, sheet, dialog, request>>

----------------------------------------------------------------------------
(* What the page does with the answers. *)

\* The dialog of a request, whomever it is about by now.
DialogClosed(n) ==
    /\ sheet' = IF request[n].kind = "update" /\ request[n].mounted
                THEN [NoSheet EXCEPT !.typed = sheet.typed] ELSE sheet
    /\ dialog' = CASE request[n].kind = "delete" -> [dialog EXCEPT !.deleting = NoPerson]
                   [] request[n].kind = "create" /\ request[n].mounted -> [dialog EXCEPT !.adding = FALSE]
                   [] OTHER -> dialog

Done(n) == request' = [request EXCEPT ![n] = [NoRequest EXCEPT !.at = "done", !.id = request[n].id]]

Refetch == refetch' = [NoRefetch EXCEPT !.at = "asked", !.failed = refetch.failed]

\* onSuccess: the list is fetched anew, a fetch under way abandoned, and the dialog closed.
Succeeds(n) ==
    /\ request[n].at = "answered"
    /\ Done(n)
    /\ DialogClosed(n)
    /\ Refetch
    /\ UNCHANGED <<people, listed, spoiled>>

\* The request is refused, or lost before or after its effect.  The dialog that deletes is
\* closed all the same, the others show the error.
Fails(n) ==
    /\ \/ request[n].at = "sent" /\ NotFound(n) /\ request[n].kind = "update" /\ UNCHANGED spoiled
       \/ /\ request[n].at \in {"sent", "answered"} /\ Unspoiled
          /\ spoiled' = spoiled \cup {"lost"}
    /\ Done(n)
    /\ IF request[n].kind = "delete" THEN DialogClosed(n) ELSE UNCHANGED <<sheet, dialog>>
    /\ UNCHANGED <<people, listed, refetch>>

ReadSubscribers ==
    /\ refetch.at = "asked"
    /\ refetch' = [refetch EXCEPT !.at = "read", !.rows = people]
    /\ UNCHANGED <<people, listed, sheet, dialog, request, spoiled>>

\* The list arrives; the sheet keeps the copy it was opened with.
ListArrives ==
    /\ refetch.at = "read"
    /\ listed' = refetch.rows
    /\ refetch' = NoRefetch
    /\ UNCHANGED <<people, sheet, dialog, request, spoiled>>

\* The fetch fails, although there is an older list: the page gives way to a message.  The
\* sheet and the form that adds go with their forms and the callbacks of their requests; who
\* was being edited or deleted is remembered.
ListLost ==
    /\ refetch.at # "idle" /\ Unspoiled
    /\ refetch' = [NoRefetch EXCEPT !.failed = TRUE]
    /\ sheet' = [sheet EXCEPT !.preferences = sheet.opened, !.typed = NoPerson]
    /\ dialog' = [dialog EXCEPT !.adding = FALSE]
    /\ request' = [n \in Requests |->
            IF request[n].kind \in {"create", "update"} THEN [request[n] EXCEPT !.mounted = FALSE]
            ELSE request[n]]
    /\ spoiled' = spoiled \cup {"lost"}
    /\ UNCHANGED <<people, listed>>

Retry ==
    /\ refetch.failed /\ refetch.at = "idle"
    /\ Refetch
    /\ UNCHANGED <<people, listed, sheet, dialog, request, spoiled>>

SubscriberPageNext ==
    \/ /\ ~refetch.failed
       /\ \/ \E p \in People : OpenSheet(p) \/ OpenDelete(p) \/ SubmitAdd(p)
          \/ \E c \in Channels : ToggleGlobal(c) \/ ToggleWorkflow(c)
          \/ TypeDetails \/ SaveSubscriber \/ CloseSheet
          \/ CloseDelete \/ ConfirmRemoval \/ OpenAdd \/ CloseAdd
    \/ Retry
    \/ \E p \in People : ChangedElsewhere(p)
    \/ \E n \in Requests : ServeRequest(n) \/ Succeeds(n) \/ Fails(n)
    \/ ReadSubscribers \/ ListArrives \/ ListLost

SubscriberPageSpec == SubscriberPageInit /\ [][SubscriberPageNext]_subscriberPageVars

----------------------------------------------------------------------------
(* Properties. *)

\* With nothing in flight the list that is shown is the table, unless an answer was lost or somebody
\* else changed it.
ListSettles == OnTheWay = {} /\ refetch.at = "idle" /\ spoiled \subseteq {"crossed"} => listed = people

\* A save that is answered undisturbed leaves the subscriber of the sheet, and nobody
\* else, with the channels the sheet showed, to be shown again when it is opened next.
SaveKeepsChannels ==
    \A n \in OnTheWay :
        /\ request[n].kind = "update" /\ request[n].at = "answered" /\ request'[n].at = "done"
        /\ spoiled' = {}
        => /\ sheet.id = request[n].id
           /\ Shown(people[sheet.id].preferences) = Shown(sheet.preferences)

\* A dialog closes by itself only at the end of its own request, unless another was
\* opened, or that one closed, while a request ran.
OwnSheets ==
    /\ spoiled' \cap {"crossed"} = {}
    /\ request' # request
    => \A n \in OnTheWay : request'[n].at = "done" =>
        /\ sheet.id # sheet'.id => request[n].kind = "update" /\ request[n].id = sheet.id
        /\ dialog'.deleting # dialog.deleting => request[n].kind = "delete" /\ request[n].id = dialog.deleting

\* A save that comes after a delete does not bring the subscriber back.
DeletedStays ==
    \A p \in People : people'[p].there /\ ~people[p].there =>
        \E n \in OnTheWay : request[n].kind = "create" /\ request[n].id = p
=============================================================================
