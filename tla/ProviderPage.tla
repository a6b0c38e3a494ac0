---------------------------- MODULE ProviderPage ----------------------------
(***************************************************************************)
(* The page of provider integrations: cards of the connected providers     *)
(* with a menu, and a dialog that connects or edits one.  It shows the     *)
(* cached answer of the last GET.  Saving the dialog is a function of two  *)
(* requests, the second of which moves the flags; every request that       *)
(* succeeds invalidates the cache, and its function goes on once the list  *)
(* has been fetched again.  A request is one step here, what Integrations  *)
(* shows one that nothing overlaps to come to.                             *)
(***************************************************************************)
EXTENDS ProviderTable

CONSTANTS MaxJobs        \* bound on the functions the user starts

VARIABLES providers,     \* the table `integrations`
          connect,       \* useProviderForm
          cards,         \* the cached list
          cardFetch,     \* the fetch of the list
          job,           \* the functions, in the order of their calls
          cardsSpoiled   \* what may spoil a save, so far

providerPageVars == <<providers, connect, cards, cardFetch, job, cardsSpoiled>>

Jobs       == 1..MaxJobs
NoProvider == "none"
NoForm     == [open |-> FALSE, name |-> NoProvider, id |-> 0, enabled |-> TRUE,
               primary |-> FALSE, busy |-> <<"none", 0>>]
NoJob      == [kind |-> "none", at |-> "idle", id |-> 0, name |-> NoProvider, enabled |-> TRUE,
               primary |-> FALSE, before |-> <<>>]
NoCardFetch    == [at |-> "idle", data |-> [i \in ProviderIds |-> NoRow]]
Running    == {j \in Jobs : job[j].at \notin {"idle", "done", "failed"}}
CardSpoilers   == {"crossed", "stale", "lost"}
CardsUnspoiled  == cardsSpoiled \subseteq {"crossed"}

\* Every variable stays within its domain.
ProviderPageTypeOK ==
    /\ providers \in [ProviderIds -> ProviderRow]
    /\ cards \in [ProviderIds -> ProviderRow]
    /\ connect.id \in ProviderIds \cup {0} /\ connect.name \in ProviderNames \cup {NoProvider}
    /\ connect.primary => connect.enabled
    /\ cardFetch.at \in {"idle", "asked", "read"} /\ cardFetch.data \in [ProviderIds -> ProviderRow]
    /\ \A j \in Jobs :
        /\ job[j].kind \in StateActions \cup {"create", "update", "delete", "none"}
        /\ job[j].at \in {"idle", "first", "listing", "second", "relisting", "done", "failed"}
    /\ cardsSpoiled \subseteq CardSpoilers

ProviderPageInit ==
    /\ providers \in ConnectedTables
    /\ connect = NoForm
    /\ cards = providers
    /\ cardFetch = NoCardFetch
    /\ job = [j \in Jobs |-> NoJob]
    /\ cardsSpoiled = {}

----------------------------------------------------------------------------
(* The user. *)

\* The dialog is modal.
OnCards == ~connect.open

\* isMutating: mutatingKey ends with the id of the row.
Resting(i) == ~(connect.busy[1] \in StateActions /\ connect.busy[2] = i)

\* A function of the page, up to its first await.  A save keeps the switches of its dialog;
\* `before` is the table it found, for a property.
StartJob(kind, i, name, f) ==
    \E j \in Jobs :
        /\ job[j].at = "idle" /\ \A k \in 1..(j - 1) : job[k].at # "idle"
        /\ job' = [job EXCEPT ![j] =
                IF name = NoProvider THEN [NoJob EXCEPT !.kind = kind, !.at = "first", !.id = i]
                ELSE [kind |-> kind, at |-> "first", id |-> i, name |-> name,
                      enabled |-> connect.enabled, primary |-> connect.primary,
                      before |-> IF Running = {} THEN providers ELSE <<>>]]
        /\ connect' = f
        /\ cardsSpoiled' = IF Running = {} THEN cardsSpoiled ELSE cardsSpoiled \cup {"crossed"}
        /\ UNCHANGED <<providers, cards, cardFetch>>

\* openConnectDialog with the item of a card, or from the sheet of the providers that are
\* not connected: it clears mutatingKey, whatever still runs.
OpenProvider(i, name, enabled, primary) ==
    /\ connect' = [open |-> TRUE, name |-> name, id |-> i, enabled |-> enabled,
                primary |-> primary, busy |-> <<"none", 0>>]
    /\ cardsSpoiled' = cardsSpoiled \cup (IF i # 0 /\ cards[i] # providers[i] THEN {"stale"} ELSE {})
    /\ UNCHANGED <<providers, cards, cardFetch, job>>

EditProvider(i) ==
    /\ OnCards /\ Exists(cards[i]) /\ Resting(i)
    /\ OpenProvider(i, cards[i].name, cards[i].active, cards[i].primary)

ConnectProvider(name) ==
    /\ OnCards /\ \A i \in ProviderIds : cards[i].name # name
    /\ OpenProvider(0, name, TRUE, FALSE)

\* The switches of the dialog: a provider that is primary is enabled.  Bound: they are set
\* until something spoils the save.
Toggle(f) == connect.open /\ cardsSpoiled = {} /\ connect' = f /\ UNCHANGED <<providers, cards, cardFetch, job, cardsSpoiled>>

\* Mutated form: a provider that is not to be enabled may be left primary.
ToggleEnabled_KeepsPrimary == Toggle([connect EXCEPT !.enabled = ~@])

ToggleEnabled == Toggle([connect EXCEPT !.enabled = ~@, !.primary = @ /\ ~connect.enabled])
TogglePrimary == connect.enabled /\ Toggle([connect EXCEPT !.primary = ~@])

\* Save and Cancel are disabled while this provider is saved; Escape closes the dialog
\* all the same, and forgets mutatingKey with the rest.
CloseProvider ==
    /\ connect.open
    /\ connect' = NoForm
    /\ cardsSpoiled' = IF Running = {} THEN cardsSpoiled ELSE cardsSpoiled \cup {"crossed"}
    /\ UNCHANGED <<providers, cards, cardFetch, job>>

SubmitProvider ==
    /\ connect.open /\ connect.busy # <<"save", connect.name>>
    /\ StartJob(IF connect.id = 0 THEN "create" ELSE "update", connect.id, connect.name,
                [connect EXCEPT !.busy = <<"save", connect.name>>])

\* The entries of a card's menu, from the cached list.
Offered(action, i) ==
    CASE action = "set_primary" -> ~cards[i].primary
      [] action = "enable"      -> ~cards[i].active
      [] action = "disable"     ->
            /\ cards[i].active
            /\ cards[i].primary => \E k \in ProviderIds \ {i} :
                    cards[k].active /\ SameChannel(cards[k], cards[i])

ChangeState(action, i) ==
    /\ OnCards /\ Exists(cards[i]) /\ Resting(i)
    /\ Offered(action, i)
    /\ StartJob(action, i, NoProvider, [connect EXCEPT !.busy = <<action, i>>])

\* Disconnect: without a confirmation, and without mutatingKey.
Disconnect(i) ==
    /\ OnCards /\ Exists(cards[i]) /\ Resting(i)
    /\ StartJob("delete", i, NoProvider, connect)

----------------------------------------------------------------------------
(* The functions, as their requests are answered. *)

\* The request a function waits for, and what it does to the table when nothing overlaps it.
JobAsks(j)   == IF job[j].at = "first" THEN job[j].kind
              ELSE IF job[j].primary THEN "set_primary" ELSE "disable"
Target(j)  == IF job[j].kind = "create" /\ job[j].at = "first" THEN NextRow(providers) ELSE job[j].id
JobAllowed(j) == Allowed(providers, JobAsks(j), job[j].id, job[j].name)
Effect(j)  == Outcome(providers, JobAsks(j), job[j].id, job[j].name)

\* Mutated form: a save asks to disable the provider unless it is to be primary.
GoesOn_Disables(j) ==
    job[j].at = "listing" /\ job[j].kind \in {"create", "update"} /\ (job[j].primary \/ TRUE)

\* submitProvider goes on with the flags its dialog had: set_primary, or else disable.
\* To leave "enabled" on asks for nothing.
GoesOn(j) ==
    /\ job[j].at = "listing" /\ job[j].kind \in {"create", "update"}
    /\ job[j].primary \/ ~job[j].enabled

\* The functions that waited for the list go on.  One that ends clears mutatingKey, and a
\* save that ends closes the dialog, whichever it is by now.
Waiting == {j \in Jobs : job[j].at \in {"listing", "relisting"}}

JobsResumed ==
    [j \in Jobs |-> CASE j \notin Waiting -> job[j]
                      [] j \in Waiting /\ GoesOn(j)  -> [job[j] EXCEPT !.at = "second"]
                      [] j \in Waiting /\ ~GoesOn(j) -> [NoJob EXCEPT !.at = "done"]]

FormResumed ==
    LET ended == {job[j].kind : j \in {k \in Waiting : ~GoesOn(k)}} \ {"delete"}
    IN  IF ended \cap {"create", "update"} # {} THEN NoForm
        ELSE IF ended # {} THEN [connect EXCEPT !.busy = <<"none", 0>>] ELSE connect

\* The request succeeds and its onSuccess fetches the list anew; a fetch under way is
\* abandoned, and what waited for it goes on.
JobServed(j) ==
    /\ job[j].at \in {"first", "second"} /\ JobAllowed(j)
    /\ providers' = Effect(j)
    /\ job' = [JobsResumed EXCEPT ![j] = [job[j] EXCEPT
                    !.at = IF job[j].at = "first" THEN "listing" ELSE "relisting", !.id = Target(j)]]
    /\ connect' = FormResumed
    /\ cardFetch' = [NoCardFetch EXCEPT !.at = "asked"]
    /\ UNCHANGED <<cards, cardsSpoiled>>

\* The request fails: it is refused, or lost, its effect done or not.  Bound: one loss, or
\* one change by another session.
\* What a save had done before stays, and so does the dialog.
JobFails(j) ==
    /\ job[j].at \in {"first", "second"}
    /\ \/ ~JobAllowed(j) /\ UNCHANGED <<providers, cardsSpoiled>>
       \/ /\ JobAllowed(j) /\ CardsUnspoiled
          /\ providers' \in {providers, Effect(j)}
          /\ cardsSpoiled' = cardsSpoiled \cup {"lost"}
    /\ job' = [job EXCEPT ![j] = [NoJob EXCEPT !.at = "failed"]]
    /\ connect' = IF job[j].kind = "delete" THEN connect ELSE [connect EXCEPT !.busy = <<"none", 0>>]
    /\ UNCHANGED <<cards, cardFetch>>

ReadProviders ==
    /\ cardFetch.at = "asked"
    /\ cardFetch' = [at |-> "read", data |-> providers]
    /\ UNCHANGED <<providers, connect, cards, job, cardsSpoiled>>

\* The list arrives, or cannot be had and the old one stays.
EndFetch(data) ==
    /\ cards' = data
    /\ cardFetch' = NoCardFetch
    /\ job' = JobsResumed
    /\ connect' = FormResumed
    /\ UNCHANGED providers

CardsArrive == cardFetch.at = "read" /\ EndFetch(cardFetch.data) /\ UNCHANGED cardsSpoiled
CardsLost ==
    /\ cardFetch.at # "idle" /\ CardsUnspoiled
    /\ EndFetch(cards)
    /\ cardsSpoiled' = cardsSpoiled \cup {"lost"}

\* Another session changes the table.  Bound: once, between two functions.
ProviderChangedElsewhere(action, i) ==
    /\ CardsUnspoiled /\ Running = {}
    /\ Allowed(providers, action, i, NoProvider)
    /\ providers' = Outcome(providers, action, i, NoProvider)
    /\ cardsSpoiled' = cardsSpoiled \cup {"stale"}
    /\ UNCHANGED <<connect, cards, cardFetch, job>>

ProviderPageNext ==
    \/ \E i \in ProviderIds :
        \/ EditProvider(i) \/ Disconnect(i)
        \/ \E a \in StateActions : ChangeState(a, i)
        \/ \E a \in StateActions \cup {"delete"} : ProviderChangedElsewhere(a, i)
    \/ \E n \in ProviderNames : ConnectProvider(n)
    \/ ToggleEnabled \/ TogglePrimary \/ CloseProvider \/ SubmitProvider
    \/ \E j \in Jobs : JobServed(j) \/ JobFails(j)
    \/ ReadProviders \/ CardsArrive \/ CardsLost

ProviderPageSpec == ProviderPageInit /\ [][ProviderPageNext]_providerPageVars

----------------------------------------------------------------------------
(* Properties. *)

\* With no function running no card and no button is held back, and the page shows the
\* table unless an answer was lost or another session changed it.
CardsSettle ==
    Running = {} =>
        /\ connect.busy = NoForm.busy
        /\ cardFetch.at = "idle" /\ CardsUnspoiled => cards = providers

\* A save during which the user started nothing else, though its card may have been out of
\* date and its list be lost, leaves its provider as the dialog said where that was primary or off, leaves every flag of the table as it was where the dialog was not
\* touched, and never changes another channel.
SaveHonoured ==
    \A j \in Waiting :
        LET i   == job[j].id
            old == job[j].before
        IN  /\ job'[j].at = "done" /\ job[j].kind \in {"create", "update"} /\ "crossed" \notin cardsSpoiled'
            => /\ job[j].primary => providers[i].primary
               /\ job[j].enabled \/ ~providers[i].active
               /\ /\ job[j].kind = "update"
                  /\ old[i].active = job[j].enabled /\ old[i].primary = job[j].primary
                  => providers = old
               /\ \A k \in ProviderIds : ~SameChannel(providers[k], providers[i]) => providers[k] = old[k]

\* A dialog closes by itself only when the save of its own provider ends, unless the user
\* dismissed one or started something else meanwhile.
OwnDialog ==
    connect.open /\ ~connect'.open /\ job' # job /\ "crossed" \notin cardsSpoiled' =>
        \E j \in Waiting : job'[j].at = "done" /\ job[j].name = connect.name
=============================================================================
