------------------------------ MODULE KeyPage ------------------------------
(***************************************************************************)
(* The settings page that generates and deletes API keys.  The secret of a *)
(* key is in the answer to the request that creates it, and nowhere else:  *)
(* the page shows it once.  Both dialogs may be closed, and the page left, *)
(* while a request runs; the list is the cached answer of the last GET.    *)
(***************************************************************************)
EXTENDS Integers, FiniteSets

CONSTANTS ApiKeys,      \* keys, or keys to be
          NoKey,        \* null
          MaxCommands   \* bound on the requests the user makes

ASSUME KeysAssumption == NoKey \notin ApiKeys

VARIABLES keys,      \* the table `apikeys`
          offered,   \* the cached list
          reload,    \* the fetch of the list
          panel,     \* the state of the page
          command,   \* the requests, in the order of their calls
          told,      \* keys whose secret the user was shown
          upset      \* what may excuse the page, so far

keyPageVars == <<keys, offered, reload, panel, command, told, upset>>

Commands  == 1..MaxCommands
Upsets    == {"lost", "left", "elsewhere"}
NoCommand == [kind |-> "none", at |-> "idle", key |-> NoKey, mounted |-> FALSE]
NoReload  == [at |-> "idle", keys |-> {}]
NewPage   == [open |-> TRUE, creating |-> FALSE, named |-> FALSE, secret |-> NoKey, deleting |-> NoKey]
Active    == {n \in Commands : command[n].at \in {"sent", "served"}}

\* isPending of the two mutations: those that this page started.
IsPending(kind) == \E n \in Active : command[n].kind = kind /\ command[n].mounted

\* Every variable stays within its domain.
KeyPageTypeOK ==
    /\ keys \subseteq ApiKeys /\ offered \subseteq ApiKeys /\ told \subseteq ApiKeys
    /\ reload \in [at: {"idle", "asked", "read"}, keys: SUBSET ApiKeys]
    /\ panel \in [open: BOOLEAN, creating: BOOLEAN, named: BOOLEAN,
                  secret: ApiKeys \cup {NoKey}, deleting: ApiKeys \cup {NoKey}]
    /\ command \in [Commands -> [kind: {"none", "create", "delete"},
                                 at: {"idle", "sent", "served", "done"},
                                 key: ApiKeys \cup {NoKey}, mounted: BOOLEAN]]
    /\ upset \subseteq Upsets

KeyPageInit ==
    /\ keys \in SUBSET ApiKeys
    /\ offered = keys
    /\ reload = NoReload
    /\ panel = NewPage
    /\ command = [n \in Commands |-> NoCommand]
    /\ told = {}
    /\ upset = {}

----------------------------------------------------------------------------
(* What the user can do. *)

\* The three dialogs are modal.
OnList == panel.open /\ ~panel.creating /\ panel.secret = NoKey /\ panel.deleting = NoKey

ShowPanel(p) == panel' = p /\ UNCHANGED <<keys, offered, reload, command, told, upset>>

Send(kind, k) ==
    /\ \E n \in Commands :
        /\ command[n].at = "idle" /\ \A m \in 1..(n - 1) : command[m].at # "idle"
        /\ command' = [command EXCEPT ![n] = [kind |-> kind, at |-> "sent", key |-> k, mounted |-> TRUE]]
    /\ UNCHANGED <<keys, offered, reload, panel, told, upset>>

OpenGenerate  == OnList /\ ShowPanel([panel EXCEPT !.creating = TRUE])
CloseGenerate == panel.creating /\ panel.secret = NoKey /\ ShowPanel([panel EXCEPT !.creating = FALSE])
TypeName      == panel.creating /\ panel.secret = NoKey /\ ShowPanel([panel EXCEPT !.named = TRUE])

\* Mutated form: the button is not disabled while a key is generated.
SubmitCreate_NotDisabled(k) ==
    /\ panel.creating /\ panel.named
    /\ k \notin keys /\ \A n \in Commands : command[n].key # k
    /\ Send("create", k)

\* The name is wanted, and the button is disabled while a key is generated.
SubmitCreate(k) ==
    /\ panel.creating /\ panel.named /\ ~IsPending("create")
    /\ k \notin keys /\ \A n \in Commands : command[n].key # k
    /\ Send("create", k)

\* The buttons of the table are disabled while either mutation runs.
AskDelete(k) ==
    /\ OnList /\ k \in offered
    /\ ~IsPending("create") /\ ~IsPending("delete")
    /\ ShowPanel([panel EXCEPT !.deleting = k])

CancelDelete  == panel.deleting # NoKey /\ ShowPanel([panel EXCEPT !.deleting = NoKey])
HandleDelete  == panel.deleting # NoKey /\ ~IsPending("delete") /\ Send("delete", panel.deleting)
DismissSecret == panel.secret # NoKey /\ ShowPanel([panel EXCEPT !.secret = NoKey])

LeaveKeys ==
    /\ OnList
    /\ panel' = [NewPage EXCEPT !.open = FALSE]
    /\ command' = [n \in Commands |-> [command[n] EXCEPT !.mounted = FALSE]]
    /\ upset' = IF Active = {} THEN upset ELSE upset \cup {"left"}
    /\ UNCHANGED <<keys, offered, reload, told>>

\* A new page fetches the list if its copy is older than a minute.
OpenKeys ==
    /\ ~panel.open
    /\ panel' = NewPage
    /\ reload' \in {reload, IF reload.at = "idle" THEN [NoReload EXCEPT !.at = "asked"] ELSE reload}
    /\ UNCHANGED <<keys, offered, command, told, upset>>

----------------------------------------------------------------------------
(* The API, and what the page does with its answers. *)

\* A key that is not in the list of the environment is not found.
KeyFound(n) == command[n].kind = "delete" => command[n].key \in keys

ServeCommand(n) ==
    /\ command[n].at = "sent" /\ KeyFound(n)
    /\ keys' = IF command[n].kind = "create" THEN keys \cup {command[n].key} ELSE keys \ {command[n].key}
    /\ command' = [command EXCEPT ![n].at = "served"]
    /\ UNCHANGED <<offered, reload, panel, told, upset>>

Finish(n) == command' = [command EXCEPT ![n] = [NoCommand EXCEPT !.at = "done", !.key = command[n].key]]

\* submitCreate and handleDelete go on: the list is fetched anew in any case.
CommandReturns(n) ==
    /\ command[n].at = "served"
    /\ Finish(n)
    /\ reload' = [NoReload EXCEPT !.at = "asked"]
    /\ panel' = IF ~command[n].mounted THEN panel
                ELSE IF command[n].kind = "delete" THEN [panel EXCEPT !.deleting = NoKey]
                ELSE [panel EXCEPT !.secret = command[n].key, !.creating = FALSE, !.named = FALSE]
    /\ told' = IF command[n].kind = "create" /\ command[n].mounted THEN told \cup {command[n].key} ELSE told
    /\ UNCHANGED <<keys, offered, upset>>

\* The request is refused, or lost before or after its effect: the dialog stays.  Bound:
\* one loss.
CommandFails(n) ==
    /\ \/ command[n].at = "sent" /\ ~KeyFound(n) /\ UNCHANGED upset
       \/ command[n].at \in {"sent", "served"} /\ "lost" \notin upset /\ upset' = upset \cup {"lost"}
    /\ Finish(n)
    /\ UNCHANGED <<keys, offered, reload, panel, told>>

ReadKeys ==
    /\ reload.at = "asked"
    /\ reload' = [at |-> "read", keys |-> keys]
    /\ UNCHANGED <<keys, offered, panel, command, told, upset>>

KeysArrive ==
    /\ reload.at = "read"
    /\ offered' = reload.keys
    /\ reload' = NoReload
    /\ UNCHANGED <<keys, panel, command, told, upset>>

KeysLost ==
    /\ reload.at # "idle" /\ "lost" \notin upset
    /\ reload' = NoReload
    /\ upset' = upset \cup {"lost"}
    /\ UNCHANGED <<keys, offered, panel, command, told>>

\* Another session deletes a key.  Bound: one.
DeletedElsewhere(k) ==
    /\ k \in keys /\ "elsewhere" \notin upset
    /\ keys' = keys \ {k}
    /\ upset' = upset \cup {"elsewhere"}
    /\ UNCHANGED <<offered, reload, panel, command, told>>

KeyPageNext ==
    \/ \E k \in ApiKeys : SubmitCreate(k) \/ AskDelete(k) \/ DeletedElsewhere(k)
    \/ OpenGenerate \/ CloseGenerate \/ TypeName \/ CancelDelete \/ HandleDelete \/ DismissSecret
    \/ LeaveKeys \/ OpenKeys
    \/ \E n \in Commands : ServeCommand(n) \/ CommandReturns(n) \/ CommandFails(n)
    \/ ReadKeys \/ KeysArrive \/ KeysLost

KeyPageSpec == KeyPageInit /\ [][KeyPageNext]_keyPageVars

----------------------------------------------------------------------------
(* Properties. *)

\* With nothing in flight, whoever generated a key has been shown its secret, and the list
\* is that of the table, unless an answer was lost, the page left while one was on its
\* way, or the keys changed elsewhere.
KeysSettle ==
    Active = {} =>
        /\ upset \subseteq {"elsewhere"} => \A n \in Commands : command[n].key \in keys => command[n].key \in told
        /\ reload.at = "idle" /\ upset \subseteq {"left"} => offered = keys

\* A secret that is shown is only ever dismissed by the user, never replaced; a dialog that
\* asks closes by itself only because its own key was deleted.
DialogsStand ==
    /\ panel.secret # NoKey /\ panel'.secret # panel.secret => command' = command
    /\ panel.deleting # NoKey /\ panel'.deleting # panel.deleting /\ command' # command =>
        \E n \in Active : command[n].kind = "delete" /\ command[n].key = panel.deleting
=============================================================================
