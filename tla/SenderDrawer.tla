---------------------------- MODULE SenderDrawer ----------------------------
(***************************************************************************)
(* The sender of the messages of an e-mail step, as the channel page keeps *)
(* it for previews and tests, and the drawer that edits it.  The page      *)
(* takes it from the provider when the providers arrive; the drawer keeps  *)
(* a copy that it takes once, when it appears, and hands back on "Save".   *)
(***************************************************************************)
CONSTANTS SenderNames,  \* what may be typed
          NoSender,     \* the empty string
          Provided      \* the name in the provider's settings

ASSUME SenderConstants == Provided \notin SenderNames /\ NoSender # Provided

VARIABLES sender,       \* the settings of the page
          local,        \* the copy of the drawer, once the drawer is there
          provider,     \* whether the provider is known
          drawn,        \* whether the drawer is there, and whether it is open
          stale         \* why the two may differ

senderDrawerVars == <<sender, local, provider, drawn, stale>>

Setting == [name: SenderNames \cup {NoSender, Provided}, defaults: BOOLEAN]
Unset   == [name |-> NoSender, defaults |-> FALSE]

\* Every variable stays within its domain.
SenderDrawerTypeOK ==
    /\ sender \in Setting /\ local \in Setting
    /\ provider \in BOOLEAN
    /\ drawn \in {"loading", "closed", "open"}
    /\ stale \subseteq {"arrived", "unsaved"}

SenderDrawerInit ==
    /\ sender = Unset /\ local = Unset
    /\ provider = FALSE
    /\ drawn = "loading"
    /\ stale = {}

\* The step has been loaded, and the drawer appears with the page's settings.
MountDrawer ==
    /\ drawn = "loading"
    /\ drawn' = "closed"
    /\ local' = sender
    /\ UNCHANGED <<sender, provider, stale>>

\* The providers arrive, and the settings become the provider's, whatever they were.
ProviderArrives ==
    /\ ~provider
    /\ provider' = TRUE
    /\ sender' = [sender EXCEPT !.name = Provided]
    /\ stale' = IF drawn = "loading" THEN stale ELSE stale \cup {"arrived"}
    /\ UNCHANGED <<local, drawn>>

OpenDrawer ==
    /\ drawn = "closed"
    /\ drawn' = "open"
    /\ UNCHANGED <<sender, local, provider, stale>>

\* The field is disabled while the provider's settings are used.
TypeSender(name) ==
    /\ drawn = "open" /\ ~local.defaults
    /\ local' = [local EXCEPT !.name = name]
    /\ UNCHANGED <<sender, provider, drawn, stale>>

\* The switch is disabled without a provider.
ToggleDefaults ==
    /\ drawn = "open" /\ provider
    /\ local' = [local EXCEPT !.defaults = ~@]
    /\ UNCHANGED <<sender, provider, drawn, stale>>

SaveDrawer ==
    /\ drawn = "open"
    /\ drawn' = "closed"
    /\ sender' = local
    /\ stale' = {}
    /\ UNCHANGED <<local, provider>>

\* The drawer is closed without "Save", and keeps what was entered.
CloseDrawer ==
    /\ drawn = "open"
    /\ drawn' = "closed"
    /\ stale' = IF local = sender THEN stale ELSE stale \cup {"unsaved"}
    /\ UNCHANGED <<sender, local, provider>>

SenderDrawerNext ==
    \/ MountDrawer
    \/ ProviderArrives
    \/ OpenDrawer
    \/ \E name \in SenderNames \cup {NoSender} : TypeSender(name)
    \/ ToggleDefaults
    \/ SaveDrawer
    \/ CloseDrawer

SenderDrawerSpec == SenderDrawerInit /\ [][SenderDrawerNext]_senderDrawerVars

----------------------------------------------------------------------------
(* Properties. *)

\* displaySender, which previews show and tests are sent with, and the line on the page.
Uses(copy) == IF sender.defaults /\ provider THEN Provided ELSE copy.name

\* With the drawer closed, a message leaves with the sender that the page shows, unless the
\* provider arrived after the drawer had taken its copy, or the drawer was closed without
\* "Save" and shows what the page never got.
SenderAsShown == drawn = "closed" /\ stale = {} => Uses(sender) = Uses(local)
=============================================================================
