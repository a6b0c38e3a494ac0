----------------------------- MODULE Subscribers -----------------------------
(***************************************************************************)
(* The subscribers of an environment, and how a send finds the addresses   *)
(* of its recipient.  A send may describe its recipient inline ("to"):     *)
(* PrepareJob reads the row, writes it back with the contacts the request  *)
(* names, or creates a row; a workflow send then reads the row once more   *)
(* for the addresses.  Each is a statement of its own, between which other *)
(* sends and the dashboard write the same row.                             *)
(***************************************************************************)
EXTENDS Integers, FiniteSets

CONSTANTS Persons,    \* subscriber ids, in the order of their creation: 1..n
          Media,      \* email, sms and push, or some of them
          Addresses,  \* Addresses[m]: addresses of medium m
          Asks,       \* the sets of channels a send may ask for
          Senders     \* sends being prepared

VARIABLES person,     \* rows of subscribers
          sender      \* the sends

subscriberVars == <<person, sender>>

NoContact     == "none"

\* 0 and NoContact stand for no row and no address; users have an e-mail address.
ASSUME SubscribersAssumption ==
    /\ Persons \subseteq Nat \ {0}
    /\ \A m \in Media : NoContact \notin Addresses[m]
    /\ "email" \in Media /\ Addresses["email"] # {}
    /\ \A wants \in Asks : wants \subseteq Media

Contacts == {c \in [Media -> (UNION {Addresses[m] : m \in Media}) \cup {NoContact}] :
                \A m \in Media : c[m] \in Addresses[m] \cup {NoContact}}
Nothing  == [m \in Media |-> NoContact]

\* deriveSubscriberChannels, deriveChannels: the media that have a contact.
Reachable(c) == {m \in Media : c[m] # NoContact}

Person   == [state: {"none", "live", "deleted"}, contact: Contacts, channels: SUBSET Media]
NoPerson == [state |-> "none", contact |-> Nothing, channels |-> {}]
LiveRow(c)   == [state |-> "live", contact |-> c, channels |-> Reachable(c)]

\* kind is the way of the addresses: a direct send uses the row its own statement
\* returned, a workflow send reads it again, a system send uses the user's e-mail.
SenderRecord ==
    [at: {"idle", "get", "update", "create", "address", "enqueue"},
     kind: {"direct", "workflow", "system"}, id: Persons \cup {0}, to: Contacts,
     wants: SUBSET Media,      \* channels the job asks for, then those it delivers
     seen: Contacts,           \* the row as read, then the recipient of the job
     disturbed: BOOLEAN]       \* somebody else wrote the row since this send read it
IdleSender == [at |-> "idle", kind |-> "direct", id |-> 0, to |-> Nothing, wants |-> {},
               seen |-> Nothing, disturbed |-> FALSE]

\* A row has a contact (subscribers_contact_check) and lists the channels it reaches.
SubscriberTypeOK ==
    /\ person \in [Persons -> Person]
    /\ sender \in [Senders -> SenderRecord]
    /\ \A i \in Persons : person[i].state # "none" =>
        person[i].contact # Nothing /\ person[i].channels = Reachable(person[i].contact)

SubscriberInit ==
    /\ person = [i \in Persons |-> NoPerson]
    /\ sender = [s \in Senders |-> IdleSender]

\* s goes on as `new`; the other sends on row i have not seen the write of it.
Disturb(s, new, i) ==
    sender' = [r \in Senders |->
                CASE r = s -> new
                  [] r # s /\ i # 0 /\ sender[r].id = i -> [sender[r] EXCEPT !.disturbed = TRUE]
                  [] OTHER -> sender[r]]

Proceed(s, new) == Disturb(s, new, 0)

----------------------------------------------------------------------------
(* The sends. *)

\* A request arrives.  The id it names is that of a row, or none or unknown (0); a system
\* send names the signed-in user, whose id is no subscriber's.
PrepareJob(s, kind, i, c, wants) ==
    /\ sender[s].at = "idle"
    /\ i # 0 => kind # "system" /\ person[i].state # "none"
    /\ Proceed(s, [IdleSender EXCEPT !.at = IF i = 0 THEN "create" ELSE "get", !.kind = kind,
                                     !.id = i, !.to = c, !.wants = wants])
    /\ UNCHANGED person

\* findOrUpdateSubscriber: the row as it is now; nothing to update ends the resolution.
GetSubscriberByID(s) ==
    LET q == sender[s]
        row == person[q.id]
    IN  /\ q.at = "get"
        /\ Proceed(s, IF row.state # "live" THEN [q EXCEPT !.at = "create", !.disturbed = FALSE]
                      ELSE [q EXCEPT !.at = IF q.to = Nothing THEN "address" ELSE "update",
                                     !.seen = row.contact, !.disturbed = FALSE])
        /\ UNCHANGED person

\* Mutated form: the contacts a request does not name are cleared.
Coalesce_Replaces(to, stored) == to

\* The contacts a request names, the others as they were read (ptr.Coalesce).
Coalesce(to, stored) == [m \in Media |-> IF to[m] # NoContact THEN to[m] ELSE stored[m]]

\* UpdateSubscriber writes every column from the copy; on a row deleted meanwhile it
\* finds nothing, and the send goes on to create a row under a new id.
UpdateSubscriber(s) ==
    LET q == sender[s]
        contact == Coalesce(q.to, q.seen)
    IN  /\ q.at = "update"
        /\ \/ /\ person[q.id].state = "live"
              /\ person' = [person EXCEPT ![q.id] = LiveRow(contact)]
              /\ Disturb(s, [q EXCEPT !.at = "address", !.seen = contact, !.disturbed = FALSE],
                         q.id)
           \/ /\ person[q.id].state # "live"
              /\ Proceed(s, [q EXCEPT !.at = "create"])
              /\ UNCHANGED person

\* The first unused id.
IsNew(i) == person[i].state = "none" /\ \A j \in Persons : j < i => person[j].state # "none"

\* CreateSubscriber, under a new id; without a contact it breaks the CHECK.
CreateSubscriber(s) ==
    LET q == sender[s]
    IN  /\ q.at = "create"
        /\ \/ /\ q.to = Nothing
              /\ Proceed(s, IdleSender)
              /\ UNCHANGED person
           \/ /\ q.to # Nothing
              /\ \E i \in Persons :
                    /\ IsNew(i)
                    /\ person' = [person EXCEPT ![i] = LiveRow(q.to)]
                    /\ Disturb(s, [q EXCEPT !.at = "address", !.id = i, !.seen = q.to,
                                            !.disturbed = FALSE], i)

\* The address of each delivered channel, and the channels that are delivered: of a
\* workflow those that have a contact, of a direct send all, or it is refused.
Addressed(q, contact) ==
    [q EXCEPT !.at = "enqueue", !.wants = q.wants \cap Reachable(contact), !.seen = contact]

\* The users row of the signed-in user as a recipient.
UserContact == CHOOSE c \in Contacts : Reachable(c) = {"email"}

\* prepareWorkflowDelivery with the row, or the user, read again; the checks of a direct send.
AddressJob(s) ==
    LET q == sender[s]
        row == person[q.id]
    IN  /\ q.at = "address"
        /\ Proceed(s, CASE q.kind = "workflow" /\ row.state = "live" -> Addressed(q, row.contact)
                        [] q.kind = "system" -> Addressed(q, UserContact)
                        [] q.kind = "direct" /\ q.wants \subseteq Reachable(q.seen)
                                -> Addressed(q, q.seen)
                        [] OTHER -> IdleSender)
        /\ UNCHANGED person

\* producer.Enqueue: the job leaves with its recipient.
EnqueuePrepared(s) ==
    /\ sender[s].at = "enqueue"
    /\ Proceed(s, IdleSender)
    /\ UNCHANGED person

\* A statement fails or the client goes away: 500, and the rows stay.
PrepareFails(s) ==
    /\ sender[s].at # "idle"
    /\ Proceed(s, IdleSender)
    /\ UNCHANGED person

----------------------------------------------------------------------------
(* The dashboard. *)

\* Every send that is at work on row i has been overtaken.
Overtake(i) == sender' = [r \in Senders |-> IF sender[r].id = i
                                            THEN [sender[r] EXCEPT !.disturbed = TRUE]
                                            ELSE sender[r]]

\* POST /subscribers
CreateInDashboard(i, c) ==
    /\ IsNew(i)
    /\ c # Nothing
    /\ person' = [person EXCEPT ![i] = LiveRow(c)]
    /\ UNCHANGED sender

\* Mutated form: the list of channels is not derived again.
UpdateInDashboard_OldChannels(i, c) ==
    /\ person[i].state = "live"
    /\ c # Nothing
    /\ person' = [person EXCEPT ![i].contact = c]
    /\ Overtake(i)

\* PUT /subscribers/{id} replaces every contact; DELETE sets deleted_at.
UpdateInDashboard(i, c) ==
    /\ person[i].state = "live"
    /\ c # Nothing
    /\ person' = [person EXCEPT ![i] = LiveRow(c)]
    /\ Overtake(i)
DeleteInDashboard(i) ==
    /\ person[i].state = "live"
    /\ person' = [person EXCEPT ![i].state = "deleted"]
    /\ Overtake(i)

----------------------------------------------------------------------------

PrepareStep(s) ==
    \/ GetSubscriberByID(s)
    \/ UpdateSubscriber(s)
    \/ CreateSubscriber(s)
    \/ AddressJob(s)
    \/ EnqueuePrepared(s)
    \/ PrepareFails(s)

SubscriberNext ==
    \/ \E s \in Senders :
        \/ \E kind \in {"direct", "workflow", "system"}, i \in Persons \cup {0},
              c \in Contacts, wants \in Asks : PrepareJob(s, kind, i, c, wants)
        \/ PrepareStep(s)
    \/ \E i \in Persons :
        \/ \E c \in Contacts : CreateInDashboard(i, c) \/ UpdateInDashboard(i, c)
        \/ DeleteInDashboard(i)

SubscriberSpec == SubscriberInit /\ [][SubscriberNext]_subscriberVars
----------------------------------------------------------------------------
(* Properties. *)

\* A send whose recipient nobody else wrote meanwhile changes only the contacts it names,
\* and no statement, however late, changes a deleted row (findOrUpdateSubscriber writes
\* back every column of the copy it read).
OwnContactsOnly ==
    /\ \A s \in Senders :
            sender[s].at = "update" /\ sender'[s].at = "address" /\ ~sender[s].disturbed =>
                \A m \in Media : sender[s].to[m] = NoContact =>
                    person'[sender[s].id].contact[m] = person[sender[s].id].contact[m]
    /\ \A i \in Persons : person[i].state = "deleted" => person'[i] = person[i]

\* Every channel of a job that is enqueued has an address, and it is the one the request
\* names, unless the row was written by somebody else between the request's own read or
\* write of it and the second read of a workflow send.
NamedContactsReached ==
    \A s \in Senders : sender[s].at = "enqueue" =>
        \A m \in sender[s].wants :
            /\ sender[s].seen[m] # NoContact
            /\ sender[s].to[m] # NoContact /\ sender[s].kind # "system" /\ ~sender[s].disturbed
                    => sender[s].seen[m] = sender[s].to[m]

\* A send reaches whom it names, and changes nothing else.
ContactsSound == []NamedContactsReached /\ [][OwnContactsOnly]_subscriberVars
=============================================================================
