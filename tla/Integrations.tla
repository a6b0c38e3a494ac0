---------------------------- MODULE Integrations ----------------------------
(***************************************************************************)
(* The provider integrations of one environment: rows of the table         *)
(* `integrations`, changed by concurrent requests of the dashboard.        *)
(*                                                                         *)
(* Enable, disable and set_primary run several statements in one READ      *)
(* COMMITTED transaction; create, update and delete are a plain read and   *)
(* one statement that commits by itself.  A statement sees the rows        *)
(* committed when it starts and the writes of its own transaction, waits   *)
(* for rows another transaction has written, and then finds the row as     *)
(* that transaction left it.  The table has two unique indexes, on the     *)
(* name and on the channel of the primary rows; a statement that would     *)
(* break one waits for the writer of the conflicting row and fails when    *)
(* that writer commits.  A CHECK wants primary rows to be active.          *)
(***************************************************************************)
EXTENDS ProviderTable

CONSTANTS Writers,        \* requests that may be in flight
          MaxRequests,    \* bound on the number of requests
          Requests        \* the requests a run explores

\* The name of the mark for a row a transaction has not written is no provider's.
ASSUME RequestsAssumption == MaxRequests \in Nat /\ "unwritten" \notin ProviderNames

VARIABLES rows,        \* the committed table
          request,     \* what each request does and has read
          wrote,       \* wrote[w][i]: row i as w's open transaction has left it
          overlapped,  \* requests that another request overlapped
          broken,      \* requests that failed on a unique index
          started      \* requests started

integrationVars == <<rows, request, wrote, overlapped, broken, started>>

Unwritten    == [name |-> "unwritten", active |-> FALSE, primary |-> FALSE]
Written      == ProviderRow \cup {Unwritten}
Stages       == {"idle", "read", "list", "scan", "clear", "promote", "state", "insert",
                 "update", "delete", "commit"}
NoOp         == [kind |-> "none", at |-> "idle", id |-> 0, name |-> "none", seen |-> NoRow,
                 scan |-> {}, target |-> 0]


\* The table keeps its constraints and requests refer to its rows.
IntegrationTypeOK ==
    /\ rows \in [ProviderIds -> ProviderRow]
    /\ request \in [Writers ->
                    [kind: StateActions \cup {"create", "update", "delete", "none"},
                     at: Stages, id: ProviderIds \cup {0}, name: ProviderNames \cup {"none"},
                     seen: ProviderRow, scan: SUBSET ProviderIds,
                     target: ProviderIds \cup {0}]]
    /\ wrote \in [Writers -> [ProviderIds -> Written]]
    /\ overlapped \subseteq Writers
    /\ broken \subseteq Writers
    /\ started \in 0..MaxRequests
    /\ \A i \in ProviderIds : rows[i].primary => rows[i].active
    /\ \A i, j \in ProviderIds : i # j => ~Clash(rows[i], rows[j])

IntegrationInit ==
    /\ rows \in ConnectedTables
    /\ request = [w \in Writers |-> NoOp]
    /\ wrote = [w \in Writers |-> [i \in ProviderIds |-> Unwritten]]
    /\ overlapped = {}
    /\ broken = {}
    /\ started = 0

----------------------------------------------------------------------------
(* The database. *)

\* Row i as the statements of w see it.
Sees(w, i) == IF wrote[w][i] = Unwritten THEN rows[i] ELSE wrote[w][i]

\* Another transaction holds the row lock of i.
Locked(w, i) == \E v \in Writers \ {w} : wrote[v][i] # Unwritten

\* Writing row for i breaks the CHECK on primary rows, or conflicts with a row that is
\* committed or written by w itself.
Violates(w, i, row) ==
    \/ row.primary /\ ~row.active
    \/ \E j \in ProviderIds \ {i} : ~Locked(w, j) /\ Clash(row, Sees(w, j))

\* Writing row for i has to wait: for the lock of i, or for the transaction that
\* writes, or is overwriting, a row it would conflict with.
Waits(w, i, row) ==
    \/ Locked(w, i)
    \/ \E j \in ProviderIds \ {i} : Locked(w, j) /\
            (Clash(row, rows[j]) \/ \E v \in Writers \ {w} : Clash(row, wrote[v][j]))

CloseRequest(w) == request' = [request EXCEPT ![w] = NoOp]

\* The transaction of w rolls back and its request answers with an error.
Rollback(w) ==
    /\ CloseRequest(w)
    /\ wrote' = [wrote EXCEPT ![w] = [i \in ProviderIds |-> Unwritten]]
    /\ UNCHANGED <<rows, overlapped, started>>

\* A statement of w's transaction writes row for i and goes on to the step `there`.
WriteRow(w, i, row, there) ==
    /\ ~Waits(w, i, row)
    /\ IF Violates(w, i, row)
       THEN Rollback(w) /\ broken' = broken \cup {w}
       ELSE /\ wrote' = [wrote EXCEPT ![w][i] = row]
            /\ request' = [request EXCEPT ![w].at = there]
            /\ UNCHANGED <<rows, overlapped, broken, started>>

\* A statement outside a transaction: the same, committed at once.
WriteNow(w, i, row) ==
    /\ ~Waits(w, i, row)
    /\ CloseRequest(w)
    /\ IF Violates(w, i, row)
       THEN /\ broken' = broken \cup {w}
            /\ UNCHANGED rows
       ELSE /\ rows' = [rows EXCEPT ![i] = row]
            /\ UNCHANGED broken
    /\ UNCHANGED <<wrote, overlapped, started>>

----------------------------------------------------------------------------
(* Requests. *)

Busy == {w \in Writers : request[w].at # "idle"}

StartRequest(w, kind, at, id, name) ==
    /\ kind \in Requests
    /\ request[w].at = "idle"
    /\ started < MaxRequests
    /\ started' = started + 1
    /\ request' = [request EXCEPT ![w] = [NoOp EXCEPT !.kind = kind, !.at = at, !.id = id,
                                            !.name = name]]
    /\ overlapped' = IF Busy = {} THEN overlapped \ {w} ELSE overlapped \cup Busy \cup {w}
    /\ broken' = broken \ {w}
    /\ UNCHANGED <<rows, wrote>>

\* PATCH /integrations/{id}: begin the transaction of UpdateState.
UpdateState(w, action, i) == StartRequest(w, action, "read", i, "none")

\* POST /integrations
CreateProvider(w, name) == StartRequest(w, "create", "list", 0, name)

\* PUT /integrations/{id}: the definition of the name in the body decides the channel.
UpdateProvider(w, i, name) == StartRequest(w, "update", "read", i, name)

\* DELETE /integrations/{id}
DeleteProvider(w, i) == StartRequest(w, "delete", "delete", i, "none")

\* Mutated form: disabling the primary promotes no fallback.
ReadRow_NoFallback(w) ==
    LET row == rows[request[w].id]
    IN  /\ request[w].at = "read"
        /\ request' = [request EXCEPT ![w] =
                        IF ~Exists(row) THEN NoOp
                        ELSE [@ EXCEPT !.seen = row,
                                       !.at = CASE request[w].kind = "update" -> "update"
                                                [] request[w].kind = "set_primary" -> "scan"
                                                [] OTHER -> "state"]]
        /\ UNCHANGED <<rows, wrote, overlapped, broken, started>>

\* GetByID, without a lock: what is decided below is decided from this copy.
ReadRow(w) ==
    LET row == rows[request[w].id]
    IN  /\ request[w].at = "read"
        /\ request' = [request EXCEPT ![w] =
                    IF ~Exists(row) THEN NoOp
                    ELSE [@ EXCEPT !.seen = row,
                                   !.at = CASE request[w].kind = "update" -> "update"
                                            [] request[w].kind = "enable" -> "state"
                                            [] request[w].kind = "set_primary" -> "scan"
                                            [] OTHER -> IF row.primary THEN "list" ELSE "state"]]
        /\ UNCHANGED <<rows, wrote, overlapped, broken, started>>

\* promotePrimary: the oldest other active provider of the channel; without one the
\* disable is refused.
Fallbacks(w) ==
    {i \in ProviderIds \ {request[w].id} : rows[i].active /\ SameChannel(rows[i], request[w].seen)}
ListFallbacks(w) ==
    /\ request[w].kind = "disable"
    /\ request[w].at = "list"
    /\ request' = [request EXCEPT ![w] =
                IF Fallbacks(w) = {} THEN NoOp
                ELSE LET ordered(i, j) == rows[i].primary \/ (~rows[j].primary /\ i <= j)
                     IN  [@ EXCEPT !.at = "scan",
                                   !.target = CHOOSE i \in Fallbacks(w) :
                                                \A j \in Fallbacks(w) : ordered(i, j)]]
    /\ UNCHANGED <<rows, wrote, overlapped, broken, started>>

\* ClearIntegrationPrimaryByChannel starts: the rows its snapshot matches.
ScanPrimary(w) ==
    /\ request[w].at = "scan"
    /\ request' = [request EXCEPT ![w].at = "clear",
                        ![w].scan = {i \in ProviderIds : /\ Sees(w, i).primary
                                                 /\ SameChannel(Sees(w, i), request[w].seen)}]
    /\ UNCHANGED <<rows, wrote, overlapped, broken, started>>

\* ... and clears those that are still primary once their locks are free.
ClearPrimary(w) ==
    /\ request[w].at = "clear"
    /\ \A i \in request[w].scan : ~Locked(w, i)
    /\ wrote' = [wrote EXCEPT ![w] =
                    [i \in ProviderIds |-> IF i \in request[w].scan /\ Sees(w, i).primary
                                   THEN [Sees(w, i) EXCEPT !.primary = FALSE]
                                   ELSE wrote[w][i]]]
    /\ request' = [request EXCEPT ![w].at = IF request[w].kind = "disable" THEN "promote" ELSE "state"]
    /\ UNCHANGED <<rows, overlapped, broken, started>>

\* UpdateIntegrationState of row i; a row that is gone ends the request.
SetState(w, i, active, primary, there) ==
    \/ /\ Exists(Sees(w, i))
       /\ WriteRow(w, i, [Sees(w, i) EXCEPT !.active = active, !.primary = primary], there)
    \/ /\ ~Exists(Sees(w, i)) /\ ~Locked(w, i)
       /\ Rollback(w)
       /\ UNCHANGED broken

\* The fallback becomes active and primary, whatever happened to it since it was listed.
Promote(w) ==
    /\ request[w].at = "promote"
    /\ SetState(w, request[w].target, TRUE, TRUE, "state")

\* Mutated form: set_primary writes back the flag it read, as enable does.
WriteState_KeepsFlag(w) ==
    /\ request[w].at = "state"
    /\ SetState(w, request[w].id, request[w].kind # "disable",
                request[w].kind # "disable" /\ request[w].seen.primary, "commit")

\* The final update: enable writes back the is_primary it read.
WriteState(w) ==
    /\ request[w].at = "state"
    /\ SetState(w, request[w].id, request[w].kind # "disable",
                CASE request[w].kind = "enable"  -> request[w].seen.primary
                  [] request[w].kind = "disable" -> FALSE
                  [] OTHER                  -> TRUE,
                "commit")

CommitState(w) ==
    /\ request[w].at = "commit"
    /\ rows' = [i \in ProviderIds |-> Sees(w, i)]
    /\ wrote' = [wrote EXCEPT ![w] = [i \in ProviderIds |-> Unwritten]]
    /\ CloseRequest(w)
    /\ UNCHANGED <<overlapped, broken, started>>

\* Create lists the channel: the new row is active and primary when nothing is active.
ListChannel(w) ==
    LET first == ~\E i \in ProviderIds : rows[i].active /\ ChannelOf[rows[i].name] = ChannelOf[request[w].name]
    IN  /\ request[w].kind = "create"
        /\ request[w].at = "list"
        /\ request' = [request EXCEPT ![w].at = "insert",
                            ![w].seen = [name |-> request[w].name, active |-> first, primary |-> first]]
        /\ UNCHANGED <<rows, wrote, overlapped, broken, started>>

\* INSERT INTO integrations, with what the list said: the youngest row.
InsertRow(w) ==
    /\ request[w].at = "insert"
    /\ FreeRows(rows) # {}
    /\ WriteNow(w, NextRow(rows), request[w].seen)

\* UPDATE integrations SET name, channel: is_active and is_primary stay as they are.
UpdateRow(w) ==
    LET i == request[w].id
    IN  /\ request[w].at = "update"
        /\ \/ /\ Exists(rows[i])
              /\ WriteNow(w, i, [rows[i] EXCEPT !.name = request[w].name])
           \/ /\ ~Exists(rows[i])
              /\ CloseRequest(w)
              /\ UNCHANGED <<rows, wrote, overlapped, broken, started>>

\* DELETE FROM integrations: no other provider is promoted.
DeleteRow(w) ==
    LET i == request[w].id
    IN  /\ request[w].at = "delete"
        /\ ~Locked(w, i)
        /\ rows' = [rows EXCEPT ![i] = NoRow]
        /\ CloseRequest(w)
        /\ UNCHANGED <<wrote, overlapped, broken, started>>

\* A statement fails, the client disconnects or the process dies.
AbortRequest(w) ==
    /\ request[w].at # "idle"
    /\ Rollback(w)
    /\ UNCHANGED broken

ProviderRequest(w) ==
    \/ \E a \in StateActions, i \in ProviderIds : UpdateState(w, a, i)
    \/ \E n \in ProviderNames : CreateProvider(w, n)
    \/ \E i \in ProviderIds, n \in ProviderNames : UpdateProvider(w, i, n)
    \/ \E i \in ProviderIds : DeleteProvider(w, i)

ProviderStatement(w) ==
    \/ ReadRow(w)
    \/ ListFallbacks(w)
    \/ ScanPrimary(w)
    \/ ClearPrimary(w)
    \/ Promote(w)
    \/ WriteState(w)
    \/ CommitState(w)
    \/ ListChannel(w)
    \/ InsertRow(w)
    \/ UpdateRow(w)
    \/ DeleteRow(w)

IntegrationNext == \E w \in Writers : ProviderRequest(w) \/ ProviderStatement(w) \/ AbortRequest(w)

IntegrationSpec == IntegrationInit /\ [][IntegrationNext]_integrationVars

----------------------------------------------------------------------------
(* Properties. *)

ChannelHasPrimary(t, c) == \E i \in ProviderIds : t[i].primary /\ ChannelOf[t[i].name] = c
Channels == {ChannelOf[n] : n \in ProviderNames}

\* A request that no other overlapped either changes nothing or leaves the table its
\* rules promise, and fails on an index only where it has to.
SerialRequests ==
    [][\A w \in Writers : request[w].kind # "none" /\ w \notin overlapped =>
        LET r       == request[w]
            allowed == Allowed(rows, r.kind, r.id, r.name)
        IN  /\ w \in broken' => ~allowed
            /\ rows' # rows => allowed /\ rows' = Outcome(rows, r.kind, r.id, r.name)]_integrationVars

\* Whatever overlaps it, a disable that promoted a fallback commits with the fallback
\* primary, and a set_primary commits with its row primary: no other request slips in
\* between the clearing of the old primary and the commit.
PrimarySucceeds ==
    [][\A w \in Writers : request[w].at = "commit" /\ rows' # rows =>
        LET heir == CASE request[w].kind = "set_primary" -> request[w].id
                      [] request[w].kind = "disable"     -> request[w].target
                      [] OTHER                      -> 0
        IN  request'[w].at = "idle" /\ heir # 0 =>
                \E i \in ProviderIds : i = heir /\ rows'[i].primary /\ rows'[i].active]_integrationVars

\* "UpdateState performs enable, disable, or set_primary on a provider, enforcing all
\* primary-per-channel rules inside a single transaction": with no request in flight,
\* a channel with an active provider has a primary.
ActiveHasPrimary ==
    Busy = {} => \A i \in ProviderIds : rows[i].active => ChannelHasPrimary(rows, ChannelOf[rows[i].name])
=============================================================================
