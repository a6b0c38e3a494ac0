--------------------------- MODULE ProviderTable ---------------------------
(***************************************************************************)
(* The table `integrations` of one environment, and what each request does *)
(* to it when no other request overlaps it.  The table has two unique      *)
(* indexes, on the name and on the channel of the primary rows; a CHECK    *)
(* wants primary rows to be active.                                        *)
(***************************************************************************)
EXTENDS Integers, FiniteSets

CONSTANTS ProviderNames,  \* provider names of the catalog
          ChannelOf,      \* ChannelOf[name]: the channel a provider's definition declares
          ProviderIds     \* row ids, in the order of created_at

\* 0 and "none" stand for no row and no name.
ASSUME ProvidersAssumption ==
    ProviderIds \subseteq Nat \ {0} /\ "none" \notin ProviderNames

StateActions == {"enable", "disable", "set_primary"}
ProviderRow  == [name: ProviderNames \cup {"none"}, active: BOOLEAN, primary: BOOLEAN]
NoRow        == [name |-> "none", active |-> FALSE, primary |-> FALSE]

Exists(row)       == row.name # "none"
SameChannel(r, s) == Exists(r) /\ Exists(s) /\ ChannelOf[r.name] = ChannelOf[s.name]

\* Two rows that a unique index does not let coexist.
Clash(r, s) ==
    /\ Exists(r) /\ Exists(s)
    /\ r.name = s.name \/ (r.primary /\ s.primary /\ SameChannel(r, s))

\* Connected providers: the first row of each channel was created active and primary,
\* the later ones inactive, and some of those have been enabled since.
Connected(t) ==
    \A i \in ProviderIds : Exists(t[i]) =>
        LET earlier == {j \in ProviderIds : j < i /\ SameChannel(t[i], t[j])}
        IN  /\ t[i].primary <=> earlier = {}
            /\ earlier = {} => t[i].active
            /\ \A j \in ProviderIds : j # i => t[j].name # t[i].name
            /\ \A j \in ProviderIds : j < i => Exists(t[j])

ConnectedTables ==
    {t \in [ProviderIds -> ProviderRow] :
        Connected(t) /\ \A i \in ProviderIds : ~Exists(t[i]) => t[i] = NoRow}

\* What a request comes to alone, its rules for one primary per channel in one step:
\* whether it succeeds, and the table it leaves.
FreeRows(t)  == {i \in ProviderIds : \A j \in ProviderIds : j >= i => ~Exists(t[j])}
NextRow(t)   == CHOOSE i \in FreeRows(t) : \A j \in FreeRows(t) : i <= j
Others(t, i) == {j \in ProviderIds \ {i} : SameChannel(t[j], t[i])}
Heir(t, i)   == CHOOSE j \in Others(t, i) :
                    t[j].active /\ \A k \in Others(t, i) : t[k].active => j <= k

Outcome(t, kind, i, name) ==
    CASE kind = "enable" -> [t EXCEPT ![i].active = TRUE]
      [] kind = "disable" ->
            LET off == [t EXCEPT ![i] = [t[i] EXCEPT !.active = FALSE, !.primary = FALSE]]
            IN  IF t[i].primary THEN [off EXCEPT ![Heir(t, i)].primary = TRUE] ELSE off
      [] kind = "set_primary" ->
            [j \in ProviderIds |-> IF j = i THEN [t[i] EXCEPT !.active = TRUE, !.primary = TRUE]
                                   ELSE IF j \in Others(t, i) THEN [t[j] EXCEPT !.primary = FALSE]
                                   ELSE t[j]]
      [] kind = "create" ->
            LET first == ~\E j \in ProviderIds : t[j].active /\ ChannelOf[t[j].name] = ChannelOf[name]
            IN  [t EXCEPT ![NextRow(t)] = [name |-> name, active |-> first, primary |-> first]]
      [] kind = "update" -> [t EXCEPT ![i].name = name]
      [] kind = "delete" -> [t EXCEPT ![i] = NoRow]

Allowed(t, kind, i, name) ==
    CASE kind = "disable" ->
            Exists(t[i]) /\ (t[i].primary => \E j \in Others(t, i) : t[j].active)
      [] kind \in {"enable", "set_primary"} -> Exists(t[i])
      [] kind = "create" -> FreeRows(t) # {} /\ \A j \in ProviderIds : t[j].name # name
      [] kind = "update" ->
            /\ Exists(t[i])
            /\ \A j \in ProviderIds \ {i} : ~Clash([t[i] EXCEPT !.name = name], t[j])
      [] kind = "delete" -> TRUE
=============================================================================
