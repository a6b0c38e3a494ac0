---------------------------- MODULE BuilderAutosave ----------------------------
(***************************************************************************)
(* How the edits of one workflow travel between the browser and the API:   *)
(* the builder page keeps a copy that it saves after a pause and replaces  *)
(* whenever the query cache has a newer version; the channel page loads a  *)
(* copy of its own and saves it back.  Saves and fetches are asynchronous, *)
(* may overtake each other, and may fail.                                  *)
(*                                                                         *)
(* A document is the set of the edits it contains, those of the graph      *)
(* (draft) and those of name and description (setup).                      *)
(***************************************************************************)
EXTENDS Integers, FiniteSets

CONSTANTS MaxEdits,    \* bound on the edits of the user
          MaxVisits,   \* bound on the pages opened
          MaxSaves     \* bound on the saves sent

ASSUME AutosaveConstants == MaxEdits \in Nat /\ MaxVisits \in Nat /\ MaxSaves \in Nat

VARIABLES server,      \* the workflow in the database; rev stands for updatedAt
          page,        \* the open page and its local state
          armed,       \* whether the page's autosave timer runs
          saves,       \* PUT requests in flight
          cache,       \* the query cache
          fetch,       \* the fetch of the query, if one runs
          edited,      \* edits made so far
          visits,      \* pages opened so far
          trouble      \* what a user could have done to lose an edit, so far

autosaveVars == <<server, page, armed, saves, cache, fetch, edited, visits, trouble>>

Edits     == 1..MaxEdits
Document  == [draft: SUBSET Edits, setup: SUBSET Edits]
Empty     == [draft |-> {}, setup |-> {}]
Version   == [doc: Document, rev: 1..(MaxSaves + 1)]
Closed    == [at |-> "away", loaded |-> FALSE, doc |-> Empty, synced |-> 0]
NoFetch   == [at |-> "none", doc |-> Empty, rev |-> 0]
Asked     == [NoFetch EXCEPT !.at = "asked"]
Troubles  == {"hasty", "left", "failed", "overtaken"}

\* Every variable stays within its domain.
AutosaveTypeOK ==
    /\ server \in Version
    /\ page \in [at: {"builder", "channel", "away"}, loaded: BOOLEAN, doc: Document,
                 synced: Nat]
    /\ armed \in BOOLEAN
    /\ saves \subseteq [of: {"timer", "configure"}, doc: Document, mine: BOOLEAN,
                        applied: BOOLEAN]
    /\ cache \in [doc: Document, rev: Nat, stale: BOOLEAN]
    /\ fetch \in [at: {"none", "asked", "read"}, doc: Document, rev: Nat]
    /\ edited \in 0..MaxEdits
    /\ visits \in 0..MaxVisits
    /\ trouble \subseteq Troubles
    /\ armed => page.loaded

AutosaveInit ==
    /\ server = [doc |-> Empty, rev |-> 1]
    /\ page = Closed
    /\ armed = FALSE
    /\ saves = {}
    /\ cache = [doc |-> Empty, rev |-> 0, stale |-> TRUE]
    /\ fetch = NoFetch
    /\ edited = 0
    /\ visits = 0
    /\ trouble = {}

----------------------------------------------------------------------------
(* Pages. *)

\* The builder's state for a version of the query; nothing of it is to be saved.
Synced(v) == [at |-> "builder", loaded |-> TRUE, doc |-> v.doc, synced |-> v.rev]

\* The builder opens: it shows what is cached, and the query is fetched when that is
\* missing, invalidated, or old (which it may be at any time).
OpenBuilder ==
    /\ page.at = "away"
    /\ visits < MaxVisits
    /\ visits' = visits + 1
    /\ page' = IF cache.rev = 0 THEN [Closed EXCEPT !.at = "builder"] ELSE Synced(cache)
    /\ \/ fetch.at = "none" /\ fetch' = Asked
       \/ (cache.stale => fetch.at # "none") /\ fetch' = fetch
    /\ UNCHANGED <<server, armed, saves, cache, edited, trouble>>

\* The channel page opens and loads the workflow from the API, past the cache.
OpenChannel ==
    /\ page.at = "away"
    /\ visits < MaxVisits
    /\ visits' = visits + 1
    /\ page' = [Synced(server) EXCEPT !.at = "channel"]
    /\ UNCHANGED <<server, armed, saves, cache, fetch, edited, trouble>>

\* The page goes: its timer is cleared, its requests that are left and the fetch go on.
Leave(left) ==
    /\ page' = Closed
    /\ armed' = FALSE
    /\ saves' = {[s EXCEPT !.mine = FALSE] : s \in left}

\* The user leaves the page.
ClosePage ==
    /\ page.at # "away"
    /\ Leave(saves)
    /\ trouble' = IF armed \/ saves # {} THEN trouble \cup {"left"} ELSE trouble
    /\ UNCHANGED <<server, cache, fetch, edited, visits>>

\* Acting on a page while a save is in flight or the page is about to be refreshed.
Haste == IF saves # {} \/ (page.at = "builder" /\ fetch.at # "none") THEN {"hasty"} ELSE {}

\* The user edits the graph in the builder, its name or description in the builder, or
\* the template on the channel page, whose id and payload enter the graph; the timer
\* starts again.
EditPage ==
    LET e == edited + 1
    IN  /\ page.loaded
        /\ e \in Edits
        /\ edited' = e
        /\ \/ page' = [page EXCEPT !.doc.draft = @ \cup {e}]
           \/ page.at = "builder" /\ page' = [page EXCEPT !.doc.setup = @ \cup {e}]
        /\ armed' = TRUE
        /\ trouble' = trouble \cup Haste
        /\ UNCHANGED <<server, saves, cache, fetch, visits>>

----------------------------------------------------------------------------
(* Saves. *)

\* A PUT with everything the page shows.
Put(of) == [of |-> of, doc |-> page.doc, mine |-> TRUE, applied |-> FALSE]

\* Within the bound.  Without one, two PUTs of different documents, each undone by the
\* other's answer, can follow each other for ever.
Room == server.rev + Cardinality({s \in saves : ~s.applied}) <= MaxSaves

\* The timer fires.
SendSave ==
    /\ armed
    /\ Room
    /\ armed' = FALSE
    /\ saves' = saves \cup {Put("timer")}
    /\ UNCHANGED <<server, page, cache, fetch, edited, visits, trouble>>

\* The user asks to configure a notification step: a PUT of the same kind, whose end, good
\* or bad, takes the user to the channel page.
ConfigureNode ==
    /\ page.at = "builder"
    /\ page.loaded
    /\ Room
    /\ saves' = saves \cup {Put("configure")}
    /\ trouble' = trouble \cup Haste
    /\ UNCHANGED <<server, page, armed, cache, fetch, edited, visits>>

\* The API overwrites the row.
ApplySave(s) ==
    /\ ~s.applied
    /\ server' = [doc |-> s.doc, rev |-> server.rev + 1]
    /\ saves' = (saves \ {s}) \cup {[s EXCEPT !.applied = TRUE]}
    /\ UNCHANGED <<page, armed, cache, fetch, edited, visits, trouble>>

\* invalidateQueries: the cache is stale, and a mounted builder fetches again, giving up
\* the fetch that runs.  Without one a running fetch goes on.
Invalidate ==
    /\ cache' = [cache EXCEPT !.stale = TRUE]
    /\ fetch' = IF page.at = "builder" THEN Asked ELSE fetch

Overtaken == IF page.at # "builder" /\ fetch.at # "none" THEN {"overtaken"} ELSE {}

\* What the answer does to the page: the builder takes name and description from it, and
\* starts its timer again if the graph has changed since.
Answered(s) ==
    IF s.mine /\ page.at = "builder"
    THEN /\ page' = [page EXCEPT !.doc.setup = s.doc.setup]
         /\ armed' = (page.doc.draft # s.doc.draft)
    ELSE UNCHANGED <<page, armed>>

\* Mutated form: nothing is invalidated.
SaveReturns_KeepsCache(s) ==
    /\ s.of = "timer"
    /\ s.applied
    /\ saves' = saves \ {s}
    /\ Answered(s)
    /\ UNCHANGED <<server, cache, fetch, edited, visits, trouble>>

\* The PUT is answered.
SaveReturns(s) ==
    /\ s.of = "timer"
    /\ s.applied
    /\ saves' = saves \ {s}
    /\ Answered(s)
    /\ Invalidate
    /\ trouble' = trouble \cup Overtaken
    /\ UNCHANGED <<server, edited, visits>>

\* The PUT before the channel page is answered, and the user is taken there.  An edit made
\* since the click and not yet sent goes with the builder.
ConfigureReturns(s) ==
    /\ s.of = "configure"
    /\ s.applied
    /\ Leave(saves \ {s})
    /\ Invalidate
    /\ trouble' = trouble \cup Overtaken
                  \cup IF saves = {s} /\ (armed => page.doc = s.doc) THEN {} ELSE {"left"}
    /\ UNCHANGED <<server, edited, visits>>

\* The PUT fails, before or after the API applied it; it is not sent again.  One
\* failure is explored.
SaveFails(s) ==
    /\ "failed" \notin trouble
    /\ IF s.of = "configure"
       THEN Leave(saves \ {s})
       ELSE saves' = saves \ {s} /\ UNCHANGED <<page, armed>>
    /\ trouble' = trouble \cup {"failed"}
    /\ UNCHANGED <<server, cache, fetch, edited, visits>>

----------------------------------------------------------------------------
(* The query. *)

\* The API answers the fetch with the row as it is.
ReadWorkflow ==
    /\ fetch.at = "asked"
    /\ fetch' = [at |-> "read", doc |-> server.doc, rev |-> server.rev]
    /\ UNCHANGED <<server, page, armed, saves, cache, edited, visits, trouble>>

\* The answer arrives.  A mounted builder that has not seen this updatedAt shows it, over
\* whatever it shows, and its timer is cleared.
FetchReturns ==
    /\ fetch.at = "read"
    /\ fetch' = NoFetch
    /\ cache' = [doc |-> fetch.doc, rev |-> fetch.rev, stale |-> FALSE]
    /\ IF page.at = "builder" /\ page.synced # fetch.rev
       THEN page' = Synced(fetch) /\ armed' = FALSE
       ELSE UNCHANGED <<page, armed>>
    /\ UNCHANGED <<server, saves, edited, visits, trouble>>

\* The fetch fails: the page keeps what it shows.
FetchFails ==
    /\ "failed" \notin trouble
    /\ fetch.at # "none"
    /\ fetch' = NoFetch
    /\ trouble' = trouble \cup {"failed"}
    /\ UNCHANGED <<server, page, armed, saves, cache, edited, visits>>

AutosaveNext ==
    \/ OpenBuilder
    \/ OpenChannel
    \/ ClosePage
    \/ EditPage
    \/ SendSave
    \/ ConfigureNode
    \/ \E s \in saves : ApplySave(s) \/ SaveReturns(s) \/ ConfigureReturns(s) \/ SaveFails(s)
    \/ ReadWorkflow
    \/ FetchReturns
    \/ FetchFails

AutosaveSpec == AutosaveInit /\ [][AutosaveNext]_autosaveVars

----------------------------------------------------------------------------
(* Properties. *)

AllQuiet == ~armed /\ saves = {} /\ fetch.at = "none"

\* With nothing in flight the builder shows the graph the database holds, however edits,
\* saves, fetches and visits of the channel page overlapped, if no request failed and no
\* save of another page was answered during a fetch that the builder had left behind
\* (whose older answer then passes for fresh).  Name and description agree too when no
\* edit was made during a request: the late answer of a first save brings back the name
\* that a second save has replaced, and the fetch that follows does not correct it.
SettledShowsServer ==
    AllQuiet /\ page.at = "builder" /\ page.loaded /\ trouble \cap {"failed", "overtaken"} = {}
        => /\ page.doc.draft = server.doc.draft
           /\ "hasty" \notin trouble => page.doc = server.doc

\* No edit is lost on the way through both pages by a user who edits, or goes on to the
\* channel page, only while no request is in flight (a builder that still shows what was
\* cached would write it back) and leaves a page otherwise only once its edits are saved,
\* if no request fails and no fetch left behind brings an older version into the cache.
CalmEditsSurvive ==
    AllQuiet /\ trouble = {}
        => 1..edited \subseteq server.doc.draft \cup server.doc.setup
=============================================================================
