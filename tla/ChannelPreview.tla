--------------------------- MODULE ChannelPreview ---------------------------
(***************************************************************************)
(* What stands beside the editor of an e-mail or SMS step: the person for  *)
(* whom the message is previewed, the preview, and the dialog that sends a *)
(* test.  The default person, the results of a search and the HTML of an   *)
(* e-mail all arrive late; a test is sent with what the page holds at the  *)
(* click, and its dialog closes some time after its success.               *)
(***************************************************************************)
EXTENDS Integers, FiniteSets

CONSTANTS Myself,      \* the signed-in user
          Searches,    \* what may be typed in the search field
          Hits,        \* the subscribers each search finds
          Reachable,   \* for each channel, those with an address for it
          Nobody,      \* null
          MaxBodies,   \* bound on the edits of the body
          MaxTests     \* bound on the tests sent

ASSUME PreviewConstants ==
    /\ \A q \in Searches : Nobody \notin Hits[q] /\ Myself \notin Hits[q]
    /\ Nobody # Myself
    /\ MaxBodies \in Nat

VARIABLES via,         \* the channel of the step
          recipient,   \* the preview subscriber and what is known of the user
          search,      \* the search field
          body,        \* the body of the message; 0 as it was loaded
          preview,     \* the rendered preview
          tester,      \* the dialog and the mutation it observes
          tests,       \* the tests, in the order of their clicks
          quirks       \* what may excuse the page, so far

channelPreviewVars == <<via, recipient, search, body, preview, tester, tests, quirks>>

Audience  == {Myself} \cup UNION {Hits[q] : q \in Searches}
Someone   == Audience \cup {Nobody}
Bodies    == 0..MaxBodies
Rendering == [body: Bodies, who: Someone]
TestIds   == 1..MaxTests
NotTyped  == "nothing"
TestsUnderway == {n \in TestIds : tests[n] = "sent"}

\* Every variable stays within its domain.
ChannelPreviewTypeOK ==
    /\ via \in DOMAIN Reachable
    /\ recipient \in [shown: Someone, picked: Someone, profile: {"asked", "known", "failed"}]
    /\ search \in [typed: Searches \cup {NotTyped}, asked: Searches \cup {NotTyped}]
    /\ body \in Bodies
    /\ preview \in [html: Rendering, failed: BOOLEAN, jobs: SUBSET Rendering]
    /\ tester \in [open: BOOLEAN, observes: TestIds \cup {0}, closing: SUBSET TestIds]
    /\ tests \in [TestIds -> {"none", "sent", "answered", "failed"}]
    /\ quirks \subseteq {"profile", "hurried", "cancelled"}

\* The channel has been loaded and its editors stand there.
ChannelPreviewInit ==
    /\ via \in DOMAIN Reachable
    /\ recipient = [shown |-> Nobody, picked |-> Nobody, profile |-> "asked"]
    /\ search = [typed |-> NotTyped, asked |-> NotTyped]
    /\ body = 0
    /\ preview = [html |-> [body |-> 0, who |-> Nobody], failed |-> FALSE, jobs |-> {}]
    /\ tester = [open |-> FALSE, observes |-> 0, closing |-> {}]
    /\ tests = [n \in TestIds |-> "none"]
    /\ quirks = {}

\* The dialog is modal.
OnPage == ~tester.open

----------------------------------------------------------------------------
(* The preview. *)

Now == [body |-> body, who |-> recipient.shown]

\* useEmailPreview, when the body or the person changes: an e-mail as it was loaded and any
\* SMS are rendered at once, what the editor of e-mails has handed on by the renderer; what
\* that is at is given up.
Rerender(b, p) ==
    LET v == [body |-> b, who |-> p]
    IN  preview' = IF b = 0 \/ via = "sms"
                   THEN [html |-> v, failed |-> FALSE, jobs |-> {}]
                   ELSE [preview EXCEPT !.jobs = {v}]

\* The editor hands on another body.
EditBody ==
    /\ OnPage
    /\ body < MaxBodies
    /\ body' = body + 1
    /\ Rerender(body', recipient.shown)
    /\ UNCHANGED <<via, recipient, search, tester, tests, quirks>>

\* The renderer is done.
RenderDone(v) ==
    /\ v \in preview.jobs
    /\ preview' = [html |-> v, failed |-> FALSE, jobs |-> preview.jobs \ {v}]
    /\ UNCHANGED <<via, recipient, search, body, tester, tests, quirks>>

\* It fails: the page goes back to the plain substitution of the body.
RenderFails(v) ==
    /\ v \in preview.jobs
    /\ preview' = [preview EXCEPT !.failed = TRUE, !.jobs = preview.jobs \ {v}]
    /\ UNCHANGED <<via, recipient, search, body, tester, tests, quirks>>

----------------------------------------------------------------------------
(* The person. *)

\* setPreviewSubscriber; what made an earlier choice void is over.
ShowPerson(p) ==
    /\ recipient' = [recipient EXCEPT !.shown = p, !.picked = p]
    /\ quirks' = quirks \ {"profile"}
    /\ Rerender(body, p)

\* The profile arrives.  The user becomes the preview subscriber, also in the place of one
\* picked meanwhile.
MyProfileArrives ==
    /\ recipient.profile = "asked"
    /\ recipient' = [recipient EXCEPT !.shown = Myself, !.profile = "known"]
    /\ Rerender(body, Myself)
    /\ quirks' = IF recipient.picked = Nobody THEN quirks ELSE quirks \cup {"profile"}
    /\ UNCHANGED <<via, search, body, tester, tests>>

MyProfileFails ==
    /\ recipient.profile = "asked"
    /\ recipient' = [recipient EXCEPT !.profile = "failed"]
    /\ UNCHANGED <<via, search, body, preview, tester, tests, quirks>>

\* resetToDefault ("Reset to me"), offered while somebody is shown.
ResetPerson ==
    /\ OnPage
    /\ recipient.shown \notin {Nobody, Myself}
    /\ recipient.profile = "known"
    /\ ShowPerson(Myself)
    /\ UNCHANGED <<via, search, body, tester, tests>>

\* The user types; the search follows 300 ms after the last key.
TypeSearch(q) ==
    /\ OnPage
    /\ search.typed # q
    /\ search' = [search EXCEPT !.typed = q]
    /\ UNCHANGED <<via, recipient, body, preview, tester, tests, quirks>>
AskSearch ==
    /\ search.asked # search.typed
    /\ search' = [search EXCEPT !.asked = search.typed]
    /\ UNCHANGED <<via, recipient, body, preview, tester, tests, quirks>>

ClearSearch ==
    /\ OnPage
    /\ search.typed # NotTyped
    /\ search' = [typed |-> NotTyped, asked |-> NotTyped]
    /\ UNCHANGED <<via, recipient, body, preview, tester, tests, quirks>>

\* A result of the search last asked for, once it is there, is picked; the field is cleared.
PickPerson(p) ==
    /\ OnPage
    /\ search.typed # NotTyped
    /\ search.asked # NotTyped
    /\ p \in Hits[search.asked]
    /\ ShowPerson(p)
    /\ search' = [typed |-> NotTyped, asked |-> NotTyped]
    /\ UNCHANGED <<via, body, tester, tests>>

----------------------------------------------------------------------------
(* The tests. *)

TestPending == tester.observes # 0 /\ tests[tester.observes] = "sent"

Dialog(t) == tester' = t /\ UNCHANGED <<via, recipient, search, body, preview>>

OpenDialog ==
    /\ OnPage
    /\ Dialog([tester EXCEPT !.open = TRUE])
    /\ quirks' = IF tester.closing = {} THEN quirks ELSE quirks \cup {"hurried"}
    /\ UNCHANGED tests

\* useRenderedBody: the HTML if there is some, or else the body as it is, substituted.
RenderedBody == IF preview.failed THEN Now ELSE preview.html

\* What a test carries.
Message == [to |-> recipient.shown, html |-> RenderedBody]

\* handleSendTest: Message leaves.  The button is disabled while a test that the dialog
\* observes is under way, and without an address.
SendTest(n) ==
    /\ tester.open /\ ~TestPending
    /\ recipient.shown \in Reachable[via]
    /\ tests[n] = "none" /\ \A m \in 1..(n - 1) : tests[m] # "none"
    /\ tests' = [tests EXCEPT ![n] = "sent"]
    /\ Dialog([tester EXCEPT !.observes = n])
    /\ quirks' = IF tester.closing = {} THEN quirks ELSE quirks \cup {"hurried"}

\* The API has delivered the test; the dialog is to close in two seconds.
TestAnswered(n) ==
    /\ tests[n] = "sent"
    /\ tests' = [tests EXCEPT ![n] = "answered"]
    /\ Dialog([tester EXCEPT !.closing = @ \cup {n}])
    /\ UNCHANGED quirks

\* It could not be delivered, or the answer is lost: the dialog says so.
TestFails(n) ==
    /\ tests[n] = "sent"
    /\ tests' = [tests EXCEPT ![n] = "failed"]
    /\ UNCHANGED <<via, recipient, search, body, preview, tester, quirks>>

\* The two seconds are over: whatever the dialog is at, it closes and forgets its test.
AutoClose(n) ==
    /\ n \in tester.closing
    /\ Dialog([open |-> FALSE, observes |-> 0, closing |-> tester.closing \ {n}])
    /\ UNCHANGED <<tests, quirks>>

\* "Cancel" closes the dialog, which forgets its test; the test goes on.
CancelDialog ==
    /\ tester.open
    /\ Dialog([tester EXCEPT !.open = FALSE, !.observes = 0])
    /\ quirks' = IF TestPending THEN quirks \cup {"cancelled"} ELSE quirks
    /\ UNCHANGED tests

\* The dialog is dismissed by other means, and remembers.
DismissDialog ==
    /\ tester.open
    /\ Dialog([tester EXCEPT !.open = FALSE])
    /\ UNCHANGED <<tests, quirks>>

ChannelPreviewNext ==
    \/ EditBody
    \/ \E v \in preview.jobs : RenderDone(v) \/ RenderFails(v)
    \/ MyProfileArrives
    \/ MyProfileFails
    \/ ResetPerson
    \/ \E q \in Searches \cup {NotTyped} : TypeSearch(q)
    \/ AskSearch
    \/ ClearSearch
    \/ \E p \in Audience : PickPerson(p)
    \/ OpenDialog
    \/ \E n \in TestIds : SendTest(n) \/ TestAnswered(n) \/ TestFails(n) \/ AutoClose(n)
    \/ CancelDialog
    \/ DismissDialog

ChannelPreviewSpec == ChannelPreviewInit /\ [][ChannelPreviewNext]_channelPreviewVars

----------------------------------------------------------------------------
(* Properties. *)

\* A test goes to the person last picked, with the body as the editor last handed it on,
\* rendered for that person, unless the profile arrived after the pick, or the preview is
\* still being rendered (the test then carries the body or the person of the one before).
SendsWhatIsShown ==
    /\ recipient.picked # Nobody /\ "profile" \notin quirks => Message.to = recipient.picked
    /\ preview.jobs = {} => Message.html = [body |-> body, who |-> Message.to]

\* At most one test is under way, and the dialog does not close by itself but on the success
\* of the test it observes, unless the user reopened it or sent again within the two seconds
\* after a success, or cancelled a test under way.
OneTestAtATime ==
    quirks \cap {"hurried", "cancelled"} = {} => Cardinality(TestsUnderway) <= 1
ClosesOnOwnTest ==
    quirks \cap {"hurried", "cancelled"} = {} =>
        \A n \in tester.closing \ tester'.closing :
            tester.open => tester.observes = n /\ tests[n] = "answered"
=============================================================================
