----------------------------- MODULE PageProofs -----------------------------
(***************************************************************************)
(* Proofs about the pages of the dashboard, for every value of the         *)
(* constants and of the bounds: the builder's canvas, a channel's message, *)
(* its preview and sender drawer, and the pages of API keys, subscribers,  *)
(* workflows and providers.  What is said of a page holds of the browser   *)
(* when that page is the one that moves.  The types of all that runs in    *)
(* the browser come last.                                                  *)
(***************************************************************************)
EXTENDS BrowserProofs

\* A step of the browser is one of the page that moves.
LEMMA PageMoves ==
    ASSUME [BrowserNext]_browserVars
    PROVE  /\ focus' = focus
           /\ focus = "builder" => [BuilderNext]_builderVars
           /\ focus = "host" => [CanvasHostNext]_canvasHostVars
           /\ focus = "keys" => [KeyPageNext]_keyPageVars
           /\ focus = "subscribers" => [SubscriberPageNext]_subscriberPageVars
           /\ focus = "workflows" => [WorkflowPageNext]_workflowPageVars
           /\ focus = "providers" => [ProviderPageNext]_providerPageVars
           /\ focus = "channel" => [ChannelEditorNext]_channelEditorVars
           /\ focus = "preview" => [ChannelPreviewNext]_channelPreviewVars
           /\ focus = "drawer" => [SenderDrawerNext]_senderDrawerVars
BY DEF BrowserNext, browserVars, builderSide, pages, channelPage, builderVars, canvasHostVars, keyPageVars,
       subscriberPageVars, workflowPageVars, providerPageVars, channelEditorVars, channelPreviewVars, senderDrawerVars
----------------------------------------------------------------------------
(***************************************************************************)
(* The canvas and the draft of the page.                                   *)
(***************************************************************************)

\* What the effects remember; drafts are numbered as they are made.
RemembersSeen ==
    /\ seen.draft = store.draft
    /\ ~due => seen.external = value
    /\ store.draft <= drafts /\ value <= drafts /\ newest <= drafts
    /\ echo # NoEcho => echo <= drafts

\* Unless a fetched version crossed an edit: an echo is what the canvas shows; without one,
\* the canvas shows the draft, or an effect is due that will bring it there.
CanvasFollows ==
    "crossed" \notin mixups =>
        /\ echo # NoEcho => ~due /\ echo = store.draft
        /\ echo = NoEcho /\ (due => value = seen.external) => store.draft = value

\* Unless an old version was fetched or an edit made in haste: the newest draft is on its way
\* to the page, or there.
NewestArrives ==
    {"hasty", "replaced"} \cap mixups = {} =>
        /\ echo \in {NoEcho, newest}
        /\ due \/ echo = NoEcho => value = newest

CanvasHostInv == CanvasHostTypeOK /\ RemembersSeen /\ CanvasFollows /\ NewestArrives

LEMMA CanvasHostAtFirst == CanvasHostInit => CanvasHostInv
<1>1. 0 \in Drafts /\ NoEcho \notin Drafts /\ "nothing" \in Selected
  BY CanvasHostAssumption DEF Drafts, NoEcho, Selected
<1>2. CanvasHostInit => CanvasHostTypeOK
  <2>1. /\ [draft |-> 0, selected |-> "nothing"] \in [draft: Drafts, selected: Selected]
        /\ [external |-> 0, draft |-> 0] \in [external: Drafts, draft: Drafts]
    BY <1>1
  <2>. QED  BY <1>1, <2>1, Zenon DEF CanvasHostInit, CanvasHostTypeOK
<1>3. CanvasHostInit => RemembersSeen /\ CanvasFollows /\ NewestArrives
  BY <1>1 DEF CanvasHostInit, RemembersSeen, CanvasFollows, NewestArrives
<1>. QED  BY <1>2, <1>3 DEF CanvasHostInv

\* What the effects do with a store that shows the canvas, or an edit of it.
LEMMA EffectsKeep ==
    ASSUME CanvasHostInv, NEW s \in [draft: Drafts, selected: Selected], Effects(s),
           UNCHANGED value,
           \/ s.draft = store.draft /\ UNCHANGED <<drafts, newest, mixups>>
           \/ /\ s.draft = drafts + 1 /\ drafts' = drafts + 1 /\ newest' = drafts + 1
              /\ drafts + 1 \in Drafts
              /\ mixups' = IF due THEN mixups \cup {"hasty"} ELSE mixups
    PROVE  CanvasHostInv'
<1>. DEFINE now == IF due /\ value # seen.external THEN Taken ELSE s
<1>1. /\ store' = now /\ due' = FALSE /\ now \in [draft: Drafts, selected: Selected]
      /\ now.draft = IF due /\ value # seen.external THEN value ELSE s.draft
      /\ seen' \in [external: Drafts, draft: Drafts]
      /\ seen'.draft = now.draft
      /\ seen'.external = IF due THEN value ELSE seen.external
      /\ echo' = IF now.draft # seen.draft THEN now.draft ELSE echo
  BY DEF Effects, Taken, Selected, CanvasHostInv, CanvasHostTypeOK
<1>. HIDE DEF now
<1>2. Drafts \subseteq Int /\ NoEcho \in Int /\ NoEcho \notin Drafts
  BY DEF Drafts, NoEcho
<1>3. CanvasHostTypeOK'
  BY <1>1 DEF CanvasHostInv, CanvasHostTypeOK
<1>4. RemembersSeen'
  BY <1>1, <1>2 DEF CanvasHostInv, CanvasHostTypeOK, RemembersSeen
<1>5. CanvasFollows'
  BY <1>1, <1>2 DEF CanvasHostInv, CanvasHostTypeOK, RemembersSeen, CanvasFollows
<1>6. NewestArrives'
  BY <1>1, <1>2 DEF CanvasHostInv, CanvasHostTypeOK, RemembersSeen, NewestArrives
<1>. QED  BY <1>3, <1>4, <1>5, <1>6 DEF CanvasHostInv

LEMMA CanvasHostKept ==
    ASSUME CanvasHostInv, [CanvasHostNext]_canvasHostVars
    PROVE  CanvasHostInv'
<1>0. Drafts \subseteq Int /\ NoEcho \in Int /\ NoEcho \notin Drafts
  BY DEF Drafts, NoEcho
<1>1. CASE RunEffects
  BY <1>1, EffectsKeep DEF RunEffects, CanvasHostInv, CanvasHostTypeOK
<1>2. CASE RenderEcho
  BY <1>0, <1>2 DEF RenderEcho, CanvasHostInv, CanvasHostTypeOK, RemembersSeen, CanvasFollows, NewestArrives
<1>3. ASSUME NEW d \in Drafts, TakeFetched(d)
      PROVE  CanvasHostInv'
  <2>0. mixups' \subseteq {"hasty", "replaced", "crossed"}
    BY <1>3 DEF TakeFetched, CanvasHostInv, CanvasHostTypeOK
  <2>1. CanvasHostTypeOK'
    <3>1. drafts' \in Drafts /\ newest' \in Drafts /\ echo' \in Drafts \cup {NoEcho}
      BY <1>0, <1>3 DEF TakeFetched, CanvasHostInv, CanvasHostTypeOK
    <3>. QED  BY <1>3, <2>0, <3>1 DEF TakeFetched, CanvasHostInv, CanvasHostTypeOK
  <2>4. RemembersSeen'
    <3>1. d \in Int /\ drafts \in Int /\ newest \in Int /\ store.draft \in Int
      BY <1>0 DEF CanvasHostInv, CanvasHostTypeOK
    <3>2. store.draft <= drafts' /\ d <= drafts' /\ newest' <= drafts'
      BY <1>3, <3>1 DEF TakeFetched, CanvasHostInv, RemembersSeen
    <3>3. echo' # NoEcho => echo' = d
      BY <1>3 DEF TakeFetched
    <3>. QED  BY <1>3, <3>2, <3>3 DEF TakeFetched, CanvasHostInv, RemembersSeen
  <2>2. CanvasFollows'
    BY <1>0, <1>3 DEF TakeFetched, CanvasHostInv, CanvasHostTypeOK, RemembersSeen, CanvasFollows
  <2>3. NewestArrives'
    BY <1>0, <1>3 DEF TakeFetched, CanvasHostInv, CanvasHostTypeOK, RemembersSeen, NewestArrives
  <2>. QED  BY <2>1, <2>2, <2>3, <2>4 DEF CanvasHostInv
<1>4. ASSUME NEW what \in Selected, Choose(what)
      PROVE  CanvasHostInv'
  <2>1. [store EXCEPT !.selected = what] \in [draft: Drafts, selected: Selected]
        /\ [store EXCEPT !.selected = what].draft = store.draft
    BY DEF CanvasHostInv, CanvasHostTypeOK
  <2>. QED  BY <1>4, <2>1, EffectsKeep DEF Choose
<1>5. ASSUME NEW what \in Selected, Edit(what)
      PROVE  CanvasHostInv'
  <2>1. drafts + 1 \in Drafts
    BY <1>5, CanvasHostAssumption DEF Edit, Drafts, CanvasHostInv, CanvasHostTypeOK
  <2>2. [draft |-> drafts + 1, selected |-> what] \in [draft: Drafts, selected: Selected]
    BY <2>1
  <2>. QED  BY <1>5, <2>1, <2>2, EffectsKeep DEF Edit
<1>6. CASE UNCHANGED canvasHostVars
  BY <1>6 DEF canvasHostVars, CanvasHostInv, CanvasHostTypeOK, RemembersSeen, CanvasFollows, NewestArrives
<1>7. {"step", "edge", "nothing"} \subseteq Selected
  BY DEF Selected
<1>. QED
  BY <1>1, <1>2, <1>3, <1>4, <1>5, <1>6, <1>7
     DEF CanvasHostNext, ClickStep, ClickEdge, ClickPane, InsertStep, CopyStep, DeleteStep, RenameStep

\* The canvas shows the draft that is saved, and that is the one the user made last, once the
\* two effects of the canvas have run and the transition is rendered (WorkflowCanvasHost).
LEMMA CanvasInStep == BrowserSpec => [](focus = "host" => CanvasShowsDraft /\ EditsArrive)
<1>. DEFINE Inv == focus = "host" => CanvasHostInv
<1>1. BrowserInit => Inv
  BY CanvasHostAtFirst DEF BrowserInit
<1>2. Inv /\ [BrowserNext]_browserVars => Inv'
  BY PageMoves, CanvasHostKept
<1>3. Inv => (focus = "host" => CanvasShowsDraft /\ EditsArrive)
  BY DEF CanvasHostInv, CanvasFollows, NewestArrives, CanvasShowsDraft, EditsArrive, InStep
<1>. QED  BY <1>1, <1>2, <1>3, PTL DEF BrowserSpec

\* The builder's canvas.  The two depth-first searches find a cycle exactly when there is one; the
\* builder shows no issue exactly for the definitions that are one path from their only trigger, all
\* of which the API accepts; the API accepts whatever the edits of the canvas make of a definition it
\* accepted; and an edit of a path leaves a path, with the steps it did not touch in their order
\* (validateWorkflowDefinitionDraft, ValidateDefinition, insertNodeOnEdge, duplicateNode, removeNode).
THEOREM CanvasHolds == BrowserSpec => CanvasSound
<1>. DEFINE Inv == focus = "builder" => CanvasInv
            Host == focus = "host" => CanvasShowsDraft /\ EditsArrive
<1>1. BrowserInit => Inv
  BY CanvasAtFirst DEF BrowserInit
<1>2. Inv /\ [BrowserNext]_browserVars => Inv'
  BY PageMoves, CanvasKept
<1>3. Inv => (focus = "builder" => ChecksAgree /\ CanvasStaysValid)
  BY CanvasAgrees, CanvasAccepted
<1>4. Inv /\ [BrowserNext]_browserVars => [focus = "builder" => EditsKeepPath]_builderVars
  BY PageMoves, EditsKeepPaths
<1>5. BrowserSpec => []Host
  BY CanvasInStep
<1>. QED  BY <1>1, <1>2, <1>3, <1>4, <1>5, PTL DEF BrowserSpec, CanvasSound
----------------------------------------------------------------------------
(***************************************************************************)
(* The sender of a message, and the drawer that edits it.                  *)
(***************************************************************************)

\* A closed drawer whose copy may not differ has the page's settings.
SenderInv == drawn = "closed" /\ stale = {} => sender = local

LEMMA SenderKept ==
    ASSUME SenderInv, [SenderDrawerNext]_senderDrawerVars
    PROVE  SenderInv'
BY DEF SenderInv, SenderDrawerNext, senderDrawerVars, MountDrawer, ProviderArrives, OpenDrawer,
       TypeSender, ToggleDefaults, SaveDrawer, CloseDrawer
----------------------------------------------------------------------------
(***************************************************************************)
(* The preview of a channel's message, and the dialog that sends a test.   *)
(***************************************************************************)

\* What is rendered, or being rendered, is the body for the person shown.
RendersNow ==
    /\ preview.jobs \subseteq {Now}
    /\ preview.jobs = {} /\ ~preview.failed => preview.html = Now

\* The person picked last is shown, unless the profile arrived later.
PickStands == recipient.picked # Nobody /\ "profile" \notin quirks => recipient.shown = recipient.picked

\* The dialog closes after tests that were answered.  Unless the user was in a hurry or
\* cancelled: the dialog observes the one test under way, of which there is none while it is
\* about to close, which it does after the test it observes.
ObservesTests ==
    /\ \A n \in tester.closing : n \in TestIds /\ tests[n] = "answered"
    /\ quirks \cap {"hurried", "cancelled"} = {} =>
        /\ \A n \in TestsUnderway : tester.observes = n
        /\ tester.closing # {} => TestsUnderway = {}
        /\ tester.open => tester.closing \subseteq {tester.observes}

PreviewInv == ChannelPreviewTypeOK /\ RendersNow /\ PickStands /\ ObservesTests

LEMMA PreviewAtFirst == ChannelPreviewInit => PreviewInv
<1>. SUFFICES ASSUME ChannelPreviewInit
              PROVE  PreviewInv
  OBVIOUS
<1>1. ChannelPreviewTypeOK
  BY PreviewConstants
     DEF ChannelPreviewInit, ChannelPreviewTypeOK, Someone, Bodies, Rendering, TestIds, NotTyped
<1>2. RendersNow /\ PickStands /\ ObservesTests
  BY DEF ChannelPreviewInit, RendersNow, Now, PickStands, ObservesTests, TestsUnderway
<1>. QED  BY <1>1, <1>2 DEF PreviewInv

\* A change of the body or the person starts the rendering anew.
LEMMA RerenderKeeps ==
    ASSUME ChannelPreviewTypeOK, NEW b \in Bodies, NEW p \in Someone, Rerender(b, p),
           body' = b, recipient'.shown = p
    PROVE  /\ preview' \in [html: Rendering, failed: BOOLEAN, jobs: SUBSET Rendering]
           /\ RendersNow'
<1>. DEFINE v == [body |-> b, who |-> p]
<1>1. v \in Rendering /\ Now' = v
  BY DEF Rendering, Now
<1>. HIDE DEF v
<1>2. \/ preview' = [html |-> v, failed |-> FALSE, jobs |-> {}]
      \/ preview' = [preview EXCEPT !.jobs = {v}]
  BY DEF Rerender, v
<1>3. CASE preview' = [html |-> v, failed |-> FALSE, jobs |-> {}]
  BY <1>1, <1>3 DEF RendersNow
<1>4. CASE preview' = [preview EXCEPT !.jobs = {v}]
  BY <1>1, <1>4 DEF ChannelPreviewTypeOK, RendersNow
<1>. QED  BY <1>2, <1>3, <1>4

LEMMA PreviewKept ==
    ASSUME PreviewInv, [ChannelPreviewNext]_channelPreviewVars
    PROVE  PreviewInv'
<1>. USE DEF PreviewInv
<1>1. CASE EditBody
  <2>1. body + 1 \in Bodies
    BY <1>1, PreviewConstants DEF EditBody, ChannelPreviewTypeOK, Bodies
  <2>2. Rerender(body + 1, recipient.shown) /\ body' = body + 1
    BY <1>1 DEF EditBody
  <2>3. preview' \in [html: Rendering, failed: BOOLEAN, jobs: SUBSET Rendering] /\ RendersNow'
    BY <1>1, <2>1, <2>2, RerenderKeeps DEF EditBody, ChannelPreviewTypeOK
  <2>. QED
    BY <1>1, <2>1, <2>3
       DEF EditBody, ChannelPreviewTypeOK, PickStands, ObservesTests, TestsUnderway
<1>2. ASSUME NEW v \in preview.jobs, RenderDone(v) \/ RenderFails(v)
      PROVE  PreviewInv'
  <2>1. v \in Rendering /\ v = Now /\ Now' = Now
    BY <1>2 DEF RenderDone, RenderFails, ChannelPreviewTypeOK, RendersNow, Now
  <2>2. preview' \in [html: Rendering, failed: BOOLEAN, jobs: SUBSET Rendering] /\ RendersNow'
    <3>1. CASE RenderDone(v)
      BY <2>1, <3>1 DEF RenderDone, ChannelPreviewTypeOK, RendersNow
    <3>2. CASE RenderFails(v)
      BY <2>1, <3>2 DEF RenderFails, ChannelPreviewTypeOK, RendersNow
    <3>. QED  BY <1>2, <3>1, <3>2
  <2>. QED
    BY <1>2, <2>2
       DEF RenderDone, RenderFails, ChannelPreviewTypeOK, PickStands, ObservesTests, TestsUnderway
<1>3. CASE MyProfileArrives
  <2>1. Myself \in Someone
    BY DEF Someone, Audience
  <2>2. preview' \in [html: Rendering, failed: BOOLEAN, jobs: SUBSET Rendering] /\ RendersNow'
    BY <1>3, <2>1, RerenderKeeps DEF MyProfileArrives, ChannelPreviewTypeOK
  <2>3. /\ recipient' = [recipient EXCEPT !.shown = Myself, !.profile = "known"]
        /\ recipient' \in [shown: Someone, picked: Someone, profile: {"asked", "known", "failed"}]
    BY <1>3, <2>1 DEF MyProfileArrives, ChannelPreviewTypeOK
  <2>4. ChannelPreviewTypeOK'
    BY <1>3, <2>2, <2>3 DEF MyProfileArrives, ChannelPreviewTypeOK
  <2>5. PickStands' /\ ObservesTests'
    BY <1>3, <2>3 DEF MyProfileArrives, ChannelPreviewTypeOK, PickStands, ObservesTests, TestsUnderway
  <2>. QED  BY <2>2, <2>4, <2>5
<1>4. ASSUME NEW p \in Someone, ShowPerson(p), UNCHANGED <<via, body, tester, tests>>,
             search' \in [typed: Searches \cup {NotTyped}, asked: Searches \cup {NotTyped}]
      PROVE  PreviewInv'
  <2>1. /\ recipient' = [recipient EXCEPT !.shown = p, !.picked = p]
        /\ recipient' \in [shown: Someone, picked: Someone, profile: {"asked", "known", "failed"}]
    BY <1>4 DEF ShowPerson, ChannelPreviewTypeOK
  <2>2. preview' \in [html: Rendering, failed: BOOLEAN, jobs: SUBSET Rendering] /\ RendersNow'
    BY <1>4, <2>1, RerenderKeeps DEF ShowPerson, ChannelPreviewTypeOK
  <2>3. ChannelPreviewTypeOK'
    BY <1>4, <2>1, <2>2 DEF ShowPerson, ChannelPreviewTypeOK
  <2>4. PickStands' /\ ObservesTests'
    BY <1>4, <2>1 DEF ShowPerson, ChannelPreviewTypeOK, PickStands, ObservesTests, TestsUnderway
  <2>. QED  BY <2>2, <2>3, <2>4
<1>5. CASE ResetPerson
  BY <1>4, <1>5 DEF ResetPerson, Someone, Audience, ChannelPreviewTypeOK
<1>6. ASSUME NEW p \in Audience, PickPerson(p)
      PROVE  PreviewInv'
  BY <1>4, <1>6 DEF PickPerson, Someone
<1>7. ASSUME UNCHANGED <<via, body, preview, tester, tests, quirks>>,
             UNCHANGED <<recipient.shown, recipient.picked>>,
             recipient' \in [shown: Someone, picked: Someone, profile: {"asked", "known", "failed"}],
             search' \in [typed: Searches \cup {NotTyped}, asked: Searches \cup {NotTyped}]
      PROVE  PreviewInv'
  BY <1>7 DEF ChannelPreviewTypeOK, RendersNow, Now, PickStands, ObservesTests, TestsUnderway
<1>8. CASE MyProfileFails
  BY <1>7, <1>8 DEF MyProfileFails, ChannelPreviewTypeOK
<1>9. CASE AskSearch \/ ClearSearch \/ \E q \in Searches \cup {NotTyped} : TypeSearch(q)
  BY <1>7, <1>9 DEF AskSearch, ClearSearch, TypeSearch, ChannelPreviewTypeOK
<1>10. ASSUME UNCHANGED <<via, recipient, search, body, preview>>,
              tester' \in [open: BOOLEAN, observes: TestIds \cup {0}, closing: SUBSET TestIds],
              tests' \in [TestIds -> {"none", "sent", "answered", "failed"}],
              quirks \subseteq quirks', quirks' \subseteq {"profile", "hurried", "cancelled"},
              quirks' \ {"hurried", "cancelled"} = quirks \ {"hurried", "cancelled"},
              ObservesTests'
       PROVE  PreviewInv'
  BY <1>10 DEF ChannelPreviewTypeOK, RendersNow, Now, PickStands
<1>11. CASE OpenDialog
  <2>1. /\ tester' = [tester EXCEPT !.open = TRUE]
        /\ tester' \in [open: BOOLEAN, observes: TestIds \cup {0}, closing: SUBSET TestIds]
    BY <1>11 DEF OpenDialog, Dialog, ChannelPreviewTypeOK
  <2>2. ObservesTests'
    BY <1>11, <2>1 DEF OpenDialog, ChannelPreviewTypeOK, ObservesTests, TestsUnderway
  <2>. QED  BY <1>10, <1>11, <2>1, <2>2 DEF OpenDialog, Dialog, ChannelPreviewTypeOK
<1>12. ASSUME NEW n \in TestIds, SendTest(n)
       PROVE  PreviewInv'
  <2>1. /\ tester' = [tester EXCEPT !.observes = n]
        /\ tester' \in [open: BOOLEAN, observes: TestIds \cup {0}, closing: SUBSET TestIds]
    BY <1>12 DEF SendTest, Dialog, ChannelPreviewTypeOK
  <2>2. /\ tests' = [tests EXCEPT ![n] = "sent"] /\ tests[n] = "none"
        /\ tests' \in [TestIds -> {"none", "sent", "answered", "failed"}]
    BY <1>12 DEF SendTest, ChannelPreviewTypeOK
  <2>3. quirks \cap {"hurried", "cancelled"} = {} => TestsUnderway = {}
    BY <1>12 DEF SendTest, TestPending, ObservesTests, TestsUnderway, TestIds
  <2>4. ObservesTests'
    BY <1>12, <2>1, <2>2, <2>3 DEF SendTest, ChannelPreviewTypeOK, ObservesTests, TestsUnderway
  <2>. QED  BY <1>10, <1>12, <2>1, <2>2, <2>4 DEF SendTest, Dialog, ChannelPreviewTypeOK
<1>13. ASSUME NEW n \in TestIds, TestAnswered(n)
       PROVE  PreviewInv'
  <2>1. /\ tester' = [tester EXCEPT !.closing = tester.closing \cup {n}]
        /\ tester' \in [open: BOOLEAN, observes: TestIds \cup {0}, closing: SUBSET TestIds]
    BY <1>13 DEF TestAnswered, Dialog, ChannelPreviewTypeOK
  <2>2. /\ tests' = [tests EXCEPT ![n] = "answered"] /\ tests[n] = "sent"
        /\ tests' \in [TestIds -> {"none", "sent", "answered", "failed"}]
    BY <1>13 DEF TestAnswered, ChannelPreviewTypeOK
  <2>3. ObservesTests'
    BY <1>13, <2>1, <2>2 DEF TestAnswered, ChannelPreviewTypeOK, ObservesTests, TestsUnderway
  <2>. QED  BY <1>10, <1>13, <2>1, <2>2, <2>3 DEF TestAnswered, Dialog, ChannelPreviewTypeOK
<1>14. ASSUME NEW n \in TestIds, TestFails(n)
       PROVE  PreviewInv'
  <2>1. /\ tests' = [tests EXCEPT ![n] = "failed"] /\ tests[n] = "sent"
        /\ tests' \in [TestIds -> {"none", "sent", "answered", "failed"}]
    BY <1>14 DEF TestFails, ChannelPreviewTypeOK
  <2>2. ObservesTests'
    BY <1>14, <2>1 DEF TestFails, ChannelPreviewTypeOK, ObservesTests, TestsUnderway
  <2>. QED  BY <1>10, <1>14, <2>1, <2>2 DEF TestFails, ChannelPreviewTypeOK
<1>15. ASSUME NEW n \in TestIds, AutoClose(n)
       PROVE  PreviewInv'
  <2>1. /\ tester' = [open |-> FALSE, observes |-> 0, closing |-> tester.closing \ {n}]
        /\ tester' \in [open: BOOLEAN, observes: TestIds \cup {0}, closing: SUBSET TestIds]
    BY <1>15 DEF AutoClose, Dialog, ChannelPreviewTypeOK
  <2>2. ObservesTests'
    BY <1>15, <2>1 DEF AutoClose, ChannelPreviewTypeOK, ObservesTests, TestsUnderway
  <2>. QED  BY <1>10, <1>15, <2>1, <2>2 DEF AutoClose, Dialog, ChannelPreviewTypeOK
<1>16. CASE CancelDialog
  <2>1. /\ tester' = [tester EXCEPT !.open = FALSE, !.observes = 0]
        /\ tester' \in [open: BOOLEAN, observes: TestIds \cup {0}, closing: SUBSET TestIds]
    BY <1>16 DEF CancelDialog, Dialog, ChannelPreviewTypeOK
  <2>2. ObservesTests'
    BY <1>16, <2>1
       DEF CancelDialog, TestPending, ChannelPreviewTypeOK, ObservesTests, TestsUnderway, TestIds
  <2>. QED  BY <1>10, <1>16, <2>1, <2>2 DEF CancelDialog, Dialog, ChannelPreviewTypeOK
<1>17. CASE DismissDialog
  <2>1. /\ tester' = [tester EXCEPT !.open = FALSE]
        /\ tester' \in [open: BOOLEAN, observes: TestIds \cup {0}, closing: SUBSET TestIds]
    BY <1>17 DEF DismissDialog, Dialog, ChannelPreviewTypeOK
  <2>2. ObservesTests'
    BY <1>17, <2>1 DEF DismissDialog, ChannelPreviewTypeOK, ObservesTests, TestsUnderway
  <2>. QED  BY <1>10, <1>17, <2>1, <2>2 DEF DismissDialog, Dialog, ChannelPreviewTypeOK
<1>18. CASE UNCHANGED channelPreviewVars
  BY <1>18 DEF channelPreviewVars, ChannelPreviewTypeOK, RendersNow, Now, PickStands, ObservesTests,
               TestsUnderway
<1>. QED
  BY <1>1, <1>2, <1>3, <1>5, <1>6, <1>8, <1>9, <1>11, <1>12, <1>13, <1>14, <1>15, <1>16, <1>17, <1>18
     DEF ChannelPreviewNext

\* What a test carries, and how many are under way.
LEMMA PreviewIsSound ==
    ASSUME PreviewInv
    PROVE  SendsWhatIsShown /\ OneTestAtATime
<1>1. SendsWhatIsShown
  BY DEF PreviewInv, RendersNow, PickStands, SendsWhatIsShown, Message, RenderedBody, Now
<1>2. ASSUME quirks \cap {"hurried", "cancelled"} = {}
      PROVE  Cardinality(TestsUnderway) <= 1
  <2>1. CASE TestsUnderway = {}
    BY <2>1, FS_EmptySet
  <2>2. CASE TestsUnderway = {tester.observes}
    <3>1. Cardinality({tester.observes}) = 1
      BY FS_Singleton
    <3>. QED  BY <2>2, <3>1
  <2>. QED  BY <1>2, <2>1, <2>2 DEF PreviewInv, ObservesTests
<1>. QED  BY <1>1, <1>2 DEF OneTestAtATime

\* When the dialog closes by itself.
LEMMA ClosesOnOwn ==
    ASSUME PreviewInv, [ChannelPreviewNext]_channelPreviewVars
    PROVE  [ClosesOnOwnTest]_channelPreviewVars
BY DEF PreviewInv, ObservesTests, ClosesOnOwnTest
----------------------------------------------------------------------------
(***************************************************************************)
(* The editor of a channel's template.                                     *)
(***************************************************************************)

Write == [at: {"none", "template", "stored", "workflow", "saved", "over"}, content: Content,
          payload: Texts, mine: BOOLEAN]

\* Timers run, and bodies are taken from the editor, only while it is there; a body that was
\* handed on is the one of the page.  An SMS is not saved.
EditorTakes ==
    /\ editor.at \in {"away", "loading"} => clocks = {} /\ editor.content = Blank /\ editor.last = 0
    /\ editor.last # 0 => editor.content.body = editor.last
    /\ medium = "sms" => clocks = {} /\ editor.last = 0
    /\ \A n \in Outstanding : writes[n].mine => editor.at = "open"

AtMost(c, d) == c.subject <= d.subject /\ c.body <= d.body

\* Texts are numbered as they are typed, and one that waits to be handed on is the newest body.
TextsNumbered ==
    /\ template.subject <= texts /\ template.body <= texts /\ payload <= texts
    /\ editor.content.subject <= texts /\ editor.content.body <= texts
    /\ editor.payload <= texts /\ editor.typed <= texts
    /\ "typing" \in clocks => editor.content.body <= editor.typed
    /\ \A n \in Outstanding :
        /\ writes[n].content.subject <= texts /\ writes[n].content.body <= texts
        /\ writes[n].payload <= texts

\* Unless saves overlapped, at most one is under way; and what it has done so far, it has
\* done with what it carries.
OneWrite ==
    "overlap" \notin slips =>
        /\ \A n, m \in Outstanding : n = m
        /\ \A n \in Outstanding :
            /\ writes[n].at # "template" => template = writes[n].content
            /\ writes[n].at \in {"workflow", "saved"} /\ writes[n].mine =>
                "unsent" \in slips \/ writes[n].payload = editor.payload
            /\ writes[n].at = "saved" => linked /\ payload = writes[n].payload

\* Then, once the timers of a body that was handed on have fired: the save under way carries
\* what the page shows, or what it shows is stored, or the page says that it is not.
ShownIsSaved ==
    /\ "overlap" \notin slips
    /\ editor.at = "open" /\ editor.last # 0 /\ clocks \cap {"body", "subject"} = {}
    => /\ \A n \in Outstanding : writes[n].mine /\ writes[n].content = editor.content
       /\ Outstanding = {} =>
            \/ editor.saving = "error"
            \/ /\ linked /\ template = editor.content
               /\ "unsent" \in slips \/ payload = editor.payload

\* If moreover the page was loaded from a template that nothing was about to replace: what
\* is stored is no newer than what a save carries, nor that than what the page shows.
StoredIsOlder ==
    slips \subseteq {"unsent"} =>
        /\ editor.at = "loading" /\ editor.known => Outstanding = {} /\ editor.payload = payload
        /\ editor.at = "open" =>
            /\ \A n \in Outstanding : writes[n].mine
            /\ AtMost(template, editor.content) /\ payload <= editor.payload
        /\ \A n \in Outstanding :
            /\ writes[n].at = "template" => AtMost(template, writes[n].content)
            /\ writes[n].mine => AtMost(writes[n].content, editor.content)
            /\ writes[n].at = "workflow" \/ ~writes[n].mine => payload <= writes[n].payload
            /\ writes[n].at = "workflow" /\ writes[n].mine => writes[n].payload <= editor.payload

EditorInv ==
    /\ ChannelEditorTypeOK
    /\ EditorTakes /\ TextsNumbered /\ OneWrite /\ ShownIsSaved /\ StoredIsOlder

EditorRecord == [at: {"away", "loading", "open", "broken"}, content: Content, payload: Texts,
                 typed: Texts, last: Texts, known: BOOLEAN, saving: {"idle", "saving", "saved", "error"}]

LEMMA EditorTypes ==
    ASSUME ChannelEditorTypeOK
    PROVE  /\ Texts \subseteq Int /\ (\A t \in Texts : 0 <= t) /\ 0 \in Texts /\ texts \in Texts
           /\ \A n \in Outstanding : n \in WriteIds
           /\ writes \in [WriteIds -> Write]
           /\ template \in Content /\ payload \in Texts /\ editor.content \in Content
           /\ editor.payload \in Texts /\ editor.typed \in Texts /\ editor.last \in Texts
           /\ Blank \in Content
           /\ \A n \in Outstanding : writes[n] \in Write /\ writes[n].content \in Content /\ writes[n].payload \in Texts
BY EditorConstants DEF ChannelEditorTypeOK, Texts, Content, Blank, Write, Outstanding

LEMMA EditorAtFirst == ChannelEditorInit => EditorInv
<1>. SUFFICES ASSUME ChannelEditorInit
              PROVE  EditorInv
  OBVIOUS
<1>1. 0 \in Texts /\ 0 \in 0..MaxOpenings /\ Blank \in Content
  BY EditorConstants DEF Texts, Content, Blank
<1>2. ChannelEditorTypeOK
  <2>1. NoWrite \in Write
    BY <1>1 DEF NoWrite, Write
  <2>2. writes \in [WriteIds -> Write]
    BY <2>1 DEF ChannelEditorInit
  <2>. QED  BY <1>1, <2>2 DEF ChannelEditorInit, ChannelEditorTypeOK, Gone, Write
<1>3. Outstanding = {}
  BY DEF ChannelEditorInit, Outstanding, NoWrite
<1>. QED
  BY <1>2, <1>3
     DEF ChannelEditorInit, EditorInv, EditorTakes, TextsNumbered, OneWrite, ShownIsSaved,
         StoredIsOlder, Gone, Blank

\* What leaves the saves as they were.
LEMMA WritesRest ==
    ASSUME UNCHANGED writes
    PROVE  /\ Outstanding' = Outstanding
           /\ \A n \in Outstanding : writes'[n] = writes[n]
BY DEF Outstanding

LEMMA OpenEditorKeeps ==
    ASSUME EditorInv, OpenEditor
    PROVE  EditorInv'
<1>. USE EditorTypes, EditorConstants DEF EditorInv, OpenEditor, AtMost, EditorShown
<1>1. UNCHANGED writes /\ Outstanding' = Outstanding /\ \A n \in Outstanding : writes'[n] = writes[n]
  BY WritesRest
<1>2. ChannelEditorTypeOK'
  <2>1. openings' \in 0..MaxOpenings
    BY DEF ChannelEditorTypeOK
  <2>2. editor' \in EditorRecord /\ editor'.at = "loading"
    BY DEF Gone, EditorRecord
  <2>. QED  BY <2>1, <2>2 DEF ChannelEditorTypeOK, EditorRecord
<1>3. EditorTakes'
  BY <1>1 DEF EditorTakes, ChannelEditorTypeOK, Gone, Blank, Fields
<1>4. TextsNumbered'
  BY <1>1 DEF TextsNumbered, EditorTakes, ChannelEditorTypeOK, Gone, Blank, Content
<1>5. OneWrite'
  BY <1>1 DEF OneWrite, EditorTakes, ChannelEditorTypeOK
<1>6. ShownIsSaved'
  BY <1>1 DEF ShownIsSaved, EditorTakes, ChannelEditorTypeOK, Gone
<1>7. StoredIsOlder'
  BY <1>1 DEF StoredIsOlder, EditorTakes, TextsNumbered, ChannelEditorTypeOK, Gone, Blank, Content
<1>. QED  BY <1>2, <1>3, <1>4, <1>5, <1>6, <1>7

LEMMA LoadStepKeeps ==
    ASSUME EditorInv, LoadStep
    PROVE  EditorInv'
<1>. USE EditorTypes, EditorConstants DEF EditorInv, LoadStep, AtMost, EditorShown
<1>1. UNCHANGED writes /\ Outstanding' = Outstanding /\ \A n \in Outstanding : writes'[n] = writes[n]
  BY WritesRest
<1>2. ChannelEditorTypeOK'
  BY DEF ChannelEditorTypeOK, Gone, Texts
<1>3. EditorTakes'
  BY <1>1 DEF EditorTakes, ChannelEditorTypeOK, Gone, Blank, Fields
<1>4. TextsNumbered'
  BY <1>1 DEF TextsNumbered, EditorTakes, ChannelEditorTypeOK, Gone, Blank, Content
<1>5. OneWrite'
  BY <1>1 DEF OneWrite, EditorTakes, ChannelEditorTypeOK
<1>6. ShownIsSaved'
  BY <1>1 DEF ShownIsSaved, EditorTakes, ChannelEditorTypeOK, Gone
<1>7. StoredIsOlder'
  <2>1. SUFFICES ASSUME slips' \subseteq {"unsent"}
                 PROVE  StoredIsOlder'
    BY DEF StoredIsOlder
  <2>2. Outstanding = {} /\ (linked \/ template = Blank) /\ slips \subseteq {"unsent"}
    BY <2>1
  <2>3. /\ editor'.payload = payload /\ editor'.content = Blank
        /\ editor'.at = "open" => template = Blank
    BY <2>2 DEF EditorTakes, ChannelEditorTypeOK
  <2>4. AtMost(Blank, Blank)
    BY DEF Blank
  <2>. QED  BY <1>1, <2>2, <2>3, <2>4 DEF StoredIsOlder
<1>. QED  BY <1>2, <1>3, <1>4, <1>5, <1>6, <1>7

LEMMA LoadTemplateKeeps ==
    ASSUME EditorInv, LoadTemplate
    PROVE  EditorInv'
<1>. USE EditorTypes, EditorConstants DEF EditorInv, LoadTemplate, AtMost, EditorShown
<1>1. UNCHANGED writes /\ Outstanding' = Outstanding /\ \A n \in Outstanding : writes'[n] = writes[n]
  BY WritesRest
<1>2. ChannelEditorTypeOK'
  BY DEF ChannelEditorTypeOK, Gone, Texts
<1>3. EditorTakes'
  BY <1>1 DEF EditorTakes, ChannelEditorTypeOK, Gone, Blank, Fields
<1>4. TextsNumbered'
  BY <1>1 DEF TextsNumbered, EditorTakes, ChannelEditorTypeOK, Gone, Blank, Content
<1>5. OneWrite'
  BY <1>1 DEF OneWrite, EditorTakes, ChannelEditorTypeOK
<1>6. ShownIsSaved'
  BY <1>1 DEF ShownIsSaved, EditorTakes, ChannelEditorTypeOK, Gone
<1>7. StoredIsOlder'
  BY <1>1 DEF StoredIsOlder, EditorTakes, TextsNumbered, ChannelEditorTypeOK, Gone, Blank, Content
<1>. QED  BY <1>2, <1>3, <1>4, <1>5, <1>6, <1>7

LEMMA LoadFailsKeeps ==
    ASSUME EditorInv, LoadFails
    PROVE  EditorInv'
<1>. USE EditorTypes, EditorConstants DEF EditorInv, LoadFails, AtMost, EditorShown
<1>1. UNCHANGED writes /\ Outstanding' = Outstanding /\ \A n \in Outstanding : writes'[n] = writes[n]
  BY WritesRest
<1>2. ChannelEditorTypeOK'
  BY DEF ChannelEditorTypeOK, Gone, Texts
<1>3. EditorTakes'
  BY <1>1 DEF EditorTakes, ChannelEditorTypeOK, Gone, Blank, Fields
<1>4. TextsNumbered'
  BY <1>1 DEF TextsNumbered, EditorTakes, ChannelEditorTypeOK, Gone, Blank, Content
<1>5. OneWrite'
  BY <1>1 DEF OneWrite, EditorTakes, ChannelEditorTypeOK
<1>6. ShownIsSaved'
  BY <1>1 DEF ShownIsSaved, EditorTakes, ChannelEditorTypeOK, Gone
<1>7. StoredIsOlder'
  BY <1>1 DEF StoredIsOlder, EditorTakes, TextsNumbered, ChannelEditorTypeOK, Gone, Blank, Content
<1>. QED  BY <1>2, <1>3, <1>4, <1>5, <1>6, <1>7

LEMMA TypeEmailKeeps ==
    ASSUME EditorInv, TypeEmail
    PROVE  EditorInv'
<1>. USE EditorTypes, EditorConstants DEF EditorInv, TypeEmail, AtMost, EditorShown
<1>1. UNCHANGED writes /\ Outstanding' = Outstanding /\ \A n \in Outstanding : writes'[n] = writes[n]
  BY WritesRest
<1>2. ChannelEditorTypeOK'
  BY DEF ChannelEditorTypeOK, Gone, Texts
<1>3. EditorTakes'
  BY <1>1 DEF EditorTakes, ChannelEditorTypeOK, Gone, Blank, Fields
<1>4. TextsNumbered'
  BY <1>1 DEF TextsNumbered, EditorTakes, ChannelEditorTypeOK, Gone, Blank, Content
<1>5. OneWrite'
  BY <1>1 DEF OneWrite, EditorTakes, ChannelEditorTypeOK
<1>6. ShownIsSaved'
  BY <1>1 DEF ShownIsSaved, EditorTakes, ChannelEditorTypeOK, Gone
<1>7. StoredIsOlder'
  BY <1>1 DEF StoredIsOlder, EditorTakes, TextsNumbered, ChannelEditorTypeOK, Gone, Blank, Content
<1>. QED  BY <1>2, <1>3, <1>4, <1>5, <1>6, <1>7

LEMMA TypeSmsKeeps ==
    ASSUME EditorInv, TypeSms
    PROVE  EditorInv'
<1>. USE EditorTypes, EditorConstants DEF EditorInv, TypeSms, AtMost, EditorShown
<1>1. UNCHANGED writes /\ Outstanding' = Outstanding /\ \A n \in Outstanding : writes'[n] = writes[n]
  BY WritesRest
<1>2. ChannelEditorTypeOK'
  <2>1. editor' = [editor EXCEPT !.content.body = texts + 1] /\ texts + 1 \in Texts
    BY DEF ChannelEditorTypeOK, Texts
  <2>2. [editor.content EXCEPT !.body = texts + 1] \in Content
    BY <2>1 DEF Content
  <2>3. editor' \in EditorRecord /\ editor'.at = editor.at
    BY <2>1, <2>2 DEF ChannelEditorTypeOK, EditorRecord
  <2>. QED  BY <2>1, <2>3 DEF ChannelEditorTypeOK, EditorRecord
<1>3. EditorTakes'
  BY <1>1 DEF EditorTakes, ChannelEditorTypeOK, Gone, Blank, Fields
<1>4. TextsNumbered'
  BY <1>1 DEF TextsNumbered, EditorTakes, ChannelEditorTypeOK, Gone, Blank, Content
<1>5. OneWrite'
  BY <1>1 DEF OneWrite, EditorTakes, ChannelEditorTypeOK
<1>6. ShownIsSaved'
  BY <1>1 DEF ShownIsSaved, EditorTakes, ChannelEditorTypeOK, Gone
<1>7. StoredIsOlder'
  BY <1>1 DEF StoredIsOlder, EditorTakes, TextsNumbered, ChannelEditorTypeOK, Gone, Blank, Content
<1>. QED  BY <1>2, <1>3, <1>4, <1>5, <1>6, <1>7

LEMMA HandOnBodyKeeps ==
    ASSUME EditorInv, HandOnBody
    PROVE  EditorInv'
<1>. USE EditorTypes, EditorConstants DEF EditorInv, HandOnBody, AtMost, EditorShown
<1>1. UNCHANGED writes /\ Outstanding' = Outstanding /\ \A n \in Outstanding : writes'[n] = writes[n]
  BY WritesRest
<1>2. ChannelEditorTypeOK'
  <2>1. editor' = [editor EXCEPT !.content.body = editor.typed, !.last = editor.typed]
    OBVIOUS
  <2>4. [editor.content EXCEPT !.body = editor.typed] \in Content
    BY DEF Content
  <2>2. editor' \in EditorRecord /\ editor'.at = editor.at
    BY <2>1, <2>4 DEF ChannelEditorTypeOK, EditorRecord
  <2>3. editor.at # "away" /\ clocks' \subseteq {"typing", "body", "subject"}
    BY DEF ChannelEditorTypeOK
  <2>. QED  BY <2>2, <2>3 DEF ChannelEditorTypeOK, EditorRecord
<1>3. EditorTakes'
  <2>1. /\ editor'.at = editor.at /\ editor'.last = editor.typed /\ editor'.content.body = editor.typed
        /\ clocks # {} /\ medium' = medium
    BY DEF ChannelEditorTypeOK, Content
  <2>. QED  BY <1>1, <2>1 DEF EditorTakes, ChannelEditorTypeOK
<1>4. TextsNumbered'
  BY <1>1 DEF TextsNumbered, EditorTakes, ChannelEditorTypeOK, Gone, Blank, Content
<1>5. OneWrite'
  BY <1>1 DEF OneWrite, EditorTakes, ChannelEditorTypeOK
<1>6. ShownIsSaved'
  BY <1>1 DEF ShownIsSaved, EditorTakes, ChannelEditorTypeOK, Gone
<1>7. StoredIsOlder'
  BY <1>1 DEF StoredIsOlder, EditorTakes, TextsNumbered, ChannelEditorTypeOK, Gone, Blank, Content
<1>. QED  BY <1>2, <1>3, <1>4, <1>5, <1>6, <1>7

LEMMA TypeSubjectKeeps ==
    ASSUME EditorInv, TypeSubject
    PROVE  EditorInv'
<1>. USE EditorTypes, EditorConstants DEF EditorInv, TypeSubject, AtMost, EditorShown
<1>1. UNCHANGED writes /\ Outstanding' = Outstanding /\ \A n \in Outstanding : writes'[n] = writes[n]
  BY WritesRest
<1>2. ChannelEditorTypeOK'
  <2>1. editor' = [editor EXCEPT !.content.subject = texts + 1] /\ texts + 1 \in Texts
    BY DEF ChannelEditorTypeOK, Texts
  <2>2. editor' \in EditorRecord /\ editor'.at = editor.at
    BY <2>1 DEF ChannelEditorTypeOK, EditorRecord, Content
  <2>. QED  BY <2>1, <2>2 DEF ChannelEditorTypeOK, EditorRecord
<1>3. EditorTakes'
  <2>1. /\ editor'.at = editor.at /\ editor'.last = editor.last
        /\ editor'.content.body = editor.content.body
        /\ medium # "sms" /\ medium' = medium
    BY DEF ChannelEditorTypeOK, Content, Fields
  <2>. QED  BY <1>1, <2>1 DEF EditorTakes, ChannelEditorTypeOK
<1>4. TextsNumbered'
  BY <1>1 DEF TextsNumbered, EditorTakes, ChannelEditorTypeOK, Gone, Blank, Content
<1>5. OneWrite'
  BY <1>1 DEF OneWrite, EditorTakes, ChannelEditorTypeOK
<1>6. ShownIsSaved'
  BY <1>1 DEF ShownIsSaved, EditorTakes, ChannelEditorTypeOK, Gone
<1>7. StoredIsOlder'
  BY <1>1 DEF StoredIsOlder, EditorTakes, TextsNumbered, ChannelEditorTypeOK, Gone, Blank, Content
<1>. QED  BY <1>2, <1>3, <1>4, <1>5, <1>6, <1>7

LEMMA TypePayloadKeeps ==
    ASSUME EditorInv, TypePayload
    PROVE  EditorInv'
<1>. USE EditorTypes, EditorConstants DEF EditorInv, TypePayload, AtMost, EditorShown
<1>1. UNCHANGED writes /\ Outstanding' = Outstanding /\ \A n \in Outstanding : writes'[n] = writes[n]
  BY WritesRest
<1>2. ChannelEditorTypeOK'
  BY DEF ChannelEditorTypeOK, Gone, Texts
<1>3. EditorTakes'
  BY <1>1 DEF EditorTakes, ChannelEditorTypeOK, Gone, Blank, Fields
<1>4. TextsNumbered'
  BY <1>1 DEF TextsNumbered, EditorTakes, ChannelEditorTypeOK, Gone, Blank, Content
<1>5. OneWrite'
  BY <1>1 DEF OneWrite, EditorTakes, ChannelEditorTypeOK
<1>6. ShownIsSaved'
  BY <1>1 DEF ShownIsSaved, EditorTakes, ChannelEditorTypeOK, Gone
<1>7. StoredIsOlder'
  BY <1>1 DEF StoredIsOlder, EditorTakes, TextsNumbered, ChannelEditorTypeOK, Gone, Blank, Content
<1>. QED  BY <1>2, <1>3, <1>4, <1>5, <1>6, <1>7

\* What is left of the saves when the page goes.
LEMMA WritesLeft ==
    ASSUME EditorInv, LeaveEditor
    PROVE  /\ writes' \in [WriteIds -> Write]
           /\ Outstanding' = Outstanding
           /\ \A n \in Outstanding :
                /\ ~writes'[n].mine
                /\ writes'[n].at = writes[n].at /\ writes'[n].content = writes[n].content
                /\ writes'[n].payload = IF writes[n].mine /\ writes[n].at \in {"template", "stored"}
                                        THEN editor.payload ELSE writes[n].payload
<1>1. /\ writes \in [WriteIds -> Write] /\ editor.payload \in Texts
      /\ \A n \in Outstanding : n \in WriteIds
  BY EditorTypes DEF EditorInv
<1>2. \A n \in WriteIds :
        writes'[n] = IF writes[n].mine /\ writes[n].at \in {"template", "stored"}
                     THEN [writes[n] EXCEPT !.mine = FALSE, !.payload = editor.payload]
                     ELSE [writes[n] EXCEPT !.mine = FALSE]
  BY DEF LeaveEditor
<1>3. \A n \in WriteIds :
        /\ writes'[n] \in Write
        /\ ~writes'[n].mine
        /\ writes'[n].at = writes[n].at /\ writes'[n].content = writes[n].content
        /\ writes'[n].payload = IF writes[n].mine /\ writes[n].at \in {"template", "stored"}
                                THEN editor.payload ELSE writes[n].payload
  <2>. TAKE n \in WriteIds
  <2>. DEFINE w == writes[n]
  <2>1. w \in Write
    BY <1>1
  <2>2. writes'[n] = IF w.mine /\ w.at \in {"template", "stored"}
                     THEN [w EXCEPT !.mine = FALSE, !.payload = editor.payload]
                     ELSE [w EXCEPT !.mine = FALSE]
    BY <1>2
  <2>. HIDE DEF w
  <2>3. CASE w.mine /\ w.at \in {"template", "stored"}
    <3>1. writes'[n] = [w EXCEPT !.mine = FALSE, !.payload = editor.payload]
      BY <2>2, <2>3
    <3>. QED  BY <1>1, <2>1, <2>3, <3>1 DEF Write, w
  <2>4. CASE ~(w.mine /\ w.at \in {"template", "stored"})
    <3>1. writes'[n] = [w EXCEPT !.mine = FALSE]
      BY <2>2, <2>4
    <3>. QED  BY <1>1, <2>1, <2>4, <3>1 DEF Write, w
  <2>. QED  BY <2>3, <2>4
<1>4. \E f : f = writes' /\ f = [n \in WriteIds |-> f[n]]
  BY DEF LeaveEditor
<1>5. writes' \in [WriteIds -> Write]
  BY <1>3, <1>4
<1>6. Outstanding' = Outstanding
  BY <1>3 DEF Outstanding
<1>. QED  BY <1>1, <1>3, <1>5, <1>6

LEMMA LeaveEditorKeeps ==
    ASSUME EditorInv, LeaveEditor
    PROVE  EditorInv'
<1>. USE EditorTypes, EditorConstants DEF EditorInv, AtMost
<1>0. /\ editor' = Gone /\ clocks' = {}
      /\ UNCHANGED <<medium, template, linked, payload, texts, openings, slips>>
  BY DEF LeaveEditor
<1>1. /\ writes' \in [WriteIds -> Write]
      /\ Outstanding' = Outstanding
      /\ \A n \in Outstanding :
            /\ ~writes'[n].mine
            /\ writes'[n].at = writes[n].at /\ writes'[n].content = writes[n].content
            /\ writes'[n].payload = IF writes[n].mine /\ writes[n].at \in {"template", "stored"}
                                    THEN editor.payload ELSE writes[n].payload
  BY WritesLeft
<1>2. ChannelEditorTypeOK'
  BY <1>0, <1>1 DEF ChannelEditorTypeOK, Gone, Write
<1>3. EditorTakes' /\ TextsNumbered' /\ ShownIsSaved'
  <2>1. EditorTakes' /\ ShownIsSaved'
    BY <1>0, <1>1 DEF EditorTakes, ShownIsSaved, Gone
  <2>2. TextsNumbered'
    BY <1>0, <1>1 DEF TextsNumbered, Gone, Blank
  <2>. QED  BY <2>1, <2>2
<1>4. OneWrite'
  BY <1>0, <1>1 DEF OneWrite
<1>5. StoredIsOlder'
  <2>1. SUFFICES ASSUME slips \subseteq {"unsent"}
                 PROVE  StoredIsOlder'
    BY <1>0 DEF StoredIsOlder
  <2>2. ASSUME NEW n \in Outstanding
        PROVE  /\ writes[n].at = "template" => AtMost(template, writes[n].content)
               /\ payload <= writes'[n].payload
    <3>1. CASE writes[n].mine /\ writes[n].at \in {"template", "stored"}
      BY <1>1, <2>1, <3>1 DEF StoredIsOlder, EditorTakes
    <3>2. CASE ~writes[n].mine \/ writes[n].at = "workflow"
      BY <1>1, <2>1, <3>2 DEF StoredIsOlder
    <3>3. CASE writes[n].at = "saved"
      <4>1. payload = writes[n].payload /\ writes'[n].payload = writes[n].payload
        BY <1>1, <2>1, <3>3 DEF OneWrite
      <4>2. payload <= payload
        OBVIOUS
      <4>3. writes[n].at # "template"
        BY <3>3
      <4>. QED  BY <4>1, <4>2, <4>3, Zenon
    <3>. QED  BY <3>1, <3>2, <3>3 DEF Outstanding
  <2>. QED  BY <1>0, <1>1, <2>2 DEF StoredIsOlder, Gone
<1>. QED  BY <1>2, <1>3, <1>4, <1>5

LEMMA FireClockKeeps ==
    ASSUME EditorInv, NEW c \in {"body", "subject"}, FireClock(c)
    PROVE  EditorInv'
<1>. USE EditorTypes, EditorConstants DEF EditorInv, AtMost
<1>1. /\ c \in clocks /\ clocks' = clocks \ {c}
      /\ UNCHANGED <<medium, template, linked, payload, texts, openings>>
  BY DEF FireClock
<1>2. CASE ~(editor.at = "open" /\ editor.last # 0)
  <2>1. UNCHANGED <<writes, editor, slips>> /\ Outstanding' = Outstanding
    BY <1>2 DEF FireClock, Outstanding
  <2>2. ChannelEditorTypeOK' /\ EditorTakes' /\ TextsNumbered'
    BY <1>1, <2>1 DEF ChannelEditorTypeOK, EditorTakes, TextsNumbered
  <2>3. OneWrite' /\ ShownIsSaved' /\ StoredIsOlder'
    BY <1>1, <1>2, <2>1 DEF OneWrite, ShownIsSaved, StoredIsOlder
  <2>. QED  BY <2>2, <2>3
<1>3. CASE editor.at = "open" /\ editor.last # 0
  <2>1. PICK n \in WriteIds : StartWrite(n)
    BY <1>3 DEF FireClock
  <2>. DEFINE r == [at |-> "template", mine |-> TRUE, payload |-> 0, content |-> editor.content]
  <2>2. [editor.content EXCEPT !.body = editor.last] = editor.content
    BY <1>3 DEF EditorTakes, Content
  <2>3. /\ writes' = [writes EXCEPT ![n] = r]
        /\ editor' = [editor EXCEPT !.saving = "saving"]
        /\ slips' = IF Outstanding = {} THEN slips ELSE slips \cup {"overlap"}
        /\ n \notin Outstanding
    BY <2>1, <2>2 DEF StartWrite, Outstanding
  <2>4. r \in Write /\ r.at = "template" /\ r.mine /\ r.content = editor.content /\ r.payload = 0
    BY DEF Write
  <2>. HIDE DEF r
  <2>5. /\ writes' \in [WriteIds -> Write]
        /\ writes'[n] = r /\ \A m \in Outstanding : writes'[m] = writes[m] /\ m # n
        /\ Outstanding' = Outstanding \cup {n}
    BY <2>3, <2>4 DEF Outstanding
  <2>6. /\ editor' \in EditorRecord /\ editor'.at = "open" /\ editor'.content = editor.content
        /\ editor'.payload = editor.payload /\ editor'.last = editor.last /\ editor'.typed = editor.typed
        /\ editor'.known = editor.known
    BY <1>3, <2>3 DEF ChannelEditorTypeOK, EditorRecord
  <2>12. 0 <= texts
    OBVIOUS
  <2>7. ChannelEditorTypeOK'
    BY <1>1, <2>3, <2>5, <2>6 DEF ChannelEditorTypeOK, EditorRecord, Write
  <2>8. EditorTakes' /\ TextsNumbered'
    BY <1>1, <1>3, <2>4, <2>5, <2>6, <2>12 DEF EditorTakes, TextsNumbered
  <2>9. OneWrite'
    BY <1>1, <2>3, <2>4, <2>5, <2>6 DEF OneWrite
  <2>10. ShownIsSaved'
    BY <1>1, <2>3, <2>4, <2>5, <2>6 DEF ShownIsSaved
  <2>11. StoredIsOlder'
    <3>1. SUFFICES ASSUME slips' \subseteq {"unsent"}
                   PROVE  StoredIsOlder'
      BY DEF StoredIsOlder
    <3>2. Outstanding = {} /\ slips \subseteq {"unsent"} /\ Outstanding' = {n}
      BY <2>3, <2>5, <3>1
    <3>3. AtMost(template, editor.content) /\ payload <= editor.payload
      BY <1>3, <3>2 DEF StoredIsOlder
    <3>4. AtMost(editor.content, editor.content)
      BY DEF Content
    <3>. QED  BY <1>1, <2>4, <2>5, <2>6, <3>2, <3>3, <3>4 DEF StoredIsOlder
  <2>. QED  BY <2>7, <2>8, <2>9, <2>10, <2>11
<1>. QED  BY <1>2, <1>3

\* A save that goes on, and is still under way.
LEMMA WriteGoesOn ==
    ASSUME ChannelEditorTypeOK, NEW n \in Outstanding, NEW w \in Write,
           w.at \in {"template", "stored", "workflow", "saved"}, writes' = [writes EXCEPT ![n] = w]
    PROVE  /\ writes' \in [WriteIds -> Write] /\ writes'[n] = w
           /\ Outstanding' = Outstanding
           /\ \A m \in Outstanding : m # n => writes'[m] = writes[m]
<1>1. n \in WriteIds /\ writes \in [WriteIds -> Write]
  BY EditorTypes
<1>. QED  BY <1>1 DEF Outstanding

LEMMA WriteTemplateKeeps ==
    ASSUME EditorInv, NEW n \in WriteIds, WriteTemplate(n)
    PROVE  EditorInv'
<1>. USE EditorTypes, EditorConstants DEF EditorInv, AtMost
<1>1. /\ writes[n].at = "template" /\ writes[n] \in Write /\ n \in Outstanding
      /\ template' = writes[n].content
      /\ UNCHANGED <<medium, linked, payload, editor, clocks, texts, openings, slips>>
  BY DEF WriteTemplate, Outstanding
<1>. DEFINE w == [writes[n] EXCEPT !.at = "stored"]
<1>2. /\ w \in Write /\ w.at = "stored" /\ w.content = writes[n].content
      /\ w.payload = writes[n].payload /\ w.mine = writes[n].mine
  BY <1>1 DEF Write
<1>3. writes' = [writes EXCEPT ![n] = w]
  BY DEF WriteTemplate
<1>. HIDE DEF w
<1>4. /\ writes' \in [WriteIds -> Write] /\ writes'[n] = w
      /\ Outstanding' = Outstanding
      /\ \A m \in Outstanding : m # n => writes'[m] = writes[m]
  BY <1>1, <1>2, <1>3, WriteGoesOn
<1>5. ChannelEditorTypeOK' /\ EditorTakes' /\ TextsNumbered'
  <2>1. template' \in Content /\ template'.subject <= texts /\ template'.body <= texts
    BY <1>1 DEF Write, TextsNumbered
  <2>. QED  BY <1>1, <1>2, <1>4, <2>1 DEF ChannelEditorTypeOK, EditorTakes, TextsNumbered, Write
<1>6. OneWrite'
  BY <1>1, <1>2, <1>4 DEF OneWrite
<1>7. ShownIsSaved'
  BY <1>1, <1>2, <1>4 DEF ShownIsSaved
<1>8. StoredIsOlder'
  <2>1. SUFFICES ASSUME slips \subseteq {"unsent"}
                 PROVE  StoredIsOlder'
    BY <1>1 DEF StoredIsOlder
  <2>2. Outstanding = {n}
    BY <1>1, <2>1 DEF OneWrite
  <2>. QED  BY <1>1, <1>2, <1>4, <2>1, <2>2 DEF StoredIsOlder
<1>. QED  BY <1>5, <1>6, <1>7, <1>8

LEMMA TemplateWrittenKeeps ==
    ASSUME EditorInv, NEW n \in WriteIds, TemplateWritten(n)
    PROVE  EditorInv'
<1>. USE EditorTypes, EditorConstants DEF EditorInv, AtMost
<1>1. /\ writes[n].at = "stored" /\ writes[n] \in Write /\ n \in Outstanding
      /\ editor' = IF writes[n].mine THEN [editor EXCEPT !.known = TRUE] ELSE editor
      /\ slips' = IF writes[n].mine THEN slips \ {"unsent"} ELSE slips
      /\ UNCHANGED <<medium, template, linked, payload, clocks, texts, openings>>
  BY DEF TemplateWritten, Outstanding
<1>. DEFINE p == IF writes[n].mine THEN editor.payload ELSE writes[n].payload
            w == [at |-> "workflow", content |-> writes[n].content, payload |-> p, mine |-> writes[n].mine]
<1>2. /\ w \in Write /\ w.at = "workflow" /\ w.content = writes[n].content
      /\ w.payload = p /\ w.mine = writes[n].mine
  BY <1>1 DEF Write
<1>3. writes' = [writes EXCEPT ![n] = w]
  <2>1. writes' = [writes EXCEPT ![n] = [[writes[n] EXCEPT !.at = "workflow"] EXCEPT !.payload = p]]
    BY DEF TemplateWritten
  <2>. DEFINE v == [writes[n] EXCEPT !.at = "workflow"]
  <2>2. v \in Write /\ v.at = "workflow" /\ v.content = writes[n].content /\ v.mine = writes[n].mine
    BY <1>1 DEF Write
  <2>3. writes' = [writes EXCEPT ![n] = [v EXCEPT !.payload = p]]
    BY <2>1
  <2>. HIDE DEF v
  <2>4. [v EXCEPT !.payload = p] = w
    BY <2>2 DEF Write
  <2>. QED  BY <2>3, <2>4, Zenon
<1>. HIDE DEF w
<1>4. /\ writes' \in [WriteIds -> Write] /\ writes'[n] = w
      /\ Outstanding' = Outstanding
      /\ \A m \in Outstanding : m # n => writes'[m] = writes[m]
  BY <1>1, <1>2, <1>3, WriteGoesOn
<1>5. /\ editor' \in EditorRecord
      /\ editor'.at = editor.at /\ editor'.content = editor.content /\ editor'.payload = editor.payload
      /\ editor'.typed = editor.typed /\ editor'.last = editor.last /\ editor'.saving = editor.saving
  BY <1>1 DEF ChannelEditorTypeOK, EditorRecord
<1>6. ChannelEditorTypeOK' /\ EditorTakes' /\ TextsNumbered'
  BY <1>1, <1>2, <1>4, <1>5 DEF ChannelEditorTypeOK, EditorTakes, TextsNumbered, Write, EditorRecord
<1>7. OneWrite'
  BY <1>1, <1>2, <1>4, <1>5 DEF OneWrite
<1>8. ShownIsSaved'
  BY <1>1, <1>2, <1>4, <1>5 DEF ShownIsSaved
<1>9. StoredIsOlder'
  <2>1. SUFFICES ASSUME slips \subseteq {"unsent"}
                 PROVE  StoredIsOlder'
    BY <1>1 DEF StoredIsOlder
  <2>2. Outstanding = {n}
    BY <1>1, <2>1 DEF OneWrite
  <2>3. /\ editor.at # "loading" \/ ~editor.known
        /\ writes[n].mine => editor.at = "open"
    BY <1>1, <2>1, <2>2 DEF StoredIsOlder, EditorTakes
  <2>. QED  BY <1>1, <1>2, <1>4, <1>5, <2>1, <2>2, <2>3 DEF StoredIsOlder
<1>. QED  BY <1>6, <1>7, <1>8, <1>9

LEMMA WriteWorkflowKeeps ==
    ASSUME EditorInv, NEW n \in WriteIds, WriteWorkflow(n)
    PROVE  EditorInv'
<1>. USE EditorTypes, EditorConstants DEF EditorInv, AtMost
<1>1. /\ writes[n].at = "workflow" /\ writes[n] \in Write /\ n \in Outstanding
      /\ linked' = TRUE /\ payload' = writes[n].payload
      /\ UNCHANGED <<medium, template, editor, clocks, texts, openings, slips>>
  BY DEF WriteWorkflow, Outstanding
<1>. DEFINE w == [writes[n] EXCEPT !.at = "saved"]
<1>2. /\ w \in Write /\ w.at = "saved" /\ w.content = writes[n].content
      /\ w.payload = writes[n].payload /\ w.mine = writes[n].mine
  BY <1>1 DEF Write
<1>3. writes' = [writes EXCEPT ![n] = w]
  BY DEF WriteWorkflow
<1>. HIDE DEF w
<1>4. /\ writes' \in [WriteIds -> Write] /\ writes'[n] = w
      /\ Outstanding' = Outstanding
      /\ \A m \in Outstanding : m # n => writes'[m] = writes[m]
  BY <1>1, <1>2, <1>3, WriteGoesOn
<1>5. ChannelEditorTypeOK' /\ EditorTakes' /\ TextsNumbered'
  <2>1. payload' \in Texts /\ payload' <= texts
    BY <1>1 DEF Write, TextsNumbered
  <2>. QED  BY <1>1, <1>2, <1>4, <2>1 DEF ChannelEditorTypeOK, EditorTakes, TextsNumbered, Write
<1>6. OneWrite'
  BY <1>1, <1>2, <1>4 DEF OneWrite
<1>7. ShownIsSaved'
  BY <1>1, <1>2, <1>4 DEF ShownIsSaved
<1>8. StoredIsOlder'
  <2>1. SUFFICES ASSUME slips \subseteq {"unsent"}
                 PROVE  StoredIsOlder'
    BY <1>1 DEF StoredIsOlder
  <2>2. Outstanding = {n}
    BY <1>1, <2>1 DEF OneWrite
  <2>3. editor.at # "loading" \/ ~editor.known
    BY <2>1, <2>2 DEF StoredIsOlder
  <2>4. payload' <= payload'
    BY <1>1
  <2>. QED  BY <1>1, <1>2, <1>4, <2>1, <2>2, <2>3, <2>4 DEF StoredIsOlder
<1>. QED  BY <1>5, <1>6, <1>7, <1>8

LEMMA WriteEndsKeeps ==
    ASSUME EditorInv, NEW n \in Outstanding, NEW result \in {"saved", "error"}, WriteEnds(n, result),
           result = "saved" => writes[n].at = "saved"
    PROVE  EditorInv'
<1>. USE EditorTypes, EditorConstants DEF EditorInv, AtMost
<1>1. /\ editor' = IF writes[n].mine THEN [editor EXCEPT !.saving = result] ELSE editor
      /\ UNCHANGED <<medium, template, linked, payload, clocks, texts, openings, slips>>
  BY DEF WriteEnds
<1>. DEFINE w == [NoWrite EXCEPT !.at = "over"]
<1>2. w \in Write /\ w.at = "over"
  BY DEF Write, NoWrite
<1>3. writes' = [writes EXCEPT ![n] = w]
  BY DEF WriteEnds
<1>. HIDE DEF w
<1>4. /\ writes' \in [WriteIds -> Write]
      /\ Outstanding' = Outstanding \ {n}
      /\ \A m \in Outstanding' : writes'[m] = writes[m]
  BY <1>2, <1>3 DEF Outstanding
<1>5. /\ editor' \in EditorRecord
      /\ editor'.at = editor.at /\ editor'.content = editor.content /\ editor'.payload = editor.payload
      /\ editor'.typed = editor.typed /\ editor'.last = editor.last /\ editor'.known = editor.known
      /\ writes[n].mine => editor'.saving = result
  BY <1>1 DEF ChannelEditorTypeOK, EditorRecord
<1>6. ChannelEditorTypeOK' /\ EditorTakes' /\ TextsNumbered'
  BY <1>1, <1>4, <1>5 DEF ChannelEditorTypeOK, EditorTakes, TextsNumbered, Write, EditorRecord
<1>7. OneWrite'
  BY <1>1, <1>4, <1>5 DEF OneWrite
<1>8. ShownIsSaved'
  <2>1. SUFFICES ASSUME "overlap" \notin slips, editor.at = "open", editor.last # 0,
                        clocks \cap {"body", "subject"} = {}
                 PROVE  ShownIsSaved'
    BY <1>1, <1>5 DEF ShownIsSaved
  <2>2. Outstanding' = {} /\ writes[n].mine /\ writes[n].content = editor.content
    BY <1>4, <2>1 DEF OneWrite, ShownIsSaved
  <2>3. result = "saved" =>
            /\ linked /\ template = editor.content
            /\ "unsent" \in slips \/ payload = editor.payload
    BY <2>1, <2>2 DEF OneWrite
  <2>. QED  BY <1>1, <1>5, <2>2, <2>3 DEF ShownIsSaved
<1>9. StoredIsOlder'
  BY <1>1, <1>4, <1>5 DEF StoredIsOlder
<1>. QED  BY <1>6, <1>7, <1>8, <1>9

LEMMA EditorKept ==
    ASSUME EditorInv, [ChannelEditorNext]_channelEditorVars
    PROVE  EditorInv'
<1>1. ASSUME NEW n \in WriteIds, WorkflowWritten(n) \/ WriteFails(n)
      PROVE  EditorInv'
  <2>1. n \in Outstanding
    BY <1>1 DEF WorkflowWritten, WriteFails, Outstanding
  <2>. QED  BY <1>1, <2>1, WriteEndsKeeps DEF WorkflowWritten, WriteFails
<1>2. CASE UNCHANGED channelEditorVars
  BY <1>2 DEF channelEditorVars, EditorInv, ChannelEditorTypeOK, EditorTakes, TextsNumbered, OneWrite,
              ShownIsSaved, StoredIsOlder, Outstanding
<1>. QED
  BY <1>1, <1>2, OpenEditorKeeps, LoadStepKeeps, LoadTemplateKeeps, LoadFailsKeeps, LeaveEditorKeeps,
     TypeEmailKeeps, TypeSmsKeeps, HandOnBodyKeeps, TypeSubjectKeeps, TypePayloadKeeps, FireClockKeeps,
     WriteTemplateKeeps, TemplateWrittenKeeps, WriteWorkflowKeeps
     DEF ChannelEditorNext

\* No step puts older text in the place of newer.
LEMMA OnlyNewer ==
    ASSUME EditorInv, [ChannelEditorNext]_channelEditorVars
    PROVE  [NothingOlder]_channelEditorVars
<1>. USE EditorTypes DEF EditorInv
<1>1. SUFFICES ASSUME ChannelEditorNext, slips' \ {"unsent"} = {}
               PROVE  /\ template'.subject >= template.subject /\ template'.body >= template.body
                      /\ payload' >= payload
  BY DEF NothingOlder
<1>2. CASE UNCHANGED <<template, payload>>
  BY <1>2 DEF Content
<1>3. ASSUME NEW n \in WriteIds, WriteTemplate(n)
      PROVE  /\ template'.subject >= template.subject /\ template'.body >= template.body
             /\ payload' >= payload
  <2>1. /\ n \in Outstanding /\ writes[n].at = "template" /\ slips \subseteq {"unsent"}
        /\ template' = writes[n].content /\ payload' = payload
    BY <1>1, <1>3 DEF WriteTemplate, Outstanding
  <2>2. AtMost(template, writes[n].content)
    BY <2>1 DEF StoredIsOlder
  <2>. QED  BY <2>1, <2>2 DEF AtMost, Content
<1>4. ASSUME NEW n \in WriteIds, WriteWorkflow(n)
      PROVE  /\ template'.subject >= template.subject /\ template'.body >= template.body
             /\ payload' >= payload
  <2>1. /\ n \in Outstanding /\ writes[n].at = "workflow" /\ slips \subseteq {"unsent"}
        /\ payload' = writes[n].payload /\ template' = template
    BY <1>1, <1>4 DEF WriteWorkflow, Outstanding
  <2>2. payload <= writes[n].payload
    BY <2>1 DEF StoredIsOlder
  <2>. QED  BY <2>1, <2>2 DEF Content
<1>. QED
  BY <1>1, <1>2, <1>3, <1>4, Zenon
     DEF ChannelEditorNext, OpenEditor, LoadStep, LoadTemplate, LoadFails, LeaveEditor, TypeEmail, TypeSms,
         HandOnBody, TypeSubject, TypePayload, FireClock, TemplateWritten, WorkflowWritten, WriteFails,
         WriteEnds

\* The page of a channel.  Its editor: once body and subject are saved the step names what
\* the page shows, and no save replaces newer text (performAutosave).  Its preview: a test
\* carries what is shown, one at a time, and closes its own dialog (handleSendTest).  Its
\* sender: a message leaves with the one shown (displaySender).
THEOREM ChannelShowsIt == BrowserSpec => ChannelPageSound
<1>. DEFINE Inv == /\ focus = "channel" => EditorInv
                   /\ focus = "preview" => PreviewInv
                   /\ focus = "drawer" => SenderInv
<1>1. BrowserInit => Inv
  BY EditorAtFirst, PreviewAtFirst DEF BrowserInit, SenderInv, SenderDrawerInit
<1>2. Inv /\ [BrowserNext]_browserVars => Inv'
  BY PageMoves, EditorKept, PreviewKept, SenderKept
<1>3. Inv => /\ focus = "channel" => SavedIsStored
             /\ focus = "preview" => SendsWhatIsShown /\ OneTestAtATime
             /\ focus = "drawer" => SenderAsShown
  <2>1. EditorInv => SavedIsStored
    BY DEF EditorInv, ShownIsSaved, SavedIsStored
  <2>2. SenderInv => SenderAsShown
    BY DEF SenderInv, SenderAsShown
  <2>. QED  BY <2>1, <2>2, PreviewIsSound
<1>4. Inv /\ [BrowserNext]_browserVars =>
        /\ [focus = "channel" => NothingOlder]_channelEditorVars
        /\ [focus = "preview" => ClosesOnOwnTest]_channelPreviewVars
  BY PageMoves, OnlyNewer, ClosesOnOwn
<1>. QED  BY <1>1, <1>2, <1>3, <1>4, PTL DEF BrowserSpec, ChannelPageSound
----------------------------------------------------------------------------
(***************************************************************************)
(* The page of API keys.                                                   *)
(***************************************************************************)

Command == [kind: {"none", "create", "delete"}, at: {"idle", "sent", "served", "done"},
            key: ApiKeys \cup {NoKey}, mounted: BOOLEAN]

\* The mutations that the page has under way.
Own(kind) == {n \in Active : command[n].kind = kind /\ command[n].mounted}

\* The dialogs exclude each other, and what runs keeps the others shut: a key is created one
\* at a time, and while it is, no secret is shown and no question asked; the question that is
\* asked during a delete is about the key that is being deleted.
OneDialog ==
    /\ panel.creating => panel.secret = NoKey /\ panel.deleting = NoKey
    /\ Own("create") # {} => panel.secret = NoKey /\ panel.deleting = NoKey
    /\ \A n, m \in Own("create") : n = m
    /\ \A n \in Own("delete") : panel.deleting \in {NoKey, command[n].key}

\* Unless an answer was lost or the page left: a key whose request is over is deleted or its
\* secret was shown, and one that is being created is nobody else's.
SecretsTold ==
    /\ \A n \in Commands : command[n].at = "idle" <=> command[n].key = NoKey
    /\ \A n \in Active : command[n].kind \in {"create", "delete"}
    /\ upset \cap {"left", "lost"} = {} =>
        /\ \A n \in Active : command[n].mounted
        /\ \A n \in Commands : command[n].at = "done" => command[n].key \notin keys \ told
        /\ \A n \in Commands : command[n].at = "served" /\ command[n].kind = "delete" =>
            command[n].key \notin keys
        /\ \A n, m \in Commands :
            command[n].at = "sent" /\ command[n].kind = "create" /\ command[m].key = command[n].key =>
                m = n

\* Unless an answer was lost or keys changed elsewhere: with no answer to come, the list that
\* was fetched, or is cached with no fetch to come, is that of the table.
ListFollows ==
    upset \subseteq {"left"} /\ (\A n \in Commands : command[n].at # "served") =>
        /\ reload.at = "idle" => offered = keys
        /\ reload.at = "read" => reload.keys = keys

KeyPageInv == KeyPageTypeOK /\ OneDialog /\ SecretsTold /\ ListFollows

LEMMA KeysAtFirst == KeyPageInit => KeyPageInv
<1>. SUFFICES ASSUME KeyPageInit
              PROVE  KeyPageInv
  OBVIOUS
<1>1. NoCommand \in Command
  BY DEF NoCommand, Command
<1>2. command \in [Commands -> Command] /\ \A n \in Commands : command[n] = NoCommand
  BY <1>1 DEF KeyPageInit
<1>3. KeyPageTypeOK
  BY <1>2 DEF KeyPageInit, KeyPageTypeOK, Command, NewPage, NoReload
<1>4. Active = {}
  BY <1>2 DEF Active, NoCommand
<1>5. OneDialog
  BY <1>4 DEF KeyPageInit, OneDialog, Own, NewPage
<1>6. SecretsTold /\ ListFollows
  BY <1>2, <1>4 DEF KeyPageInit, SecretsTold, ListFollows, NoCommand, NoReload
<1>. QED  BY <1>3, <1>5, <1>6 DEF KeyPageInv

\* What only the screen knows.
LEMMA PanelChanges ==
    ASSUME KeyPageInv, NEW p, ShowPanel(p),
           p \in [open: BOOLEAN, creating: BOOLEAN, named: BOOLEAN,
                  secret: ApiKeys \cup {NoKey}, deleting: ApiKeys \cup {NoKey}],
           p.creating => p.secret = NoKey /\ p.deleting = NoKey,
           Own("create") # {} => p.secret = NoKey /\ p.deleting = NoKey,
           \A n \in Own("delete") : p.deleting \in {NoKey, command[n].key}
    PROVE  KeyPageInv'
BY DEF ShowPanel, KeyPageInv, KeyPageTypeOK, OneDialog, Own, SecretsTold, ListFollows, Active

\* The dialogs open and close.
LEMMA ScreenKeeps ==
    ASSUME KeyPageInv,
           \/ OpenGenerate \/ CloseGenerate \/ TypeName \/ CancelDelete \/ DismissSecret
           \/ \E k \in ApiKeys : AskDelete(k)
    PROVE  KeyPageInv'
<1>1. /\ panel \in [open: BOOLEAN, creating: BOOLEAN, named: BOOLEAN,
                    secret: ApiKeys \cup {NoKey}, deleting: ApiKeys \cup {NoKey}]
      /\ OneDialog
  BY DEF KeyPageInv, KeyPageTypeOK
<1>2. CASE OpenGenerate
  BY <1>1, <1>2, PanelChanges DEF OpenGenerate, OnList, OneDialog
<1>3. CASE CloseGenerate
  BY <1>1, <1>3, PanelChanges DEF CloseGenerate, OneDialog
<1>4. CASE TypeName
  BY <1>1, <1>4, PanelChanges DEF TypeName, OneDialog
<1>5. CASE CancelDelete
  BY <1>1, <1>5, PanelChanges DEF CancelDelete, OneDialog
<1>6. CASE DismissSecret
  BY <1>1, <1>6, PanelChanges DEF DismissSecret, OneDialog
<1>7. ASSUME NEW k \in ApiKeys, AskDelete(k)
      PROVE  KeyPageInv'
  <2>1. Own("create") = {} /\ Own("delete") = {}
    BY <1>7 DEF AskDelete, IsPending, Own
  <2>. QED  BY <1>1, <1>7, <2>1, PanelChanges DEF AskDelete, OnList, OneDialog
<1>. QED  BY <1>2, <1>3, <1>4, <1>5, <1>6, <1>7

\* A request is sent.
LEMMA SendKeeps ==
    ASSUME KeyPageInv, NEW kind \in {"create", "delete"}, NEW k \in ApiKeys, Send(kind, k),
           ~IsPending(kind),
           kind = "create" => panel.creating /\ \A n \in Commands : command[n].key # k,
           kind = "delete" => panel.deleting = k
    PROVE  KeyPageInv'
<1>. DEFINE r == [kind |-> kind, at |-> "sent", key |-> k, mounted |-> TRUE]
<1>1. PICK n \in Commands : command[n].at = "idle" /\ command' = [command EXCEPT ![n] = r]
  BY DEF Send
<1>2. r \in Command /\ r.kind = kind /\ r.at = "sent" /\ r.key = k /\ r.mounted
  BY DEF Command
<1>3. UNCHANGED <<keys, offered, reload, panel, told, upset>>
  BY DEF Send
<1>. HIDE DEF r
<1>4. /\ command' \in [Commands -> Command] /\ command'[n] = r
      /\ \A m \in Commands \ {n} : command'[m] = command[m]
      /\ Active' = Active \cup {n} /\ n \notin Active
  BY <1>1, <1>2 DEF KeyPageInv, KeyPageTypeOK, Command, Active
<1>5. KeyPageTypeOK'
  BY <1>3, <1>4 DEF KeyPageInv, KeyPageTypeOK, Command
<1>6. /\ Own(kind)' = {n} /\ Own(kind) = {}
      /\ \A other \in {"create", "delete"} \ {kind} : Own(other)' = Own(other)
  BY <1>2, <1>4 DEF Own, IsPending, Active
<1>7. OneDialog'
  BY <1>2, <1>3, <1>4, <1>6 DEF KeyPageInv, OneDialog, Own, Active
<1>8. SecretsTold'
  <2>1. /\ \A m \in Commands : command'[m].at = "idle" <=> command'[m].key = NoKey
        /\ UNCHANGED <<keys, told, upset>>
    BY <1>2, <1>3, <1>4, KeysAssumption DEF KeyPageInv, SecretsTold
  <2>2. ASSUME upset \cap {"left", "lost"} = {}, kind = "delete", NEW m \in Commands,
               command[m].at = "sent", command[m].kind = "create"
        PROVE  FALSE
    <3>1. m \in Own("create")
      BY <2>2 DEF KeyPageInv, SecretsTold, Own, Active
    <3>. QED  BY <2>2, <3>1, KeysAssumption DEF KeyPageInv, OneDialog
  <2>3. ASSUME upset \cap {"left", "lost"} = {}
        PROVE  /\ \A m \in Active' : command'[m].mounted
               /\ \A m \in Commands : command'[m].at = "done" => command'[m].key \notin keys \ told
               /\ \A m \in Commands : command'[m].at = "served" /\ command'[m].kind = "delete" =>
                    command'[m].key \notin keys
    <3>1. \A m \in Active : command[m].mounted
      BY <2>3 DEF KeyPageInv, SecretsTold
    <3>2. \A m \in Commands : command'[m].at \in {"done", "served"} => m # n
      BY <1>2, <1>4
    <3>3. \A m \in Active' : command'[m].mounted
      BY <1>2, <1>4, <3>1 DEF Active
    <3>. QED  BY <1>4, <2>3, <3>2, <3>3 DEF KeyPageInv, SecretsTold
  <2>4. ASSUME upset \cap {"left", "lost"} = {}, NEW l \in Commands, NEW m \in Commands,
               command'[l].at = "sent", command'[l].kind = "create", command'[m].key = command'[l].key
        PROVE  m = l
    <3>1. CASE l = n
      BY <1>2, <1>4, <2>4, <3>1
    <3>2. CASE l # n /\ m = n
      <4>1. command[l].at = "sent" /\ command[l].kind = "create" /\ command[l].key = k
        BY <1>2, <1>4, <2>4, <3>2
      <4>. QED  BY <2>2, <2>4, <4>1
    <3>3. CASE l # n /\ m # n
      BY <1>4, <2>4, <3>3 DEF KeyPageInv, SecretsTold
    <3>. QED  BY <3>1, <3>2, <3>3
  <2>5. \A m \in Active' : command'[m].kind \in {"create", "delete"}
    BY <1>2, <1>4 DEF KeyPageInv, SecretsTold, Active
  <2>. QED  BY <2>1, <2>3, <2>4, <2>5 DEF SecretsTold
<1>9. ListFollows'
  BY <1>1, <1>2, <1>3, <1>4 DEF KeyPageInv, ListFollows
<1>. QED  BY <1>5, <1>7, <1>8, <1>9 DEF KeyPageInv

\* The page is left and opened, the list fetched, and keys change elsewhere.
LEMMA LeaveKeysKeeps == KeyPageInv /\ LeaveKeys => KeyPageInv'
<1>. SUFFICES ASSUME KeyPageInv, LeaveKeys
              PROVE  KeyPageInv'
  OBVIOUS
<1>1. /\ UNCHANGED <<keys, offered, reload, told>>
      /\ panel' = [NewPage EXCEPT !.open = FALSE]
      /\ command' = [n \in Commands |-> [command[n] EXCEPT !.mounted = FALSE]]
      /\ upset' = IF Active = {} THEN upset ELSE upset \cup {"left"}
  BY DEF LeaveKeys
<1>2. command \in [Commands -> Command] /\ upset \subseteq Upsets
  BY DEF KeyPageInv, KeyPageTypeOK, Command
<1>3. /\ command' \in [Commands -> Command]
      /\ \A n \in Commands : /\ command'[n].at = command[n].at /\ command'[n].key = command[n].key
                             /\ command'[n].kind = command[n].kind /\ ~command'[n].mounted
  BY <1>1, <1>2 DEF Command
<1>4. KeyPageTypeOK'
  BY <1>1, <1>2, <1>3 DEF KeyPageInv, KeyPageTypeOK, NewPage, Upsets, Command
<1>5. Own("create")' = {} /\ Own("delete")' = {} /\ Active' = Active
  BY <1>3 DEF Own, Active
<1>6. OneDialog'
  BY <1>1, <1>5 DEF OneDialog, NewPage
<1>7. SecretsTold'
  <2>1. CASE Active = {}
    BY <1>1, <1>3, <1>5, <2>1 DEF KeyPageInv, SecretsTold
  <2>2. CASE Active # {}
    <3>1. "left" \in upset'
      BY <1>1, <2>2
    <3>2. /\ \A n \in Commands : command'[n].at = "idle" <=> command'[n].key = NoKey
          /\ \A n \in Active' : command'[n].kind \in {"create", "delete"}
      BY <1>3, <1>5 DEF KeyPageInv, SecretsTold, Active
    <3>. QED  BY <3>1, <3>2 DEF SecretsTold
  <2>. QED  BY <2>1, <2>2
<1>8. ListFollows'
  BY <1>1, <1>3 DEF KeyPageInv, ListFollows
<1>. QED  BY <1>4, <1>6, <1>7, <1>8 DEF KeyPageInv

LEMMA ListKeeps ==
    ASSUME KeyPageInv,
           OpenKeys \/ ReadKeys \/ KeysArrive \/ KeysLost \/ \E k \in ApiKeys : DeletedElsewhere(k)
    PROVE  KeyPageInv'
<1>1. CASE OpenKeys
  <2>1. /\ UNCHANGED <<keys, offered, command, told, upset>>
        /\ ~panel.open /\ panel' = NewPage
        /\ reload' \in {reload, IF reload.at = "idle" THEN [NoReload EXCEPT !.at = "asked"] ELSE reload}
    BY <1>1 DEF OpenKeys
  <2>2. KeyPageTypeOK'
    BY <2>1 DEF KeyPageInv, KeyPageTypeOK, NoReload, NewPage
  <2>3. OneDialog'
    BY <2>1 DEF OneDialog, NewPage, KeyPageInv, Own, Active
  <2>4. SecretsTold' /\ ListFollows'
    BY <2>1 DEF KeyPageInv, SecretsTold, ListFollows, NoReload, Active
  <2>. QED  BY <2>2, <2>3, <2>4 DEF KeyPageInv
<1>2. CASE ReadKeys
  BY <1>2 DEF ReadKeys, KeyPageInv, KeyPageTypeOK, OneDialog, Own, SecretsTold, ListFollows, Active
<1>3. CASE KeysArrive
  BY <1>3 DEF KeysArrive, KeyPageInv, KeyPageTypeOK, OneDialog, Own, SecretsTold, ListFollows, Active,
              NoReload
<1>4. CASE KeysLost
  BY <1>4 DEF KeysLost, KeyPageInv, KeyPageTypeOK, OneDialog, Own, SecretsTold, ListFollows, Active,
              NoReload, Upsets
<1>5. ASSUME NEW k \in ApiKeys, DeletedElsewhere(k)
      PROVE  KeyPageInv'
  BY <1>5 DEF DeletedElsewhere, KeyPageInv, KeyPageTypeOK, OneDialog, Own, SecretsTold, ListFollows,
              Active, Upsets
<1>. QED  BY <1>1, <1>2, <1>3, <1>4, <1>5

\* A request takes effect.
LEMMA ServeCommandKeeps == ASSUME KeyPageInv, NEW n \in Commands, ServeCommand(n) PROVE KeyPageInv'
<1>1. /\ command[n].at = "sent" /\ KeyFound(n)
      /\ keys' = IF command[n].kind = "create" THEN keys \cup {command[n].key}
                 ELSE keys \ {command[n].key}
      /\ command' = [command EXCEPT ![n].at = "served"]
      /\ UNCHANGED <<offered, reload, panel, told, upset>>
  BY DEF ServeCommand
<1>2. command \in [Commands -> Command]
  BY DEF KeyPageInv, KeyPageTypeOK, Command
<1>3. /\ command' \in [Commands -> Command]
      /\ command'[n].at = "served"
      /\ \A m \in Commands : /\ m # n => command'[m].at = command[m].at
                             /\ command'[m].key = command[m].key /\ command'[m].kind = command[m].kind
                             /\ command'[m].mounted = command[m].mounted
  BY <1>1, <1>2 DEF Command
<1>4. Active' = Active /\ \A kind : Own(kind)' = Own(kind)
  BY <1>1, <1>3 DEF Active, Own
<1>5. KeyPageTypeOK'
  <2>1. keys' \subseteq ApiKeys
    <3>1. CASE command[n].kind = "create"
      <4>1. command[n].key # NoKey
        BY <1>1, <3>1 DEF KeyPageInv, SecretsTold
      <4>. QED  BY <1>1, <1>2, <3>1, <4>1 DEF KeyPageInv, KeyPageTypeOK, Command
    <3>2. CASE command[n].kind # "create"
      BY <1>1, <3>2 DEF KeyPageInv, KeyPageTypeOK
    <3>. QED  BY <3>1, <3>2
  <2>. QED  BY <1>1, <1>3, <2>1 DEF KeyPageInv, KeyPageTypeOK, Command
<1>6. OneDialog'
  BY <1>1, <1>3, <1>4 DEF KeyPageInv, OneDialog, Own, Active
<1>7. SecretsTold'
  <2>1. CASE upset \cap {"left", "lost"} # {}
    BY <1>1, <1>3, <1>4, <2>1 DEF KeyPageInv, SecretsTold
  <2>2. CASE upset \cap {"left", "lost"} = {}
    <3>1. command[n].kind \in {"create", "delete"}
      BY <1>1, <2>2 DEF KeyPageInv, SecretsTold, Active
    <3>2. CASE command[n].kind = "create"
      <4>1. \A m \in Commands \ {n} : command[m].key # command[n].key
        BY <1>1, <2>2, <3>2 DEF KeyPageInv, SecretsTold
      <4>. QED  BY <1>1, <1>3, <1>4, <2>2, <3>2, <4>1 DEF KeyPageInv, SecretsTold
    <3>3. CASE command[n].kind = "delete"
      BY <1>1, <1>3, <1>4, <2>2, <3>3 DEF KeyPageInv, SecretsTold
    <3>. QED  BY <3>1, <3>2, <3>3
  <2>. QED  BY <2>1, <2>2
<1>8. ListFollows'
  BY <1>3 DEF ListFollows
<1>. QED  BY <1>5, <1>6, <1>7, <1>8 DEF KeyPageInv

\* A request is over.
LEMMA RequestEnds ==
    ASSUME KeyPageInv, NEW n \in Commands, n \in Active, Finish(n)
    PROVE  /\ command' \in [Commands -> Command]
           /\ command'[n].at = "done" /\ command'[n].key = command[n].key
           /\ \A m \in Commands \ {n} : command'[m] = command[m]
           /\ Active' = Active \ {n} /\ Own("create")' = Own("create") \ {n}
           /\ Own("delete")' = Own("delete") \ {n}
           /\ \A m \in Commands : command'[m].at = "idle" <=> command'[m].key = NoKey
<1>. DEFINE r == [NoCommand EXCEPT !.at = "done", !.key = command[n].key]
<1>1. command \in [Commands -> Command] /\ n \in Commands
  BY DEF KeyPageInv, KeyPageTypeOK, Command, Active
<1>2. command' = [command EXCEPT ![n] = r]
  BY DEF Finish
<1>3. r \in Command /\ r.at = "done" /\ r.key = command[n].key
  BY <1>1 DEF NoCommand, Command
<1>. HIDE DEF r
<1>4. /\ command' \in [Commands -> Command] /\ command'[n] = r
      /\ \A m \in Commands \ {n} : command'[m] = command[m]
  BY <1>1, <1>2, <1>3
<1>5. /\ Active' = Active \ {n} /\ Own("create")' = Own("create") \ {n}
      /\ Own("delete")' = Own("delete") \ {n}
  BY <1>1, <1>3, <1>4 DEF Active, Own
<1>6. \A m \in Commands : command'[m].at = "idle" <=> command'[m].key = NoKey
  BY <1>1, <1>3, <1>4 DEF KeyPageInv, SecretsTold, Active
<1>. QED  BY <1>3, <1>4, <1>5, <1>6

\* Once a request is over, its key is deleted or was told, unless something went wrong.
LEMMA ToldAtTheEnd ==
    ASSUME KeyPageInv, NEW n \in Commands, n \in Active, Finish(n), keys' = keys, told \subseteq told',
           upset \subseteq upset',
           upset' \cap {"left", "lost"} = {} => command[n].key \notin keys \ told'
    PROVE  SecretsTold'
<1>1. /\ command'[n].at = "done" /\ command'[n].key = command[n].key
      /\ \A m \in Commands \ {n} : command'[m] = command[m]
      /\ Active' = Active \ {n}
      /\ \A m \in Commands : command'[m].at = "idle" <=> command'[m].key = NoKey
  BY RequestEnds
<1>2. ASSUME upset' \cap {"left", "lost"} = {}
      PROVE  /\ \A m \in Active' : command'[m].mounted
             /\ \A m \in Commands : command'[m].at = "done" => command'[m].key \notin keys' \ told'
             /\ \A m \in Commands : command'[m].at = "served" /\ command'[m].kind = "delete" =>
                  command'[m].key \notin keys'
             /\ \A l, m \in Commands :
                  command'[l].at = "sent" /\ command'[l].kind = "create" /\ command'[m].key = command'[l].key =>
                      m = l
  <2>1. upset \cap {"left", "lost"} = {}
    BY <1>2
  <2>2. \A m \in Active' : command'[m].mounted
    BY <1>1, <2>1 DEF KeyPageInv, SecretsTold, Active
  <2>3. \A m \in Commands : command'[m].at = "done" => command'[m].key \notin keys' \ told'
    <3>. SUFFICES ASSUME NEW m \in Commands, command'[m].at = "done"
                  PROVE  command'[m].key \notin keys' \ told'
      OBVIOUS
    <3>1. CASE m = n
      BY <1>1, <1>2, <3>1
    <3>2. CASE m # n
      BY <1>1, <2>1, <3>2 DEF KeyPageInv, SecretsTold
    <3>. QED  BY <3>1, <3>2
  <2>4. \A m \in Commands : command'[m].at = "served" /\ command'[m].kind = "delete" =>
          command'[m].key \notin keys'
    BY <1>1, <2>1 DEF KeyPageInv, SecretsTold
  <2>5. ASSUME NEW l \in Commands, NEW m \in Commands, command'[l].at = "sent",
               command'[l].kind = "create", command'[m].key = command'[l].key
        PROVE  m = l
    <3>1. l # n /\ command'[l] = command[l] /\ command'[m].key = command[m].key
      BY <1>1, <2>5
    <3>. QED  BY <2>1, <2>5, <3>1 DEF KeyPageInv, SecretsTold
  <2>. QED  BY <2>2, <2>3, <2>4, <2>5
<1>3. \A m \in Active' : command'[m].kind \in {"create", "delete"}
  BY <1>1 DEF KeyPageInv, SecretsTold, Active
<1>. QED  BY <1>1, <1>2, <1>3 DEF SecretsTold

LEMMA CommandReturnsKeeps ==
    ASSUME KeyPageInv, NEW n \in Commands, CommandReturns(n) PROVE KeyPageInv'
<1>1. /\ command[n].at = "served" /\ Finish(n) /\ n \in Active
      /\ reload' = [NoReload EXCEPT !.at = "asked"]
      /\ told' = IF command[n].kind = "create" /\ command[n].mounted THEN told \cup {command[n].key}
                 ELSE told
      /\ UNCHANGED <<keys, offered, upset>>
  BY DEF CommandReturns, Active
<1>2. /\ command' \in [Commands -> Command]
      /\ command'[n].at = "done" /\ command'[n].key = command[n].key
      /\ \A m \in Commands \ {n} : command'[m] = command[m]
      /\ Active' = Active \ {n} /\ Own("create")' = Own("create") \ {n}
      /\ Own("delete")' = Own("delete") \ {n}
      /\ \A m \in Commands : command'[m].at = "idle" <=> command'[m].key = NoKey
  BY <1>1, RequestEnds
<1>3. command[n].key \in ApiKeys
  BY <1>1 DEF KeyPageInv, KeyPageTypeOK, SecretsTold
<1>4. CASE ~command[n].mounted
  <2>1. UNCHANGED <<panel, told>>
    BY <1>1, <1>4 DEF CommandReturns
  <2>2. KeyPageTypeOK'
    BY <1>1, <1>2, <2>1 DEF KeyPageInv, KeyPageTypeOK, NoReload, Command
  <2>3. OneDialog'
    BY <1>2, <2>1 DEF KeyPageInv, OneDialog, Own, Active
  <2>4. upset \cap {"left", "lost"} # {}
    BY <1>1, <1>4 DEF KeyPageInv, SecretsTold
  <2>5. SecretsTold'
    BY <1>1, <2>1, <2>4, ToldAtTheEnd
  <2>. QED  BY <1>1, <2>2, <2>3, <2>5 DEF KeyPageInv, ListFollows, NoReload
<1>5. CASE command[n].mounted /\ command[n].kind = "delete"
  <2>1. panel' = [panel EXCEPT !.deleting = NoKey] /\ told' = told
    BY <1>1, <1>5 DEF CommandReturns
  <2>2. KeyPageTypeOK'
    BY <1>1, <1>2, <2>1 DEF KeyPageInv, KeyPageTypeOK, NoReload, Command
  <2>3. OneDialog'
    <3>1. \A m \in Own("delete")' : command'[m].key = command[m].key /\ m \in Own("delete")
      BY <1>2 DEF Own, Active
    <3>. QED  BY <1>2, <2>1, <3>1 DEF KeyPageInv, KeyPageTypeOK, OneDialog
  <2>4. SecretsTold'
    <3>1. upset \cap {"left", "lost"} = {} => command[n].key \notin keys
      BY <1>1, <1>5 DEF KeyPageInv, SecretsTold
    <3>. QED  BY <1>1, <2>1, <3>1, ToldAtTheEnd
  <2>. QED  BY <1>1, <2>2, <2>3, <2>4 DEF KeyPageInv, ListFollows, NoReload
<1>6. CASE command[n].mounted /\ command[n].kind # "delete"
  <2>1. /\ panel'.secret = command[n].key /\ panel'.creating = FALSE /\ panel'.deleting = panel.deleting
        /\ panel' \in [open: BOOLEAN, creating: BOOLEAN, named: BOOLEAN,
                       secret: ApiKeys \cup {NoKey}, deleting: ApiKeys \cup {NoKey}]
    BY <1>1, <1>3, <1>6 DEF CommandReturns, KeyPageInv, KeyPageTypeOK
  <2>2. KeyPageTypeOK'
    BY <1>1, <1>2, <1>3, <2>1 DEF KeyPageInv, KeyPageTypeOK, NoReload, Command
  <2>3. OneDialog'
    <3>1. command[n].kind = "create"
      BY <1>1, <1>6 DEF KeyPageInv, SecretsTold
    <3>2. n \in Own("create")
      BY <1>1, <1>6, <3>1 DEF Own
    <3>3. Own("create")' = {} /\ panel.deleting = NoKey
      BY <1>2, <3>2 DEF KeyPageInv, OneDialog
    <3>. QED  BY <2>1, <3>3 DEF OneDialog
  <2>4. SecretsTold'
    <3>1. upset \cap {"left", "lost"} = {} => command[n].kind = "create"
      BY <1>1, <1>6 DEF KeyPageInv, SecretsTold
    <3>. QED  BY <1>1, <1>6, <3>1, ToldAtTheEnd
  <2>. QED  BY <1>1, <2>2, <2>3, <2>4 DEF KeyPageInv, ListFollows, NoReload
<1>. QED  BY <1>4, <1>5, <1>6

LEMMA CommandFailsKeeps == ASSUME KeyPageInv, NEW n \in Commands, CommandFails(n) PROVE KeyPageInv'
<1>1. /\ Finish(n) /\ n \in Active /\ UNCHANGED <<keys, offered, reload, panel, told>>
      /\ \/ command[n].at = "sent" /\ ~KeyFound(n) /\ upset' = upset
         \/ "lost" \notin upset /\ upset' = upset \cup {"lost"}
  BY DEF CommandFails, Active
<1>2. /\ command' \in [Commands -> Command]
      /\ command'[n].at = "done" /\ command'[n].key = command[n].key
      /\ \A m \in Commands \ {n} : command'[m] = command[m]
      /\ Active' = Active \ {n} /\ Own("create")' = Own("create") \ {n}
      /\ Own("delete")' = Own("delete") \ {n}
      /\ \A m \in Commands : command'[m].at = "idle" <=> command'[m].key = NoKey
  BY <1>1, RequestEnds
<1>3. KeyPageTypeOK'
  BY <1>1, <1>2 DEF KeyPageInv, KeyPageTypeOK, Command, Upsets
<1>4. OneDialog'
  <2>1. \A m \in Own("delete")' : command'[m].key = command[m].key /\ m \in Own("delete")
    BY <1>2 DEF Own, Active
  <2>. QED  BY <1>1, <1>2, <2>1 DEF KeyPageInv, OneDialog
<1>5. CASE command[n].at = "sent" /\ ~KeyFound(n) /\ upset' = upset
  <2>1. command[n].key \notin keys
    BY <1>5 DEF KeyFound
  <2>2. SecretsTold'
    BY <1>1, <1>5, <2>1, ToldAtTheEnd
  <2>3. ListFollows'
    BY <1>1, <1>2, <1>5 DEF KeyPageInv, ListFollows
  <2>. QED  BY <1>3, <1>4, <2>2, <2>3 DEF KeyPageInv
<1>6. CASE upset' = upset \cup {"lost"}
  <2>1. SecretsTold'
    BY <1>1, <1>6, ToldAtTheEnd
  <2>2. ListFollows'
    BY <1>6 DEF ListFollows
  <2>. QED  BY <1>3, <1>4, <2>1, <2>2 DEF KeyPageInv
<1>. QED  BY <1>1, <1>5, <1>6

LEMMA KeysKept == KeyPageInv /\ [KeyPageNext]_keyPageVars => KeyPageInv'
<1>. SUFFICES ASSUME KeyPageInv, [KeyPageNext]_keyPageVars
              PROVE  KeyPageInv'
  OBVIOUS
<1>1. CASE UNCHANGED keyPageVars
  BY <1>1 DEF keyPageVars, KeyPageInv, KeyPageTypeOK, OneDialog, Own, SecretsTold, ListFollows, Active
<1>2. ASSUME NEW k \in ApiKeys, SubmitCreate(k)
      PROVE  KeyPageInv'
  BY <1>2, SendKeeps DEF SubmitCreate
<1>3. CASE HandleDelete
  <2>1. panel.deleting \in ApiKeys
    BY <1>3 DEF HandleDelete, KeyPageInv, KeyPageTypeOK
  <2>. QED  BY <1>3, <2>1, SendKeeps DEF HandleDelete
<1>. QED
  BY <1>1, <1>2, <1>3, ScreenKeeps, LeaveKeysKeeps, ListKeeps, ServeCommandKeeps, CommandReturnsKeeps,
     CommandFailsKeeps DEF KeyPageNext

\* What settles when nothing runs.
LEMMA KeysAreSettled == KeyPageInv => KeysSettle
<1>. SUFFICES ASSUME KeyPageInv, Active = {}
              PROVE  /\ upset \subseteq {"elsewhere"} =>
                          \A n \in Commands : command[n].key \in keys => command[n].key \in told
                     /\ reload.at = "idle" /\ upset \subseteq {"left"} => offered = keys
  BY DEF KeysSettle
<1>1. /\ command \in [Commands -> Command] /\ keys \subseteq ApiKeys
      /\ SecretsTold /\ ListFollows
  BY DEF KeyPageInv, KeyPageTypeOK, Command
<1>2. \A n \in Commands : command[n].at \in {"idle", "done"}
  BY <1>1 DEF Active, Command
<1>3. NoKey \notin keys
  BY <1>1, KeysAssumption
<1>4. ASSUME upset \subseteq {"elsewhere"}, NEW n \in Commands, command[n].key \in keys
      PROVE  command[n].key \in told
  <2>1. command[n].at = "done"
    BY <1>1, <1>2, <1>3, <1>4 DEF SecretsTold
  <2>. QED  BY <1>1, <1>4, <2>1 DEF SecretsTold
<1>5. ASSUME reload.at = "idle", upset \subseteq {"left"}
      PROVE  offered = keys
  BY <1>1, <1>2, <1>5 DEF ListFollows
<1>. QED  BY <1>4, <1>5

\* A dialog closes by the user's hand, or because its own request returned.
LEMMA DialogsOnlyClosedByOwn == KeyPageInv /\ KeyPageNext => DialogsStand
<1>. SUFFICES ASSUME KeyPageInv, KeyPageNext
              PROVE  DialogsStand
  OBVIOUS
<1>1. CASE command' = command
  BY <1>1 DEF DialogsStand
<1>2. CASE panel' = panel
  BY <1>2 DEF DialogsStand
<1>3. CASE LeaveKeys
  BY <1>3 DEF LeaveKeys, OnList, DialogsStand
<1>4. ASSUME NEW n \in Commands, CommandReturns(n)
      PROVE  DialogsStand
  <2>1. command[n].at = "served" /\ n \in Active /\ command[n].kind \in {"create", "delete"}
    BY <1>4 DEF CommandReturns, Active, KeyPageInv, SecretsTold
  <2>2. CASE ~command[n].mounted
    BY <1>2, <1>4, <2>2 DEF CommandReturns
  <2>3. CASE command[n].mounted /\ command[n].kind = "create"
    <3>1. n \in Own("create")
      BY <2>1, <2>3 DEF Own
    <3>2. panel.secret = NoKey /\ panel.deleting = NoKey
      BY <3>1 DEF KeyPageInv, OneDialog
    <3>. QED  BY <3>2 DEF DialogsStand
  <2>4. CASE command[n].mounted /\ command[n].kind = "delete"
    <3>1. panel' = [panel EXCEPT !.deleting = NoKey]
      BY <1>4, <2>4 DEF CommandReturns
    <3>2. panel'.secret = panel.secret
      BY <3>1 DEF KeyPageInv, KeyPageTypeOK
    <3>3. n \in Own("delete")
      BY <2>1, <2>4 DEF Own
    <3>4. panel.deleting \in {NoKey, command[n].key}
      BY <3>3 DEF KeyPageInv, OneDialog
    <3>. QED  BY <2>1, <2>4, <3>2, <3>4 DEF DialogsStand
  <2>. QED  BY <2>1, <2>2, <2>3, <2>4
<1>. QED
  BY <1>1, <1>2, <1>3, <1>4
     DEF KeyPageNext, SubmitCreate, HandleDelete, Send, AskDelete, DeletedElsewhere, OpenGenerate,
         CloseGenerate, TypeName, CancelDelete, DismissSecret, ShowPanel, OpenKeys, ServeCommand,
         CommandFails, ReadKeys, KeysArrive, KeysLost

\* The page of API keys: whoever generated a key has been shown its secret and the list is
\* that of the table, unless an answer was lost, the page left or the keys changed elsewhere;
\* a secret stays until the user dismisses it (submitCreate, handleDelete).
THEOREM KeysAreTold == BrowserSpec => KeyPageSound
<1>. DEFINE Inv == focus = "keys" => KeyPageInv
<1>1. BrowserInit => Inv
  BY KeysAtFirst DEF BrowserInit
<1>2. Inv /\ [BrowserNext]_browserVars => Inv'
  BY PageMoves, KeysKept
<1>3. Inv => (focus = "keys" => KeysSettle)
  BY KeysAreSettled
<1>4. Inv /\ [BrowserNext]_browserVars => [focus = "keys" => DialogsStand]_keyPageVars
  BY PageMoves, DialogsOnlyClosedByOwn
<1>. QED  BY <1>1, <1>2, <1>3, <1>4, PTL DEF BrowserSpec, KeyPageSound
----------------------------------------------------------------------------
(***************************************************************************)
(* The page of subscribers.                                                *)
(***************************************************************************)

Sheets   == [id: People \cup {NoPerson}, opened: Preferences, preferences: Preferences,
             typed: People \cup {NoPerson}]
Dialogs  == [deleting: People \cup {NoPerson}, adding: BOOLEAN]
Fetches  == [at: {"idle", "asked", "read"}, rows: [People -> Rows], failed: BOOLEAN]
AnyRequest == [kind: {"none", "create", "update", "delete"}, at: {"idle", "sent", "answered", "done"},
               id: People \cup {NoPerson}, row: Rows, mounted: BOOLEAN]

\* A request is about a subscriber, and one that deletes writes no row.
OfSomebody ==
    \A n \in OnTheWay : /\ request[n].kind \in {"create", "update", "delete"} /\ request[n].id \in People
                        /\ request[n].kind = "delete" => request[n].row = Absent

\* Unless the user crossed it, a request is alone, and its dialog still open.
ItsOwnDialog ==
    "crossed" \notin spoiled =>
        /\ \A n, m \in OnTheWay : n = m
        /\ \A n \in OnTheWay : /\ request[n].kind = "update" => sheet.id = request[n].id
                               /\ request[n].kind = "delete" => dialog.deleting = request[n].id

\* Unless something went wrong, a save carries what its sheet still shows, and once it is
\* answered that is what the table has.
SavesTheSheet ==
    spoiled = {} => \A n \in OnTheWay : request[n].kind = "update" =>
        /\ request[n].row.preferences = Payload(sheet.preferences)
        /\ request[n].at = "answered" => people[request[n].id] = request[n].row

\* Unless an answer was lost or somebody else changed the table: with no answer to come, the
\* list that was fetched, or is cached with no fetch to come, is that of the table.
TableListed ==
    spoiled \subseteq {"crossed"} /\ (\A n \in Requests : request[n].at # "answered") =>
        /\ refetch.at = "idle" => listed = people
        /\ refetch.at = "read" => refetch.rows = people

SubscriberInv == SubscriberPageTypeOK /\ OfSomebody /\ ItsOwnDialog /\ SavesTheSheet /\ TableListed

LEMMA SubscriberTypes ==
    SubscriberPageTypeOK <=>
        /\ people \in [People -> Rows] /\ listed \in [People -> Rows]
        /\ refetch \in Fetches /\ sheet \in Sheets /\ dialog \in Dialogs
        /\ request \in [Requests -> AnyRequest] /\ spoiled \subseteq Spoilers
BY DEF SubscriberPageTypeOK, Fetches, Sheets, Dialogs, AnyRequest

LEMMA DefaultsAreSound ==
    /\ DefaultPreferences \in Preferences /\ Absent \in Rows /\ \A p \in People : Created(p) \in Rows
    /\ NoRequest \in AnyRequest /\ NoSheet \in Sheets /\ NoRefetch \in Fetches
<1>1. NoEntry \in {NoEntry} \cup {Entry(cs) : cs \in SUBSET Channels}
  OBVIOUS
<1>2. DefaultPreferences \in Preferences
  BY <1>1 DEF DefaultPreferences, Preferences
<1>3. Absent \in Rows /\ \A p \in People : Created(p) \in Rows
  BY <1>2 DEF Absent, Created, Rows
<1>4. NoRequest \in AnyRequest /\ NoSheet \in Sheets /\ NoRefetch \in Fetches
  BY <1>2, <1>3 DEF NoRequest, AnyRequest, NoSheet, Sheets, NoRefetch, Fetches
<1>. QED  BY <1>2, <1>3, <1>4

LEMMA SubscribersAtFirst == SubscriberPageInit => SubscriberInv
<1>. SUFFICES ASSUME SubscriberPageInit
              PROVE  SubscriberInv
  OBVIOUS
<1>1. people \in [People -> Rows]
  BY DefaultsAreSound DEF SubscriberPageInit
<1>2. request \in [Requests -> AnyRequest] /\ \A n \in Requests : request[n] = NoRequest
  BY DefaultsAreSound DEF SubscriberPageInit
<1>3. dialog \in Dialogs
  BY DEF SubscriberPageInit, Dialogs
<1>4. SubscriberPageTypeOK
  BY <1>1, <1>2, <1>3, SubscriberTypes, DefaultsAreSound DEF SubscriberPageInit
<1>5. OnTheWay = {}
  BY <1>2 DEF OnTheWay, NoRequest
<1>6. TableListed
  BY DEF SubscriberPageInit, TableListed, NoRefetch
<1>. QED  BY <1>4, <1>5, <1>6 DEF SubscriberInv, OfSomebody, ItsOwnDialog, SavesTheSheet

\* What the user opens, changes or closes while no request runs, or crosses one that does.
LEMMA UserActs ==
    ASSUME SubscriberInv, Cross, UNCHANGED <<people, listed, refetch, request>>,
           sheet' \in Sheets, dialog' \in Dialogs
    PROVE  SubscriberInv'
<1>1. OnTheWay' = OnTheWay /\ spoiled' = IF OnTheWay = {} THEN spoiled ELSE spoiled \cup {"crossed"}
  BY DEF OnTheWay, Cross
<1>2. SubscriberPageTypeOK'
  <2>1. spoiled' \subseteq Spoilers
    BY <1>1 DEF SubscriberInv, SubscriberPageTypeOK, Spoilers
  <2>. QED  BY <2>1 DEF SubscriberInv, SubscriberPageTypeOK, Sheets, Dialogs
<1>3. OfSomebody'
  BY <1>1 DEF SubscriberInv, OfSomebody
<1>4. ItsOwnDialog' /\ SavesTheSheet'
  BY <1>1 DEF ItsOwnDialog, SavesTheSheet
<1>5. TableListed'
  BY <1>1 DEF SubscriberInv, TableListed
<1>. QED  BY <1>2, <1>3, <1>4, <1>5 DEF SubscriberInv

\* What can be toggled stays preferences.
LEMMA TogglesAreSound ==
    ASSUME NEW s \in Sheets, NEW c \in Channels
    PROVE  /\ [s EXCEPT !.preferences.global = Flip(@, c)] \in Sheets
           /\ [s EXCEPT !.preferences.workflow = Entry(Flip(@.channels, c))] \in Sheets
<1>1. s.preferences \in Preferences
  BY DEF Sheets
<1>2. Flip(s.preferences.global, c) \in SUBSET Channels
  BY <1>1 DEF Preferences, Flip
<1>3. s.preferences.workflow.channels \in SUBSET Channels
  BY <1>1 DEF Preferences, NoEntry, Entry
<1>4. Flip(s.preferences.workflow.channels, c) \in SUBSET Channels
  BY <1>3 DEF Flip
<1>5. [s.preferences EXCEPT !.global = Flip(s.preferences.global, c)] \in Preferences
  BY <1>1, <1>2 DEF Preferences
<1>6. Entry(Flip(s.preferences.workflow.channels, c)) \in {Entry(cs) : cs \in SUBSET Channels}
  BY <1>4
<1>7. [s.preferences EXCEPT !.workflow = Entry(Flip(s.preferences.workflow.channels, c))] \in Preferences
  BY <1>1, <1>6 DEF Preferences
<1>8. [s EXCEPT !.preferences = [s.preferences EXCEPT !.global = Flip(s.preferences.global, c)]] \in Sheets
  BY <1>5 DEF Sheets
<1>9. [s EXCEPT !.preferences =
        [s.preferences EXCEPT !.workflow = Entry(Flip(s.preferences.workflow.channels, c))]] \in Sheets
  BY <1>7 DEF Sheets
<1>. QED  BY <1>8, <1>9

LEMMA ScreenActsKeep ==
    ASSUME SubscriberInv,
           \/ \E p \in People : OpenSheet(p) \/ OpenDelete(p)
           \/ \E c \in Channels : ToggleGlobal(c) \/ ToggleWorkflow(c)
           \/ TypeDetails \/ CloseSheet \/ CloseDelete \/ OpenAdd
    PROVE  SubscriberInv'
<1>1. sheet \in Sheets /\ dialog \in Dialogs /\ listed \in [People -> Rows]
  BY SubscriberTypes DEF SubscriberInv
<1>2. ASSUME NEW p \in People, OpenSheet(p)
      PROVE  SubscriberInv'
  <2>1. sheet' \in Sheets
    <3>1. listed[p].preferences \in Preferences
      BY <1>1 DEF Rows
    <3>. QED  BY <1>1, <1>2, <3>1 DEF OpenSheet, Sheets
  <2>. QED  BY <1>1, <1>2, <2>1, UserActs DEF OpenSheet
<1>3. ASSUME NEW s \in Sheets, ChangeSheet(s)
      PROVE  SubscriberInv'
  BY <1>1, <1>3, UserActs DEF ChangeSheet
<1>4. ASSUME NEW c \in Channels, ToggleGlobal(c) \/ ToggleWorkflow(c)
      PROVE  SubscriberInv'
  BY <1>1, <1>3, <1>4, TogglesAreSound DEF ToggleGlobal, ToggleWorkflow
<1>5. CASE TypeDetails
  <2>1. [sheet EXCEPT !.typed = sheet.id] \in Sheets
    BY <1>1 DEF Sheets
  <2>. QED  BY <1>3, <1>5, <2>1 DEF TypeDetails
<1>6. CASE CloseSheet
  <2>1. [NoSheet EXCEPT !.typed = sheet.typed] \in Sheets
    BY <1>1, DefaultsAreSound DEF Sheets
  <2>. QED  BY <1>1, <1>6, <2>1, UserActs DEF CloseSheet
<1>7. ASSUME NEW d \in Dialogs, ChangeDialog(d)
      PROVE  SubscriberInv'
  BY <1>1, <1>7, UserActs DEF ChangeDialog
<1>8. ASSUME NEW p \in People, OpenDelete(p)
      PROVE  SubscriberInv'
  <2>1. [dialog EXCEPT !.deleting = p] \in Dialogs
    BY <1>1 DEF Dialogs
  <2>. QED  BY <1>7, <1>8, <2>1 DEF OpenDelete
<1>9. CASE CloseDelete \/ OpenAdd
  <2>1. [dialog EXCEPT !.deleting = NoPerson] \in Dialogs /\ [dialog EXCEPT !.adding = TRUE] \in Dialogs
    BY <1>1 DEF Dialogs
  <2>. QED  BY <1>7, <1>9, <2>1 DEF CloseDelete, OpenAdd
<1>. QED  BY <1>2, <1>4, <1>5, <1>6, <1>8, <1>9

\* The dialog that adds is closed: only the requests it sent lose their callbacks.
LEMMA CloseAddKeeps == SubscriberInv /\ CloseAdd => SubscriberInv'
<1>. SUFFICES ASSUME SubscriberInv, CloseAdd
              PROVE  SubscriberInv'
  OBVIOUS
<1>1. /\ dialog' = [dialog EXCEPT !.adding = FALSE]
      /\ request' = [n \in Requests |-> IF request[n].kind = "create"
                                        THEN [request[n] EXCEPT !.mounted = FALSE] ELSE request[n]]
      /\ Cross
      /\ UNCHANGED <<people, listed, refetch, sheet>>
  BY DEF CloseAdd
<1>2. request \in [Requests -> AnyRequest] /\ dialog \in Dialogs
  BY SubscriberTypes DEF SubscriberInv
<1>3. /\ request' \in [Requests -> AnyRequest]
      /\ \A n \in Requests : /\ request'[n].at = request[n].at /\ request'[n].kind = request[n].kind
                             /\ request'[n].id = request[n].id /\ request'[n].row = request[n].row
  BY <1>1, <1>2 DEF AnyRequest
<1>4. OnTheWay' = OnTheWay /\ spoiled' = IF OnTheWay = {} THEN spoiled ELSE spoiled \cup {"crossed"}
  BY <1>1, <1>3 DEF OnTheWay, Cross
<1>5. SubscriberPageTypeOK'
  <2>1. dialog' \in Dialogs
    BY <1>1, <1>2 DEF Dialogs
  <2>2. spoiled' \subseteq Spoilers
    BY <1>4 DEF SubscriberInv, SubscriberPageTypeOK, Spoilers
  <2>. QED  BY <1>1, <1>3, <2>1, <2>2 DEF SubscriberInv, SubscriberPageTypeOK, Dialogs, AnyRequest
<1>6. OfSomebody'
  BY <1>3, <1>4 DEF SubscriberInv, OfSomebody, OnTheWay
<1>7. ItsOwnDialog' /\ SavesTheSheet'
  BY <1>4 DEF ItsOwnDialog, SavesTheSheet
<1>8. TableListed'
  BY <1>1, <1>3, <1>4 DEF SubscriberInv, TableListed
<1>. QED  BY <1>5, <1>6, <1>7, <1>8 DEF SubscriberInv

\* A request is sent: alone, or across another one.
LEMMA SendRequestKeeps ==
    ASSUME SubscriberInv, NEW kind \in {"create", "update", "delete"}, NEW p \in People, NEW row \in Rows,
           SendRequest(kind, p, row),
           kind = "update" => sheet.id = p /\ row.preferences = Payload(sheet.preferences),
           kind = "delete" => dialog.deleting = p /\ row = Absent
    PROVE  SubscriberInv'
<1>. DEFINE r == [kind |-> kind, at |-> "sent", id |-> p, row |-> row, mounted |-> TRUE]
<1>1. PICK n \in Requests : request[n].at = "idle" /\ request' = [request EXCEPT ![n] = r]
  BY DEF SendRequest
<1>2. Cross /\ UNCHANGED <<people, listed, refetch, sheet, dialog>>
  BY DEF SendRequest
<1>3. r \in AnyRequest /\ r.kind = kind /\ r.at = "sent" /\ r.id = p /\ r.row = row
  BY DEF AnyRequest
<1>. HIDE DEF r
<1>4. request \in [Requests -> AnyRequest]
  BY SubscriberTypes DEF SubscriberInv
<1>5. /\ request' \in [Requests -> AnyRequest] /\ request'[n] = r
      /\ \A m \in Requests \ {n} : request'[m] = request[m]
  BY <1>1, <1>3, <1>4
<1>6. /\ OnTheWay' = OnTheWay \cup {n} /\ n \notin OnTheWay
      /\ spoiled' = IF OnTheWay = {} THEN spoiled ELSE spoiled \cup {"crossed"}
  BY <1>1, <1>2, <1>3, <1>5 DEF OnTheWay, Cross
<1>7. SubscriberPageTypeOK'
  <2>1. spoiled' \subseteq Spoilers
    BY <1>6 DEF SubscriberInv, SubscriberPageTypeOK, Spoilers
  <2>. QED  BY <1>2, <1>5, <2>1 DEF SubscriberInv, SubscriberPageTypeOK, AnyRequest
<1>8. OfSomebody'
  BY <1>3, <1>5, <1>6 DEF SubscriberInv, OfSomebody, OnTheWay
<1>9. ItsOwnDialog'
  BY <1>2, <1>3, <1>5, <1>6 DEF ItsOwnDialog
<1>10. SavesTheSheet'
  BY <1>2, <1>3, <1>5, <1>6 DEF SavesTheSheet
<1>11. TableListed'
  <2>1. ASSUME \A m \in Requests : request'[m].at # "answered"
        PROVE  \A m \in Requests : request[m].at # "answered"
    BY <1>1, <1>5, <2>1
  <2>. QED  BY <1>2, <1>6, <2>1 DEF SubscriberInv, TableListed
<1>. QED  BY <1>7, <1>8, <1>9, <1>10, <1>11 DEF SubscriberInv

LEMMA UserSends ==
    ASSUME SubscriberInv,
           SaveSubscriber \/ ConfirmRemoval \/ \E p \in People : SubmitAdd(p)
    PROVE  SubscriberInv'
<1>1. sheet \in Sheets /\ dialog \in Dialogs
  BY SubscriberTypes DEF SubscriberInv
<1>2. CASE SaveSubscriber
  <2>. DEFINE row == [there |-> TRUE, details |-> sheet.typed, preferences |-> Payload(sheet.preferences)]
  <2>1. sheet.id \in People /\ sheet.typed \in People
    BY <1>1, <1>2 DEF SaveSubscriber, Sheets
  <2>2. Payload(sheet.preferences) \in Preferences
    BY <1>1 DEF Payload, Sheets, Preferences
  <2>3. row \in Rows /\ row.preferences = Payload(sheet.preferences)
    BY <2>1, <2>2 DEF Rows
  <2>4. SendRequest("update", sheet.id, row)
    BY <1>2 DEF SaveSubscriber
  <2>. HIDE DEF row
  <2>. QED  BY <2>1, <2>3, <2>4, SendRequestKeeps
<1>3. CASE ConfirmRemoval
  <2>1. dialog.deleting \in People
    BY <1>1, <1>3 DEF ConfirmRemoval, Dialogs
  <2>. QED  BY <1>3, <2>1, SendRequestKeeps, DefaultsAreSound DEF ConfirmRemoval
<1>4. ASSUME NEW p \in People, SubmitAdd(p)
      PROVE  SubscriberInv'
  BY <1>4, SendRequestKeeps, DefaultsAreSound DEF SubmitAdd
<1>. QED  BY <1>2, <1>3, <1>4

\* A request is answered.
LEMMA ServeRequestKeeps ==
    ASSUME SubscriberInv, NEW n \in Requests, ServeRequest(n) PROVE SubscriberInv'
<1>1. /\ request[n].at = "sent" /\ n \in OnTheWay
      /\ people' = [people EXCEPT ![request[n].id] = request[n].row]
      /\ request' = [request EXCEPT ![n].at = "answered"]
      /\ UNCHANGED <<listed, refetch, sheet, dialog, spoiled>>
  BY DEF ServeRequest, OnTheWay
<1>2. /\ request \in [Requests -> AnyRequest] /\ people \in [People -> Rows]
      /\ request[n].id \in People
  BY <1>1, SubscriberTypes DEF SubscriberInv, OfSomebody
<1>3. /\ request' \in [Requests -> AnyRequest] /\ request'[n].at = "answered"
      /\ \A m \in Requests : /\ request'[m].kind = request[m].kind /\ request'[m].id = request[m].id
                             /\ request'[m].row = request[m].row
                             /\ m # n => request'[m].at = request[m].at
  BY <1>1, <1>2 DEF AnyRequest
<1>4. people' \in [People -> Rows] /\ people'[request[n].id] = request[n].row
  BY <1>1, <1>2 DEF AnyRequest
<1>5. OnTheWay' = OnTheWay
  BY <1>1, <1>3 DEF OnTheWay
<1>6. SubscriberPageTypeOK'
  BY <1>1, <1>3, <1>4 DEF SubscriberInv, SubscriberPageTypeOK, AnyRequest
<1>7. OfSomebody'
  BY <1>3, <1>5 DEF SubscriberInv, OfSomebody, OnTheWay
<1>8. ItsOwnDialog'
  BY <1>1, <1>3, <1>5 DEF SubscriberInv, ItsOwnDialog, OnTheWay
<1>9. SavesTheSheet'
  <2>. SUFFICES ASSUME spoiled = {}, NEW m \in OnTheWay, request[m].kind = "update"
                PROVE  /\ request[m].row.preferences = Payload(sheet.preferences)
                       /\ people'[request[m].id] = request[m].row
    BY <1>1, <1>3, <1>5 DEF SavesTheSheet, OnTheWay
  <2>1. m = n
    BY <1>1 DEF SubscriberInv, ItsOwnDialog
  <2>. QED  BY <1>4, <2>1 DEF SubscriberInv, SavesTheSheet
<1>10. TableListed'
  BY <1>3 DEF TableListed
<1>. QED  BY <1>6, <1>7, <1>8, <1>9, <1>10 DEF SubscriberInv

LEMMA RequestOver ==
    ASSUME SubscriberInv, NEW n \in Requests, n \in OnTheWay, Done(n)
    PROVE  /\ request' \in [Requests -> AnyRequest] /\ request'[n].at = "done"
           /\ \A m \in Requests \ {n} : request'[m] = request[m]
           /\ OnTheWay' = OnTheWay \ {n}
<1>. DEFINE r == [NoRequest EXCEPT !.at = "done", !.id = request[n].id]
<1>1. request \in [Requests -> AnyRequest]
  BY SubscriberTypes DEF SubscriberInv
<1>2. request' = [request EXCEPT ![n] = r]
  BY DEF Done
<1>3. r \in AnyRequest /\ r.at = "done"
  BY <1>1, DefaultsAreSound DEF NoRequest, AnyRequest
<1>. HIDE DEF r
<1>4. /\ request' \in [Requests -> AnyRequest] /\ request'[n] = r
      /\ \A m \in Requests \ {n} : request'[m] = request[m]
  BY <1>1, <1>2, <1>3
<1>. QED  BY <1>3, <1>4 DEF OnTheWay

\* A request is over: its dialog may close, the others are as they were.
LEMMA OverKeeps ==
    ASSUME SubscriberInv, NEW n \in Requests, n \in OnTheWay, Done(n), UNCHANGED <<people, listed>>,
           sheet' \in Sheets, dialog' \in Dialogs, refetch' \in Fetches,
           spoiled \subseteq spoiled', spoiled' \subseteq Spoilers,
           TableListed'
    PROVE  SubscriberInv'
<1>1. /\ request' \in [Requests -> AnyRequest]
      /\ \A m \in Requests \ {n} : request'[m] = request[m]
      /\ OnTheWay' = OnTheWay \ {n}
  BY RequestOver
<1>2. SubscriberPageTypeOK'
  BY <1>1 DEF SubscriberInv, SubscriberPageTypeOK, Sheets, Dialogs, Fetches, AnyRequest
<1>3. OfSomebody'
  BY <1>1 DEF SubscriberInv, OfSomebody, OnTheWay
<1>4. "crossed" \notin spoiled' => OnTheWay' = {}
  BY <1>1 DEF SubscriberInv, ItsOwnDialog
<1>5. ItsOwnDialog' /\ SavesTheSheet'
  BY <1>4 DEF ItsOwnDialog, SavesTheSheet
<1>. QED  BY <1>2, <1>3, <1>5 DEF SubscriberInv

\* What a request's end leaves open.
LEMMA DialogClosedTyped ==
    ASSUME SubscriberInv, NEW n \in Requests, DialogClosed(n)
    PROVE  /\ sheet' \in Sheets /\ dialog' \in Dialogs
           /\ sheet'.id # sheet.id => request[n].kind = "update"
           /\ dialog'.deleting # dialog.deleting => request[n].kind = "delete"
<1>1. sheet \in Sheets /\ dialog \in Dialogs
  BY SubscriberTypes DEF SubscriberInv
<1>2. [NoSheet EXCEPT !.typed = sheet.typed] \in Sheets
  BY <1>1, DefaultsAreSound DEF Sheets
<1>3. sheet' \in Sheets /\ (sheet'.id # sheet.id => request[n].kind = "update")
  BY <1>1, <1>2 DEF DialogClosed
<1>4. dialog' \in Dialogs /\ (dialog'.deleting # dialog.deleting => request[n].kind = "delete")
  BY <1>1 DEF DialogClosed, Dialogs
<1>. QED  BY <1>3, <1>4

LEMMA RefetchTyped ==
    ASSUME SubscriberInv, Refetch
    PROVE  refetch' \in Fetches /\ refetch'.at = "asked"
<1>1. refetch \in Fetches
  BY SubscriberTypes DEF SubscriberInv
<1>2. refetch' = [at |-> "asked", rows |-> NoRefetch.rows, failed |-> refetch.failed]
  BY DEF Refetch, NoRefetch
<1>. QED  BY <1>1, <1>2, DefaultsAreSound DEF Fetches

LEMMA SucceedsKeeps == ASSUME SubscriberInv, NEW n \in Requests, Succeeds(n) PROVE SubscriberInv'
<1>1. /\ n \in OnTheWay /\ Done(n) /\ DialogClosed(n) /\ Refetch
      /\ UNCHANGED <<people, listed, spoiled>>
  BY DEF Succeeds, OnTheWay
<1>2. refetch' \in Fetches /\ refetch'.at = "asked"
  BY <1>1, RefetchTyped
<1>3. TableListed'
  BY <1>2 DEF TableListed
<1>4. spoiled \subseteq spoiled' /\ spoiled' \subseteq Spoilers
  BY <1>1 DEF SubscriberInv, SubscriberPageTypeOK
<1>. QED  BY <1>1, <1>2, <1>3, <1>4, DialogClosedTyped, OverKeeps

LEMMA FailsKeeps == ASSUME SubscriberInv, NEW n \in Requests, Fails(n) PROVE SubscriberInv'
<1>1. /\ n \in OnTheWay /\ Done(n) /\ UNCHANGED <<people, listed, refetch>>
      /\ DialogClosed(n) \/ UNCHANGED <<sheet, dialog>>
      /\ \/ request[n].at = "sent" /\ spoiled' = spoiled
         \/ spoiled' = spoiled \cup {"lost"}
  BY DEF Fails, OnTheWay
<1>2. sheet' \in Sheets /\ dialog' \in Dialogs /\ refetch' \in Fetches
  BY <1>1, DialogClosedTyped, SubscriberTypes DEF SubscriberInv
<1>3. spoiled \subseteq spoiled' /\ spoiled' \subseteq Spoilers
  BY <1>1 DEF SubscriberInv, SubscriberPageTypeOK, Spoilers
<1>4. TableListed'
  <2>1. CASE request[n].at = "sent" /\ spoiled' = spoiled
    <3>1. ASSUME \A m \in Requests : request'[m].at # "answered"
          PROVE  \A m \in Requests : request[m].at # "answered"
      BY <1>1, <2>1, <3>1, RequestOver
    <3>. QED  BY <1>1, <2>1, <3>1 DEF SubscriberInv, TableListed
  <2>2. CASE spoiled' = spoiled \cup {"lost"}
    BY <2>2 DEF TableListed
  <2>. QED  BY <1>1, <2>1, <2>2
<1>. QED  BY <1>1, <1>2, <1>3, <1>4, OverKeeps

\* The list is fetched, fails to arrive, or is asked for again.
LEMMA FetchKeeps ==
    ASSUME SubscriberInv, ReadSubscribers \/ ListArrives \/ Retry PROVE SubscriberInv'
<1>1. refetch \in Fetches /\ people \in [People -> Rows] /\ NoRefetch \in Fetches
  BY SubscriberTypes, DefaultsAreSound DEF SubscriberInv
<1>2. UNCHANGED <<people, sheet, dialog, request, spoiled>> /\ OnTheWay' = OnTheWay
  BY DEF ReadSubscribers, ListArrives, Retry, OnTheWay
<1>3. OfSomebody' /\ ItsOwnDialog' /\ SavesTheSheet'
  BY <1>2 DEF SubscriberInv, OfSomebody, ItsOwnDialog, SavesTheSheet
<1>4. listed' \in [People -> Rows] /\ refetch' \in Fetches /\ TableListed'
  <2>1. CASE ReadSubscribers
    <3>1. refetch' = [at |-> "read", rows |-> people, failed |-> refetch.failed] /\ listed' = listed
      BY <1>1, <2>1 DEF ReadSubscribers, Fetches
    <3>. QED  BY <1>1, <1>2, <3>1 DEF SubscriberInv, SubscriberPageTypeOK, TableListed, Fetches
  <2>2. CASE ListArrives
    <3>1. refetch.at = "read" /\ listed' = refetch.rows /\ refetch' = NoRefetch
      BY <2>2 DEF ListArrives
    <3>2. TableListed'
      BY <1>2, <3>1 DEF SubscriberInv, TableListed, NoRefetch
    <3>. QED  BY <1>1, <3>1, <3>2 DEF Fetches
  <2>3. CASE Retry
    BY <2>3, RefetchTyped DEF Retry, SubscriberInv, SubscriberPageTypeOK, TableListed
  <2>. QED  BY <2>1, <2>2, <2>3
<1>. QED
  BY <1>2, <1>3, <1>4 DEF SubscriberInv, SubscriberPageTypeOK, Fetches

LEMMA ListLostKeeps == SubscriberInv /\ ListLost => SubscriberInv'
<1>. SUFFICES ASSUME SubscriberInv, ListLost
              PROVE  SubscriberInv'
  OBVIOUS
<1>1. /\ refetch' = [NoRefetch EXCEPT !.failed = TRUE]
      /\ dialog' = [dialog EXCEPT !.adding = FALSE]
      /\ request' = [n \in Requests |-> IF request[n].kind \in {"create", "update"}
                                        THEN [request[n] EXCEPT !.mounted = FALSE] ELSE request[n]]
      /\ spoiled' = spoiled \cup {"lost"}
      /\ UNCHANGED <<people, listed>>
  BY DEF ListLost
<1>2. /\ request \in [Requests -> AnyRequest] /\ dialog \in Dialogs /\ sheet \in Sheets
      /\ NoRefetch \in Fetches
  BY SubscriberTypes, DefaultsAreSound DEF SubscriberInv
<1>3. /\ request' \in [Requests -> AnyRequest]
      /\ \A n \in Requests : /\ request'[n].at = request[n].at /\ request'[n].kind = request[n].kind
                             /\ request'[n].id = request[n].id /\ request'[n].row = request[n].row
  BY <1>1, <1>2 DEF AnyRequest
<1>4. sheet' \in Sheets /\ sheet'.id = sheet.id
  <2>1. sheet' = [id |-> sheet.id, opened |-> sheet.opened, preferences |-> sheet.opened, typed |-> NoPerson]
    BY <1>2, Zenon DEF ListLost, Sheets
  <2>. QED  BY <1>2, <2>1 DEF Sheets
<1>5. dialog' \in Dialogs /\ dialog'.deleting = dialog.deleting /\ refetch' \in Fetches
  BY <1>1, <1>2 DEF Dialogs, Fetches
<1>6. OnTheWay' = OnTheWay
  BY <1>3 DEF OnTheWay
<1>7. SubscriberPageTypeOK'
  <2>1. spoiled' \subseteq Spoilers
    BY <1>1 DEF SubscriberInv, SubscriberPageTypeOK, Spoilers
  <2>. QED  BY <1>1, <1>3, <1>4, <1>5, <2>1
            DEF SubscriberInv, SubscriberPageTypeOK, AnyRequest, Sheets, Dialogs, Fetches
<1>8. OfSomebody'
  BY <1>3, <1>6 DEF SubscriberInv, OfSomebody, OnTheWay
<1>9. ItsOwnDialog'
  BY <1>1, <1>3, <1>4, <1>5, <1>6 DEF SubscriberInv, ItsOwnDialog, OnTheWay
<1>10. SavesTheSheet' /\ TableListed'
  BY <1>1 DEF SavesTheSheet, TableListed
<1>. QED  BY <1>7, <1>8, <1>9, <1>10 DEF SubscriberInv

\* Somebody else deletes a subscriber, or turns their channels off.
LEMMA ElsewhereChanges ==
    ASSUME SubscriberInv, NEW p \in People, ChangedElsewhere(p)
    PROVE  /\ people' \in [People -> Rows]
           /\ \A q \in People : people'[q].there => people[q].there
<1>1. people \in [People -> Rows] /\ Absent \in Rows
  BY SubscriberTypes, DefaultsAreSound DEF SubscriberInv
<1>2. people' \in {[people EXCEPT ![p] = Absent], [people EXCEPT ![p].preferences.global = {}]}
  BY DEF ChangedElsewhere
<1>3. CASE people' = [people EXCEPT ![p] = Absent]
  BY <1>1, <1>3 DEF Absent
<1>4. CASE people' = [people EXCEPT ![p].preferences.global = {}]
  <2>. DEFINE prefs == [people[p].preferences EXCEPT !.global = {}]
              row == [people[p] EXCEPT !.preferences = prefs]
  <2>1. people[p] \in Rows
    BY <1>1
  <2>2. prefs \in Preferences
    BY <2>1 DEF Rows, Preferences
  <2>3. row \in Rows /\ row.there = people[p].there
    BY <2>1, <2>2 DEF Rows
  <2>4. people' = [people EXCEPT ![p] = row]
    BY <1>4
  <2>. HIDE DEF row
  <2>. QED  BY <1>1, <2>3, <2>4
<1>. QED  BY <1>2, <1>3, <1>4

LEMMA ChangedElsewhereKeeps ==
    ASSUME SubscriberInv, NEW p \in People, ChangedElsewhere(p) PROVE SubscriberInv'
<1>1. /\ spoiled' = spoiled \cup {"stale"} /\ UNCHANGED <<listed, refetch, sheet, dialog, request>>
      /\ OnTheWay' = OnTheWay
  BY DEF ChangedElsewhere, OnTheWay
<1>2. SubscriberPageTypeOK'
  BY <1>1, ElsewhereChanges DEF SubscriberInv, SubscriberPageTypeOK, Spoilers
<1>3. OfSomebody' /\ ItsOwnDialog'
  BY <1>1 DEF SubscriberInv, OfSomebody, ItsOwnDialog
<1>4. SavesTheSheet' /\ TableListed'
  BY <1>1 DEF SavesTheSheet, TableListed
<1>. QED  BY <1>2, <1>3, <1>4 DEF SubscriberInv

LEMMA SubscribersKept == SubscriberInv /\ [SubscriberPageNext]_subscriberPageVars => SubscriberInv'
<1>1. SubscriberInv /\ UNCHANGED subscriberPageVars => SubscriberInv'
  BY DEF subscriberPageVars, SubscriberInv, SubscriberPageTypeOK, OfSomebody, ItsOwnDialog, SavesTheSheet,
         TableListed, OnTheWay
<1>. QED
  BY <1>1, ScreenActsKeep, CloseAddKeeps, UserSends, ServeRequestKeeps, SucceedsKeeps, FailsKeeps,
     FetchKeeps, ListLostKeeps, ChangedElsewhereKeeps DEF SubscriberPageNext

\* What went wrong is not forgotten, and a request ends in one of two ways.
LEMMA OnlyMoreSpoiled == SubscriberPageNext => spoiled \subseteq spoiled'
BY DEF SubscriberPageNext, OpenSheet, OpenDelete, SubmitAdd, ToggleGlobal, ToggleWorkflow, TypeDetails,
       ChangeSheet, ChangeDialog, SendRequest, Cross, SaveSubscriber, CloseSheet, CloseDelete,
       ConfirmRemoval, OpenAdd, CloseAdd, Retry, ChangedElsewhere, ServeRequest, Succeeds, Fails,
       ReadSubscribers, ListArrives, ListLost

LEMMA EndsAreItsOwn ==
    ASSUME SubscriberInv, SubscriberPageNext, NEW n \in OnTheWay, request'[n].at = "done"
    PROVE  Succeeds(n) \/ Fails(n)
<1>1. /\ request \in [Requests -> AnyRequest] /\ n \in Requests
      /\ request[n].at # "done" /\ request[n].at # "idle"
  BY SubscriberTypes DEF SubscriberInv, OnTheWay
<1>2. request'[n] # request[n]
  BY <1>1
<1>3. ASSUME NEW kind, NEW p, NEW row, SendRequest(kind, p, row)
      PROVE  FALSE
  <2>1. PICK m \in Requests : /\ request[m].at = "idle"
                              /\ \E r : request' = [request EXCEPT ![m] = r]
    BY <1>3 DEF SendRequest
  <2>. QED  BY <1>1, <1>2, <2>1
<1>4. ~(SaveSubscriber \/ ConfirmRemoval \/ \E p \in People : SubmitAdd(p))
  BY <1>3 DEF SaveSubscriber, ConfirmRemoval, SubmitAdd
<1>5. ~CloseAdd /\ ~ListLost
  <2>1. ASSUME CloseAdd \/ ListLost
        PROVE  request'[n].at = request[n].at
    <3>1. \/ request'[n] = request[n] \/ request'[n] = [request[n] EXCEPT !.mounted = FALSE]
      BY <1>1, <2>1, Zenon DEF CloseAdd, ListLost
    <3>. QED  BY <1>1, <3>1 DEF AnyRequest
  <2>. QED  BY <1>1, <2>1
<1>6. ASSUME NEW m \in Requests, ServeRequest(m)
      PROVE  FALSE
  <2>1. request' = [request EXCEPT ![m].at = "answered"]
    BY <1>6 DEF ServeRequest
  <2>. QED  BY <1>1, <2>1 DEF AnyRequest
<1>7. ASSUME NEW m \in Requests, Succeeds(m) \/ Fails(m)
      PROVE  m = n
  <2>1. m \in OnTheWay /\ Done(m)
    BY <1>7 DEF Succeeds, Fails, OnTheWay
  <2>. QED  BY <1>1, <1>2, <2>1, RequestOver
<1>8. request' # request
  BY <1>2
<1>. QED
  BY <1>4, <1>5, <1>6, <1>7, <1>8
     DEF SubscriberPageNext, OpenSheet, OpenDelete, ToggleGlobal, ToggleWorkflow, TypeDetails, ChangeSheet,
         ChangeDialog, CloseSheet, CloseDelete, OpenAdd, Retry, ChangedElsewhere, ReadSubscribers,
         ListArrives

\* Saving leaves out an entry that says nothing new.
LEMMA PayloadShowsTheSame == \A prefs \in Preferences : Shown(Payload(prefs)) = Shown(prefs)
<1>. SUFFICES ASSUME NEW prefs \in Preferences
              PROVE  Shown(Payload(prefs)) = Shown(prefs)
  OBVIOUS
<1>1. CASE prefs.workflow.channels = prefs.global
  <2>1. Payload(prefs) = [prefs EXCEPT !.workflow = NoEntry]
    BY <1>1 DEF Payload
  <2>2. Payload(prefs).global = prefs.global /\ ~Payload(prefs).workflow.own
    BY <2>1 DEF Preferences, NoEntry
  <2>. QED  BY <1>1, <2>2 DEF Shown
<1>2. CASE prefs.workflow.channels # prefs.global
  BY <1>2 DEF Payload
<1>. QED  BY <1>1, <1>2

LEMMA SavesKeepChannels == SubscriberInv /\ SubscriberPageNext => SaveKeepsChannels
<1>. SUFFICES ASSUME SubscriberInv, SubscriberPageNext, NEW n \in OnTheWay, request[n].kind = "update",
                     request[n].at = "answered", spoiled' = {}
              PROVE  /\ sheet.id = request[n].id
                     /\ Shown(people[sheet.id].preferences) = Shown(sheet.preferences)
  BY DEF SaveKeepsChannels
<1>1. spoiled = {}
  BY OnlyMoreSpoiled
<1>2. sheet.id = request[n].id
  BY <1>1 DEF SubscriberInv, ItsOwnDialog
<1>3. people[sheet.id].preferences = Payload(sheet.preferences)
  BY <1>1, <1>2 DEF SubscriberInv, SavesTheSheet
<1>4. sheet.preferences \in Preferences
  BY SubscriberTypes DEF SubscriberInv, Sheets
<1>. QED  BY <1>2, <1>3, <1>4, PayloadShowsTheSame

LEMMA SheetsCloseOnOwn == SubscriberInv /\ SubscriberPageNext => OwnSheets
<1>. SUFFICES ASSUME SubscriberInv, SubscriberPageNext, "crossed" \notin spoiled', NEW n \in OnTheWay,
                     request'[n].at = "done"
              PROVE  /\ sheet.id # sheet'.id => request[n].kind = "update" /\ request[n].id = sheet.id
                     /\ dialog'.deleting # dialog.deleting =>
                          request[n].kind = "delete" /\ request[n].id = dialog.deleting
  BY DEF OwnSheets
<1>1. n \in Requests /\ (DialogClosed(n) \/ UNCHANGED <<sheet, dialog>>)
  BY EndsAreItsOwn DEF Succeeds, Fails, OnTheWay
<1>2. "crossed" \notin spoiled
  BY OnlyMoreSpoiled
<1>3. /\ request[n].kind = "update" => sheet.id = request[n].id
      /\ request[n].kind = "delete" => dialog.deleting = request[n].id
  BY <1>2 DEF SubscriberInv, ItsOwnDialog
<1>. QED  BY <1>1, <1>3, DialogClosedTyped

LEMMA NobodyComesBack == SubscriberInv /\ SubscriberPageNext => DeletedStays
<1>. SUFFICES ASSUME SubscriberInv, SubscriberPageNext, NEW p \in People, people'[p].there, ~people[p].there
              PROVE  \E n \in OnTheWay : request[n].kind = "create" /\ request[n].id = p
  BY DEF DeletedStays
<1>1. ASSUME NEW q \in People, ChangedElsewhere(q)
      PROVE  FALSE
  BY <1>1, ElsewhereChanges
<1>2. ASSUME NEW n \in Requests, ServeRequest(n)
      PROVE  n \in OnTheWay /\ request[n].kind = "create" /\ request[n].id = p
  <2>1. /\ n \in OnTheWay /\ (NotFound(n) => request[n].kind = "delete")
        /\ people' = [people EXCEPT ![request[n].id] = request[n].row]
    BY <1>2 DEF ServeRequest, OnTheWay
  <2>2. people \in [People -> Rows]
    BY SubscriberTypes DEF SubscriberInv
  <2>3. request[n].id = p /\ request[n].row.there
    BY <2>1, <2>2
  <2>4. request[n].kind # "delete"
    BY <2>1, <2>3 DEF SubscriberInv, OfSomebody, Absent
  <2>. QED  BY <2>1, <2>3, <2>4 DEF NotFound
<1>3. people' # people
  OBVIOUS
<1>. QED
  BY <1>1, <1>2, <1>3
     DEF SubscriberPageNext, OpenSheet, OpenDelete, SubmitAdd, ToggleGlobal, ToggleWorkflow, TypeDetails,
         ChangeSheet, ChangeDialog, SendRequest, SaveSubscriber, CloseSheet, CloseDelete, ConfirmRemoval,
         OpenAdd, CloseAdd, Retry, Succeeds, Fails, ReadSubscribers, ListArrives, ListLost

\* The page of subscribers: with nothing in flight it lists the table; a save leaves its
\* subscriber with the channels the sheet showed (buildPreferencesPayload); a dialog closes
\* at the end of its own request; and a save does not bring a deleted subscriber back.
THEOREM SubscribersAreListed == BrowserSpec => SubscriberPageSound
<1>. DEFINE Inv == focus = "subscribers" => SubscriberInv
<1>1. BrowserInit => Inv
  BY SubscribersAtFirst DEF BrowserInit
<1>2. Inv /\ [BrowserNext]_browserVars => Inv'
  BY PageMoves, SubscribersKept
<1>3. Inv => (focus = "subscribers" => ListSettles)
  BY DEF SubscriberInv, TableListed, ListSettles, OnTheWay
<1>4. Inv /\ [BrowserNext]_browserVars =>
        [focus = "subscribers" => SaveKeepsChannels /\ OwnSheets /\ DeletedStays]_subscriberPageVars
  BY PageMoves, SavesKeepChannels, SheetsCloseOnOwn, NobodyComesBack
<1>. QED  BY <1>1, <1>2, <1>3, <1>4, PTL DEF BrowserSpec, SubscriberPageSound
----------------------------------------------------------------------------
(***************************************************************************)
(* The page of workflows.                                                  *)
(***************************************************************************)

Shows  == [Workflows -> {"active", "paused", "hidden"}]
Screen == [shown: BOOLEAN, pausing: Workflows \cup {NoWorkflow}, deleting: Workflows \cup {NoWorkflow},
           mutating: Workflows \cup {NoWorkflow}, loading: BOOLEAN, naming: BOOLEAN, creating: BOOLEAN,
           list: Shows]
Operation == [kind: {"none", "load", "create", "pause", "resume", "archive"}, id: Workflows \cup {NoWorkflow},
              at: {"idle", "sent", "checked", "answered", "fetch", "read", "done"}, list: Shows,
              mounted: BOOLEAN]
OnRow == {"pause", "resume", "archive"}

\* Operations are numbered as they start; all but the loading of the list have a workflow.
InOrder ==
    /\ \A n, m \in Operations : operation[n].at = "idle" /\ m > n => operation[m].at = "idle"
    /\ \A n \in Operations : operation[n].at = "idle" => operation[n].id = NoWorkflow
    /\ \A n \in Underway : /\ operation[n].kind # "none"
                           /\ IF operation[n].kind = "load" THEN operation[n].id = NoWorkflow
                              ELSE operation[n].id \in Workflows
                           /\ operation[n].at = "checked" => operation[n].kind = "pause"
                           /\ operation[n].kind = "load" => operation[n].at \in {"fetch", "read"}
                           /\ operation[n].kind = "create" => operation[n].at \notin {"fetch", "read"}

\* Where the page holds something back, an operation of it is under way that lets go of it.
HeldBack ==
    /\ screen.mutating # NoWorkflow =>
        \E n \in Underway : operation[n].mounted /\ operation[n].kind \in OnRow
    /\ screen.loading =>
        \E n \in Underway : operation[n].mounted /\ operation[n].at \in {"fetch", "read"}
    /\ screen.creating =>
        \E n \in Underway : operation[n].mounted /\ operation[n].kind = "create"
    /\ ~screen.shown => screen = Elsewhere /\ \A n \in Underway : ~operation[n].mounted

\* A workflow that does not exist is nowhere to be seen, and only its creation is about it.
Unborn ==
    /\ \A w \in Workflows : status[w] = "absent" =>
        /\ screen.list[w] = "hidden" /\ screen.pausing # w /\ screen.deleting # w
        /\ \A n \in Operations : /\ operation[n].list[w] = "hidden"
                                 /\ operation[n].id = w => operation[n].kind = "create"
    /\ \A n \in Underway : operation[n].kind = "create" /\ operation[n].at = "sent" =>
        status[operation[n].id] = "absent"
    /\ \A n, m \in Operations :
        operation[n].kind = "create" /\ operation[m].kind = "create" /\ operation[m].id = operation[n].id => m = n

\* Unless something crossed: an operation is alone and of the page; its workflow is held
\* back, or not shown yet, and its dialog is still open.
AloneHere ==
    "crossed" \notin mishap =>
        /\ \A n, m \in Underway : n = m
        /\ \A n \in Underway :
            /\ operation[n].mounted
            /\ \A m \in Operations : m > n => operation[m].at = "idle"
            /\ operation[n].kind \in OnRow => screen.mutating = operation[n].id
            /\ operation[n].kind = "pause" => screen.pausing = operation[n].id
            /\ operation[n].kind = "archive" => screen.deleting = operation[n].id
            /\ operation[n].kind = "create" =>
                /\ screen.list[operation[n].id] = "hidden"
                /\ operation[n].id \notin {screen.pausing, screen.deleting}

\* With no mishap: a list that was read is that of the table, and so is the one that is shown
\* until an operation has taken effect.
ListsFollow ==
    mishap = {} =>
        /\ \A n \in Underway : operation[n].at = "read" => operation[n].list = ServerList
        /\ screen.shown /\ (\A n \in Underway : operation[n].at \in {"sent", "checked"}) =>
            screen.list = ServerList

\* And a workflow is what the last operation that took effect on it made of it.
Applied == {n \in Operations : operation[n].at \in {"answered", "fetch", "read", "done"}}
LastApplied ==
    mishap = {} => \A n \in Applied :
        operation[n].id \in Workflows /\ (\A m \in Applied : m > n => operation[m].id # operation[n].id) =>
            status[operation[n].id] = StatusAsked(operation[n].kind)

WorkflowPageInv ==
    /\ WorkflowPageTypeOK
    /\ InOrder /\ HeldBack /\ Unborn /\ AloneHere /\ ListsFollow /\ LastApplied

LEMMA WorkflowTypes ==
    WorkflowPageTypeOK <=>
        /\ status \in [Workflows -> Statuses] /\ screen \in Screen
        /\ operation \in [Operations -> Operation] /\ mishap \subseteq Mishaps
BY DEF WorkflowPageTypeOK, Screen, Operation, Shows

\* The list that the API answers with.
LEMMA ServerListTyped ==
    ASSUME status \in [Workflows -> Statuses]
    PROVE  /\ ServerList \in Shows /\ \A w \in Workflows : status[w] = "absent" => ServerList[w] = "hidden"
BY DEF ServerList, Listed, Statuses, Shows

LEMMA NothingTyped == Elsewhere \in Screen /\ NoOperation \in Operation
BY DEF Elsewhere, Screen, NoOperation, Operation, Shows

LEMMA WorkflowsAtFirst == WorkflowPageInit => WorkflowPageInv
<1>. SUFFICES ASSUME WorkflowPageInit
              PROVE  WorkflowPageInv
  OBVIOUS
<1>1. status \in [Workflows -> {"absent", "active", "paused"}] /\ status \in [Workflows -> Statuses]
  BY DEF WorkflowPageInit, Statuses
<1>2. ServerList \in Shows /\ \A w \in Workflows : status[w] = "absent" => ServerList[w] = "hidden"
  BY <1>1, ServerListTyped
<1>3. screen \in Screen
  BY <1>2, NothingTyped DEF WorkflowPageInit, Screen
<1>4. /\ screen.shown /\ screen.pausing = NoWorkflow /\ screen.deleting = NoWorkflow
      /\ screen.mutating = NoWorkflow /\ ~screen.loading /\ ~screen.creating /\ screen.list = ServerList
  BY DEF WorkflowPageInit, Elsewhere
<1>5. operation \in [Operations -> Operation] /\ \A n \in Operations : operation[n] = NoOperation
  BY NothingTyped DEF WorkflowPageInit
<1>6. Underway = {} /\ Applied = {}
  BY <1>5 DEF Underway, Applied, NoOperation
<1>7. WorkflowPageTypeOK
  BY <1>1, <1>3, <1>5, WorkflowTypes DEF WorkflowPageInit
<1>8. InOrder
  BY <1>5, <1>6 DEF InOrder, NoOperation
<1>9. HeldBack
  BY <1>4 DEF HeldBack
<1>10. Unborn
  BY <1>2, <1>4, <1>5, <1>6, WorkflowsAssumption DEF Unborn, NoOperation
<1>11. AloneHere /\ ListsFollow /\ LastApplied
  BY <1>4, <1>6 DEF AloneHere, ListsFollow, LastApplied
<1>. QED  BY <1>7, <1>8, <1>9, <1>10, <1>11 DEF WorkflowPageInv

\* A dialog opens, where there is none, about a workflow that is shown; or the form for a new one
\* opens or closes.
LEMMA ShowScreenKeeps ==
    ASSUME WorkflowPageInv, NEW s \in Screen, ShowScreen(s), screen.shown, s.shown,
           s.mutating = screen.mutating, s.loading = screen.loading, s.creating = screen.creating,
           s.list = screen.list,
           \/ s.pausing = screen.pausing /\ s.deleting = screen.deleting
           \/ /\ screen.pausing = NoWorkflow /\ screen.deleting = NoWorkflow
              /\ \A w \in {s.pausing, s.deleting} : w = NoWorkflow \/ screen.list[w] # "hidden"
    PROVE  WorkflowPageInv'
<1>1. screen' = s /\ UNCHANGED <<status, operation, mishap>>
  BY DEF ShowScreen
<1>2. Underway' = Underway /\ Applied' = Applied /\ ServerList' = ServerList
  BY <1>1 DEF Underway, Applied, ServerList
<1>3. WorkflowPageTypeOK'
  BY <1>1 DEF WorkflowPageInv, WorkflowPageTypeOK, Screen, Shows
<1>4. InOrder' /\ HeldBack'
  BY <1>1, <1>2 DEF WorkflowPageInv, InOrder, HeldBack
<1>5. Unborn'
  BY <1>1, <1>2, WorkflowsAssumption DEF WorkflowPageInv, Unborn
<1>6. AloneHere'
  BY <1>1, <1>2, WorkflowsAssumption DEF WorkflowPageInv, AloneHere, InOrder
<1>7. ListsFollow' /\ LastApplied'
  BY <1>1, <1>2 DEF WorkflowPageInv, ListsFollow, LastApplied
<1>. QED  BY <1>3, <1>4, <1>5, <1>6, <1>7 DEF WorkflowPageInv

StartsAt(kind) == IF kind = "load" THEN "fetch" ELSE "sent"

\* What a start leaves: one operation more, after all the others.
LEMMA StartedOne ==
    ASSUME WorkflowPageInv, NEW kind \in {"load", "create"} \cup OnRow, NEW w \in Workflows \cup {NoWorkflow},
           NEW s, StartOperation(kind, w, StartsAt(kind), s)
    PROVE  \E n \in Operations :
             /\ operation[n].at = "idle" /\ operation[n].id = NoWorkflow /\ n \notin Underway
             /\ \A m \in Operations : m > n => operation[m].at = "idle"
             /\ \A m \in Operations : m < n => operation[m].at # "idle"
             /\ operation' \in [Operations -> Operation]
             /\ operation'[n].kind = kind /\ operation'[n].id = w /\ operation'[n].at = StartsAt(kind)
             /\ operation'[n].mounted /\ operation'[n].list = [v \in Workflows |-> "hidden"]
             /\ \A m \in Operations \ {n} : operation'[m] = operation[m]
             /\ Underway' = Underway \cup {n}
             /\ Applied' = IF StartsAt(kind) = "fetch" THEN Applied \cup {n} ELSE Applied
<1>. DEFINE r == [NoOperation EXCEPT !.kind = kind, !.id = w, !.at = StartsAt(kind), !.mounted = TRUE]
<1>1. PICK n \in Operations : /\ operation[n].at = "idle" /\ \A m \in 1..(n - 1) : operation[m].at # "idle"
                              /\ operation' = [operation EXCEPT ![n] = r]
  BY Zenon DEF StartOperation
<1>2. /\ r \in Operation /\ r.kind = kind /\ r.id = w /\ r.at = StartsAt(kind) /\ r.mounted
      /\ r.list = [v \in Workflows |-> "hidden"]
  BY NothingTyped DEF NoOperation, Operation, OnRow, StartsAt
<1>. HIDE DEF r
<1>3. operation \in [Operations -> Operation]
  BY WorkflowTypes DEF WorkflowPageInv
<1>4. /\ operation' \in [Operations -> Operation] /\ operation'[n] = r
      /\ \A m \in Operations \ {n} : operation'[m] = operation[m]
  BY <1>1, <1>2, <1>3
<1>5. /\ \A m \in Operations : m > n => operation[m].at = "idle"
      /\ operation[n].id = NoWorkflow
  BY <1>1 DEF WorkflowPageInv, InOrder
<1>6. \A m \in Operations : m < n => operation[m].at # "idle"
  BY <1>1 DEF Operations
<1>7. n \notin Underway /\ n \notin Applied
  BY <1>1 DEF Underway, Applied
<1>8. Underway' = Underway \cup {n}
  BY <1>2, <1>4 DEF Underway, StartsAt
<1>9. Applied' = IF StartsAt(kind) = "fetch" THEN Applied \cup {n} ELSE Applied
  BY <1>2, <1>4, <1>7 DEF Applied, StartsAt
<1>. QED  BY <1>1, <1>2, <1>4, <1>5, <1>6, <1>7, <1>8, <1>9

\* An operation starts: the screen holds back what it is about, and it is alone unless it crosses
\* another one.
LEMMA StartKeeps ==
    ASSUME WorkflowPageInv, NEW kind \in {"load", "create"} \cup OnRow, NEW w \in Workflows \cup {NoWorkflow},
           NEW s \in Screen,
           StartOperation(kind, w, StartsAt(kind), s),
           kind = "load" <=> w = NoWorkflow,
           s.shown,
           s.pausing = screen.pausing, s.deleting = screen.deleting,
           s.mutating = screen.mutating \/ kind \in OnRow,
           s.loading => screen.loading \/ kind = "load",
           s.creating => screen.creating \/ kind = "create",
           IF kind = "load" THEN s.list = [v \in Workflows |-> "hidden"]
           ELSE s.list = screen.list /\ screen.shown,
           kind = "create" => status[w] = "absent" /\ \A n \in Operations : operation[n].id # w,
           kind \in OnRow => s.mutating = w /\ status[w] # "absent",
           kind = "pause" => s.pausing = w,
           kind = "archive" => s.deleting = w,
           "crossed" \notin mishap' => Underway = {}
    PROVE  WorkflowPageInv'
<1>0. StartsAt(kind) = IF kind = "load" THEN "fetch" ELSE "sent"
  BY DEF StartsAt
<1>1. PICK n \in Operations :
        /\ operation[n].at = "idle" /\ operation[n].id = NoWorkflow /\ n \notin Underway
        /\ \A m \in Operations : m > n => operation[m].at = "idle"
        /\ \A m \in Operations : m < n => operation[m].at # "idle"
        /\ operation' \in [Operations -> Operation]
        /\ operation'[n].kind = kind /\ operation'[n].id = w /\ operation'[n].at = StartsAt(kind)
        /\ operation'[n].mounted /\ operation'[n].list = [v \in Workflows |-> "hidden"]
        /\ \A m \in Operations \ {n} : operation'[m] = operation[m]
        /\ Underway' = Underway \cup {n}
        /\ Applied' = IF StartsAt(kind) = "fetch" THEN Applied \cup {n} ELSE Applied
  BY StartedOne, Zenon
<1>2. /\ screen' = s /\ status' = status
      /\ mishap' \in {mishap, mishap \cup {"crossed"}}
  BY DEF StartOperation
<1>3. ServerList' = ServerList
  BY <1>2 DEF ServerList
<1>4. WorkflowPageTypeOK'
  <2>1. mishap' \subseteq Mishaps
    BY <1>2 DEF WorkflowPageInv, WorkflowPageTypeOK, Mishaps
  <2>. QED  BY <1>0, <1>1, <1>2, <2>1 DEF WorkflowPageInv, WorkflowPageTypeOK, Operation, Screen, Shows
<1>5. InOrder'
  <2>1. \A l, m \in Operations : operation'[l].at = "idle" /\ m > l => operation'[m].at = "idle"
    <3>. SUFFICES ASSUME NEW l \in Operations, NEW m \in Operations, operation'[l].at = "idle", m > l
                  PROVE  operation'[m].at = "idle"
      OBVIOUS
    <3>1. l # n /\ operation[l].at = "idle"
      BY <1>0, <1>1
    <3>2. m # n
      BY <1>0, <1>1, <3>1
    <3>. QED  BY <1>0, <1>1, <3>1, <3>2 DEF WorkflowPageInv, InOrder
  <2>2. \A m \in Operations : operation'[m].at = "idle" => operation'[m].id = NoWorkflow
    BY <1>0, <1>1 DEF WorkflowPageInv, InOrder
  <2>3. \A m \in Underway' : /\ operation'[m].kind # "none"
                             /\ IF operation'[m].kind = "load" THEN operation'[m].id = NoWorkflow
                                ELSE operation'[m].id \in Workflows
                             /\ operation'[m].at = "checked" => operation'[m].kind = "pause"
                             /\ operation'[m].kind = "load" => operation'[m].at \in {"fetch", "read"}
                             /\ operation'[m].kind = "create" => operation'[m].at \notin {"fetch", "read"}
    <3>1. \A m \in Underway : m # n /\ operation'[m] = operation[m]
      BY <1>1 DEF Underway
    <3>. QED  BY <1>0, <1>1, <3>1 DEF WorkflowPageInv, InOrder, OnRow
  <2>. QED  BY <2>1, <2>2, <2>3 DEF InOrder
<1>6. \A m \in Underway : m \in Operations /\ m # n /\ operation'[m] = operation[m]
  BY <1>1 DEF Underway
<1>7. HeldBack'
  BY <1>0, <1>1, <1>2, <1>6 DEF WorkflowPageInv, HeldBack
<1>8. Unborn'
  <2>1. ASSUME NEW v \in Workflows, status[v] = "absent"
        PROVE  /\ s.list[v] = "hidden" /\ s.pausing # v /\ s.deleting # v
               /\ \A m \in Operations : /\ operation'[m].list[v] = "hidden"
                                        /\ operation'[m].id = v => operation'[m].kind = "create"
    BY <1>0, <1>1, <2>1, WorkflowsAssumption DEF WorkflowPageInv, Unborn
  <2>2. \A m \in Underway' : operation'[m].kind = "create" /\ operation'[m].at = "sent" =>
          status[operation'[m].id] = "absent"
    BY <1>0, <1>1, <1>6 DEF WorkflowPageInv, Unborn
  <2>3. \A l, m \in Operations :
          /\ operation'[l].kind = "create" /\ operation'[m].kind = "create"
          /\ operation'[m].id = operation'[l].id
          => m = l
    BY <1>1 DEF WorkflowPageInv, Unborn
  <2>. QED  BY <1>2, <2>1, <2>2, <2>3 DEF Unborn
<1>9. ASSUME "crossed" \notin mishap'
      PROVE  Underway' = {n}
  BY <1>0, <1>1, <1>9
<1>10. AloneHere'
  <2>1. kind = "create" => s.list[w] = "hidden" /\ w \notin {s.pausing, s.deleting}
    BY WorkflowsAssumption DEF WorkflowPageInv, Unborn
  <2>2. \A m \in Operations : m > n => operation'[m].at = "idle"
    BY <1>1
  <2>. QED  BY <1>0, <1>1, <1>2, <1>9, <2>1, <2>2 DEF AloneHere
<1>11. ListsFollow'
  <2>. SUFFICES ASSUME mishap' = {}
                PROVE  /\ \A m \in Underway' : operation'[m].at = "read" => operation'[m].list = ServerList
                       /\ s.shown /\ (\A m \in Underway' : operation'[m].at \in {"sent", "checked"}) =>
                            s.list = ServerList
    BY <1>2, <1>3 DEF ListsFollow
  <2>1. Underway' = {n} /\ Underway = {} /\ mishap = {}
    BY <1>2, <1>9
  <2>. QED  BY <1>0, <1>1, <2>1 DEF WorkflowPageInv, ListsFollow
<1>12. LastApplied'
  <2>. SUFFICES ASSUME mishap' = {}, NEW l \in Applied', operation'[l].id \in Workflows,
                       \A m \in Applied' : m > l => operation'[m].id # operation'[l].id
                PROVE  status[operation'[l].id] = StatusAsked(operation'[l].kind)
    BY <1>2 DEF LastApplied
  <2>1. mishap = {}
    BY <1>2
  <2>2. l # n
    BY <1>0, <1>1, WorkflowsAssumption DEF Applied
  <2>3. l \in Applied /\ l \in Operations /\ operation'[l] = operation[l]
    BY <1>0, <1>1, <2>2 DEF Applied
  <2>4. \A m \in Applied : m > l => operation[m].id # operation[l].id
    <3>1. \A m \in Applied : m \in Operations \ {n} /\ m \in Applied'
      BY <1>1 DEF Applied
    <3>. QED  BY <1>0, <1>1, <2>3, <3>1
  <2>. QED  BY <2>1, <2>3, <2>4 DEF WorkflowPageInv, LastApplied
<1>. QED  BY <1>4, <1>5, <1>7, <1>8, <1>10, <1>11, <1>12 DEF WorkflowPageInv

\* The screen and the list of an operation that ends.
LEMMA FinallyOnly ==
    ASSUME NEW n \in Operations, NEW s \in Screen,
           operation[n].kind \in {"load", "create", "pause", "resume", "archive"}
    PROVE  /\ Finally(n, s) \in Screen
           /\ Finally(n, s).shown = s.shown /\ Finally(n, s).list = s.list
           /\ Finally(n, s).loading = s.loading /\ Finally(n, s).naming = s.naming
           /\ Finally(n, s).mutating = IF operation[n].kind \in OnRow THEN NoWorkflow ELSE s.mutating
           /\ (Finally(n, s).creating => s.creating /\ operation[n].kind # "create")
           /\ Finally(n, s).pausing = IF operation[n].kind = "pause" THEN NoWorkflow ELSE s.pausing
           /\ Finally(n, s).deleting = IF operation[n].kind = "archive" THEN NoWorkflow ELSE s.deleting
<1>1. CASE operation[n].kind = "load"
  BY <1>1 DEF Finally, Screen, OnRow
<1>2. CASE operation[n].kind = "create"
  BY <1>2 DEF Finally, Screen, OnRow
<1>3. CASE operation[n].kind = "resume"
  BY <1>3 DEF Finally, Screen, OnRow
<1>4. CASE operation[n].kind = "pause"
  <2>. DEFINE f == [s EXCEPT !.mutating = NoWorkflow, !.pausing = NoWorkflow]
  <2>1. Finally(n, s) = f
    BY <1>4 DEF Finally
  <2>2. /\ f \in Screen /\ f.shown = s.shown /\ f.list = s.list /\ f.loading = s.loading
        /\ f.naming = s.naming /\ f.mutating = NoWorkflow /\ f.creating = s.creating
        /\ f.pausing = NoWorkflow /\ f.deleting = s.deleting
    BY DEF Screen
  <2>. QED  BY <1>4, <2>1, <2>2 DEF OnRow, Screen
<1>5. CASE operation[n].kind = "archive"
  <2>. DEFINE f == [s EXCEPT !.mutating = NoWorkflow, !.deleting = NoWorkflow]
  <2>1. Finally(n, s) = f
    BY <1>5 DEF Finally
  <2>2. /\ f \in Screen /\ f.shown = s.shown /\ f.list = s.list /\ f.loading = s.loading
        /\ f.naming = s.naming /\ f.mutating = NoWorkflow /\ f.creating = s.creating
        /\ f.pausing = s.pausing /\ f.deleting = NoWorkflow
    BY DEF Screen
  <2>. QED  BY <1>5, <2>1, <2>2 DEF OnRow, Screen
<1>. QED  BY <1>1, <1>2, <1>3, <1>4, <1>5

LEMMA FinishedOne ==
    ASSUME WorkflowPageInv, NEW n \in Operations, n \in Underway,
           operation' = [operation EXCEPT ![n] = Finished(n)]
    PROVE  /\ operation' \in [Operations -> Operation]
           /\ operation'[n].at = "done" /\ operation'[n].kind = operation[n].kind
           /\ operation'[n].id = operation[n].id
           /\ operation'[n].list = [w \in Workflows |-> "hidden"]
           /\ \A m \in Operations \ {n} : operation'[m] = operation[m]
           /\ Underway' = Underway \ {n} /\ Applied' = Applied \cup {n}
<1>1. operation \in [Operations -> Operation]
  BY WorkflowTypes DEF WorkflowPageInv
<1>. DEFINE r == [NoOperation EXCEPT !.kind = operation[n].kind, !.id = operation[n].id, !.at = "done"]
<1>2. operation' = [operation EXCEPT ![n] = r]
  BY DEF Finished
<1>3. /\ r \in Operation /\ r.at = "done" /\ r.kind = operation[n].kind /\ r.id = operation[n].id
      /\ r.list = [w \in Workflows |-> "hidden"]
  <2>1. operation[n] \in Operation
    BY <1>1
  <2>. QED  BY <2>1, NothingTyped DEF NoOperation, Operation
<1>. HIDE DEF r
<1>4. /\ operation' \in [Operations -> Operation] /\ operation'[n] = r
      /\ \A m \in Operations \ {n} : operation'[m] = operation[m]
  BY <1>1, <1>2, <1>3
<1>5. Underway' = Underway \ {n} /\ Applied' = Applied \cup {n}
  BY <1>3, <1>4 DEF Underway, Applied
<1>. QED  BY <1>3, <1>4, <1>5

\* An operation ends, with the list that it read or with none.
LEMMA FinishKeeps ==
    ASSUME WorkflowPageInv, NEW n \in Operations, n \in Underway, NEW s \in Screen, FinishOperation(n, s),
           s.shown = screen.shown, s.mutating = screen.mutating, s.creating = screen.creating,
           s.pausing = screen.pausing, s.deleting = screen.deleting,
           s.loading => screen.loading /\ operation[n].at \notin {"fetch", "read"},
           \A w \in Workflows : status[w] = "absent" => s.list[w] = "hidden",
           mishap \subseteq mishap', mishap' \subseteq Mishaps,
           mishap' = {} => operation[n].at = "read" /\ s.list = operation[n].list
    PROVE  WorkflowPageInv'
<1>1. /\ operation' \in [Operations -> Operation]
      /\ operation'[n].at = "done" /\ operation'[n].kind = operation[n].kind
      /\ operation'[n].id = operation[n].id
      /\ operation'[n].list = [w \in Workflows |-> "hidden"]
      /\ \A m \in Operations \ {n} : operation'[m] = operation[m]
      /\ Underway' = Underway \ {n} /\ Applied' = Applied \cup {n}
  BY FinishedOne DEF FinishOperation
<1>2. status' = status /\ screen' = IF operation[n].mounted THEN Finally(n, s) ELSE screen
  BY DEF FinishOperation
<1>3. /\ operation \in [Operations -> Operation] /\ screen \in Screen
      /\ operation[n].kind \in {"load", "create", "pause", "resume", "archive"}
  BY WorkflowTypes DEF WorkflowPageInv, InOrder, Operation
<1>4. /\ Finally(n, s) \in Screen
      /\ Finally(n, s).shown = s.shown /\ Finally(n, s).list = s.list
      /\ Finally(n, s).loading = s.loading
      /\ Finally(n, s).mutating = IF operation[n].kind \in OnRow THEN NoWorkflow ELSE s.mutating
      /\ (Finally(n, s).creating => s.creating /\ operation[n].kind # "create")
      /\ Finally(n, s).pausing = IF operation[n].kind = "pause" THEN NoWorkflow ELSE s.pausing
      /\ Finally(n, s).deleting = IF operation[n].kind = "archive" THEN NoWorkflow ELSE s.deleting
  BY <1>3, FinallyOnly
<1>5. ServerList' = ServerList
  BY <1>2 DEF ServerList
<1>6. WorkflowPageTypeOK'
  <2>1. screen' \in Screen /\ status' \in [Workflows -> Statuses]
    BY <1>2, <1>3, <1>4, WorkflowTypes DEF WorkflowPageInv
  <2>. QED  BY <1>1, <2>1 DEF WorkflowPageTypeOK, Screen, Shows, Operation
<1>7. \A m \in Underway' : m \in Operations \ {n} /\ m \in Underway /\ operation'[m] = operation[m]
  BY <1>1 DEF Underway
<1>8. InOrder'
  <2>1. operation[n].at # "idle"
    BY DEF Underway
  <2>. QED  BY <1>1, <1>7, <2>1 DEF WorkflowPageInv, InOrder
<1>9. HeldBack'
  <2>1. CASE operation[n].mounted
    <3>1. screen.shown /\ screen' = Finally(n, s)
      BY <1>2, <2>1 DEF WorkflowPageInv, HeldBack
    <3>2. screen'.mutating # NoWorkflow =>
            \E m \in Underway' : operation'[m].mounted /\ operation'[m].kind \in OnRow
      BY <1>1, <1>4, <1>7, <3>1 DEF WorkflowPageInv, HeldBack, Underway
    <3>3. screen'.loading =>
            \E m \in Underway' : operation'[m].mounted /\ operation'[m].at \in {"fetch", "read"}
      BY <1>1, <1>4, <1>7, <3>1 DEF WorkflowPageInv, HeldBack, Underway
    <3>4. screen'.creating =>
            \E m \in Underway' : operation'[m].mounted /\ operation'[m].kind = "create"
      <4>1. screen'.creating => screen.creating /\ operation[n].kind # "create"
        BY <1>4, <3>1
      <4>. QED  BY <1>1, <1>7, <4>1 DEF WorkflowPageInv, HeldBack, Underway
    <3>. QED  BY <1>4, <3>1, <3>2, <3>3, <3>4 DEF HeldBack
  <2>2. CASE ~operation[n].mounted
    <3>1. \A m \in Underway : operation[m].mounted => m \in Underway' /\ operation'[m] = operation[m]
      BY <1>1, <2>2 DEF Underway
    <3>. QED  BY <1>2, <1>7, <2>2, <3>1 DEF WorkflowPageInv, HeldBack
  <2>. QED  BY <2>1, <2>2
<1>10. Unborn'
  <2>1. ASSUME NEW w \in Workflows, status[w] = "absent"
        PROVE  /\ screen'.list[w] = "hidden" /\ screen'.pausing # w /\ screen'.deleting # w
               /\ \A m \in Operations : /\ operation'[m].list[w] = "hidden"
                                        /\ operation'[m].id = w => operation'[m].kind = "create"
    BY <1>1, <1>2, <1>4, <2>1, WorkflowsAssumption DEF WorkflowPageInv, Unborn
  <2>2. \A m \in Underway' : operation'[m].kind = "create" /\ operation'[m].at = "sent" =>
          status[operation'[m].id] = "absent"
    BY <1>7 DEF WorkflowPageInv, Unborn
  <2>3. \A m \in Operations : operation'[m].kind = operation[m].kind /\ operation'[m].id = operation[m].id
    BY <1>1
  <2>. QED  BY <1>2, <2>1, <2>2, <2>3 DEF WorkflowPageInv, Unborn
<1>11. "crossed" \notin mishap' => Underway' = {} /\ operation[n].mounted
  BY <1>1 DEF WorkflowPageInv, AloneHere
<1>12. AloneHere'
  BY <1>11 DEF AloneHere
<1>13. ListsFollow'
  <2>. SUFFICES ASSUME mishap' = {}
                PROVE  screen'.list = ServerList
    BY <1>5, <1>11 DEF ListsFollow
  <2>. QED  BY <1>2, <1>4, <1>11 DEF WorkflowPageInv, ListsFollow
<1>14. LastApplied'
  <2>. SUFFICES ASSUME mishap' = {}
                PROVE  LastApplied'
    BY DEF LastApplied
  <2>1. Applied' = Applied /\ mishap = {}
    BY <1>1 DEF Applied
  <2>2. \A m \in Operations : operation'[m].kind = operation[m].kind /\ operation'[m].id = operation[m].id
    BY <1>1
  <2>. QED  BY <1>2, <2>1, <2>2 DEF WorkflowPageInv, LastApplied, Applied
<1>. QED  BY <1>6, <1>8, <1>9, <1>10, <1>12, <1>13, <1>14 DEF WorkflowPageInv

\* An operation goes one step further.
LEMMA MovedOne ==
    ASSUME WorkflowPageInv, NEW n \in Operations, n \in Underway,
           NEW there \in {"checked", "answered", "fetch"},
           operation' = [operation EXCEPT ![n].at = there]
    PROVE  /\ operation' \in [Operations -> Operation]
           /\ operation'[n].at = there /\ operation'[n].kind = operation[n].kind
           /\ operation'[n].id = operation[n].id /\ operation'[n].list = operation[n].list
           /\ operation'[n].mounted = operation[n].mounted
           /\ \A m \in Operations \ {n} : operation'[m] = operation[m]
           /\ Underway' = Underway
           /\ Applied' = IF there = "checked" THEN Applied \ {n} ELSE Applied \cup {n}
<1>1. operation \in [Operations -> Operation]
  BY WorkflowTypes DEF WorkflowPageInv
<1>. DEFINE r == [operation[n] EXCEPT !.at = there]
<1>2. operation' = [operation EXCEPT ![n] = r]
  OBVIOUS
<1>3. /\ r \in Operation /\ r.at = there /\ r.kind = operation[n].kind /\ r.id = operation[n].id
      /\ r.list = operation[n].list /\ r.mounted = operation[n].mounted
  <2>1. operation[n] \in Operation
    BY <1>1
  <2>. QED  BY <2>1 DEF Operation
<1>. HIDE DEF r
<1>4. /\ operation' \in [Operations -> Operation] /\ operation'[n] = r
      /\ \A m \in Operations \ {n} : operation'[m] = operation[m]
  BY <1>1, <1>2, <1>3
<1>5. Underway' = Underway
  BY <1>3, <1>4 DEF Underway
<1>6. Applied' = IF there = "checked" THEN Applied \ {n} ELSE Applied \cup {n}
  BY <1>3, <1>4 DEF Applied
<1>. QED  BY <1>3, <1>4, <1>5, <1>6

\* The API takes a request a step further: at its last step, the workflow is as was asked.
LEMMA ServedKeeps ==
    ASSUME WorkflowPageInv, NEW n \in Operations, operation[n].at \in {"sent", "checked"},
           NEW there \in {"checked", "answered"},
           Served(n, operation[n].at, there),
           there = "checked" => operation[n].kind = "pause" /\ operation[n].at = "sent" /\ status' = status,
           there = "answered" => /\ status' \in [Workflows -> Statuses]
                                 /\ status'[operation[n].id] = StatusAsked(operation[n].kind)
                                 /\ \A v \in Workflows \ {operation[n].id} : status'[v] = status[v]
    PROVE  WorkflowPageInv'
<1>1. n \in Underway /\ n \notin Applied
  BY DEF Underway, Applied
<1>2. operation' = [operation EXCEPT ![n].at = there] /\ screen' = screen /\ mishap' = mishap
  BY DEF Served
<1>3. /\ operation' \in [Operations -> Operation]
      /\ operation'[n].at = there /\ operation'[n].kind = operation[n].kind
      /\ operation'[n].id = operation[n].id /\ operation'[n].list = operation[n].list
      /\ operation'[n].mounted = operation[n].mounted
      /\ \A m \in Operations \ {n} : operation'[m] = operation[m]
      /\ Underway' = Underway
      /\ Applied' = IF there = "checked" THEN Applied \ {n} ELSE Applied \cup {n}
  BY <1>1, <1>2, MovedOne
<1>4. operation[n].id \in Workflows /\ operation[n].kind \in {"create", "pause", "resume", "archive"}
  <2>1. operation[n] \in Operation
    BY WorkflowTypes DEF WorkflowPageInv
  <2>. QED  BY <1>1, <2>1 DEF WorkflowPageInv, InOrder, Operation
<1>5. WorkflowPageTypeOK'
  BY <1>2, <1>3 DEF WorkflowPageInv, WorkflowPageTypeOK, Operation, Shows
<1>6. InOrder'
  <2>1. operation[n].at # "idle"
    BY <1>1 DEF Underway
  <2>2. \A m \in Operations : /\ operation'[m].at = "idle" <=> operation[m].at = "idle"
                              /\ operation'[m].id = operation[m].id /\ operation'[m].kind = operation[m].kind
    BY <1>3, <2>1
  <2>3. \A m \in Underway : m = n \/ operation'[m] = operation[m]
    BY <1>3 DEF Underway
  <2>. QED  BY <1>1, <1>3, <1>4, <2>2, <2>3 DEF WorkflowPageInv, InOrder
<1>7. HeldBack'
  <2>1. \A m \in Underway : /\ operation'[m].mounted = operation[m].mounted
                            /\ operation'[m].kind = operation[m].kind
                            /\ operation[m].at \in {"fetch", "read"} => operation'[m].at = operation[m].at
    BY <1>1, <1>3 DEF Underway
  <2>. QED  BY <1>2, <1>3, <2>1 DEF WorkflowPageInv, HeldBack
<1>8. Unborn'
  <2>1. ASSUME NEW w \in Workflows, status'[w] = "absent"
        PROVE  status[w] = "absent"
    BY <1>4, <2>1 DEF StatusAsked
  <2>2. \A m \in Operations : /\ operation'[m].id = operation[m].id /\ operation'[m].kind = operation[m].kind
                              /\ operation'[m].list = operation[m].list
    BY <1>3
  <2>3. ASSUME NEW m \in Underway', operation'[m].kind = "create", operation'[m].at = "sent"
        PROVE  status'[operation'[m].id] = "absent"
    <3>1. m \in Operations /\ m \in Underway /\ m # n /\ operation'[m] = operation[m]
      BY <1>3, <2>3 DEF Underway
    <3>2. operation[m].id \in Workflows /\ status[operation[m].id] = "absent"
      BY <2>3, <3>1 DEF WorkflowPageInv, InOrder, Unborn
    <3>3. operation[m].id # operation[n].id
      BY <2>3, <3>1, <3>2 DEF WorkflowPageInv, Unborn
    <3>. QED  BY <3>1, <3>2, <3>3
  <2>. QED  BY <1>2, <2>1, <2>2, <2>3 DEF WorkflowPageInv, Unborn
<1>9. AloneHere'
  <2>1. \A m \in Operations : /\ operation'[m].id = operation[m].id /\ operation'[m].kind = operation[m].kind
                              /\ operation'[m].mounted = operation[m].mounted
                              /\ operation[m].at = "idle" => operation'[m].at = "idle"
    BY <1>3
  <2>2. \A m \in Underway : m \in Operations
    BY DEF Underway
  <2>. QED  BY <1>2, <1>3, <2>1, <2>2 DEF WorkflowPageInv, AloneHere
<1>10. mishap = {} => Underway = {n} /\ \A m \in Operations : m > n => operation[m].at = "idle"
  BY <1>1 DEF WorkflowPageInv, AloneHere
<1>11. ListsFollow'
  <2>1. there = "checked" => ServerList' = ServerList
    BY DEF ServerList
  <2>. QED  BY <1>2, <1>3, <1>10, <2>1 DEF WorkflowPageInv, ListsFollow
<1>12. LastApplied'
  <2>1. CASE there = "checked"
    <3>1. Applied' = Applied /\ status' = status
      BY <1>1, <1>3, <2>1
    <3>2. \A m \in Operations : operation'[m].id = operation[m].id /\ operation'[m].kind = operation[m].kind
      BY <1>3
    <3>. QED  BY <1>2, <3>1, <3>2 DEF WorkflowPageInv, LastApplied, Applied
  <2>2. CASE there = "answered"
    <3>. SUFFICES ASSUME mishap' = {}, NEW l \in Applied', operation'[l].id \in Workflows,
                         \A m \in Applied' : m > l => operation'[m].id # operation'[l].id
                  PROVE  status'[operation'[l].id] = StatusAsked(operation'[l].kind)
      BY DEF LastApplied
    <3>1. CASE l = n
      BY <1>3, <2>2, <3>1
    <3>2. CASE l # n
      <4>1. /\ l \in Applied /\ l \in Operations /\ operation'[l] = operation[l] /\ mishap = {}
            /\ operation[l].at # "idle"
        BY <1>2, <1>3, <2>2, <3>2 DEF Applied
      <4>2. n > l
        BY <1>10, <3>2, <4>1 DEF Operations
      <4>3. operation[l].id # operation[n].id
        BY <1>3, <2>2, <4>1, <4>2
      <4>4. \A m \in Applied : m > l => operation[m].id # operation[l].id
        <5>1. \A m \in Applied : m \in Operations \ {n} /\ m \in Applied'
          BY <1>1, <1>3, <2>2 DEF Applied
        <5>. QED  BY <1>3, <4>1, <5>1
      <4>5. status[operation[l].id] = StatusAsked(operation[l].kind)
        BY <4>1, <4>4 DEF WorkflowPageInv, LastApplied
      <4>. QED  BY <2>2, <4>1, <4>3, <4>5
    <3>. QED  BY <3>1, <3>2
  <2>. QED  BY <2>1, <2>2
<1>. QED  BY <1>5, <1>6, <1>7, <1>8, <1>9, <1>11, <1>12 DEF WorkflowPageInv

LEMMA RequestsAreServed ==
    ASSUME WorkflowPageInv, NEW n \in Operations,
           CheckPaused(n) \/ PauseRow(n) \/ ResumeRow(n) \/ ArchiveRow(n) \/ CreateRow(n)
    PROVE  WorkflowPageInv'
<1>. DEFINE id == operation[n].id
<1>1. status \in [Workflows -> Statuses]
  BY DEF WorkflowPageInv, WorkflowPageTypeOK
<1>2. ASSUME operation[n].at \in {"sent", "checked"}, NEW there \in {"checked", "answered"},
             Served(n, operation[n].at, there), NEW st \in {"active", "paused", "archived"},
             status' = [status EXCEPT ![id] = st], st = StatusAsked(operation[n].kind), there = "answered"
      PROVE  WorkflowPageInv'
  <2>1. id \in Workflows
    BY <1>2 DEF WorkflowPageInv, InOrder, Underway
  <2>2. /\ status' \in [Workflows -> Statuses] /\ status'[id] = st
        /\ \A v \in Workflows \ {id} : status'[v] = status[v]
    BY <1>1, <1>2, <2>1 DEF Statuses
  <2>. QED  BY <1>2, <2>2, ServedKeeps
<1>3. CASE CheckPaused(n)
  <2>1. operation[n].kind = "pause" /\ operation[n].at = "sent" /\ status' = status
    BY <1>3 DEF CheckPaused, Served
  <2>2. CASE status[id] = "paused"
    <3>1. Served(n, operation[n].at, "answered") /\ status'[id] = StatusAsked(operation[n].kind)
      BY <1>3, <2>1, <2>2 DEF CheckPaused, StatusAsked
    <3>. QED  BY <1>1, <2>1, <3>1, ServedKeeps
  <2>3. CASE status[id] # "paused"
    <3>1. Served(n, operation[n].at, "checked")
      BY <1>3, <2>1, <2>3 DEF CheckPaused
    <3>. QED  BY <2>1, <3>1, ServedKeeps
  <2>. QED  BY <2>2, <2>3
<1>4. CASE PauseRow(n)
  <2>1. operation[n].at = "checked" /\ Served(n, operation[n].at, "answered")
    BY <1>4 DEF PauseRow, Served
  <2>2. operation[n].kind = "pause"
    BY <2>1 DEF WorkflowPageInv, InOrder, Underway
  <2>. QED  BY <1>2, <1>4, <2>1, <2>2 DEF PauseRow, StatusAsked
<1>5. CASE ResumeRow(n)
  <2>1. operation[n].at = "sent" /\ Served(n, operation[n].at, "answered")
    BY <1>5 DEF ResumeRow, Served
  <2>. QED  BY <1>2, <1>5, <2>1 DEF ResumeRow, StatusAsked
<1>6. CASE ArchiveRow(n)
  <2>1. operation[n].at = "sent" /\ Served(n, operation[n].at, "answered")
    BY <1>6 DEF ArchiveRow, Served
  <2>. QED  BY <1>2, <1>6, <2>1 DEF ArchiveRow, StatusAsked
<1>7. CASE CreateRow(n)
  <2>1. operation[n].at = "sent" /\ Served(n, operation[n].at, "answered")
    BY <1>7 DEF CreateRow, Served
  <2>. QED  BY <1>2, <1>7, <2>1 DEF CreateRow, StatusAsked
<1>. QED  BY <1>3, <1>4, <1>5, <1>6, <1>7

\* The list is fetched and read, as the workflows are then.
LEMMA RefetchKeeps ==
    ASSUME WorkflowPageInv, NEW n \in Operations, RefetchWorkflows(n)
    PROVE  WorkflowPageInv'
<1>1. n \in Underway /\ n \in Applied /\ operation[n].kind # "create"
  BY DEF RefetchWorkflows, Underway, Applied
<1>2. /\ operation' \in [Operations -> Operation]
      /\ operation'[n].at = "fetch" /\ operation'[n].kind = operation[n].kind
      /\ operation'[n].id = operation[n].id /\ operation'[n].list = operation[n].list
      /\ operation'[n].mounted = operation[n].mounted
      /\ \A m \in Operations \ {n} : operation'[m] = operation[m]
      /\ Underway' = Underway /\ Applied' = Applied \cup {n}
  <2>1. operation' = [operation EXCEPT ![n].at = "fetch"]
    BY DEF RefetchWorkflows
  <2>2. "fetch" \in {"checked", "answered", "fetch"} /\ "fetch" # "checked"
    OBVIOUS
  <2>. QED  BY <1>1, <2>1, <2>2, MovedOne
<1>3. /\ status' = status /\ mishap' = mishap
      /\ screen' = IF operation[n].mounted THEN [screen EXCEPT !.loading = TRUE] ELSE screen
  BY DEF RefetchWorkflows
<1>4. /\ screen' \in Screen /\ screen'.shown = screen.shown /\ screen'.list = screen.list
      /\ screen'.mutating = screen.mutating /\ screen'.creating = screen.creating
      /\ screen'.pausing = screen.pausing /\ screen'.deleting = screen.deleting
      /\ screen'.loading => screen.loading \/ operation[n].mounted
  <2>1. screen \in Screen
    BY WorkflowTypes DEF WorkflowPageInv
  <2>. DEFINE f == [screen EXCEPT !.loading = TRUE]
  <2>2. /\ f \in Screen /\ f.shown = screen.shown /\ f.list = screen.list
        /\ f.mutating = screen.mutating /\ f.creating = screen.creating
        /\ f.pausing = screen.pausing /\ f.deleting = screen.deleting
    BY <2>1 DEF Screen
  <2>3. screen' = IF operation[n].mounted THEN f ELSE screen
    BY <1>3
  <2>. HIDE DEF f
  <2>. QED  BY <2>1, <2>2, <2>3
<1>5. WorkflowPageTypeOK'
  BY <1>2, <1>3, <1>4 DEF WorkflowPageInv, WorkflowPageTypeOK, Operation, Screen, Shows
<1>6. \A m \in Operations : /\ operation'[m].id = operation[m].id /\ operation'[m].kind = operation[m].kind
                            /\ operation'[m].list = operation[m].list
                            /\ operation'[m].mounted = operation[m].mounted
                            /\ operation'[m].at = "idle" <=> operation[m].at = "idle"
  BY <1>1, <1>2 DEF Underway
<1>7. \A m \in Underway : m \in Operations /\ (m = n \/ operation'[m] = operation[m])
  BY <1>2 DEF Underway
<1>8. InOrder'
  BY <1>1, <1>2, <1>6, <1>7 DEF WorkflowPageInv, InOrder
<1>9. HeldBack'
  <2>1. ~screen'.shown => screen' = screen
    BY <1>1, <1>3, <1>4 DEF WorkflowPageInv, HeldBack
  <2>2. screen'.loading => \E m \in Underway' : operation'[m].mounted /\ operation'[m].at \in {"fetch", "read"}
    BY <1>1, <1>2, <1>4, <1>7 DEF WorkflowPageInv, HeldBack
  <2>. QED  BY <1>2, <1>4, <1>6, <1>7, <2>1, <2>2 DEF WorkflowPageInv, HeldBack
<1>10. Unborn' /\ AloneHere'
  BY <1>2, <1>3, <1>4, <1>6, <1>7 DEF WorkflowPageInv, Unborn, AloneHere
<1>11. ListsFollow'
  <2>1. mishap = {} => Underway = {n}
    BY <1>1 DEF WorkflowPageInv, AloneHere
  <2>. QED  BY <1>2, <1>3, <2>1 DEF ListsFollow
<1>12. LastApplied'
  <2>1. Applied' = Applied
    BY <1>1, <1>2
  <2>. QED  BY <1>3, <1>6, <2>1 DEF WorkflowPageInv, LastApplied, Applied
<1>. QED  BY <1>5, <1>8, <1>9, <1>10, <1>11, <1>12 DEF WorkflowPageInv

LEMMA ReadKeeps ==
    ASSUME WorkflowPageInv, NEW n \in Operations, ReadList(n)
    PROVE  WorkflowPageInv'
<1>1. n \in Underway /\ n \in Applied /\ operation[n].at = "fetch"
  BY DEF ReadList, Underway, Applied
<1>2. /\ operation \in [Operations -> Operation]
      /\ ServerList \in Shows /\ \A w \in Workflows : status[w] = "absent" => ServerList[w] = "hidden"
  BY WorkflowTypes, ServerListTyped DEF WorkflowPageInv
<1>. DEFINE r == [operation[n] EXCEPT !.at = "read", !.list = ServerList]
<1>3. operation' = [operation EXCEPT ![n] = r] /\ UNCHANGED <<status, screen, mishap>>
  BY DEF ReadList
<1>4. /\ r \in Operation /\ r.at = "read" /\ r.kind = operation[n].kind /\ r.id = operation[n].id
      /\ r.list = ServerList /\ r.mounted = operation[n].mounted
  <2>1. operation[n] \in Operation
    BY <1>2
  <2>. QED  BY <1>2, <2>1 DEF Operation
<1>. HIDE DEF r
<1>5. /\ operation' \in [Operations -> Operation] /\ operation'[n] = r
      /\ \A m \in Operations \ {n} : operation'[m] = operation[m]
  BY <1>2, <1>3, <1>4
<1>6. Underway' = Underway /\ Applied' = Applied /\ ServerList' = ServerList
  BY <1>1, <1>3, <1>4, <1>5 DEF Underway, Applied, ServerList
<1>7. WorkflowPageTypeOK'
  BY <1>3, <1>5 DEF WorkflowPageInv, WorkflowPageTypeOK, Operation, Shows
<1>8. \A m \in Operations : /\ operation'[m].id = operation[m].id /\ operation'[m].kind = operation[m].kind
                            /\ operation'[m].mounted = operation[m].mounted
                            /\ operation'[m].at = "idle" <=> operation[m].at = "idle"
  BY <1>1, <1>4, <1>5
<1>9. \A m \in Underway : m \in Operations /\ (m = n \/ operation'[m] = operation[m])
  BY <1>5 DEF Underway
<1>10. InOrder' /\ HeldBack'
  BY <1>1, <1>3, <1>4, <1>5, <1>6, <1>8, <1>9 DEF WorkflowPageInv, InOrder, HeldBack
<1>11. Unborn' /\ AloneHere'
  BY <1>1, <1>2, <1>3, <1>4, <1>5, <1>6, <1>8, <1>9 DEF WorkflowPageInv, Unborn, AloneHere
<1>12. ListsFollow'
  <2>1. mishap = {} => Underway = {n}
    BY <1>1 DEF WorkflowPageInv, AloneHere
  <2>. QED  BY <1>3, <1>4, <1>5, <1>6, <2>1 DEF ListsFollow
<1>13. LastApplied'
  BY <1>3, <1>6, <1>8 DEF WorkflowPageInv, LastApplied, Applied
<1>. QED  BY <1>7, <1>10, <1>11, <1>12, <1>13 DEF WorkflowPageInv

\* A function returns or fails.
LEMMA EndKeeps ==
    ASSUME WorkflowPageInv, NEW n \in Operations, ListReturns(n) \/ ListFails(n) \/ OperationFails(n)
    PROVE  WorkflowPageInv'
<1>1. n \in Underway
  BY DEF ListReturns, ListFails, OperationFails, Underway
<1>2. /\ screen \in Screen /\ operation[n].list \in Shows /\ mishap \subseteq Mishaps
  BY WorkflowTypes DEF WorkflowPageInv, Operation
<1>3. ASSUME NEW l \in Shows, \A w \in Workflows : status[w] = "absent" => l[w] = "hidden",
             FinishOperation(n, [screen EXCEPT !.list = l, !.loading = FALSE]),
             mishap \subseteq mishap', mishap' \subseteq Mishaps,
             mishap' = {} => operation[n].at = "read" /\ l = operation[n].list
      PROVE  WorkflowPageInv'
  <2>. DEFINE f == [screen EXCEPT !.list = l, !.loading = FALSE]
  <2>1. /\ f \in Screen /\ f.shown = screen.shown /\ f.list = l /\ ~f.loading
        /\ f.mutating = screen.mutating /\ f.creating = screen.creating
        /\ f.pausing = screen.pausing /\ f.deleting = screen.deleting
    BY <1>2 DEF Screen
  <2>2. FinishOperation(n, f)
    BY <1>3
  <2>. HIDE DEF f
  <2>. QED  BY <1>1, <1>3, <2>1, <2>2, FinishKeeps
<1>4. CASE ListReturns(n)
  <2>1. \A w \in Workflows : status[w] = "absent" => operation[n].list[w] = "hidden"
    BY DEF WorkflowPageInv, Unborn
  <2>. QED  BY <1>2, <1>3, <1>4, <2>1 DEF ListReturns
<1>5. CASE ListFails(n)
  <2>. DEFINE l == [w \in Workflows |-> "hidden"]
  <2>1. l \in Shows /\ \A w \in Workflows : l[w] = "hidden"
    BY DEF Shows
  <2>2. /\ FinishOperation(n, [screen EXCEPT !.list = l, !.loading = FALSE])
        /\ mishap' = mishap \cup {"failed"}
    BY <1>5 DEF ListFails
  <2>. HIDE DEF l
  <2>. QED  BY <1>2, <1>3, <2>1, <2>2 DEF Mishaps
<1>6. CASE OperationFails(n)
  <2>1. /\ FinishOperation(n, screen) /\ operation[n].at \notin {"fetch", "read"}
        /\ mishap' = mishap \cup {"failed"}
    BY <1>6 DEF OperationFails
  <2>2. mishap' \subseteq Mishaps /\ mishap' # {}
    BY <1>2, <2>1 DEF Mishaps
  <2>3. \A w \in Workflows : status[w] = "absent" => screen.list[w] = "hidden"
    BY DEF WorkflowPageInv, Unborn
  <2>. QED  BY <1>1, <1>2, <2>1, <2>2, <2>3, FinishKeeps
<1>. QED  BY <1>4, <1>5, <1>6

LEMMA UnmountedOnes ==
    ASSUME NEW ops \in [Operations -> Operation]
    PROVE  /\ Unmounted(ops) \in [Operations -> Operation]
           /\ \A m \in Operations : /\ Unmounted(ops)[m].kind = ops[m].kind /\ Unmounted(ops)[m].id = ops[m].id
                                    /\ Unmounted(ops)[m].at = ops[m].at /\ Unmounted(ops)[m].list = ops[m].list
                                    /\ ~Unmounted(ops)[m].mounted
<1>1. ASSUME NEW m \in Operations
      PROVE  /\ [ops[m] EXCEPT !.mounted = FALSE] \in Operation
             /\ [ops[m] EXCEPT !.mounted = FALSE].kind = ops[m].kind
             /\ [ops[m] EXCEPT !.mounted = FALSE].id = ops[m].id
             /\ [ops[m] EXCEPT !.mounted = FALSE].at = ops[m].at
             /\ [ops[m] EXCEPT !.mounted = FALSE].list = ops[m].list
             /\ ~[ops[m] EXCEPT !.mounted = FALSE].mounted
  <2>1. ops[m] \in Operation
    OBVIOUS
  <2>. QED  BY <2>1 DEF Operation
<1>. QED  BY <1>1 DEF Unmounted

\* The page is gone, by the user or by the creation that ends.
LEMMA GoneKeeps ==
    ASSUME WorkflowPageInv, screen' = Elsewhere, status' = status,
           operation' \in [Operations -> Operation],
           \A m \in Operations :
             /\ operation'[m].kind = operation[m].kind /\ operation'[m].id = operation[m].id
             /\ operation'[m].list \in {operation[m].list, [w \in Workflows |-> "hidden"]}
             /\ ~operation'[m].mounted
             /\ \/ operation'[m].at = operation[m].at
                \/ operation'[m].at = "done" /\ operation[m].at = "answered",
           mishap' \in {mishap, mishap \cup {"crossed"}},
           "crossed" \notin mishap' => Underway' = {}
    PROVE  WorkflowPageInv'
<1>1. ~screen'.shown /\ screen' = Elsewhere /\ ~Elsewhere.loading /\ ~Elsewhere.creating
      /\ Elsewhere.mutating = NoWorkflow /\ Elsewhere.pausing = NoWorkflow
      /\ Elsewhere.deleting = NoWorkflow /\ \A w \in Workflows : Elsewhere.list[w] = "hidden"
  BY DEF Elsewhere
<1>2. \A m \in Underway' : /\ m \in Operations /\ m \in Underway /\ operation'[m].at = operation[m].at
                           /\ ~operation'[m].mounted
  BY DEF Underway
<1>3. Applied' = Applied
  BY DEF Applied
<1>4. WorkflowPageTypeOK'
  <2>1. screen' \in Screen
    BY NothingTyped
  <2>2. mishap' \subseteq Mishaps
    BY DEF WorkflowPageInv, WorkflowPageTypeOK, Mishaps
  <2>. QED  BY <2>1, <2>2 DEF WorkflowPageInv, WorkflowPageTypeOK, Screen, Operation, Shows
<1>5. InOrder'
  <2>1. \A m \in Operations : operation'[m].at = "idle" <=> operation[m].at = "idle"
    OBVIOUS
  <2>. QED  BY <1>2, <2>1 DEF WorkflowPageInv, InOrder
<1>6. HeldBack'
  BY <1>1, <1>2 DEF HeldBack
<1>7. Unborn'
  BY <1>1, <1>2, WorkflowsAssumption DEF WorkflowPageInv, Unborn
<1>8. AloneHere' /\ ListsFollow'
  BY <1>1 DEF AloneHere, ListsFollow
<1>9. LastApplied'
  BY <1>3 DEF WorkflowPageInv, LastApplied, Applied
<1>. QED  BY <1>4, <1>5, <1>6, <1>7, <1>8, <1>9 DEF WorkflowPageInv

LEMMA LeavingKeeps ==
    ASSUME WorkflowPageInv, LeavePage \/ \E n \in Operations : CreateReturns(n)
    PROVE  WorkflowPageInv'
<1>1. operation \in [Operations -> Operation]
  BY WorkflowTypes DEF WorkflowPageInv
<1>2. CASE LeavePage
  <2>1. /\ screen' = Elsewhere /\ operation' = Unmounted(operation) /\ status' = status
        /\ mishap' = IF Underway = {} THEN mishap ELSE mishap \cup {"crossed"}
    BY <1>2 DEF LeavePage
  <2>2. /\ operation' \in [Operations -> Operation]
        /\ \A m \in Operations : /\ operation'[m].kind = operation[m].kind /\ operation'[m].id = operation[m].id
                                 /\ operation'[m].at = operation[m].at /\ operation'[m].list = operation[m].list
                                 /\ ~operation'[m].mounted
    BY <1>1, <2>1, UnmountedOnes
  <2>3. Underway' = Underway
    BY <2>2 DEF Underway
  <2>. QED  BY <2>1, <2>2, <2>3, GoneKeeps
<1>3. ASSUME NEW n \in Operations, CreateReturns(n)
      PROVE  WorkflowPageInv'
  <2>. DEFINE r   == [NoOperation EXCEPT !.kind = operation[n].kind, !.id = operation[n].id, !.at = "done"]
              ops == [operation EXCEPT ![n] = r]
  <2>1. /\ screen' = Elsewhere /\ operation' = Unmounted(ops) /\ status' = status
        /\ mishap' = IF Underway = {n} THEN mishap ELSE mishap \cup {"crossed"}
        /\ operation[n].at = "answered"
    BY <1>3 DEF CreateReturns, Finished
  <2>2. /\ r \in Operation /\ r.at = "done" /\ r.kind = operation[n].kind /\ r.id = operation[n].id
        /\ r.list = [w \in Workflows |-> "hidden"]
    <3>1. operation[n] \in Operation
      BY <1>1
    <3>. QED  BY <3>1, NothingTyped DEF NoOperation, Operation
  <2>. HIDE DEF r
  <2>3. /\ ops \in [Operations -> Operation] /\ ops[n] = r
        /\ \A m \in Operations \ {n} : ops[m] = operation[m]
    BY <1>1, <2>2
  <2>. HIDE DEF ops
  <2>4. /\ operation' \in [Operations -> Operation]
        /\ \A m \in Operations : /\ operation'[m].kind = ops[m].kind /\ operation'[m].id = ops[m].id
                                 /\ operation'[m].at = ops[m].at /\ operation'[m].list = ops[m].list
                                 /\ ~operation'[m].mounted
    BY <2>1, <2>3, UnmountedOnes
  <2>5. Underway' = Underway \ {n}
    BY <2>1, <2>2, <2>3, <2>4 DEF Underway
  <2>6. \A m \in Operations :
          /\ operation'[m].kind = operation[m].kind /\ operation'[m].id = operation[m].id
          /\ operation'[m].list \in {operation[m].list, [w \in Workflows |-> "hidden"]}
          /\ ~operation'[m].mounted
          /\ \/ operation'[m].at = operation[m].at
             \/ operation'[m].at = "done" /\ operation[m].at = "answered"
    BY <2>1, <2>2, <2>3, <2>4
  <2>. QED  BY <2>1, <2>4, <2>5, <2>6, GoneKeeps
<1>. QED  BY <1>2, <1>3

LEMMA SavedElsewhereKeeps ==
    ASSUME WorkflowPageInv, NEW w \in Workflows, PutDefinition(w)
    PROVE  WorkflowPageInv'
<1>1. /\ status[w] # "absent" /\ status' = [status EXCEPT ![w] = "active"]
      /\ mishap' = mishap \cup {"put"} /\ screen' = screen /\ operation' = operation
  BY DEF PutDefinition
<1>2. status \in [Workflows -> Statuses]
  BY DEF WorkflowPageInv, WorkflowPageTypeOK
<1>3. /\ status' \in [Workflows -> Statuses] /\ mishap' # {}
      /\ "crossed" \in mishap => "crossed" \in mishap'
      /\ \A v \in Workflows : status'[v] = "absent" <=> status[v] = "absent"
  BY <1>1, <1>2 DEF Statuses
<1>4. Underway' = Underway
  BY <1>1 DEF Underway
<1>5. WorkflowPageTypeOK'
  BY <1>1, <1>3 DEF WorkflowPageInv, WorkflowPageTypeOK, Mishaps
<1>6. InOrder' /\ HeldBack' /\ AloneHere'
  BY <1>1, <1>3, <1>4 DEF WorkflowPageInv, InOrder, HeldBack, AloneHere
<1>7. Unborn'
  BY <1>1, <1>3, <1>4 DEF WorkflowPageInv, Unborn, InOrder
<1>8. ListsFollow' /\ LastApplied'
  BY <1>3 DEF ListsFollow, LastApplied
<1>. QED  BY <1>5, <1>6, <1>7, <1>8 DEF WorkflowPageInv

LEMMA DismissKeeps ==
    ASSUME WorkflowPageInv, CloseDialog
    PROVE  WorkflowPageInv'
<1>. DEFINE f == [screen EXCEPT !.pausing = NoWorkflow, !.deleting = NoWorkflow]
<1>1. /\ screen' = f /\ status' = status /\ operation' = operation
      /\ mishap' = IF \E n \in Underway : operation[n].id \in {screen.pausing, screen.deleting} \ {NoWorkflow}
                   THEN mishap \cup {"crossed"} ELSE mishap
      /\ {screen.pausing, screen.deleting} # {NoWorkflow}
  BY DEF CloseDialog
<1>2. /\ f \in Screen /\ f.shown = screen.shown /\ f.list = screen.list /\ f.loading = screen.loading
      /\ f.mutating = screen.mutating /\ f.creating = screen.creating
      /\ f.pausing = NoWorkflow /\ f.deleting = NoWorkflow
  <2>1. screen \in Screen
    BY WorkflowTypes DEF WorkflowPageInv
  <2>. QED  BY <2>1 DEF Screen
<1>. HIDE DEF f
<1>3. Underway' = Underway /\ Applied' = Applied /\ ServerList' = ServerList
  BY <1>1 DEF Underway, Applied, ServerList
<1>4. mishap' \in {mishap, mishap \cup {"crossed"}} /\ screen.shown
  BY <1>1 DEF WorkflowPageInv, HeldBack, Elsewhere
<1>5. WorkflowPageTypeOK'
  <2>1. mishap' \subseteq Mishaps
    BY <1>4 DEF WorkflowPageInv, WorkflowPageTypeOK, Mishaps
  <2>. QED  BY <1>1, <1>2, <2>1 DEF WorkflowPageInv, WorkflowPageTypeOK, Screen, Shows
<1>6. InOrder' /\ HeldBack'
  BY <1>1, <1>2, <1>3, <1>4 DEF WorkflowPageInv, InOrder, HeldBack
<1>7. Unborn'
  BY <1>1, <1>2, <1>3, WorkflowsAssumption DEF WorkflowPageInv, Unborn
<1>8. AloneHere'
  <2>1. ASSUME "crossed" \notin mishap'
        PROVE  /\ "crossed" \notin mishap
               /\ \A n \in Underway : operation[n].kind \notin {"pause", "archive"}
    BY <1>1, <2>1, WorkflowsAssumption DEF WorkflowPageInv, AloneHere, InOrder, OnRow
  <2>. QED  BY <1>1, <1>2, <1>3, <2>1, WorkflowsAssumption DEF WorkflowPageInv, AloneHere, InOrder
<1>9. ListsFollow' /\ LastApplied'
  <2>1. mishap' = {} => mishap = {}
    BY <1>4
  <2>. QED  BY <1>1, <1>2, <1>3, <2>1 DEF WorkflowPageInv, ListsFollow, LastApplied
<1>. QED  BY <1>5, <1>6, <1>7, <1>8, <1>9 DEF WorkflowPageInv

\* What is shown of w, with nothing crossed: no operation is about it.
LEMMA NothingUnderway ==
    ASSUME WorkflowPageInv, "crossed" \notin mishap, NEW w \in Workflows, screen.mutating # w,
           screen.list[w] # "hidden" \/ w \in {screen.pausing, screen.deleting},
           \A m \in Underway : operation[m].id = w
    PROVE  Underway = {}
<1>1. ASSUME NEW m \in Underway
      PROVE  FALSE
  <2>1. m \in Operations /\ operation[m].id = w
    BY DEF Underway
  <2>2. operation[m] \in Operation
    BY <2>1, WorkflowTypes DEF WorkflowPageInv
  <2>3. operation[m].kind \in {"create"} \cup OnRow
    BY <2>1, <2>2, WorkflowsAssumption DEF WorkflowPageInv, InOrder, Operation, OnRow
  <2>. QED  BY <2>1, <2>3 DEF WorkflowPageInv, AloneHere
<1>. QED  BY <1>1

LEMMA StartsCross ==
    ASSUME NEW kind, NEW w, NEW at, NEW s, StartOperation(kind, w, at, s), "crossed" \notin mishap'
    PROVE  "crossed" \notin mishap /\ \A m \in Underway : operation[m].id = w
BY DEF StartOperation

\* An operation on a row.
LEMMA LaunchKeeps ==
    ASSUME WorkflowPageInv, NEW kind \in OnRow, NEW w \in Workflows, Launch(kind, w), screen.mutating # w,
           screen.shown, screen.list[w] # "hidden" \/ w \in {screen.pausing, screen.deleting},
           kind = "pause" => screen.pausing = w, kind = "archive" => screen.deleting = w
    PROVE  WorkflowPageInv'
<1>. DEFINE s == [screen EXCEPT !.mutating = w]
<1>1. StartOperation(kind, w, StartsAt(kind), s)
  BY DEF Launch, StartsAt, OnRow
<1>2. /\ s \in Screen /\ s.shown = screen.shown /\ s.list = screen.list /\ s.loading = screen.loading
      /\ s.mutating = w /\ s.creating = screen.creating
      /\ s.pausing = screen.pausing /\ s.deleting = screen.deleting
  <2>1. screen \in Screen
    BY WorkflowTypes DEF WorkflowPageInv
  <2>. QED  BY <2>1 DEF Screen
<1>. HIDE DEF s
<1>3. status[w] # "absent" /\ w # NoWorkflow
  BY WorkflowsAssumption DEF WorkflowPageInv, Unborn
<1>4. "crossed" \notin mishap' => Underway = {}
  BY <1>1, StartsCross, NothingUnderway
<1>5. kind \notin {"load", "create"}
  BY DEF OnRow
<1>. QED  BY <1>1, <1>2, <1>3, <1>4, <1>5, StartKeeps

\* The user, at the table and in the dialogs.
LEMMA AtTheTable ==
    ASSUME WorkflowPageInv,
           \/ \E w \in Workflows : RequestPause(w) \/ RequestDelete(w)
           \/ ConfirmPause \/ ConfirmDelete \/ OpenCreate \/ CloseCreate
    PROVE  WorkflowPageInv'
<1>1. screen \in Screen
  BY WorkflowTypes DEF WorkflowPageInv
<1>2. ~screen.shown => /\ screen.pausing = NoWorkflow /\ screen.deleting = NoWorkflow /\ ~screen.naming
  BY DEF WorkflowPageInv, HeldBack, Elsewhere
<1>3. ASSUME NEW w \in Workflows, RequestPause(w)
      PROVE  WorkflowPageInv'
  <2>1. /\ screen.shown /\ screen.pausing = NoWorkflow /\ screen.deleting = NoWorkflow
        /\ screen.list[w] # "hidden" /\ screen.mutating # w
    BY <1>3 DEF RequestPause, Menu, Uncovered
  <2>2. CASE screen.list[w] = "paused"
    <3>1. Launch("resume", w) /\ "resume" \in OnRow
      BY <1>3, <2>2 DEF RequestPause, OnRow
    <3>. QED  BY <2>1, <3>1, LaunchKeeps
  <2>3. CASE screen.list[w] # "paused"
    <3>. DEFINE s == [screen EXCEPT !.pausing = w]
    <3>1. ShowScreen(s)
      BY <1>3, <2>3 DEF RequestPause
    <3>2. /\ s \in Screen /\ s.shown = screen.shown /\ s.list = screen.list /\ s.loading = screen.loading
          /\ s.mutating = screen.mutating /\ s.creating = screen.creating
          /\ s.pausing = w /\ s.deleting = screen.deleting
      BY <1>1 DEF Screen
    <3>. HIDE DEF s
    <3>. QED  BY <2>1, <3>1, <3>2, ShowScreenKeeps
  <2>. QED  BY <2>2, <2>3
<1>4. ASSUME NEW w \in Workflows, RequestDelete(w)
      PROVE  WorkflowPageInv'
  <2>1. /\ screen.shown /\ screen.pausing = NoWorkflow /\ screen.deleting = NoWorkflow
        /\ screen.list[w] # "hidden"
    BY <1>4 DEF RequestDelete, Menu, Uncovered
  <2>. DEFINE s == [screen EXCEPT !.deleting = w]
  <2>2. ShowScreen(s)
    BY <1>4 DEF RequestDelete
  <2>3. /\ s \in Screen /\ s.shown = screen.shown /\ s.list = screen.list /\ s.loading = screen.loading
        /\ s.mutating = screen.mutating /\ s.creating = screen.creating
        /\ s.pausing = screen.pausing /\ s.deleting = w
    BY <1>1 DEF Screen
  <2>. HIDE DEF s
  <2>. QED  BY <2>1, <2>2, <2>3, ShowScreenKeeps
<1>5. CASE ConfirmPause
  <2>1. /\ screen.pausing \in Workflows /\ Launch("pause", screen.pausing) /\ "pause" \in OnRow
        /\ screen.mutating # screen.pausing /\ screen.shown
    BY <1>1, <1>2, <1>5 DEF ConfirmPause, Screen, OnRow
  <2>. QED  BY <2>1, LaunchKeeps
<1>6. CASE ConfirmDelete
  <2>1. /\ screen.deleting \in Workflows /\ Launch("archive", screen.deleting) /\ "archive" \in OnRow
        /\ screen.mutating # screen.deleting /\ screen.shown
    BY <1>1, <1>2, <1>6 DEF ConfirmDelete, Screen, OnRow
  <2>. QED  BY <2>1, LaunchKeeps
<1>7. ASSUME NEW b \in BOOLEAN, ShowScreen([screen EXCEPT !.naming = b]), screen.shown
      PROVE  WorkflowPageInv'
  <2>. DEFINE s == [screen EXCEPT !.naming = b]
  <2>1. /\ s \in Screen /\ s.shown = screen.shown /\ s.list = screen.list /\ s.loading = screen.loading
        /\ s.mutating = screen.mutating /\ s.creating = screen.creating
        /\ s.pausing = screen.pausing /\ s.deleting = screen.deleting
    BY <1>1 DEF Screen
  <2>2. ShowScreen(s)
    BY <1>7
  <2>. HIDE DEF s
  <2>. QED  BY <1>7, <2>1, <2>2, ShowScreenKeeps
<1>8. CASE OpenCreate
  BY <1>7, <1>8 DEF OpenCreate, Uncovered
<1>9. CASE CloseCreate
  BY <1>2, <1>7, <1>9 DEF CloseCreate
<1>. QED  BY <1>3, <1>4, <1>5, <1>6, <1>8, <1>9

LEMMA NamedKeeps ==
    ASSUME WorkflowPageInv, NEW w \in Workflows, ContinueToBuilder(w)
    PROVE  WorkflowPageInv'
<1>. DEFINE s == [screen EXCEPT !.creating = TRUE]
<1>1. /\ StartOperation("create", w, "sent", s) /\ screen.naming /\ status[w] = "absent"
      /\ \A n \in Operations : operation[n].id # w
  BY DEF ContinueToBuilder
<1>2. StartOperation("create", w, StartsAt("create"), s)
  BY <1>1 DEF StartsAt
<1>3. /\ s \in Screen /\ s.shown = screen.shown /\ s.list = screen.list /\ s.loading = screen.loading
      /\ s.mutating = screen.mutating
      /\ s.pausing = screen.pausing /\ s.deleting = screen.deleting
  <2>1. screen \in Screen
    BY WorkflowTypes DEF WorkflowPageInv
  <2>. QED  BY <2>1 DEF Screen
<1>. HIDE DEF s
<1>4. screen.shown
  BY <1>1 DEF WorkflowPageInv, HeldBack, Elsewhere
<1>5. "crossed" \notin mishap' => Underway = {}
  <2>1. "crossed" \notin mishap' => \A m \in Underway : operation[m].id = w
    BY <1>2, StartsCross
  <2>. QED  BY <1>1, <2>1 DEF Underway
<1>6. w # NoWorkflow /\ "create" \notin OnRow
  BY WorkflowsAssumption DEF OnRow
<1>. QED  BY <1>1, <1>2, <1>3, <1>4, <1>5, <1>6, StartKeeps

LEMMA ReopenedKeeps ==
    ASSUME WorkflowPageInv, OpenPage
    PROVE  WorkflowPageInv'
<1>. DEFINE s == [Elsewhere EXCEPT !.shown = TRUE, !.loading = TRUE]
<1>1. StartOperation("load", NoWorkflow, "fetch", s) /\ ~screen.shown
  BY DEF OpenPage
<1>2. StartOperation("load", NoWorkflow, StartsAt("load"), s)
  BY <1>1 DEF StartsAt
<1>3. screen = Elsewhere /\ \A m \in Underway : ~operation[m].mounted
  BY <1>1 DEF WorkflowPageInv, HeldBack
<1>4. /\ s \in Screen /\ s.shown /\ s.list = [v \in Workflows |-> "hidden"]
      /\ s.mutating = screen.mutating /\ s.creating = screen.creating
      /\ s.pausing = screen.pausing /\ s.deleting = screen.deleting
  BY <1>3, NothingTyped DEF Elsewhere, Screen
<1>. HIDE DEF s
<1>5. "crossed" \notin mishap' => Underway = {}
  <2>1. "crossed" \notin mishap' => "crossed" \notin mishap
    BY <1>2, StartsCross
  <2>. QED  BY <1>3, <2>1 DEF WorkflowPageInv, AloneHere
<1>6. "load" \notin OnRow
  BY DEF OnRow
<1>. QED  BY <1>2, <1>4, <1>5, <1>6, StartKeeps

LEMMA WorkflowsKept == WorkflowPageInv /\ [WorkflowPageNext]_workflowPageVars => WorkflowPageInv'
<1>. SUFFICES ASSUME WorkflowPageInv, [WorkflowPageNext]_workflowPageVars
              PROVE  WorkflowPageInv'
  OBVIOUS
<1>1. ASSUME NEW w \in Workflows,
             RequestPause(w) \/ RequestDelete(w) \/ ContinueToBuilder(w) \/ PutDefinition(w)
      PROVE  WorkflowPageInv'
  BY <1>1, AtTheTable, NamedKeeps, SavedElsewhereKeeps
<1>2. CASE ConfirmPause \/ ConfirmDelete \/ OpenCreate \/ CloseCreate
  BY <1>2, AtTheTable
<1>3. CASE CloseDialog
  BY <1>3, DismissKeeps
<1>4. CASE LeavePage
  BY <1>4, LeavingKeeps
<1>5. CASE OpenPage
  BY <1>5, ReopenedKeeps
<1>6. ASSUME NEW n \in Operations,
             CheckPaused(n) \/ PauseRow(n) \/ ResumeRow(n) \/ ArchiveRow(n) \/ CreateRow(n)
      PROVE  WorkflowPageInv'
  BY <1>6, RequestsAreServed
<1>7. ASSUME NEW n \in Operations,
             \/ RefetchWorkflows(n) \/ ReadList(n) \/ CreateReturns(n)
             \/ ListReturns(n) \/ ListFails(n) \/ OperationFails(n)
      PROVE  WorkflowPageInv'
  BY <1>7, RefetchKeeps, ReadKeeps, LeavingKeeps, EndKeeps
<1>8. CASE UNCHANGED workflowPageVars
  <2>1. status' = status /\ screen' = screen /\ operation' = operation /\ mishap' = mishap
    BY <1>8 DEF workflowPageVars
  <2>2. Underway' = Underway /\ Applied' = Applied /\ ServerList' = ServerList
    BY <2>1 DEF Underway, Applied, ServerList
  <2>. QED  BY <2>1, <2>2 DEF WorkflowPageInv, WorkflowPageTypeOK, InOrder, HeldBack, Unborn, AloneHere,
                               ListsFollow, LastApplied
<1>. QED  BY <1>1, <1>2, <1>3, <1>4, <1>5, <1>6, <1>7, <1>8, Zenon DEF WorkflowPageNext

LEMMA WorkflowsSettled == WorkflowPageInv => PageSettles /\ OneAtATime
<1>. SUFFICES ASSUME WorkflowPageInv
              PROVE  PageSettles /\ OneAtATime
  OBVIOUS
<1>1. OneAtATime
  BY DEF WorkflowPageInv, AloneHere, OneAtATime
<1>2. ASSUME Underway = {}
      PROVE  screen.mutating = NoWorkflow /\ ~screen.loading /\ ~screen.creating
  BY <1>2 DEF WorkflowPageInv, HeldBack
<1>3. ASSUME Underway = {}, mishap = {}, screen.shown
      PROVE  screen.list = ServerList
  BY <1>3 DEF WorkflowPageInv, ListsFollow
<1>4. ASSUME Underway = {}, mishap = {}, NEW w \in Workflows
      PROVE  AsLastAsked(w)
  <2>. SUFFICES ASSUME NEW n \in Operations, operation[n].id = w,
                       \A m \in Operations : m > n => operation[m].id # w
                PROVE  status[w] = StatusAsked(operation[n].kind)
    BY DEF AsLastAsked
  <2>1. operation[n].at # "idle"
    BY WorkflowsAssumption DEF WorkflowPageInv, InOrder
  <2>2. n \in Applied
    BY <1>4, <2>1 DEF Underway, Applied
  <2>3. \A m \in Applied : m > n => operation[m].id # operation[n].id
    BY DEF Applied
  <2>. QED  BY <1>4, <2>2, <2>3 DEF WorkflowPageInv, LastApplied
<1>. QED  BY <1>1, <1>2, <1>3, <1>4 DEF PageSettles

\* The confirmation of a pause is closed by the user, by the end of that pause, or with the page.
LEMMA DialogsCloseOnOwn == WorkflowPageInv /\ [WorkflowPageNext]_workflowPageVars => [OwnDialogs]_workflowPageVars
<1>. SUFFICES ASSUME WorkflowPageInv, WorkflowPageNext, NEW w \in Workflows,
                     screen.pausing = w, screen'.pausing # w, "crossed" \notin mishap', screen'.shown,
                     operation' # operation
              PROVE  \E n \in Underway : operation[n].id = w /\ operation'[n].at = "done"
  BY DEF OwnDialogs
<1>1. screen \in Screen
  BY WorkflowTypes DEF WorkflowPageInv
<1>2. ASSUME NEW kind \in OnRow, NEW v, Launch(kind, v)
      PROVE  FALSE
  BY <1>1, <1>2 DEF Launch, StartOperation, Screen
<1>3. ASSUME NEW v \in Workflows, ContinueToBuilder(v)
      PROVE  FALSE
  BY <1>1, <1>3 DEF ContinueToBuilder, StartOperation, Screen
<1>4. ASSUME OpenPage
      PROVE  FALSE
  BY <1>4, WorkflowsAssumption DEF OpenPage, WorkflowPageInv, HeldBack, Elsewhere
<1>5. ASSUME NEW n \in Operations,
             \/ CheckPaused(n) \/ PauseRow(n) \/ ResumeRow(n) \/ ArchiveRow(n) \/ CreateRow(n)
             \/ RefetchWorkflows(n) \/ ReadList(n)
      PROVE  FALSE
  BY <1>1, <1>5 DEF CheckPaused, PauseRow, ResumeRow, ArchiveRow, CreateRow, Served, RefetchWorkflows, ReadList,
                    Screen
<1>6. ASSUME LeavePage \/ \E n \in Operations : CreateReturns(n)
      PROVE  FALSE
  <2>1. screen' = Elsewhere
    BY <1>6, Zenon DEF LeavePage, CreateReturns
  <2>2. ~Elsewhere.shown
    BY DEF Elsewhere
  <2>. QED  BY <2>1, <2>2
<1>7. ASSUME NEW n \in Operations, n \in Underway, "crossed" \notin mishap,
             NEW s \in Screen, FinishOperation(n, s), s.pausing = screen.pausing
      PROVE  operation[n].id = w /\ operation'[n].at = "done"
  <2>1. operation' = [operation EXCEPT ![n] = Finished(n)]
    BY <1>7 DEF FinishOperation
  <2>2. operation'[n].at = "done"
    BY <1>7, <2>1, FinishedOne
  <2>3. operation[n].kind \in {"load", "create", "pause", "resume", "archive"}
    BY <1>7, WorkflowTypes DEF WorkflowPageInv, InOrder, Operation
  <2>4. Finally(n, s).pausing = IF operation[n].kind = "pause" THEN NoWorkflow ELSE s.pausing
    BY <2>3, FinallyOnly
  <2>5. screen' = IF operation[n].mounted THEN Finally(n, s) ELSE screen
    BY <1>7 DEF FinishOperation
  <2>6. operation[n].kind = "pause"
    BY <1>7, <2>4, <2>5
  <2>. QED  BY <1>7, <2>2, <2>6 DEF WorkflowPageInv, AloneHere
<1>8. ASSUME NEW l
      PROVE  /\ [screen EXCEPT !.list = l, !.loading = FALSE].pausing = screen.pausing
             /\ l \in Shows => [screen EXCEPT !.list = l, !.loading = FALSE] \in Screen
  BY <1>1 DEF Screen
<1>9. ASSUME NEW n \in Operations, ListReturns(n) \/ ListFails(n) \/ OperationFails(n)
      PROVE  \E m \in Underway : operation[m].id = w /\ operation'[m].at = "done"
  <2>1. n \in Underway /\ "crossed" \notin mishap
    BY <1>9 DEF ListReturns, ListFails, OperationFails, Underway
  <2>2. operation[n].list \in Shows /\ [v \in Workflows |-> "hidden"] \in Shows
    BY WorkflowTypes DEF WorkflowPageInv, Operation, Shows
  <2>3. \E s \in Screen : FinishOperation(n, s) /\ s.pausing = screen.pausing
    <3>1. CASE ListReturns(n)
      BY <1>8, <2>2, <3>1, Zenon DEF ListReturns
    <3>2. CASE ListFails(n)
      BY <1>8, <2>2, <3>2, Zenon DEF ListFails
    <3>3. CASE OperationFails(n)
      BY <1>1, <3>3, Zenon DEF OperationFails
    <3>. QED  BY <1>9, <3>1, <3>2, <3>3
  <2>. QED  BY <1>7, <2>1, <2>3
<1>10. ASSUME NEW s, ShowScreen(s)
       PROVE  FALSE
  BY <1>10 DEF ShowScreen
<1>11. CASE \E v \in Workflows : RequestPause(v) \/ RequestDelete(v)
  <2>1. "resume" \in OnRow
    BY DEF OnRow
  <2>. QED  BY <1>2, <1>10, <1>11, <2>1, Zenon DEF RequestPause, RequestDelete
<1>12. CASE ConfirmPause \/ ConfirmDelete \/ OpenCreate \/ CloseCreate
  <2>1. "pause" \in OnRow /\ "archive" \in OnRow
    BY DEF OnRow
  <2>. QED  BY <1>2, <1>10, <1>12, <2>1, Zenon DEF ConfirmPause, ConfirmDelete, OpenCreate, CloseCreate
<1>13. CASE CloseDialog \/ \E v \in Workflows : PutDefinition(v)
  BY <1>13 DEF CloseDialog, PutDefinition
<1>. QED  BY <1>3, <1>4, <1>5, <1>6, <1>9, <1>11, <1>12, <1>13, Zenon DEF WorkflowPageNext

\* The page of workflows: with nothing in flight it is usable, lists the table and has left every
\* workflow as the user asked last; mutatingID keeps a second request back; and the dialog of a pause
\* closes at the end of its own operation.
THEOREM WorkflowsSettle == BrowserSpec => WorkflowPageSound
<1>. DEFINE Inv == focus = "workflows" => WorkflowPageInv
<1>1. BrowserInit => Inv
  BY WorkflowsAtFirst DEF BrowserInit
<1>2. Inv /\ [BrowserNext]_browserVars => Inv'
  BY PageMoves, WorkflowsKept
<1>3. Inv => (focus = "workflows" => PageSettles /\ OneAtATime)
  BY WorkflowsSettled
<1>4. Inv /\ [BrowserNext]_browserVars => [focus = "workflows" => OwnDialogs]_workflowPageVars
  BY PageMoves, DialogsCloseOnOwn
<1>. QED  BY <1>1, <1>2, <1>3, <1>4, PTL DEF BrowserSpec, WorkflowPageSound
----------------------------------------------------------------------------
(***************************************************************************)
(* The page of providers.                                                  *)
(***************************************************************************)

Tables   == [ProviderIds -> ProviderRow]
Buttons  == ({"none"} \X {0}) \cup ({"save"} \X ProviderNames) \cup (StateActions \X ProviderIds)
CardForm == [open: BOOLEAN, name: ProviderNames \cup {NoProvider}, id: ProviderIds \cup {0},
             enabled: BOOLEAN, primary: BOOLEAN, busy: Buttons]
Saves    == {"create", "update"}
Job      == [kind: StateActions \cup Saves \cup {"delete", "none"},
             at: {"idle", "first", "listing", "second", "relisting", "done", "failed"},
             id: ProviderIds \cup {0}, name: ProviderNames \cup {NoProvider},
             enabled: BOOLEAN, primary: BOOLEAN, before: Tables \cup {<<>>}]

ProviderTypes ==
    /\ providers \in Tables /\ cards \in Tables /\ connect \in CardForm /\ job \in [Jobs -> Job]
    /\ cardFetch \in [at: {"idle", "asked", "read"}, data: Tables]
    /\ cardsSpoiled \subseteq CardSpoilers

\* What the unique indexes and the CHECK of the table demand.
TableHolds(t) ==
    \A i \in ProviderIds :
        /\ ~Exists(t[i]) => t[i] = NoRow
        /\ t[i].primary => t[i].active
        /\ \A k \in ProviderIds \ {i} : ~Clash(t[i], t[k])

\* A function that runs has what its requests need, and a dialog that is open a provider.
JobsKnow ==
    /\ connect.open => connect.name \in ProviderNames
    /\ connect.primary => connect.enabled
    /\ \A j \in Running :
        /\ job[j].kind # "none"
        /\ job[j].at \in {"second", "relisting"} =>
            job[j].kind \in Saves /\ (job[j].primary \/ ~job[j].enabled)
        /\ job[j].kind \in Saves => job[j].name \in ProviderNames /\ (job[j].primary => job[j].enabled)
        /\ job[j].kind # "create" \/ job[j].at # "first" => job[j].id \in ProviderIds

\* A button is held back only while a function runs that will let go of it, and a list is
\* fetched only while one waits for it.
ButtonsHeld ==
    /\ connect.busy # NoForm.busy => \E j \in Running : job[j].kind # "delete"
    /\ cardFetch.at = "idle" <=> Waiting = {}

CardsFollow ==
    CardsUnspoiled =>
        /\ cardFetch.at = "idle" => cards = providers
        /\ cardFetch.at = "read" => cardFetch.data = providers

\* Both rows, if they exist, are of one provider.
Alike(r, s) == Exists(r) /\ Exists(s) => r.name = s.name

\* What a save has come to that has made its second request, or needs none.
Honours(j) ==
    LET i   == job[j].id
        old == job[j].before
    IN  /\ job[j].primary => providers[i].primary
        /\ job[j].enabled \/ ~providers[i].active
        /\ job[j].kind = "update" /\ old[i].active = job[j].enabled /\ old[i].primary = job[j].primary =>
            providers = old
        /\ \A k \in ProviderIds : ~SameChannel(providers[k], providers[i]) => providers[k] = old[k]

\* And before that.
Begun(j) ==
    LET i   == job[j].id
        old == job[j].before
    IN  /\ job[j].at = "first" => providers = old
        /\ job[j].at \in {"listing", "second"} =>
            /\ Exists(providers[i])
            /\ IF job[j].kind = "update" THEN providers = old
               ELSE \A k \in ProviderIds \ {i} : providers[k] = old[k]

\* Unless something crossed: one function runs; a save has its dialog still open; and the rows
\* that the page holds are not of other providers than those in the table, but for a card whose
\* row was deleted unnoticed and given to the provider that is being connected.
SavesAlone ==
    "crossed" \notin cardsSpoiled =>
        /\ \A j, k \in Running : j = k
        /\ \A j \in Running : job[j].kind \in Saves =>
            /\ connect.open /\ connect.name = job[j].name
            /\ connect.id = IF job[j].kind = "create" THEN 0 ELSE job[j].id
            /\ Begun(j) /\ (job[j].at = "relisting" => Honours(j))
        /\ \A i \in ProviderIds :
            /\ ~Alike(cards[i], providers[i]) =>
                ~CardsUnspoiled /\ \E j \in Running : job[j].kind = "create" /\ job[j].at = "listing"
            /\ cardFetch.at = "read" => Alike(cardFetch.data[i], providers[i])
            /\ connect.open /\ connect.id = i /\ Exists(providers[i]) => providers[i].name = connect.name

ProviderInv ==
    /\ ProviderTypes
    /\ TableHolds(providers) /\ TableHolds(cards) /\ TableHolds(cardFetch.data)
    /\ JobsKnow /\ ButtonsHeld /\ CardsFollow /\ SavesAlone

LEMMA OldestRow ==
    ASSUME NEW F \in SUBSET ProviderIds, F # {}
    PROVE  \E i \in F : \A j \in F : i <= j
BY ProvidersAssumption, LeastOne DEF IsLeast

\* Who becomes primary when the primary provider is turned off.
LEMMA HeirChosen ==
    ASSUME NEW t \in Tables, NEW i \in ProviderIds, \E j \in Others(t, i) : t[j].active
    PROVE  Heir(t, i) \in Others(t, i) /\ t[Heir(t, i)].active
<1>. DEFINE F == {j \in Others(t, i) : t[j].active}
<1>1. PICK h \in F : \A j \in F : h <= j
  <2>1. F \in SUBSET ProviderIds /\ F # {}
    BY DEF Others
  <2>. HIDE DEF F
  <2>. QED  BY <2>1, OldestRow
<1>2. h \in Others(t, i) /\ t[h].active /\ \A k \in Others(t, i) : t[k].active => h <= k
  BY <1>1
<1>. QED  BY <1>2 DEF Heir

\* And the row that a new provider gets.
LEMMA NextRowChosen ==
    ASSUME NEW t \in Tables, FreeRows(t) # {}
    PROVE  NextRow(t) \in ProviderIds /\ ~Exists(t[NextRow(t)])
<1>1. FreeRows(t) \in SUBSET ProviderIds
  BY DEF FreeRows
<1>2. NextRow(t) \in FreeRows(t)
  <2>1. \E i \in FreeRows(t) : \A j \in FreeRows(t) : i <= j
    BY <1>1, OldestRow
  <2>. QED  BY <2>1 DEF NextRow
<1>3. \A i \in ProviderIds : i >= i
  BY ProvidersAssumption
<1>4. \A i \in FreeRows(t) : i \in ProviderIds /\ \A j \in ProviderIds : j >= i => ~Exists(t[j])
  BY DEF FreeRows
<1>. QED  BY <1>2, <1>3, <1>4

LEMMA NoRowTyped == NoRow \in ProviderRow /\ ~Exists(NoRow) /\ ~NoRow.active /\ ~NoRow.primary
BY DEF NoRow, ProviderRow, Exists

\* What each request leaves of the table.
LEMMA EnableIs ==
    ASSUME NEW t \in Tables, NEW i \in ProviderIds, NEW name
    PROVE  LET u == Outcome(t, "enable", i, name)
           IN  /\ u \in Tables /\ u[i].name = t[i].name /\ u[i].active /\ u[i].primary = t[i].primary
               /\ \A k \in ProviderIds \ {i} : u[k] = t[k]
<1>. DEFINE r == [t[i] EXCEPT !.active = TRUE]
<1>1. r \in ProviderRow /\ r.name = t[i].name /\ r.active /\ r.primary = t[i].primary
  <2>1. t[i] \in ProviderRow
    BY DEF Tables
  <2>. QED  BY <2>1 DEF ProviderRow
<1>2. Outcome(t, "enable", i, name) = [t EXCEPT ![i] = r]
  BY DEF Outcome
<1>. HIDE DEF r
<1>. QED  BY <1>1, <1>2 DEF Tables

LEMMA DisableIs ==
    ASSUME NEW t \in Tables, NEW i \in ProviderIds, NEW name, Allowed(t, "disable", i, name)
    PROVE  LET u == Outcome(t, "disable", i, name)
           IN  /\ u \in Tables /\ Exists(t[i])
               /\ u[i].name = t[i].name /\ ~u[i].active /\ ~u[i].primary
               /\ \/ ~t[i].primary /\ \A k \in ProviderIds \ {i} : u[k] = t[k]
                  \/ /\ t[i].primary
                     /\ \E h \in Others(t, i) :
                          /\ u[h].name = t[h].name /\ u[h].active /\ u[h].primary
                          /\ \A k \in ProviderIds \ {i, h} : u[k] = t[k]
<1>. DEFINE r   == [t[i] EXCEPT !.active = FALSE, !.primary = FALSE]
            off == [t EXCEPT ![i] = r]
<1>1. Exists(t[i]) /\ (t[i].primary => \E j \in Others(t, i) : t[j].active)
  BY DEF Allowed
<1>2. r \in ProviderRow /\ r.name = t[i].name /\ ~r.active /\ ~r.primary
  <2>1. t[i] \in ProviderRow
    BY DEF Tables
  <2>. QED  BY <2>1 DEF ProviderRow
<1>. HIDE DEF r
<1>3. off \in Tables /\ off[i] = r /\ \A k \in ProviderIds \ {i} : off[k] = t[k]
  BY <1>2 DEF Tables
<1>4. CASE ~t[i].primary
  <2>1. Outcome(t, "disable", i, name) = off
    BY <1>4, Zenon DEF Outcome, r
  <2>. HIDE DEF off
  <2>. QED  BY <1>1, <1>2, <1>3, <1>4, <2>1
<1>5. CASE t[i].primary
  <2>. DEFINE h == Heir(t, i)
              q == [off[h] EXCEPT !.primary = TRUE]
  <2>1. h \in Others(t, i) /\ h \in ProviderIds \ {i} /\ t[h].active
    BY <1>1, <1>5, HeirChosen DEF Others
  <2>2. Outcome(t, "disable", i, name) = [off EXCEPT ![h] = q]
    BY <1>5 DEF Outcome, r
  <2>. HIDE DEF h, off
  <2>3. q \in ProviderRow /\ q.name = t[h].name /\ q.active /\ q.primary
    <3>1. off[h] = t[h] /\ t[h] \in ProviderRow
      BY <1>3, <2>1 DEF Tables
    <3>. QED  BY <2>1, <3>1 DEF ProviderRow
  <2>. HIDE DEF q
  <2>4. /\ [off EXCEPT ![h] = q] \in Tables /\ [off EXCEPT ![h] = q][h] = q
        /\ \A k \in ProviderIds \ {h} : [off EXCEPT ![h] = q][k] = off[k]
    BY <1>3, <2>1, <2>3 DEF Tables
  <2>. DEFINE u == Outcome(t, "disable", i, name)
  <2>5. /\ u \in Tables /\ u[i].name = t[i].name /\ ~u[i].active /\ ~u[i].primary
        /\ u[h].name = t[h].name /\ u[h].active /\ u[h].primary
        /\ \A k \in ProviderIds \ {i, h} : u[k] = t[k]
    BY <1>2, <1>3, <2>1, <2>2, <2>3, <2>4
  <2>. HIDE DEF u
  <2>6. \E g \in Others(t, i) : /\ u[g].name = t[g].name /\ u[g].active /\ u[g].primary
                               /\ \A k \in ProviderIds \ {i, g} : u[k] = t[k]
    BY <2>1, <2>5
  <2>. QED  BY <1>1, <1>5, <2>5, <2>6 DEF u
<1>. QED  BY <1>4, <1>5

LEMMA SetPrimaryIs ==
    ASSUME NEW t \in Tables, NEW i \in ProviderIds, NEW name
    PROVE  LET u == Outcome(t, "set_primary", i, name)
           IN  /\ u \in Tables /\ u[i].name = t[i].name /\ u[i].active /\ u[i].primary
               /\ \A k \in ProviderIds \ {i} :
                    /\ u[k].name = t[k].name /\ u[k].active = t[k].active
                    /\ k \in Others(t, i) => ~u[k].primary
                    /\ k \notin Others(t, i) \/ ~t[k].primary => u[k] = t[k]
<1>. DEFINE r    == [t[i] EXCEPT !.active = TRUE, !.primary = TRUE]
            o(k) == [t[k] EXCEPT !.primary = FALSE]
<1>1. Outcome(t, "set_primary", i, name) =
        [j \in ProviderIds |-> IF j = i THEN r ELSE IF j \in Others(t, i) THEN o(j) ELSE t[j]]
  BY DEF Outcome
<1>2. r \in ProviderRow /\ r.name = t[i].name /\ r.active /\ r.primary
  <2>1. t[i] \in ProviderRow
    BY DEF Tables
  <2>. QED  BY <2>1 DEF ProviderRow
<1>3. ASSUME NEW k \in ProviderIds
      PROVE  /\ t[k] \in ProviderRow
             /\ o(k) \in ProviderRow /\ o(k).name = t[k].name /\ o(k).active = t[k].active /\ ~o(k).primary
             /\ ~t[k].primary => o(k) = t[k]
  <2>1. t[k] \in ProviderRow
    BY DEF Tables
  <2>. QED  BY <2>1 DEF ProviderRow
<1>. HIDE DEF r, o
<1>. QED  BY <1>1, <1>2, <1>3 DEF Tables

LEMMA CreateIs ==
    ASSUME NEW t \in Tables, NEW name \in ProviderNames, NEW i, Allowed(t, "create", i, name)
    PROVE  LET u == Outcome(t, "create", i, name)
               n == NextRow(t)
           IN  /\ u \in Tables /\ n \in ProviderIds /\ ~Exists(t[n]) /\ u[n].name = name
               /\ u[n].active = u[n].primary
               /\ u[n].primary => \A k \in ProviderIds : t[k].active => ChannelOf[t[k].name] # ChannelOf[name]
               /\ \A k \in ProviderIds \ {n} : u[k] = t[k] /\ t[k].name # name
<1>. DEFINE first == ~\E j \in ProviderIds : t[j].active /\ ChannelOf[t[j].name] = ChannelOf[name]
            r     == [name |-> name, active |-> first, primary |-> first]
            n     == NextRow(t)
<1>1. n \in ProviderIds /\ ~Exists(t[n]) /\ \A j \in ProviderIds : t[j].name # name
  <2>1. FreeRows(t) # {} /\ \A j \in ProviderIds : t[j].name # name
    BY DEF Allowed
  <2>. QED  BY <2>1, NextRowChosen
<1>2. Outcome(t, "create", i, name) = [t EXCEPT ![n] = r]
  BY DEF Outcome
<1>3. r \in ProviderRow /\ r.name = name /\ r.active = r.primary /\ (r.primary => first)
  <2>1. first \in BOOLEAN
    OBVIOUS
  <2>. HIDE DEF first
  <2>. QED  BY <2>1 DEF ProviderRow
<1>. HIDE DEF r, n
<1>. QED  BY <1>1, <1>2, <1>3 DEF Tables, n

LEMMA UpdateIs ==
    ASSUME NEW t \in Tables, NEW i \in ProviderIds, NEW name \in ProviderNames, Allowed(t, "update", i, name)
    PROVE  LET u == Outcome(t, "update", i, name)
           IN  /\ u \in Tables /\ Exists(t[i])
               /\ u[i].name = name /\ u[i].active = t[i].active /\ u[i].primary = t[i].primary
               /\ \A k \in ProviderIds \ {i} : u[k] = t[k] /\ ~Clash(u[i], t[k])
               /\ t[i].name = name => u = t
<1>. DEFINE r == [t[i] EXCEPT !.name = name]
<1>0. t[i] \in ProviderRow
  BY DEF Tables
<1>1. /\ r \in ProviderRow /\ r.name = name /\ r.active = t[i].active /\ r.primary = t[i].primary
      /\ t[i].name = name => r = t[i]
  BY <1>0 DEF ProviderRow
<1>2. /\ Exists(t[i]) /\ Outcome(t, "update", i, name) = [t EXCEPT ![i] = r]
      /\ \A j \in ProviderIds \ {i} : ~Clash(r, t[j])
  BY DEF Outcome, Allowed
<1>. HIDE DEF r
<1>. QED  BY <1>1, <1>2 DEF Tables

LEMMA DeleteIs ==
    ASSUME NEW t \in Tables, NEW i \in ProviderIds, NEW name
    PROVE  LET u == Outcome(t, "delete", i, name)
           IN  u \in Tables /\ u[i] = NoRow /\ \A k \in ProviderIds \ {i} : u[k] = t[k]
<1>1. Outcome(t, "delete", i, name) = [t EXCEPT ![i] = NoRow]
  BY DEF Outcome
<1>. QED  BY <1>1, NoRowTyped DEF Tables

\* No request breaks the rules of the table; only creating and updating name a row.
LEMMA OutcomeHolds ==
    ASSUME NEW t \in Tables, TableHolds(t), NEW kind \in StateActions \cup Saves \cup {"delete"}, NEW i, NEW name,
           Allowed(t, kind, i, name), kind # "create" => i \in ProviderIds, kind \in Saves => name \in ProviderNames
    PROVE  /\ Outcome(t, kind, i, name) \in Tables /\ TableHolds(Outcome(t, kind, i, name))
           /\ kind \notin Saves => \A k \in ProviderIds :
                Exists(Outcome(t, kind, i, name)[k]) => Outcome(t, kind, i, name)[k].name = t[k].name
<1>. DEFINE u == Outcome(t, kind, i, name)
<1>0. "none" \notin ProviderNames /\ \A k \in ProviderIds : t[k].name = "none" => t[k] = NoRow
  BY ProvidersAssumption DEF TableHolds, Exists
<1>1. CASE kind = "enable"
  <2>1. /\ u \in Tables /\ u[i].name = t[i].name /\ u[i].active /\ u[i].primary = t[i].primary
        /\ \A k \in ProviderIds \ {i} : u[k] = t[k]
    BY <1>1, EnableIs
  <2>2. i \in ProviderIds /\ Exists(t[i])
    BY <1>1 DEF Allowed
  <2>. HIDE DEF u
  <2>3. TableHolds(u)
    BY <2>1, <2>2 DEF TableHolds, Clash, SameChannel, Exists
  <2>. QED  BY <2>1, <2>3 DEF u
<1>2. CASE kind = "disable"
  <2>1. /\ u \in Tables /\ Exists(t[i])
        /\ u[i].name = t[i].name /\ ~u[i].active /\ ~u[i].primary
        /\ \/ ~t[i].primary /\ \A k \in ProviderIds \ {i} : u[k] = t[k]
           \/ /\ t[i].primary
              /\ \E h \in Others(t, i) :
                   /\ u[h].name = t[h].name /\ u[h].active /\ u[h].primary
                   /\ \A k \in ProviderIds \ {i, h} : u[k] = t[k]
    BY <1>2, DisableIs
  <2>. HIDE DEF u
  <2>2. CASE ~t[i].primary /\ \A k \in ProviderIds \ {i} : u[k] = t[k]
    <3>1. TableHolds(u)
      BY <1>2, <2>1, <2>2 DEF TableHolds, Clash, SameChannel, Exists
    <3>. QED  BY <1>2, <2>1, <2>2, <3>1 DEF u
  <2>3. ASSUME t[i].primary, NEW h \in Others(t, i), u[h].name = t[h].name, u[h].active, u[h].primary,
               \A k \in ProviderIds \ {i, h} : u[k] = t[k]
        PROVE  /\ TableHolds(u)
               /\ \A k \in ProviderIds : u[k].name = t[k].name
    <3>1. h \in ProviderIds \ {i} /\ SameChannel(t[h], t[i])
      BY DEF Others
    <3>2. \A k \in ProviderIds \ {i} : SameChannel(t[k], t[i]) => ~t[k].primary
      BY <1>2, <2>3 DEF TableHolds, Clash, SameChannel
    <3>3. \A k \in ProviderIds \ {h} : SameChannel(u[k], u[h]) => ~u[k].primary
      BY <1>2, <2>1, <2>3, <3>1, <3>2 DEF SameChannel, Exists
    <3>4. \A k \in ProviderIds : u[k].name = t[k].name
      BY <2>1, <2>3
    <3>5. \A k \in ProviderIds : k # h => (u[k].primary => t[k].primary)
      BY <2>1, <2>3
    <3>6. ASSUME NEW k \in ProviderIds, NEW l \in ProviderIds \ {k}
          PROVE  ~Clash(u[k], u[l])
      <4>1. ~Clash(t[k], t[l])
        BY DEF TableHolds
      <4>2. SameChannel(u[k], u[l]) => SameChannel(u[l], u[k])
        BY DEF SameChannel
      <4>. QED  BY <3>3, <3>4, <3>5, <4>1, <4>2 DEF Clash, SameChannel, Exists
    <3>7. ASSUME NEW k \in ProviderIds
          PROVE  (~Exists(u[k]) => u[k] = NoRow) /\ (u[k].primary => u[k].active)
      <4>1. CASE k \in {i, h}
        BY <2>1, <2>3, <3>1, <4>1 DEF SameChannel, Exists
      <4>2. CASE k \notin {i, h}
        BY <2>3, <4>2 DEF TableHolds
      <4>. QED  BY <4>1, <4>2
    <3>. QED  BY <3>4, <3>6, <3>7 DEF TableHolds
  <2>4. /\ TableHolds(u) /\ \A k \in ProviderIds : u[k].name = t[k].name
    <3>1. CASE t[i].primary
      BY <2>1, <2>3, <3>1
    <3>2. CASE ~t[i].primary
      BY <1>2, <2>1, <2>2, <3>2 DEF u
    <3>. QED  BY <3>1, <3>2
  <2>. QED  BY <2>1, <2>4 DEF u
<1>3. CASE kind = "set_primary"
  <2>1. /\ u \in Tables /\ u[i].name = t[i].name /\ u[i].active /\ u[i].primary
        /\ \A k \in ProviderIds \ {i} :
             /\ u[k].name = t[k].name /\ u[k].active = t[k].active
             /\ k \in Others(t, i) => ~u[k].primary
             /\ k \notin Others(t, i) \/ ~t[k].primary => u[k] = t[k]
    BY <1>3, SetPrimaryIs
  <2>2. i \in ProviderIds /\ Exists(t[i])
    BY <1>3 DEF Allowed
  <2>. HIDE DEF u
  <2>3. \A k \in ProviderIds : u[k].name = t[k].name
    BY <2>1, <2>2
  <2>4. \A k \in ProviderIds \ {i} : (u[k].primary => t[k].primary) /\ (SameChannel(u[k], u[i]) => ~u[k].primary)
    BY <2>1, <2>2, <2>3 DEF Others, SameChannel, Exists
  <2>5. ASSUME NEW k \in ProviderIds, NEW l \in ProviderIds \ {k}
        PROVE  ~Clash(u[k], u[l])
    <3>1. ~Clash(t[k], t[l])
      BY DEF TableHolds
    <3>2. SameChannel(u[k], u[l]) => SameChannel(u[l], u[k])
      BY DEF SameChannel
    <3>. QED  BY <2>3, <2>4, <3>1, <3>2 DEF Clash, SameChannel, Exists
  <2>6. ASSUME NEW k \in ProviderIds
        PROVE  (~Exists(u[k]) => u[k] = NoRow) /\ (u[k].primary => u[k].active)
    <3>1. CASE k = i
      BY <2>1, <2>2, <2>3, <3>1 DEF Exists
    <3>2. CASE k # i
      BY <2>1, <2>3, <2>4, <3>2 DEF TableHolds, Others, SameChannel, Exists
    <3>. QED  BY <3>1, <3>2
  <2>. QED  BY <2>1, <2>3, <2>5, <2>6 DEF TableHolds, u
<1>4. CASE kind = "create"
  <2>. DEFINE n == NextRow(t)
  <2>1. /\ u \in Tables /\ n \in ProviderIds /\ ~Exists(t[n]) /\ u[n].name = name
        /\ u[n].active = u[n].primary
        /\ u[n].primary => \A k \in ProviderIds : t[k].active => ChannelOf[t[k].name] # ChannelOf[name]
        /\ \A k \in ProviderIds \ {n} : u[k] = t[k] /\ t[k].name # name
    BY <1>4, CreateIs DEF Saves
  <2>2. name \in ProviderNames
    BY <1>4 DEF Saves
  <2>. HIDE DEF u, n
  <2>3. TableHolds(u)
    BY <1>0, <2>1, <2>2 DEF TableHolds, Clash, SameChannel, Exists
  <2>. QED  BY <1>4, <2>1, <2>3 DEF u, Saves
<1>5. CASE kind = "update"
  <2>1. /\ u \in Tables /\ Exists(t[i])
        /\ u[i].name = name /\ u[i].active = t[i].active /\ u[i].primary = t[i].primary
        /\ \A k \in ProviderIds \ {i} : u[k] = t[k] /\ ~Clash(u[i], t[k])
    BY <1>5, UpdateIs DEF Saves
  <2>2. name \in ProviderNames /\ i \in ProviderIds
    BY <1>5 DEF Saves
  <2>. HIDE DEF u
  <2>3. TableHolds(u)
    BY <1>0, <2>1, <2>2 DEF TableHolds, Clash, SameChannel, Exists
  <2>. QED  BY <1>5, <2>1, <2>3 DEF u, Saves
<1>6. CASE kind = "delete"
  <2>1. u \in Tables /\ u[i] = NoRow /\ (\A k \in ProviderIds \ {i} : u[k] = t[k]) /\ i \in ProviderIds
    BY <1>6, DeleteIs
  <2>. HIDE DEF u
  <2>2. TableHolds(u)
    BY <2>1, NoRowTyped DEF TableHolds, Clash, SameChannel
  <2>. QED  BY <2>1, <2>2, NoRowTyped DEF u
<1>. QED  BY <1>1, <1>2, <1>3, <1>4, <1>5, <1>6 DEF StateActions, Saves

LEMMA SameRow ==
    ASSUME NEW r \in ProviderRow, NEW s \in ProviderRow, r.name = s.name, r.active <=> s.active,
           r.primary <=> s.primary
    PROVE  r = s
BY DEF ProviderRow

LEMMA SameTable ==
    ASSUME NEW t \in Tables, NEW u \in Tables, \A k \in ProviderIds : u[k] = t[k]
    PROVE  u = t
BY DEF Tables

\* The second request of a save: its provider is primary or off, as its dialog said, and nothing
\* changes that was so already, nor any row of another channel.
LEMMA SecondRequest ==
    ASSUME NEW t \in Tables, TableHolds(t), NEW i \in ProviderIds, NEW name, Exists(t[i]),
           NEW primary \in BOOLEAN, NEW enabled \in BOOLEAN, primary \/ ~enabled, primary => enabled,
           Allowed(t, IF primary THEN "set_primary" ELSE "disable", i, name)
    PROVE  LET u == Outcome(t, IF primary THEN "set_primary" ELSE "disable", i, name)
           IN  /\ primary => u[i].primary
               /\ enabled \/ ~u[i].active
               /\ t[i].active = enabled /\ t[i].primary = primary => u = t
               /\ \A k \in ProviderIds : ~SameChannel(u[k], u[i]) => k # i /\ u[k] = t[k]
<1>. DEFINE u == Outcome(t, IF primary THEN "set_primary" ELSE "disable", i, name)
<1>0. t[i] \in ProviderRow
  BY DEF Tables
<1>1. CASE primary
  <2>1. /\ u \in Tables /\ u[i].name = t[i].name /\ u[i].active /\ u[i].primary
        /\ \A k \in ProviderIds \ {i} :
             /\ u[k].name = t[k].name /\ u[k].active = t[k].active
             /\ k \in Others(t, i) => ~u[k].primary
             /\ k \notin Others(t, i) \/ ~t[k].primary => u[k] = t[k]
    BY <1>1, SetPrimaryIs
  <2>. HIDE DEF u
  <2>2. ASSUME NEW k \in ProviderIds, ~SameChannel(u[k], u[i])
        PROVE  k # i /\ u[k] = t[k]
    <3>1. k # i
      BY <2>1, <2>2 DEF SameChannel, Exists
    <3>2. k \notin Others(t, i)
      BY <2>1, <2>2, <3>1 DEF SameChannel, Exists, Others
    <3>. QED  BY <2>1, <3>1, <3>2
  <2>3. ASSUME t[i].active = enabled, t[i].primary = primary
        PROVE  u = t
    <3>1. t[i].active /\ t[i].primary
      BY <1>1, <2>3
    <3>2. u[i] = t[i]
      <4>1. u[i] \in ProviderRow
        BY <2>1 DEF Tables
      <4>2. (u[i].active <=> t[i].active) /\ (u[i].primary <=> t[i].primary)
        BY <2>1, <3>1
      <4>. QED  BY <1>0, <2>1, <4>1, <4>2, SameRow
    <3>3. \A k \in Others(t, i) : ~t[k].primary
      BY <3>1 DEF TableHolds, Clash, Others, SameChannel
    <3>4. \A k \in ProviderIds : u[k] = t[k]
      BY <2>1, <3>2, <3>3
    <3>. QED  BY <2>1, <3>4, SameTable
  <2>. QED  BY <1>1, <2>1, <2>2, <2>3 DEF u
<1>2. CASE ~primary
  <2>0. ~enabled
    BY <1>2
  <2>1. /\ u \in Tables /\ u[i].name = t[i].name /\ ~u[i].active /\ ~u[i].primary
        /\ \/ ~t[i].primary /\ \A k \in ProviderIds \ {i} : u[k] = t[k]
           \/ \E h \in Others(t, i) : u[h].name = t[h].name /\ \A k \in ProviderIds \ {i, h} : u[k] = t[k]
    <3>. DEFINE d == Outcome(t, "disable", i, name)
    <3>1. /\ d \in Tables /\ Exists(t[i])
          /\ d[i].name = t[i].name /\ ~d[i].active /\ ~d[i].primary
          /\ \/ ~t[i].primary /\ \A k \in ProviderIds \ {i} : d[k] = t[k]
             \/ /\ t[i].primary
                /\ \E h \in Others(t, i) :
                     /\ d[h].name = t[h].name /\ d[h].active /\ d[h].primary
                     /\ \A k \in ProviderIds \ {i, h} : d[k] = t[k]
      BY <1>2, DisableIs
    <3>2. u = d
      BY <1>2
    <3>. HIDE DEF u, d
    <3>. QED  BY <3>1, <3>2
  <2>. HIDE DEF u
  <2>2. ASSUME NEW k \in ProviderIds, ~SameChannel(u[k], u[i])
        PROVE  k # i /\ u[k] = t[k]
    <3>1. k # i
      BY <2>1, <2>2 DEF SameChannel, Exists
    <3>2. k \notin Others(t, i) \/ u[k].name # t[k].name
      BY <2>1, <2>2, <3>1 DEF SameChannel, Exists, Others
    <3>. QED  BY <2>1, <3>1, <3>2
  <2>3. ASSUME t[i].active = enabled, t[i].primary = primary
        PROVE  u = t
    <3>1. ~t[i].active /\ ~t[i].primary
      BY <1>2, <2>0, <2>3
    <3>2. u[i] = t[i]
      <4>1. u[i] \in ProviderRow
        BY <2>1 DEF Tables
      <4>2. (u[i].active <=> t[i].active) /\ (u[i].primary <=> t[i].primary)
        BY <2>1, <3>1
      <4>. QED  BY <1>0, <2>1, <4>1, <4>2, SameRow
    <3>3. \A k \in ProviderIds \ {i} : u[k] = t[k]
      <4>1. ~t[i].primary /\ Allowed(t, "disable", i, name) /\ u = Outcome(t, "disable", i, name)
        BY <1>2, <3>1 DEF u
      <4>. QED  BY <4>1, DisableIs
    <3>4. \A k \in ProviderIds : u[k] = t[k]
      BY <3>2, <3>3
    <3>. QED  BY <2>1, <3>4, SameTable
  <2>. QED  BY <1>2, <2>0, <2>1, <2>2, <2>3 DEF u
<1>. QED  BY <1>1, <1>2

LEMMA CardsTyped ==
    /\ NoForm \in CardForm /\ ~NoForm.open /\ ~NoForm.primary
    /\ NoJob \in Job /\ NoJob.at = "idle" /\ NoJob.name = NoProvider
    /\ NoCardFetch \in [at: {"idle", "asked", "read"}, data: Tables] /\ NoCardFetch.at = "idle"
    /\ TableHolds(NoCardFetch.data)
<1>1. NoForm \in CardForm /\ ~NoForm.open /\ ~NoForm.primary
  BY DEF NoForm, CardForm, Buttons
<1>2. NoJob \in Job /\ NoJob.at = "idle" /\ NoJob.name = NoProvider
  BY DEF NoJob, Job
<1>3. NoCardFetch.data = [i \in ProviderIds |-> NoRow] /\ NoCardFetch.at = "idle"
  BY DEF NoCardFetch
<1>4. [i \in ProviderIds |-> NoRow] \in Tables
  BY NoRowTyped DEF Tables
<1>5. NoCardFetch \in [at: {"idle", "asked", "read"}, data: Tables]
  BY <1>4 DEF NoCardFetch
<1>6. TableHolds(NoCardFetch.data)
  BY <1>3, NoRowTyped DEF TableHolds, Clash
<1>. QED  BY <1>1, <1>2, <1>3, <1>5, <1>6

LEMMA ConnectedHolds ==
    ASSUME NEW t \in ConnectedTables
    PROVE  t \in Tables /\ TableHolds(t)
<1>1. t \in Tables /\ Connected(t) /\ \A i \in ProviderIds : ~Exists(t[i]) => t[i] = NoRow
  BY DEF ConnectedTables, Tables
<1>2. ASSUME NEW i \in ProviderIds, Exists(t[i])
      PROVE  /\ t[i].primary <=> ~\E j \in ProviderIds : j < i /\ SameChannel(t[i], t[j])
             /\ (~\E j \in ProviderIds : j < i /\ SameChannel(t[i], t[j])) => t[i].active
             /\ \A j \in ProviderIds : j # i => t[j].name # t[i].name
  <2>. DEFINE earlier == {j \in ProviderIds : j < i /\ SameChannel(t[i], t[j])}
  <2>1. /\ t[i].primary <=> earlier = {}
        /\ earlier = {} => t[i].active
        /\ \A j \in ProviderIds : j # i => t[j].name # t[i].name
    BY <1>1, <1>2 DEF Connected
  <2>2. earlier = {} <=> ~\E j \in ProviderIds : j < i /\ SameChannel(t[i], t[j])
    OBVIOUS
  <2>. HIDE DEF earlier
  <2>. QED  BY <2>1, <2>2
<1>3. ASSUME NEW i \in ProviderIds, NEW k \in ProviderIds \ {i}
      PROVE  ~Clash(t[i], t[k])
  <2>1. i < k \/ k < i
    BY ProvidersAssumption
  <2>2. SameChannel(t[i], t[k]) => SameChannel(t[k], t[i])
    BY DEF SameChannel
  <2>. QED  BY <1>2, <2>1, <2>2 DEF Clash, SameChannel
<1>4. ASSUME NEW i \in ProviderIds
      PROVE  (~Exists(t[i]) => t[i] = NoRow) /\ (t[i].primary => t[i].active)
  BY <1>1, <1>2, NoRowTyped
<1>. QED  BY <1>1, <1>3, <1>4 DEF TableHolds

LEMMA ProvidersAtFirst == ProviderPageInit => ProviderInv
<1>. SUFFICES ASSUME ProviderPageInit
              PROVE  ProviderInv
  OBVIOUS
<1>1. providers \in Tables /\ TableHolds(providers) /\ cards = providers
  BY ConnectedHolds DEF ProviderPageInit
<1>2. /\ connect \in CardForm /\ ~connect.open /\ ~connect.primary /\ connect.busy = NoForm.busy
      /\ cardFetch \in [at: {"idle", "asked", "read"}, data: Tables] /\ cardFetch.at = "idle"
      /\ TableHolds(cardFetch.data) /\ cardsSpoiled \subseteq CardSpoilers
  BY CardsTyped DEF ProviderPageInit
<1>3. job \in [Jobs -> Job] /\ \A j \in Jobs : job[j].at = "idle"
  BY CardsTyped DEF ProviderPageInit
<1>4. Running = {} /\ Waiting = {}
  BY <1>3 DEF Running, Waiting
<1>5. ProviderTypes
  BY <1>1, <1>2, <1>3 DEF ProviderTypes
<1>6. JobsKnow /\ ButtonsHeld /\ CardsFollow
  BY <1>1, <1>2, <1>4 DEF JobsKnow, ButtonsHeld, CardsFollow
<1>7. SavesAlone
  BY <1>1, <1>2, <1>4 DEF SavesAlone, Alike
<1>. QED  BY <1>1, <1>2, <1>5, <1>6, <1>7 DEF ProviderInv

\* The dialog opens, closes or is filled in: what runs, the table and the cards stay.
LEMMA FormKeeps ==
    ASSUME ProviderInv, UNCHANGED <<providers, cards, cardFetch, job>>, connect' \in CardForm,
           cardsSpoiled \subseteq cardsSpoiled', cardsSpoiled' \subseteq CardSpoilers,
           connect'.open => connect'.name \in ProviderNames, connect'.primary => connect'.enabled,
           connect'.busy \in {connect.busy, NoForm.busy},
           "crossed" \notin cardsSpoiled' =>
             /\ \A j \in Running : job[j].kind \in Saves =>
                  connect'.open /\ connect'.name = connect.name /\ connect'.id = connect.id
             /\ connect'.open => \A i \in ProviderIds :
                  connect'.id = i /\ Exists(providers[i]) => providers[i].name = connect'.name
    PROVE  ProviderInv'
<1>1. Running' = Running /\ Waiting' = Waiting
  BY DEF Running, Waiting
<1>2. ProviderTypes' /\ TableHolds(providers)' /\ TableHolds(cards)' /\ TableHolds(cardFetch.data)'
  BY DEF ProviderInv, ProviderTypes, Tables, CardForm, Job
<1>3. NoForm' = NoForm
  BY DEF NoForm
<1>4. JobsKnow' /\ ButtonsHeld'
  BY <1>1, <1>3 DEF ProviderInv, JobsKnow, ButtonsHeld
<1>5. CardsUnspoiled' => CardsUnspoiled
  BY DEF CardsUnspoiled
<1>6. CardsFollow'
  BY <1>5 DEF ProviderInv, CardsFollow
<1>7. \A j \in Jobs : (Begun(j) <=> Begun(j)') /\ (Honours(j) <=> Honours(j)')
  BY DEF Begun, Honours
<1>8. SavesAlone'
  <2>. SUFFICES ASSUME "crossed" \notin cardsSpoiled'
                PROVE  SavesAlone'
    BY DEF SavesAlone
  <2>1. "crossed" \notin cardsSpoiled
    OBVIOUS
  <2>2. \A j \in Running : j \in Jobs
    BY DEF Running
  <2>. QED  BY <1>1, <1>5, <1>7, <2>1, <2>2 DEF ProviderInv, SavesAlone
<1>. QED  BY <1>2, <1>4, <1>6, <1>8 DEF ProviderInv

\* A function starts.
StartsAs(j, kind, i, name) ==
    /\ j \notin Running /\ job' \in [Jobs -> Job]
    /\ job'[j].kind = kind /\ job'[j].at = "first" /\ job'[j].id = i /\ job'[j].name = name
    /\ name # NoProvider => /\ job'[j].enabled = connect.enabled /\ job'[j].primary = connect.primary
                            /\ Running = {} => job'[j].before = providers
    /\ \A k \in Jobs \ {j} : job'[k] = job[k]
    /\ Running' = Running \cup {j} /\ Waiting' = Waiting

LEMMA StartedJob ==
    ASSUME ProviderTypes, NEW kind \in StateActions \cup Saves \cup {"delete"}, NEW i \in ProviderIds \cup {0},
           NEW name \in ProviderNames \cup {NoProvider}, NEW f, StartJob(kind, i, name, f)
    PROVE  \E j \in Jobs : StartsAs(j, kind, i, name)
<1>. DEFINE r == IF name = NoProvider THEN [NoJob EXCEPT !.kind = kind, !.at = "first", !.id = i]
                 ELSE [kind |-> kind, at |-> "first", id |-> i, name |-> name,
                       enabled |-> connect.enabled, primary |-> connect.primary,
                       before |-> IF Running = {} THEN providers ELSE <<>>]
<1>1. PICK j \in Jobs : job[j].at = "idle" /\ job' = [job EXCEPT ![j] = r]
  BY Zenon DEF StartJob
<1>2. /\ r \in Job /\ r.kind = kind /\ r.at = "first" /\ r.id = i /\ r.name = name
      /\ name # NoProvider => /\ r.enabled = connect.enabled /\ r.primary = connect.primary
                              /\ Running = {} => r.before = providers
  <2>1. CASE name = NoProvider
    <3>1. r = [NoJob EXCEPT !.kind = kind, !.at = "first", !.id = i]
      BY <2>1
    <3>. HIDE DEF r
    <3>. QED  BY <2>1, <3>1, CardsTyped DEF Job
  <2>2. CASE name # NoProvider
    <3>. DEFINE b == IF Running = {} THEN providers ELSE <<>>
    <3>1. r = [kind |-> kind, at |-> "first", id |-> i, name |-> name,
               enabled |-> connect.enabled, primary |-> connect.primary, before |-> b]
      BY <2>2
    <3>2. b \in Tables \cup {<<>>} /\ connect.enabled \in BOOLEAN /\ connect.primary \in BOOLEAN
      BY DEF ProviderTypes, CardForm
    <3>3. Running = {} => b = providers
      OBVIOUS
    <3>. HIDE DEF r, b
    <3>. QED  BY <2>2, <3>1, <3>2, <3>3 DEF Job
  <2>. QED  BY <2>1, <2>2
<1>. HIDE DEF r
<1>3. /\ job' \in [Jobs -> Job] /\ job'[j] = r /\ \A k \in Jobs \ {j} : job'[k] = job[k]
  BY <1>1, <1>2 DEF ProviderTypes
<1>4. j \notin Running /\ Running' = Running \cup {j} /\ Waiting' = Waiting
  BY <1>1, <1>2, <1>3 DEF Running, Waiting
<1>. QED  BY <1>2, <1>3, <1>4 DEF StartsAs

LEMMA JobStartKeeps ==
    ASSUME ProviderInv, NEW kind \in StateActions \cup Saves \cup {"delete"}, NEW i \in ProviderIds \cup {0},
           NEW name \in ProviderNames \cup {NoProvider}, NEW f \in CardForm, StartJob(kind, i, name, f),
           f.open = connect.open, f.name = connect.name, f.id = connect.id,
           f.enabled = connect.enabled, f.primary = connect.primary,
           f.busy # connect.busy => kind # "delete",
           IF kind \in Saves THEN connect.open /\ name = connect.name /\ i = connect.id /\ (kind = "create" <=> i = 0)
           ELSE name = NoProvider /\ i \in ProviderIds
    PROVE  ProviderInv'
<1>0. PICK j \in Jobs : StartsAs(j, kind, i, name)
  <2>1. ProviderTypes
    BY DEF ProviderInv
  <2>. QED  BY <2>1, StartedJob
<1>1. /\ j \notin Running /\ job' \in [Jobs -> Job]
      /\ job'[j].kind = kind /\ job'[j].at = "first" /\ job'[j].id = i /\ job'[j].name = name
      /\ name # NoProvider => /\ job'[j].enabled = connect.enabled /\ job'[j].primary = connect.primary
                              /\ Running = {} => job'[j].before = providers
      /\ \A k \in Jobs \ {j} : job'[k] = job[k]
      /\ Running' = Running \cup {j} /\ Waiting' = Waiting
  BY <1>0 DEF StartsAs
<1>2. /\ connect' = f /\ UNCHANGED <<providers, cards, cardFetch>>
      /\ cardsSpoiled' = IF Running = {} THEN cardsSpoiled ELSE cardsSpoiled \cup {"crossed"}
  BY DEF StartJob
<1>3. \A k \in Running : k \in Jobs \ {j} /\ job'[k] = job[k]
  BY <1>1 DEF Running
<1>4. ProviderTypes' /\ TableHolds(providers)' /\ TableHolds(cards)' /\ TableHolds(cardFetch.data)'
  <2>1. cardsSpoiled' \subseteq CardSpoilers
    BY <1>2 DEF ProviderInv, ProviderTypes, CardSpoilers
  <2>. QED  BY <1>1, <1>2, <2>1 DEF ProviderInv, ProviderTypes, Tables, CardForm, Job
<1>5. kind \in Saves => name # NoProvider /\ name \in ProviderNames
  BY ProvidersAssumption DEF ProviderInv, JobsKnow, NoProvider
<1>6. kind = "create" \/ i \in ProviderIds
  BY DEF Saves
<1>7. JobsKnow'
  <2>1. connect.open = connect'.open /\ connect.name = connect'.name
        /\ connect'.primary = connect.primary /\ connect'.enabled = connect.enabled
    BY <1>2
  <2>2. ASSUME NEW k \in Running'
        PROVE  /\ job'[k].kind # "none"
               /\ job'[k].at \in {"second", "relisting"} =>
                   job'[k].kind \in Saves /\ (job'[k].primary \/ ~job'[k].enabled)
               /\ job'[k].kind \in Saves =>
                   job'[k].name \in ProviderNames /\ (job'[k].primary => job'[k].enabled)
               /\ job'[k].kind # "create" \/ job'[k].at # "first" => job'[k].id \in ProviderIds
    <3>1. CASE k = j
      <4>1. connect.primary => connect.enabled
        BY DEF ProviderInv, JobsKnow
      <4>2. kind # "none"
        BY DEF StateActions, Saves
      <4>3. kind \in Saves => (job'[j].primary => job'[j].enabled)
        BY <1>1, <1>5, <4>1
      <4>. QED  BY <1>1, <1>5, <1>6, <3>1, <4>2, <4>3
    <3>2. CASE k # j
      BY <1>1, <1>3, <3>2 DEF ProviderInv, JobsKnow
    <3>. QED  BY <3>1, <3>2
  <2>. QED  BY <2>1, <2>2 DEF ProviderInv, JobsKnow
<1>8. ButtonsHeld'
  <2>1. NoForm' = NoForm
    BY DEF NoForm
  <2>. QED  BY <1>1, <1>2, <1>3, <2>1 DEF ProviderInv, ButtonsHeld
<1>9. CardsUnspoiled' => CardsUnspoiled
  BY <1>2 DEF CardsUnspoiled
<1>10. CardsFollow'
  BY <1>2, <1>9 DEF ProviderInv, CardsFollow
<1>11. SavesAlone'
  <2>. SUFFICES ASSUME "crossed" \notin cardsSpoiled'
                PROVE  SavesAlone'
    BY DEF SavesAlone
  <2>1. Running = {} /\ Running' = {j} /\ "crossed" \notin cardsSpoiled
    BY <1>1, <1>2
  <2>2. kind \in Saves => /\ connect'.open /\ connect'.name = job'[j].name
                          /\ connect'.id = IF job'[j].kind = "create" THEN 0 ELSE job'[j].id
                          /\ providers' = job'[j].before
    BY <1>1, <1>2, <1>5, <2>1
  <2>3. kind \in Saves => Begun(j)'
    BY <1>1, <2>2 DEF Begun
  <2>4. ASSUME NEW k \in ProviderIds
        PROVE  /\ Alike(cards'[k], providers'[k])
               /\ cardFetch'.at = "read" => Alike(cardFetch'.data[k], providers'[k])
               /\ connect'.open /\ connect'.id = k /\ Exists(providers'[k]) => providers'[k].name = connect'.name
    BY <1>2, <2>1 DEF ProviderInv, SavesAlone
  <2>. QED  BY <1>1, <2>1, <2>2, <2>3, <2>4 DEF SavesAlone
<1>. QED  BY <1>4, <1>7, <1>8, <1>10, <1>11 DEF ProviderInv

LEMMA DialogKeeps ==
    ASSUME ProviderInv,
           \/ \E i \in ProviderIds : EditProvider(i)
           \/ \E n \in ProviderNames : ConnectProvider(n)
           \/ ToggleEnabled \/ TogglePrimary \/ CloseProvider
    PROVE  ProviderInv'
<1>0. connect \in CardForm /\ cards \in Tables /\ cardsSpoiled \subseteq CardSpoilers
  BY DEF ProviderInv, ProviderTypes
<1>1. ASSUME NEW i \in ProviderIds \cup {0}, NEW name \in ProviderNames, NEW enabled \in BOOLEAN, NEW primary \in BOOLEAN,
             OpenProvider(i, name, enabled, primary), ~connect.open, primary => enabled,
             i # 0 => Exists(cards[i]) /\ name = cards[i].name
      PROVE  ProviderInv'
  <2>. DEFINE f == [open |-> TRUE, name |-> name, id |-> i, enabled |-> enabled,
                    primary |-> primary, busy |-> <<"none", 0>>]
  <2>1. /\ connect' = f /\ UNCHANGED <<providers, cards, cardFetch, job>>
        /\ cardsSpoiled' \in {cardsSpoiled, cardsSpoiled \cup {"stale"}}
    BY <1>1 DEF OpenProvider
  <2>2. /\ f \in CardForm /\ f.open /\ f.name = name /\ f.id = i /\ f.busy = NoForm.busy
        /\ f.primary = primary /\ f.enabled = enabled
    BY DEF CardForm, Buttons, NoForm
  <2>. HIDE DEF f
  <2>3. ASSUME "crossed" \notin cardsSpoiled'
        PROVE  /\ \A j \in Running : job[j].kind \notin Saves
               /\ \A k \in ProviderIds : f.id = k /\ Exists(providers[k]) => providers[k].name = f.name
    <3>1. "crossed" \notin cardsSpoiled
      BY <2>1, <2>3
    <3>2. \A j \in Running : job[j].kind \notin Saves
      BY <1>1, <3>1 DEF ProviderInv, SavesAlone
    <3>3. \A k \in ProviderIds : Alike(cards[k], providers[k])
      BY <3>1, <3>2 DEF ProviderInv, SavesAlone, Saves
    <3>4. 0 \notin ProviderIds
      BY ProvidersAssumption
    <3>. QED  BY <1>1, <2>2, <3>2, <3>3, <3>4 DEF Alike
  <2>4. cardsSpoiled' \subseteq CardSpoilers /\ cardsSpoiled \subseteq cardsSpoiled'
    BY <1>0, <2>1 DEF CardSpoilers
  <2>. QED  BY <1>1, <2>1, <2>2, <2>3, <2>4, FormKeeps
<1>2. ASSUME NEW i \in ProviderIds, EditProvider(i)
      PROVE  ProviderInv'
  <2>1. ~connect.open /\ Exists(cards[i]) /\ OpenProvider(i, cards[i].name, cards[i].active, cards[i].primary)
    BY <1>2 DEF EditProvider, OnCards
  <2>2. cards[i].name \in ProviderNames /\ cards[i].active \in BOOLEAN /\ cards[i].primary \in BOOLEAN
    BY <1>0, <2>1 DEF Tables, ProviderRow, Exists
  <2>3. cards[i].primary => cards[i].active
    BY DEF ProviderInv, TableHolds
  <2>. QED  BY <1>1, <2>1, <2>2, <2>3
<1>3. ASSUME NEW n \in ProviderNames, ConnectProvider(n)
      PROVE  ProviderInv'
  BY <1>1, <1>3 DEF ConnectProvider, OnCards
<1>4. ASSUME NEW f \in CardForm, Toggle(f), f.open = connect.open, f.name = connect.name, f.id = connect.id,
             f.busy = connect.busy, f.primary => f.enabled
      PROVE  ProviderInv'
  <2>1. UNCHANGED <<providers, cards, cardFetch, job, cardsSpoiled>> /\ connect' = f /\ connect.open
    BY <1>4 DEF Toggle
  <2>2. "crossed" \notin cardsSpoiled => \A i \in ProviderIds :
          connect.id = i /\ Exists(providers[i]) => providers[i].name = connect.name
    BY <2>1 DEF ProviderInv, SavesAlone
  <2>3. connect.name \in ProviderNames
    BY <2>1 DEF ProviderInv, JobsKnow
  <2>. QED  BY <1>0, <1>4, <2>1, <2>2, <2>3, FormKeeps
<1>5. CASE ToggleEnabled
  <2>. DEFINE f == [connect EXCEPT !.enabled = ~connect.enabled, !.primary = connect.primary /\ ~connect.enabled]
  <2>1. Toggle(f)
    BY <1>5 DEF ToggleEnabled
  <2>2. /\ f \in CardForm /\ f.open = connect.open /\ f.name = connect.name /\ f.id = connect.id
        /\ f.busy = connect.busy /\ (f.primary => f.enabled)
    BY <1>0 DEF CardForm
  <2>. HIDE DEF f
  <2>. QED  BY <1>4, <2>1, <2>2
<1>6. CASE TogglePrimary
  <2>. DEFINE f == [connect EXCEPT !.primary = ~connect.primary]
  <2>1. Toggle(f) /\ connect.enabled
    BY <1>6 DEF TogglePrimary
  <2>2. /\ f \in CardForm /\ f.open = connect.open /\ f.name = connect.name /\ f.id = connect.id
        /\ f.busy = connect.busy /\ f.enabled = connect.enabled
    BY <1>0 DEF CardForm
  <2>. HIDE DEF f
  <2>. QED  BY <1>4, <2>1, <2>2
<1>7. CASE CloseProvider
  <2>1. /\ connect' = NoForm /\ UNCHANGED <<providers, cards, cardFetch, job>>
        /\ cardsSpoiled' = IF Running = {} THEN cardsSpoiled ELSE cardsSpoiled \cup {"crossed"}
    BY <1>7 DEF CloseProvider
  <2>2. cardsSpoiled' \subseteq CardSpoilers /\ cardsSpoiled \subseteq cardsSpoiled'
    BY <1>0, <2>1 DEF CardSpoilers
  <2>3. "crossed" \notin cardsSpoiled' => Running = {}
    BY <2>1
  <2>. QED  BY <2>1, <2>2, <2>3, CardsTyped, FormKeeps
<1>. QED  BY <1>2, <1>3, <1>5, <1>6, <1>7

LEMMA RequestKeeps ==
    ASSUME ProviderInv,
           \/ SubmitProvider
           \/ \E i \in ProviderIds : Disconnect(i) \/ \E a \in StateActions : ChangeState(a, i)
    PROVE  ProviderInv'
<1>0. connect \in CardForm /\ 0 \notin ProviderIds /\ NoProvider \notin ProviderNames
  BY ProvidersAssumption DEF ProviderInv, ProviderTypes, NoProvider
<1>1. ASSUME NEW b \in Buttons
      PROVE  /\ [connect EXCEPT !.busy = b] \in CardForm
             /\ [connect EXCEPT !.busy = b].open = connect.open /\ [connect EXCEPT !.busy = b].name = connect.name
             /\ [connect EXCEPT !.busy = b].id = connect.id
             /\ [connect EXCEPT !.busy = b].enabled = connect.enabled
             /\ [connect EXCEPT !.busy = b].primary = connect.primary
  BY <1>0 DEF CardForm
<1>2. CASE SubmitProvider
  <2>. DEFINE kind == IF connect.id = 0 THEN "create" ELSE "update"
              f    == [connect EXCEPT !.busy = <<"save", connect.name>>]
  <2>1. connect.open /\ StartJob(kind, connect.id, connect.name, f)
    BY <1>2 DEF SubmitProvider
  <2>2. connect.name \in ProviderNames /\ connect.id \in ProviderIds \cup {0}
    BY <1>0, <2>1 DEF ProviderInv, JobsKnow, CardForm
  <2>3. <<"save", connect.name>> \in Buttons
    BY <2>2 DEF Buttons
  <2>4. /\ f \in CardForm /\ f.open = connect.open /\ f.name = connect.name /\ f.id = connect.id
        /\ f.enabled = connect.enabled /\ f.primary = connect.primary
    BY <1>1, <2>3
  <2>5. kind \in Saves /\ kind # "delete" /\ (kind = "create" <=> connect.id = 0)
    BY DEF Saves
  <2>. HIDE DEF f, kind
  <2>. QED  BY <2>1, <2>2, <2>4, <2>5, JobStartKeeps
<1>3. ASSUME NEW i \in ProviderIds, NEW a \in StateActions, ChangeState(a, i)
      PROVE  ProviderInv'
  <2>. DEFINE f == [connect EXCEPT !.busy = <<a, i>>]
  <2>1. StartJob(a, i, NoProvider, f)
    BY <1>3 DEF ChangeState
  <2>2. <<a, i>> \in Buttons
    BY DEF Buttons
  <2>3. /\ f \in CardForm /\ f.open = connect.open /\ f.name = connect.name /\ f.id = connect.id
        /\ f.enabled = connect.enabled /\ f.primary = connect.primary
    BY <1>1, <2>2
  <2>4. a \notin Saves /\ a # "delete"
    BY DEF Saves, StateActions
  <2>. HIDE DEF f
  <2>. QED  BY <2>1, <2>3, <2>4, JobStartKeeps
<1>4. ASSUME NEW i \in ProviderIds, Disconnect(i)
      PROVE  ProviderInv'
  <2>1. StartJob("delete", i, NoProvider, connect) /\ "delete" \notin Saves
    BY <1>4 DEF Disconnect, Saves
  <2>. QED  BY <1>0, <2>1, JobStartKeeps
<1>. QED  BY <1>2, <1>3, <1>4

\* The functions that waited for the list go on or end.
Finishing == {j \in Waiting : ~GoesOn(j)}

LEMMA ResumedJobs ==
    ASSUME ProviderTypes
    PROVE  /\ JobsResumed \in [Jobs -> Job]
           /\ \A j \in Jobs \ Waiting : JobsResumed[j] = job[j]
           /\ \A j \in Finishing : JobsResumed[j].at = "done"
           /\ \A j \in Waiting \ Finishing :
                /\ JobsResumed[j].at = "second" /\ JobsResumed[j].kind = job[j].kind
                /\ JobsResumed[j].id = job[j].id /\ JobsResumed[j].name = job[j].name
                /\ JobsResumed[j].enabled = job[j].enabled /\ JobsResumed[j].primary = job[j].primary
                /\ JobsResumed[j].before = job[j].before
<1>. DEFINE on(j) == [job[j] EXCEPT !.at = "second"]
            over  == [NoJob EXCEPT !.at = "done"]
<1>1. JobsResumed = [j \in Jobs |-> CASE j \notin Waiting -> job[j]
                                      [] j \in Waiting /\ GoesOn(j)  -> on(j)
                                      [] j \in Waiting /\ ~GoesOn(j) -> over]
  BY DEF JobsResumed
<1>2. over \in Job /\ over.at = "done"
  BY CardsTyped DEF Job
<1>3. ASSUME NEW j \in Jobs
      PROVE  /\ job[j] \in Job /\ on(j) \in Job /\ on(j).at = "second" /\ on(j).kind = job[j].kind
             /\ on(j).id = job[j].id /\ on(j).name = job[j].name
             /\ on(j).enabled = job[j].enabled /\ on(j).primary = job[j].primary
             /\ on(j).before = job[j].before
  <2>1. job[j] \in Job
    BY DEF ProviderTypes
  <2>. QED  BY <2>1 DEF Job
<1>. HIDE DEF on, over
<1>4. Waiting \subseteq Jobs
  BY DEF Waiting
<1>5. ASSUME NEW j \in Jobs
      PROVE  /\ j \notin Waiting => JobsResumed[j] = job[j]
             /\ j \in Finishing => JobsResumed[j] = over
             /\ j \in Waiting \ Finishing => JobsResumed[j] = on(j)
  BY <1>1 DEF Finishing
<1>6. JobsResumed \in [Jobs -> Job]
  <2>1. ASSUME NEW j \in Jobs
        PROVE  JobsResumed[j] \in Job
    BY <1>2, <1>3, <1>5 DEF Finishing
  <2>2. JobsResumed = [j \in Jobs |-> JobsResumed[j]]
    BY <1>1
  <2>. QED  BY <2>1, <2>2
<1>7. Finishing \subseteq Waiting
  BY DEF Finishing
<1>. QED  BY <1>2, <1>3, <1>4, <1>5, <1>6, <1>7

LEMMA ResumedForm ==
    ASSUME ProviderTypes
    PROVE  /\ FormResumed \in CardForm
           /\ Finishing = {} => FormResumed = connect
           /\ \/ FormResumed = NoForm /\ \E j \in Finishing : job[j].kind \in Saves
              \/ /\ FormResumed.open = connect.open /\ FormResumed.name = connect.name
                 /\ FormResumed.id = connect.id /\ FormResumed.enabled = connect.enabled
                 /\ FormResumed.primary = connect.primary
                 /\ \/ FormResumed.busy = NoForm.busy
                    \/ FormResumed.busy = connect.busy /\ \A j \in Finishing : job[j].kind = "delete"
                 /\ \A j \in Finishing : job[j].kind \notin Saves
<1>. DEFINE ended == {job[j].kind : j \in Finishing} \ {"delete"}
            f     == [connect EXCEPT !.busy = <<"none", 0>>]
<1>1. FormResumed = IF ended \cap {"create", "update"} # {} THEN NoForm
                    ELSE IF ended # {} THEN f ELSE connect
  BY DEF FormResumed, Finishing
<1>2. /\ f \in CardForm /\ f.open = connect.open /\ f.name = connect.name /\ f.id = connect.id
      /\ f.enabled = connect.enabled /\ f.primary = connect.primary /\ f.busy = NoForm.busy
      /\ connect \in CardForm
  <2>1. <<"none", 0>> \in Buttons
    BY DEF Buttons
  <2>. QED  BY <2>1 DEF ProviderTypes, CardForm, NoForm
<1>3. /\ ended \cap {"create", "update"} # {} => \E j \in Finishing : job[j].kind \in Saves
      /\ ended \cap {"create", "update"} = {} => \A j \in Finishing : job[j].kind \notin Saves
      /\ ended = {} => \A j \in Finishing : job[j].kind = "delete"
      /\ Finishing = {} => ended = {} /\ ended \cap {"create", "update"} = {}
  BY DEF Saves
<1>. HIDE DEF f, ended
<1>4. CASE ended \cap {"create", "update"} # {}
  BY <1>1, <1>3, <1>4, CardsTyped
<1>5. CASE ended \cap {"create", "update"} = {} /\ ended # {}
  BY <1>1, <1>2, <1>3, <1>5
<1>6. CASE ended \cap {"create", "update"} = {} /\ ended = {}
  BY <1>1, <1>2, <1>3, <1>6
<1>. QED  BY <1>4, <1>5, <1>6

\* A request is answered: its function waits for the list, and what waited goes on.
ServedTo(j) ==
    /\ j \in Running \ Waiting /\ job' \in [Jobs -> Job]
    /\ job'[j].at = IF job[j].at = "first" THEN "listing" ELSE "relisting"
    /\ job'[j].id = Target(j)
    /\ job'[j].kind = job[j].kind /\ job'[j].name = job[j].name /\ job'[j].before = job[j].before
    /\ job'[j].enabled = job[j].enabled /\ job'[j].primary = job[j].primary
    /\ \A k \in Jobs \ {j} : job'[k] = JobsResumed[k]
    /\ Running' = Running \ Finishing /\ j \in Running' /\ j \in Waiting'

LEMMA ServedJob ==
    ASSUME ProviderTypes, NEW j \in Jobs, JobServed(j), Target(j) \in ProviderIds
    PROVE  ServedTo(j)
<1>. DEFINE to == IF job[j].at = "first" THEN "listing" ELSE "relisting"
            r  == [job[j] EXCEPT !.at = to, !.id = Target(j)]
<1>1. job' = [JobsResumed EXCEPT ![j] = r] /\ job[j].at \in {"first", "second"}
  BY DEF JobServed
<1>2. /\ r \in Job /\ r.at = to /\ r.id = Target(j)
      /\ r.kind = job[j].kind /\ r.name = job[j].name /\ r.before = job[j].before
      /\ r.enabled = job[j].enabled /\ r.primary = job[j].primary
  <2>1. job[j] \in Job /\ to \in {"listing", "relisting"}
    BY DEF ProviderTypes
  <2>. HIDE DEF to
  <2>. QED  BY <2>1 DEF Job
<1>. HIDE DEF r
<1>3. /\ job' \in [Jobs -> Job] /\ job'[j] = r /\ \A k \in Jobs \ {j} : job'[k] = JobsResumed[k]
  BY <1>1, <1>2, ResumedJobs
<1>4. j \in Running \ Waiting
  BY <1>1 DEF Running, Waiting
<1>5. ASSUME NEW k \in Jobs \ {j}
      PROVE  k \in Running' <=> k \in Running \ Finishing
  <2>1. Finishing \subseteq Waiting /\ Waiting \subseteq Running
    BY DEF Finishing, Waiting, Running
  <2>2. CASE k \notin Waiting
    BY <1>3, <2>1, <2>2, ResumedJobs DEF Running
  <2>3. CASE k \in Finishing
    BY <1>3, <2>3, ResumedJobs DEF Running
  <2>4. CASE k \in Waiting \ Finishing
    BY <1>3, <2>1, <2>4, ResumedJobs DEF Running
  <2>. QED  BY <2>2, <2>3, <2>4
<1>6. j \in Running' /\ j \in Waiting' /\ j \notin Finishing
  BY <1>2, <1>3, <1>4 DEF Running, Waiting, Finishing
<1>7. Running' = Running \ Finishing
  <2>1. Running \subseteq Jobs /\ Running' \subseteq Jobs
    BY DEF Running
  <2>. QED  BY <1>4, <1>5, <1>6, <2>1
<1>. QED  BY <1>2, <1>3, <1>4, <1>6, <1>7 DEF ServedTo

\* What the request of j comes to.
LEMMA EffectHolds ==
    ASSUME ProviderInv, NEW j \in Jobs, job[j].at \in {"first", "second"}, JobAllowed(j)
    PROVE  /\ Effect(j) \in Tables /\ TableHolds(Effect(j)) /\ Target(j) \in ProviderIds
           /\ job[j].at = "second" => JobAsks(j) \notin Saves /\ Target(j) = job[j].id
           /\ job[j].at = "first" => JobAsks(j) = job[j].kind
           /\ job[j].kind # "create" => Target(j) = job[j].id
           /\ JobAsks(j) \notin Saves => \A k \in ProviderIds :
                Exists(Effect(j)[k]) => Effect(j)[k].name = providers[k].name
<1>1. j \in Running /\ job[j] \in Job /\ providers \in Tables /\ TableHolds(providers)
  BY DEF Running, ProviderInv, ProviderTypes
<1>2. /\ JobAsks(j) \in StateActions \cup Saves \cup {"delete"}
      /\ job[j].at = "second" => JobAsks(j) \notin Saves /\ job[j].kind \in Saves /\ job[j].id \in ProviderIds
      /\ job[j].at = "first" => JobAsks(j) = job[j].kind
      /\ JobAsks(j) # "create" => job[j].id \in ProviderIds
      /\ JobAsks(j) \in Saves => job[j].name \in ProviderNames
  <2>1. CASE job[j].at = "first"
    <3>1. JobAsks(j) = job[j].kind
      BY <2>1 DEF JobAsks
    <3>. QED  BY <1>1, <2>1, <3>1 DEF ProviderInv, JobsKnow, Job
  <2>2. CASE job[j].at = "second"
    <3>1. JobAsks(j) \in {"set_primary", "disable"}
      BY <2>2 DEF JobAsks
    <3>2. job[j].kind \in Saves /\ job[j].id \in ProviderIds
      BY <1>1, <2>2 DEF ProviderInv, JobsKnow
    <3>. QED  BY <2>2, <3>1, <3>2 DEF StateActions, Saves
  <2>. QED  BY <2>1, <2>2
<1>3. Allowed(providers, JobAsks(j), job[j].id, job[j].name)
  BY DEF JobAllowed
<1>4. /\ Effect(j) \in Tables /\ TableHolds(Effect(j))
      /\ JobAsks(j) \notin Saves => \A k \in ProviderIds :
           Exists(Effect(j)[k]) => Effect(j)[k].name = providers[k].name
  BY <1>1, <1>2, <1>3, OutcomeHolds DEF Effect
<1>5. /\ Target(j) \in ProviderIds /\ (job[j].at = "second" => Target(j) = job[j].id)
      /\ job[j].kind # "create" => Target(j) = job[j].id
  <2>1. CASE job[j].kind = "create" /\ job[j].at = "first"
    <3>1. JobAsks(j) = "create" /\ Target(j) = NextRow(providers)
      BY <2>1 DEF JobAsks, Target
    <3>2. job[j].name \in ProviderNames
      BY <1>2, <3>1 DEF Saves
    <3>3. NextRow(providers) \in ProviderIds
      BY <1>1, <1>3, <3>1, <3>2, CreateIs
    <3>. QED  BY <2>1, <3>1, <3>3
  <2>2. CASE ~(job[j].kind = "create" /\ job[j].at = "first")
    <3>1. Target(j) = job[j].id
      BY <2>2 DEF Target
    <3>. QED  BY <1>1, <2>2, <3>1 DEF ProviderInv, JobsKnow
  <2>. QED  BY <2>1, <2>2
<1>. QED  BY <1>2, <1>4, <1>5

\* Unless something crossed, the row of a save is of its provider, and of no other after it.
LEMMA FirstRequest ==
    ASSUME ProviderInv, NEW j \in Jobs, job[j].at = "first", job[j].kind \in Saves, JobAllowed(j),
           "crossed" \notin cardsSpoiled
    PROVE  /\ Exists(Effect(j)[Target(j)])
           /\ job[j].kind = "update" => Effect(j) = providers
           /\ job[j].kind = "create" =>
                /\ ~Exists(providers[Target(j)])
                /\ \A k \in ProviderIds \ {Target(j)} : Effect(j)[k] = providers[k]
<1>1. /\ j \in Running /\ JobAsks(j) = job[j].kind /\ providers \in Tables
      /\ Allowed(providers, job[j].kind, job[j].id, job[j].name)
      /\ Effect(j) = Outcome(providers, job[j].kind, job[j].id, job[j].name)
  BY DEF Running, ProviderInv, ProviderTypes, JobAsks, JobAllowed, Effect
<1>2. job[j].name \in ProviderNames /\ job[j].name # "none"
  BY <1>1, ProvidersAssumption DEF ProviderInv, JobsKnow
<1>3. CASE job[j].kind = "create"
  <2>1. Target(j) = NextRow(providers)
    BY <1>3 DEF Target
  <2>2. LET n == NextRow(providers)
        IN  /\ ~Exists(providers[n]) /\ Effect(j)[n].name = job[j].name
            /\ \A k \in ProviderIds \ {n} : Effect(j)[k] = providers[k]
    BY <1>1, <1>2, <1>3, CreateIs
  <2>. QED  BY <1>2, <1>3, <2>1, <2>2 DEF Exists
<1>4. CASE job[j].kind = "update"
  <2>1. Target(j) = job[j].id /\ job[j].id \in ProviderIds
    BY <1>1, <1>4 DEF Target, ProviderInv, JobsKnow
  <2>2. connect.open /\ connect.name = job[j].name /\ connect.id = job[j].id
    BY <1>1, <1>4 DEF ProviderInv, SavesAlone
  <2>3. Exists(providers[job[j].id])
    BY <1>1, <1>4 DEF Allowed
  <2>4. providers[job[j].id].name = job[j].name
    BY <2>1, <2>2, <2>3 DEF ProviderInv, SavesAlone
  <2>5. Effect(j) = providers
    BY <1>1, <1>2, <1>4, <2>1, <2>4, UpdateIs
  <2>. QED  BY <1>4, <2>1, <2>3, <2>5
<1>. QED  BY <1>3, <1>4 DEF Saves

\* One function alone: what it waits for is its own.
LEMMA AloneAnswered ==
    ASSUME ProviderInv, NEW j \in Running, j \notin Waiting, "crossed" \notin cardsSpoiled
    PROVE  /\ Running = {j} /\ Waiting = {} /\ Finishing = {} /\ cardFetch.at = "idle"
           /\ \A k \in ProviderIds : Alike(cards[k], providers[k])
<1>1. Running = {j} /\ Waiting \subseteq Running /\ Finishing \subseteq Waiting
  BY DEF ProviderInv, SavesAlone, Running, Waiting, Finishing
<1>2. Waiting = {} /\ cardFetch.at = "idle"
  BY <1>1 DEF ProviderInv, ButtonsHeld
<1>3. ASSUME NEW k \in ProviderIds
      PROVE  Alike(cards[k], providers[k])
  BY <1>1, <1>2 DEF ProviderInv, SavesAlone, Waiting, Running
<1>. QED  BY <1>1, <1>2, <1>3

\* What goes on has what it needs, and a button that is still held back somebody who will let go of it.
LEMMA ResumedKnow ==
    ASSUME ProviderInv
    PROVE  /\ FormResumed.open => FormResumed.name \in ProviderNames
           /\ FormResumed.primary => FormResumed.enabled
           /\ FormResumed.busy # NoForm.busy => \E k \in Running \ Finishing : JobsResumed[k].kind # "delete"
           /\ \A k \in Running \ Finishing :
                /\ JobsResumed[k].kind # "none"
                /\ JobsResumed[k].at \in {"second", "relisting"} =>
                    JobsResumed[k].kind \in Saves /\ (JobsResumed[k].primary \/ ~JobsResumed[k].enabled)
                /\ JobsResumed[k].kind \in Saves =>
                    JobsResumed[k].name \in ProviderNames /\ (JobsResumed[k].primary => JobsResumed[k].enabled)
                /\ JobsResumed[k].kind # "create" \/ JobsResumed[k].at # "first" => JobsResumed[k].id \in ProviderIds
<1>0. ProviderTypes /\ JobsKnow /\ ButtonsHeld
  BY DEF ProviderInv
<1>1. Running \subseteq Jobs /\ Waiting \subseteq Running /\ Finishing \subseteq Waiting
  BY DEF Running, Waiting, Finishing
<1>2. ASSUME NEW k \in Running \ Finishing
      PROVE  /\ JobsResumed[k].kind = job[k].kind
             /\ JobsResumed[k].kind # "none"
             /\ JobsResumed[k].at \in {"second", "relisting"} =>
                 JobsResumed[k].kind \in Saves /\ (JobsResumed[k].primary \/ ~JobsResumed[k].enabled)
             /\ JobsResumed[k].kind \in Saves =>
                 JobsResumed[k].name \in ProviderNames /\ (JobsResumed[k].primary => JobsResumed[k].enabled)
             /\ JobsResumed[k].kind # "create" \/ JobsResumed[k].at # "first" => JobsResumed[k].id \in ProviderIds
  <2>1. CASE k \notin Waiting
    BY <1>0, <1>1, <2>1, ResumedJobs DEF JobsKnow
  <2>2. CASE k \in Waiting
    <3>1. /\ job[k].at = "listing" /\ job[k].kind \in Saves /\ (job[k].primary \/ ~job[k].enabled)
          /\ job[k].name \in ProviderNames /\ (job[k].primary => job[k].enabled) /\ job[k].id \in ProviderIds
      BY <1>0, <1>1, <2>2 DEF JobsKnow, Finishing, GoesOn, Saves
    <3>2. /\ JobsResumed[k].at = "second" /\ JobsResumed[k].kind = job[k].kind
          /\ JobsResumed[k].id = job[k].id /\ JobsResumed[k].name = job[k].name
          /\ JobsResumed[k].enabled = job[k].enabled /\ JobsResumed[k].primary = job[k].primary
      BY <1>0, <2>2, ResumedJobs
    <3>. QED  BY <3>1, <3>2 DEF Saves
  <2>. QED  BY <2>1, <2>2
<1>3. /\ FormResumed.open => FormResumed.name \in ProviderNames
      /\ FormResumed.primary => FormResumed.enabled
  BY <1>0, ResumedForm, CardsTyped DEF JobsKnow
<1>4. ASSUME FormResumed.busy # NoForm.busy
      PROVE  \E k \in Running \ Finishing : JobsResumed[k].kind # "delete"
  <2>1. FormResumed.busy = connect.busy /\ \A k \in Finishing : job[k].kind = "delete"
    BY <1>0, <1>4, ResumedForm
  <2>2. PICK k \in Running : job[k].kind # "delete"
    BY <1>0, <1>4, <2>1 DEF ButtonsHeld
  <2>3. k \in Running \ Finishing
    BY <2>1, <2>2
  <2>. QED  BY <1>2, <2>2, <2>3
<1>. QED  BY <1>2, <1>3, <1>4

\* The rows of the page stay of the providers they were of, whatever the request of j does.
LEMMA EffectAlike ==
    ASSUME ProviderInv, NEW j \in Jobs, job[j].at \in {"first", "second"}, JobAllowed(j),
           "crossed" \notin cardsSpoiled, NEW k \in ProviderIds
    PROVE  /\ ~Alike(cards[k], Effect(j)[k]) =>
                ~CardsUnspoiled /\ job[j].kind = "create" /\ job[j].at = "first"
           /\ connect.open /\ connect.id = k /\ Exists(Effect(j)[k]) => Effect(j)[k].name = connect.name
<1>1. j \in Running \ Waiting
  BY DEF Running, Waiting
<1>2. cardFetch.at = "idle" /\ Alike(cards[k], providers[k])
  BY <1>1, AloneAnswered
<1>3. connect.open /\ connect.id = k /\ Exists(providers[k]) => providers[k].name = connect.name
  BY DEF ProviderInv, SavesAlone
<1>4. CASE JobAsks(j) \notin Saves
  <2>1. Exists(Effect(j)[k]) => Effect(j)[k].name = providers[k].name
    BY <1>4, EffectHolds
  <2>. QED  BY <1>2, <1>3, <2>1 DEF Alike, Exists
<1>5. CASE JobAsks(j) \in Saves
  <2>1. job[j].at = "first" /\ job[j].kind \in Saves
    BY <1>5, EffectHolds
  <2>2. /\ job[j].kind = "update" => Effect(j) = providers
        /\ job[j].kind = "create" =>
             /\ ~Exists(providers[Target(j)])
             /\ \A l \in ProviderIds \ {Target(j)} : Effect(j)[l] = providers[l]
    BY <2>1, FirstRequest
  <2>3. CASE job[j].kind = "update"
    BY <1>2, <1>3, <2>2, <2>3
  <2>4. CASE job[j].kind = "create"
    <3>1. connect.id # k
      BY <1>1, <2>1, <2>4, ProvidersAssumption DEF ProviderInv, SavesAlone
    <3>2. ASSUME CardsUnspoiled
          PROVE  Alike(cards[k], Effect(j)[k])
      <4>1. cards = providers
        BY <1>2, <3>2 DEF ProviderInv, CardsFollow
      <4>2. CASE k = Target(j)
        BY <2>2, <2>4, <4>1, <4>2 DEF Alike
      <4>3. CASE k # Target(j)
        BY <2>2, <2>4, <4>1, <4>3 DEF Alike
      <4>. QED  BY <4>2, <4>3
    <3>. QED  BY <2>1, <2>4, <3>1, <3>2
  <2>. QED  BY <2>1, <2>3, <2>4 DEF Saves
<1>. QED  BY <1>4, <1>5

LEMMA AnsweredKeeps ==
    ASSUME ProviderInv, NEW j \in Jobs, JobServed(j)
    PROVE  ProviderInv'
<1>0. ProviderTypes /\ JobsKnow /\ ButtonsHeld /\ CardsFollow
  BY DEF ProviderInv
<1>1. /\ job[j].at \in {"first", "second"} /\ JobAllowed(j) /\ providers' = Effect(j)
      /\ connect' = FormResumed /\ cardFetch' = [NoCardFetch EXCEPT !.at = "asked"]
      /\ UNCHANGED <<cards, cardsSpoiled>>
  BY DEF JobServed
<1>2. /\ Effect(j) \in Tables /\ TableHolds(Effect(j)) /\ Target(j) \in ProviderIds
      /\ job[j].at = "second" => JobAsks(j) \notin Saves /\ Target(j) = job[j].id
      /\ job[j].at = "first" => JobAsks(j) = job[j].kind
      /\ job[j].kind # "create" => Target(j) = job[j].id
      /\ JobAsks(j) \notin Saves => \A k \in ProviderIds :
           Exists(Effect(j)[k]) => Effect(j)[k].name = providers[k].name
  BY <1>1, EffectHolds
<1>3. /\ j \in Running \ Waiting /\ job' \in [Jobs -> Job]
      /\ job'[j].at = (IF job[j].at = "first" THEN "listing" ELSE "relisting")
      /\ job'[j].id = Target(j)
      /\ job'[j].kind = job[j].kind /\ job'[j].name = job[j].name /\ job'[j].before = job[j].before
      /\ job'[j].enabled = job[j].enabled /\ job'[j].primary = job[j].primary
      /\ \A k \in Jobs \ {j} : job'[k] = JobsResumed[k]
      /\ Running' = Running \ Finishing /\ j \in Running' /\ j \in Waiting'
  BY <1>0, <1>2, ServedJob DEF ServedTo
<1>4. cardFetch'.at = "asked" /\ cardFetch'.data = NoCardFetch.data
  BY <1>1, CardsTyped
<1>5. ProviderTypes' /\ TableHolds(providers)' /\ TableHolds(cards)' /\ TableHolds(cardFetch.data)'
  <2>1. connect' \in CardForm'
    BY <1>0, <1>1, ResumedForm DEF CardForm, Buttons
  <2>2. cardFetch' \in [at: {"idle", "asked", "read"}, data: Tables]
    BY <1>1, CardsTyped
  <2>. QED  BY <1>1, <1>2, <1>3, <1>4, <2>1, <2>2, CardsTyped DEF ProviderInv, ProviderTypes, Tables, Job, TableHolds
<1>6. Running \subseteq Jobs /\ Waiting \subseteq Running /\ Finishing \subseteq Waiting /\ Running' \subseteq Jobs
  BY DEF Running, Waiting, Finishing
<1>7. JobsKnow'
  <2>1. ASSUME NEW k \in Running'
        PROVE  /\ job'[k].kind # "none"
               /\ job'[k].at \in {"second", "relisting"} =>
                   job'[k].kind \in Saves /\ (job'[k].primary \/ ~job'[k].enabled)
               /\ job'[k].kind \in Saves =>
                   job'[k].name \in ProviderNames /\ (job'[k].primary => job'[k].enabled)
               /\ job'[k].kind # "create" \/ job'[k].at # "first" => job'[k].id \in ProviderIds
    <3>1. CASE k = j
      BY <1>0, <1>1, <1>2, <1>3, <3>1 DEF JobsKnow
    <3>2. CASE k # j
      BY <1>3, <1>6, <3>2, ResumedKnow
    <3>. QED  BY <3>1, <3>2
  <2>. QED  BY <1>1, <2>1, ResumedKnow DEF JobsKnow
<1>8. ButtonsHeld'
  <2>1. ASSUME connect'.busy # NoForm.busy
        PROVE  \E k \in Running' : job'[k].kind # "delete"
    <3>1. PICK k \in Running \ Finishing : JobsResumed[k].kind # "delete"
      BY <1>1, <2>1, ResumedKnow
    <3>2. job'[k].kind = JobsResumed[k].kind
      <4>1. CASE k = j
        BY <1>0, <1>3, <1>6, <4>1, ResumedJobs
      <4>2. CASE k # j
        BY <1>3, <1>6, <4>2
      <4>. QED  BY <4>1, <4>2
    <3>. QED  BY <1>3, <3>1, <3>2
  <2>2. NoForm' = NoForm
    BY DEF NoForm
  <2>. QED  BY <1>3, <1>4, <2>1, <2>2 DEF ButtonsHeld
<1>9. CardsFollow'
  BY <1>4 DEF CardsFollow
<1>10. SavesAlone'
  <2>. SUFFICES ASSUME "crossed" \notin cardsSpoiled'
                PROVE  SavesAlone'
    BY DEF SavesAlone
  <2>1. /\ "crossed" \notin cardsSpoiled /\ Running = {j} /\ Finishing = {} /\ cardFetch.at = "idle"
        /\ \A k \in ProviderIds : Alike(cards[k], providers[k])
    BY <1>1, <1>3, AloneAnswered
  <2>2. Running' = {j} /\ connect' = connect
    BY <1>0, <1>1, <1>3, <2>1, ResumedForm
  <2>3. job[j].kind \in Saves =>
          /\ connect.open /\ connect.name = job[j].name
          /\ connect.id = IF job[j].kind = "create" THEN 0 ELSE job[j].id
          /\ Begun(j)
    BY <1>3, <2>1 DEF ProviderInv, SavesAlone
  <2>4. ASSUME job[j].kind \in Saves, job[j].at = "first"
        PROVE  Begun(j)'
    <3>1. /\ Exists(Effect(j)[Target(j)])
          /\ job[j].kind = "update" => Effect(j) = providers
          /\ job[j].kind = "create" =>
               \A k \in ProviderIds \ {Target(j)} : Effect(j)[k] = providers[k]
      BY <1>1, <2>1, <2>4, FirstRequest
    <3>2. providers = job[j].before
      BY <2>3, <2>4 DEF Begun
    <3>. QED  BY <1>1, <1>3, <2>4, <3>1, <3>2 DEF Begun, Saves
  <2>5. ASSUME job[j].kind \in Saves, job[j].at = "second"
        PROVE  Begun(j)' /\ Honours(j)'
    <3>. DEFINE i == job[j].id
                u == Outcome(providers, IF job[j].primary THEN "set_primary" ELSE "disable", i, job[j].name)
    <3>1. /\ i \in ProviderIds /\ (job[j].primary \/ ~job[j].enabled) /\ (job[j].primary => job[j].enabled)
          /\ job[j].primary \in BOOLEAN /\ job[j].enabled \in BOOLEAN
      BY <1>0, <1>3, <2>5 DEF JobsKnow, ProviderTypes, Job
    <3>2. /\ Allowed(providers, IF job[j].primary THEN "set_primary" ELSE "disable", i, job[j].name)
          /\ Effect(j) = u
      BY <1>1, <2>5 DEF JobAllowed, Effect, JobAsks
    <3>3. /\ Exists(providers[i])
          /\ job[j].kind = "update" => providers = job[j].before
          /\ \A k \in ProviderIds \ {i} : providers[k] = job[j].before[k]
      BY <2>3, <2>5 DEF Begun, Saves
    <3>4. providers \in Tables /\ TableHolds(providers)
      BY DEF ProviderInv, ProviderTypes
    <3>5. /\ job[j].primary => u[i].primary
          /\ job[j].enabled \/ ~u[i].active
          /\ providers[i].active = job[j].enabled /\ providers[i].primary = job[j].primary => u = providers
          /\ \A k \in ProviderIds : ~SameChannel(u[k], u[i]) => k # i /\ u[k] = providers[k]
      BY <3>1, <3>2, <3>3, <3>4, SecondRequest
    <3>6. /\ providers' = u /\ job'[j].id = i /\ job'[j].at = "relisting" /\ job'[j].kind = job[j].kind
          /\ job'[j].before = job[j].before
          /\ job'[j].enabled = job[j].enabled /\ job'[j].primary = job[j].primary
      BY <1>1, <1>2, <1>3, <2>5, <3>2
    <3>. HIDE DEF u, i
    <3>7. Honours(j)'
      BY <3>3, <3>5, <3>6 DEF Honours
    <3>. QED  BY <3>6, <3>7 DEF Begun
  <2>6. ASSUME NEW k \in ProviderIds
        PROVE  /\ ~Alike(cards'[k], providers'[k]) =>
                    ~CardsUnspoiled' /\ job'[j].kind = "create" /\ job'[j].at = "listing"
               /\ connect'.open /\ connect'.id = k /\ Exists(providers'[k]) => providers'[k].name = connect'.name
    <3>1. /\ ~Alike(cards[k], Effect(j)[k]) =>
                ~CardsUnspoiled /\ job[j].kind = "create" /\ job[j].at = "first"
          /\ connect.open /\ connect.id = k /\ Exists(Effect(j)[k]) => Effect(j)[k].name = connect.name
      BY <1>1, <2>1, EffectAlike
    <3>2. CardsUnspoiled' = CardsUnspoiled
      BY <1>1 DEF CardsUnspoiled
    <3>. QED  BY <1>1, <1>3, <2>2, <3>1, <3>2
  <2>7. job[j].kind \in Saves =>
          /\ connect'.open /\ connect'.name = job'[j].name
          /\ connect'.id = IF job'[j].kind = "create" THEN 0 ELSE job'[j].id
          /\ Begun(j)' /\ (job'[j].at = "relisting" => Honours(j)')
    <3>1. job[j].kind # "create" => Target(j) = job[j].id
      BY <1>2
    <3>2. job[j].kind \in Saves => Begun(j)' /\ (job'[j].at = "relisting" => Honours(j)')
      BY <1>1, <1>3, <2>4, <2>5
    <3>. QED  BY <1>3, <2>2, <2>3, <3>1, <3>2
  <2>. QED  BY <1>3, <1>4, <2>2, <2>6, <2>7 DEF SavesAlone
<1>. QED  BY <1>5, <1>7, <1>8, <1>9, <1>10 DEF ProviderInv

LEMMA FailedRequestKeeps ==
    ASSUME ProviderInv, NEW j \in Jobs, JobFails(j)
    PROVE  ProviderInv'
<1>0. ProviderTypes /\ JobsKnow /\ ButtonsHeld /\ CardsFollow
  BY DEF ProviderInv
<1>. DEFINE f == [connect EXCEPT !.busy = <<"none", 0>>]
            r == [NoJob EXCEPT !.at = "failed"]
<1>1. /\ job[j].at \in {"first", "second"}
      /\ \/ UNCHANGED <<providers, cardsSpoiled>>
         \/ /\ JobAllowed(j) /\ CardsUnspoiled /\ providers' \in {providers, Effect(j)}
            /\ cardsSpoiled' = cardsSpoiled \cup {"lost"}
      /\ job' = [job EXCEPT ![j] = r]
      /\ connect' = IF job[j].kind = "delete" THEN connect ELSE f
      /\ UNCHANGED <<cards, cardFetch>>
  BY DEF JobFails
<1>2. /\ f \in CardForm /\ f.open = connect.open /\ f.name = connect.name /\ f.id = connect.id
      /\ f.enabled = connect.enabled /\ f.primary = connect.primary /\ f.busy = NoForm.busy
      /\ connect \in CardForm
  <2>1. <<"none", 0>> \in Buttons
    BY DEF Buttons
  <2>. QED  BY <1>0, <2>1 DEF ProviderTypes, CardForm, NoForm
<1>3. r \in Job /\ r.at = "failed"
  BY CardsTyped DEF Job
<1>. HIDE DEF f, r
<1>4. job' \in [Jobs -> Job] /\ job'[j].at = "failed" /\ \A k \in Jobs \ {j} : job'[k] = job[k]
  BY <1>0, <1>1, <1>3 DEF ProviderTypes
<1>5. /\ j \in Running \ Waiting /\ Running \subseteq Jobs
      /\ Running' = Running \ {j} /\ Waiting' = Waiting
  BY <1>1, <1>4 DEF Running, Waiting
<1>6. providers' \in Tables /\ TableHolds(providers')
  <2>1. providers \in Tables /\ TableHolds(providers)
    BY DEF ProviderInv, ProviderTypes
  <2>2. JobAllowed(j) => Effect(j) \in Tables /\ TableHolds(Effect(j))
    BY <1>1, EffectHolds
  <2>. QED  BY <1>1, <2>1, <2>2
<1>7. ProviderTypes' /\ TableHolds(providers)' /\ TableHolds(cards)' /\ TableHolds(cardFetch.data)'
  <2>1. cardsSpoiled' \subseteq CardSpoilers
    BY <1>0, <1>1 DEF ProviderTypes, CardSpoilers
  <2>2. connect' \in CardForm
    BY <1>1, <1>2
  <2>3. cards \in Tables /\ TableHolds(cards) /\ TableHolds(cardFetch.data)
        /\ cardFetch \in [at: {"idle", "asked", "read"}, data: Tables]
    BY DEF ProviderInv, ProviderTypes
  <2>. QED  BY <1>1, <1>4, <1>6, <2>1, <2>2, <2>3 DEF ProviderTypes, Tables, CardForm, Buttons, Job, TableHolds
<1>8. JobsKnow'
  <2>1. connect'.open = connect.open /\ connect'.name = connect.name
        /\ connect'.primary = connect.primary /\ connect'.enabled = connect.enabled
    BY <1>1, <1>2
  <2>. QED  BY <1>0, <1>4, <1>5, <2>1 DEF JobsKnow
<1>9. ButtonsHeld'
  <2>1. ASSUME connect'.busy # NoForm.busy
        PROVE  \E k \in Running' : job'[k].kind # "delete"
    <3>1. job[j].kind = "delete" /\ connect' = connect
      BY <1>1, <1>2, <2>1
    <3>2. PICK k \in Running : job[k].kind # "delete"
      BY <1>0, <2>1, <3>1 DEF ButtonsHeld
    <3>. QED  BY <1>4, <1>5, <3>1, <3>2
  <2>2. NoForm' = NoForm
    BY DEF NoForm
  <2>. QED  BY <1>0, <1>1, <1>5, <2>1, <2>2 DEF ButtonsHeld
<1>10. CardsUnspoiled' => providers' = providers /\ CardsUnspoiled
  <2>1. cardsSpoiled' = cardsSpoiled \cup {"lost"} => ~CardsUnspoiled'
    BY DEF CardsUnspoiled
  <2>2. cardsSpoiled' = cardsSpoiled => CardsUnspoiled' = CardsUnspoiled
    BY DEF CardsUnspoiled
  <2>. QED  BY <1>1, <2>1, <2>2
<1>11. CardsFollow'
  BY <1>0, <1>1, <1>10 DEF CardsFollow
<1>12. SavesAlone'
  <2>. SUFFICES ASSUME "crossed" \notin cardsSpoiled'
                PROVE  SavesAlone'
    BY DEF SavesAlone
  <2>1. "crossed" \notin cardsSpoiled
    BY <1>1
  <2>2. /\ Running = {j} /\ cardFetch.at = "idle"
        /\ \A k \in ProviderIds : Alike(cards[k], providers[k])
    BY <1>5, <2>1, AloneAnswered
  <2>3. connect'.open = connect.open /\ connect'.name = connect.name /\ connect'.id = connect.id
    BY <1>1, <1>2
  <2>4. ASSUME NEW k \in ProviderIds
        PROVE  /\ Alike(cards'[k], providers'[k])
               /\ connect'.open /\ connect'.id = k /\ Exists(providers'[k]) => providers'[k].name = connect'.name
    <3>1. CASE providers' = providers
      BY <1>1, <2>1, <2>2, <2>3, <3>1 DEF ProviderInv, SavesAlone
    <3>2. CASE JobAllowed(j) /\ CardsUnspoiled /\ providers' = Effect(j)
      <4>1. /\ Alike(cards[k], Effect(j)[k])
            /\ connect.open /\ connect.id = k /\ Exists(Effect(j)[k]) => Effect(j)[k].name = connect.name
        BY <1>1, <2>1, <3>2, EffectAlike
      <4>. QED  BY <1>1, <2>3, <3>2, <4>1
    <3>. QED  BY <1>1, <3>1, <3>2
  <2>5. Running' = {} /\ cardFetch'.at = "idle"
    BY <1>1, <1>5, <2>2
  <2>. QED  BY <2>4, <2>5 DEF SavesAlone
<1>. QED  BY <1>7, <1>8, <1>9, <1>11, <1>12 DEF ProviderInv

LEMMA CardsReadKeeps ==
    ASSUME ProviderInv, ReadProviders
    PROVE  ProviderInv'
<1>1. /\ cardFetch.at = "asked" /\ cardFetch' = [at |-> "read", data |-> providers]
      /\ UNCHANGED <<providers, connect, cards, job, cardsSpoiled>>
  BY DEF ReadProviders
<1>2. Running' = Running /\ Waiting' = Waiting /\ CardsUnspoiled' = CardsUnspoiled /\ NoForm' = NoForm
  BY <1>1 DEF Running, Waiting, CardsUnspoiled, NoForm
<1>3. cardFetch'.at = "read" /\ cardFetch'.data = providers
  BY <1>1
<1>4. ProviderTypes' /\ TableHolds(providers)' /\ TableHolds(cards)' /\ TableHolds(cardFetch.data)'
  <2>1. providers \in Tables
    BY DEF ProviderInv, ProviderTypes
  <2>2. cardFetch' \in [at: {"idle", "asked", "read"}, data: Tables]
    BY <1>1, <2>1
  <2>. QED  BY <1>1, <1>3, <2>2 DEF ProviderInv, ProviderTypes, Tables, CardForm, Buttons, Job, TableHolds
<1>5. JobsKnow' /\ ButtonsHeld' /\ CardsFollow'
  BY <1>1, <1>2, <1>3 DEF ProviderInv, JobsKnow, ButtonsHeld, CardsFollow
<1>6. \A j \in Jobs : (Begun(j) <=> Begun(j)') /\ (Honours(j) <=> Honours(j)')
  BY <1>1 DEF Begun, Honours
<1>7. SavesAlone'
  <2>1. Running \subseteq Jobs /\ \A r \in ProviderRow : Alike(r, r)
    BY DEF Running, Alike
  <2>2. \A k \in ProviderIds : Alike(providers[k], providers[k])
    BY DEF Alike
  <2>. QED  BY <1>1, <1>2, <1>3, <1>6, <2>1, <2>2 DEF ProviderInv, SavesAlone
<1>. QED  BY <1>4, <1>5, <1>7 DEF ProviderInv

\* The list arrives or is lost, and what waited for it goes on.
FetchEnds == CardsArrive \/ CardsLost

LEMMA FetchEndsAs ==
    ASSUME ProviderInv, FetchEnds
    PROVE  /\ cardFetch.at # "idle" /\ cardFetch' = NoCardFetch /\ cardFetch'.at = "idle"
           /\ job' = JobsResumed /\ connect' = FormResumed /\ providers' = providers
           /\ \/ cardFetch.at = "read" /\ cards' = cardFetch.data /\ cardsSpoiled' = cardsSpoiled
              \/ cards' = cards /\ CardsUnspoiled /\ cardsSpoiled' = cardsSpoiled \cup {"lost"}
           /\ Running' = Running \ Finishing /\ Waiting' = {}
           /\ "crossed" \notin cardsSpoiled' =>
                /\ Running = Waiting
                /\ \A j \in Running' : /\ Finishing = {} /\ connect' = connect
                                       /\ job[j].at = "listing" /\ job[j].kind \in Saves
<1>1. /\ cardFetch.at # "idle" /\ cardFetch' = NoCardFetch
      /\ job' = JobsResumed /\ connect' = FormResumed /\ providers' = providers
      /\ \/ cardFetch.at = "read" /\ cards' = cardFetch.data /\ cardsSpoiled' = cardsSpoiled
         \/ cards' = cards /\ CardsUnspoiled /\ cardsSpoiled' = cardsSpoiled \cup {"lost"}
  BY DEF FetchEnds, CardsArrive, CardsLost, EndFetch
<1>2. ProviderTypes
  BY DEF ProviderInv
<1>3. Running \subseteq Jobs /\ Waiting \subseteq Running /\ Finishing \subseteq Waiting
      /\ Running' \subseteq Jobs /\ Waiting' \subseteq Jobs
  BY DEF Running, Waiting, Finishing
<1>4. ASSUME NEW k \in Jobs
      PROVE  (k \in Running' <=> k \in Running \ Finishing) /\ k \notin Waiting'
  <2>1. CASE k \notin Waiting
    <3>1. job'[k] = job[k]
      BY <1>1, <1>2, <2>1, ResumedJobs
    <3>. QED  BY <1>3, <2>1, <3>1 DEF Running, Waiting
  <2>2. CASE k \in Finishing
    <3>1. job'[k].at = "done"
      BY <1>1, <1>2, <2>2, ResumedJobs
    <3>. QED  BY <2>2, <3>1 DEF Running, Waiting
  <2>3. CASE k \in Waiting \ Finishing
    <3>1. job'[k].at = "second"
      BY <1>1, <1>2, <2>3, ResumedJobs
    <3>. QED  BY <1>3, <2>3, <3>1 DEF Running, Waiting
  <2>. QED  BY <2>1, <2>2, <2>3
<1>5. Running' = Running \ Finishing /\ Waiting' = {}
  BY <1>3, <1>4
<1>6. ASSUME "crossed" \notin cardsSpoiled'
      PROVE  /\ Running = Waiting
             /\ \A j \in Running' : /\ Finishing = {} /\ connect' = connect
                                    /\ job[j].at = "listing" /\ job[j].kind \in Saves
  <2>1. \A j, k \in Running : j = k
    BY <1>1, <1>6 DEF ProviderInv, SavesAlone
  <2>2. Waiting # {}
    BY <1>1 DEF ProviderInv, ButtonsHeld
  <2>3. Running = Waiting
    BY <1>3, <2>1, <2>2
  <2>4. ASSUME NEW j \in Running'
        PROVE  /\ Finishing = {} /\ connect' = connect
               /\ job[j].at = "listing" /\ job[j].kind \in Saves
    <3>1. j \in Waiting \ Finishing
      BY <1>5, <2>3
    <3>2. Finishing = {}
      BY <1>3, <2>1, <3>1
    <3>3. job[j].at = "listing" /\ job[j].kind \in Saves
      BY <1>3, <3>1 DEF Finishing, GoesOn, Saves
    <3>. QED  BY <1>1, <1>2, <3>2, <3>3, ResumedForm
  <2>. QED  BY <2>3, <2>4
<1>. QED  BY <1>1, <1>5, <1>6, CardsTyped

LEMMA FetchEndKeeps ==
    ASSUME ProviderInv, FetchEnds
    PROVE  ProviderInv'
<1>0. ProviderTypes /\ JobsKnow /\ ButtonsHeld /\ CardsFollow
  BY DEF ProviderInv
<1>1. /\ cardFetch.at # "idle" /\ cardFetch' = NoCardFetch /\ cardFetch'.at = "idle"
      /\ job' = JobsResumed /\ connect' = FormResumed /\ providers' = providers
      /\ \/ cardFetch.at = "read" /\ cards' = cardFetch.data /\ cardsSpoiled' = cardsSpoiled
         \/ cards' = cards /\ CardsUnspoiled /\ cardsSpoiled' = cardsSpoiled \cup {"lost"}
      /\ Running' = Running \ Finishing /\ Waiting' = {}
      /\ "crossed" \notin cardsSpoiled' =>
           /\ Running = Waiting
           /\ \A j \in Running' : /\ Finishing = {} /\ connect' = connect
                                  /\ job[j].at = "listing" /\ job[j].kind \in Saves
  BY FetchEndsAs
<1>2. ProviderTypes' /\ TableHolds(providers)' /\ TableHolds(cards)' /\ TableHolds(cardFetch.data)'
  <2>1. connect' \in CardForm /\ job' \in [Jobs -> Job]
    BY <1>0, <1>1, ResumedForm, ResumedJobs
  <2>2. cardFetch' \in [at: {"idle", "asked", "read"}, data: Tables] /\ TableHolds(cardFetch'.data)
    BY <1>1, CardsTyped
  <2>3. cards' \in Tables /\ TableHolds(cards') /\ providers' \in Tables /\ TableHolds(providers')
    BY <1>1 DEF ProviderInv, ProviderTypes
  <2>4. cardsSpoiled' \subseteq CardSpoilers
    BY <1>0, <1>1 DEF ProviderTypes, CardSpoilers
  <2>. QED  BY <2>1, <2>2, <2>3, <2>4 DEF ProviderTypes, Tables, CardForm, Buttons, Job, TableHolds
<1>3. JobsKnow' /\ ButtonsHeld'
  <2>1. NoForm' = NoForm
    BY DEF NoForm
  <2>. QED  BY <1>1, <2>1, ResumedKnow DEF JobsKnow, ButtonsHeld
<1>4. CardsFollow'
  <2>1. cardsSpoiled' = cardsSpoiled \cup {"lost"} => ~CardsUnspoiled'
    BY DEF CardsUnspoiled
  <2>2. cardsSpoiled' = cardsSpoiled => CardsUnspoiled' = CardsUnspoiled
    BY DEF CardsUnspoiled
  <2>. QED  BY <1>0, <1>1, <2>1, <2>2 DEF CardsFollow
<1>5. SavesAlone'
  <2>. SUFFICES ASSUME "crossed" \notin cardsSpoiled'
                PROVE  SavesAlone'
    BY DEF SavesAlone
  <2>1. "crossed" \notin cardsSpoiled /\ Running' \subseteq Running /\ Waiting \subseteq Jobs
    BY <1>1 DEF Waiting
  <2>2. \A j, k \in Running' : j = k
    BY <2>1 DEF ProviderInv, SavesAlone
  <2>3. ASSUME NEW j \in Running'
        PROVE  /\ connect'.open /\ connect'.name = job'[j].name
               /\ connect'.id = IF job'[j].kind = "create" THEN 0 ELSE job'[j].id
               /\ Begun(j)' /\ job'[j].at = "second"
    <3>1. /\ j \in Waiting \ Finishing /\ connect' = connect
          /\ job[j].at = "listing" /\ job[j].kind \in Saves
      BY <1>1, <2>3
    <3>2. /\ job'[j].at = "second" /\ job'[j].kind = job[j].kind
          /\ job'[j].id = job[j].id /\ job'[j].name = job[j].name
          /\ job'[j].before = job[j].before
      BY <1>0, <1>1, <3>1, ResumedJobs
    <3>3. /\ connect.open /\ connect.name = job[j].name
          /\ connect.id = IF job[j].kind = "create" THEN 0 ELSE job[j].id
          /\ Begun(j)
      BY <2>1, <3>1 DEF ProviderInv, SavesAlone
    <3>4. Begun(j)'
      BY <1>1, <3>1, <3>2, <3>3 DEF Begun
    <3>. QED  BY <3>1, <3>2, <3>3, <3>4
  <2>4. ASSUME NEW k \in ProviderIds
        PROVE  /\ Alike(cards'[k], providers'[k])
               /\ connect'.open /\ connect'.id = k /\ Exists(providers'[k]) => providers'[k].name = connect'.name
    <3>1. Alike(cards'[k], providers'[k])
      BY <1>1, <2>1 DEF ProviderInv, SavesAlone
    <3>2. connect'.open => connect'.id = connect.id /\ connect'.name = connect.name /\ connect.open
      BY <1>0, <1>1, ResumedForm, CardsTyped
    <3>. QED  BY <1>1, <2>1, <3>1, <3>2 DEF ProviderInv, SavesAlone
  <2>. QED  BY <1>1, <2>2, <2>3, <2>4 DEF SavesAlone
<1>. QED  BY <1>2, <1>3, <1>4, <1>5 DEF ProviderInv

LEMMA ElsewhereKeeps ==
    ASSUME ProviderInv, NEW a \in StateActions \cup {"delete"}, NEW i \in ProviderIds, ProviderChangedElsewhere(a, i)
    PROVE  ProviderInv'
<1>1. /\ Running = {} /\ Allowed(providers, a, i, NoProvider)
      /\ providers' = Outcome(providers, a, i, NoProvider)
      /\ cardsSpoiled' = cardsSpoiled \cup {"stale"}
      /\ UNCHANGED <<connect, cards, cardFetch, job>>
  BY DEF ProviderChangedElsewhere
<1>2. /\ providers' \in Tables /\ TableHolds(providers')
      /\ \A k \in ProviderIds : Exists(providers'[k]) => providers'[k].name = providers[k].name
  <2>1. providers \in Tables /\ TableHolds(providers)
    BY DEF ProviderInv, ProviderTypes
  <2>2. a \in StateActions \cup Saves \cup {"delete"} /\ a \notin Saves /\ a # "create"
    BY DEF StateActions, Saves
  <2>. QED  BY <1>1, <2>1, <2>2, OutcomeHolds
<1>3. Running' = Running /\ Waiting' = Waiting /\ NoForm' = NoForm /\ ~CardsUnspoiled'
  BY <1>1 DEF Running, Waiting, NoForm, CardsUnspoiled
<1>4. ProviderTypes' /\ TableHolds(providers)' /\ TableHolds(cards)' /\ TableHolds(cardFetch.data)'
  <2>1. cardsSpoiled' \subseteq CardSpoilers
    BY <1>1 DEF ProviderInv, ProviderTypes, CardSpoilers
  <2>. QED  BY <1>1, <1>2, <2>1 DEF ProviderInv, ProviderTypes, Tables, CardForm, Buttons, Job, TableHolds
<1>5. JobsKnow' /\ ButtonsHeld' /\ CardsFollow'
  BY <1>1, <1>3 DEF ProviderInv, JobsKnow, ButtonsHeld, CardsFollow
<1>6. SavesAlone'
  <2>1. Waiting = {} /\ cardFetch.at = "idle"
    BY <1>1 DEF ProviderInv, ButtonsHeld, Running, Waiting
  <2>2. "crossed" \notin cardsSpoiled' => "crossed" \notin cardsSpoiled
    BY <1>1
  <2>. QED  BY <1>1, <1>2, <1>3, <2>1, <2>2 DEF ProviderInv, SavesAlone, Alike, Exists
<1>. QED  BY <1>4, <1>5, <1>6 DEF ProviderInv

LEMMA ProvidersKept == ProviderInv /\ [ProviderPageNext]_providerPageVars => ProviderInv'
<1>. SUFFICES ASSUME ProviderInv, [ProviderPageNext]_providerPageVars
              PROVE  ProviderInv'
  OBVIOUS
<1>1. CASE UNCHANGED providerPageVars
  <2>1. UNCHANGED <<providers, connect, cards, cardFetch, job, cardsSpoiled>>
    BY <1>1 DEF providerPageVars
  <2>. QED  BY <2>1 DEF ProviderInv, ProviderTypes, TableHolds, JobsKnow, ButtonsHeld, CardsFollow, SavesAlone,
        Tables, CardForm, Buttons, Job, Running, Waiting, NoForm, CardsUnspoiled, Begun, Honours
<1>2. ASSUME NEW i \in ProviderIds,
             \/ EditProvider(i) \/ Disconnect(i)
             \/ \E a \in StateActions : ChangeState(a, i)
             \/ \E a \in StateActions \cup {"delete"} : ProviderChangedElsewhere(a, i)
      PROVE  ProviderInv'
  BY <1>2, DialogKeeps, RequestKeeps, ElsewhereKeeps
<1>3. ASSUME NEW j \in Jobs, JobServed(j) \/ JobFails(j)
      PROVE  ProviderInv'
  BY <1>3, AnsweredKeeps, FailedRequestKeeps
<1>4. CASE \/ \E n \in ProviderNames : ConnectProvider(n)
           \/ ToggleEnabled \/ TogglePrimary \/ CloseProvider \/ SubmitProvider
           \/ ReadProviders \/ CardsArrive \/ CardsLost
  BY <1>4, DialogKeeps, RequestKeeps, CardsReadKeeps, FetchEndKeeps DEF FetchEnds
<1>. QED  BY <1>1, <1>2, <1>3, <1>4 DEF ProviderPageNext

LEMMA CardsSettled == ProviderInv => CardsSettle
<1>. SUFFICES ASSUME ProviderInv, Running = {}
              PROVE  /\ connect.busy = NoForm.busy
                     /\ cardFetch.at = "idle" /\ CardsUnspoiled => cards = providers
  BY DEF CardsSettle
<1>. QED  BY DEF ProviderInv, ButtonsHeld, CardsFollow

\* A function that starts disturbs none that runs, nor the dialog.
LEMMA StartsKeepOthers ==
    ASSUME ProviderInv,
           \/ SubmitProvider
           \/ \E i \in ProviderIds : Disconnect(i) \/ \E a \in StateActions : ChangeState(a, i)
    PROVE  /\ connect.open => connect'.open
           /\ \A k \in Running : job'[k] = job[k]
<1>1. ASSUME NEW kind \in StateActions \cup Saves \cup {"delete"}, NEW i \in ProviderIds \cup {0},
             NEW name \in ProviderNames \cup {NoProvider}, NEW f, StartJob(kind, i, name, f)
      PROVE  \A k \in Running : job'[k] = job[k]
  <2>1. ProviderTypes
    BY DEF ProviderInv
  <2>2. PICK j \in Jobs : StartsAs(j, kind, i, name)
    BY <1>1, <2>1, StartedJob
  <2>. QED  BY <2>2 DEF StartsAs, Running
<1>2. connect \in CardForm
  BY DEF ProviderInv, ProviderTypes
<1>3. CASE SubmitProvider
  <2>. DEFINE kind == IF connect.id = 0 THEN "create" ELSE "update"
              f    == [connect EXCEPT !.busy = <<"save", connect.name>>]
  <2>1. connect.open /\ StartJob(kind, connect.id, connect.name, f)
    BY <1>3 DEF SubmitProvider
  <2>2. /\ connect.name \in ProviderNames \cup {NoProvider} /\ connect.id \in ProviderIds \cup {0}
        /\ kind \in StateActions \cup Saves \cup {"delete"} /\ f.open = connect.open
    BY <1>2 DEF CardForm, Saves
  <2>3. connect' = f
    BY <2>1 DEF StartJob
  <2>. HIDE DEF f, kind
  <2>. QED  BY <1>1, <2>1, <2>2, <2>3
<1>4. ASSUME NEW i \in ProviderIds, NEW a \in StateActions, ChangeState(a, i)
      PROVE  ~connect.open /\ \A k \in Running : job'[k] = job[k]
  <2>1. ~connect.open /\ StartJob(a, i, NoProvider, [connect EXCEPT !.busy = <<a, i>>])
    BY <1>4 DEF ChangeState, OnCards
  <2>. QED  BY <1>1, <2>1
<1>5. ASSUME NEW i \in ProviderIds, Disconnect(i)
      PROVE  ~connect.open /\ \A k \in Running : job'[k] = job[k]
  <2>1. ~connect.open /\ StartJob("delete", i, NoProvider, connect)
    BY <1>5 DEF Disconnect, OnCards
  <2>. QED  BY <1>1, <2>1
<1>. QED  BY <1>3, <1>4, <1>5

\* Unless something crossed, only the list ends a function that waits for one, or a dialog
\* together with it.
LEMMA OnlyFetchEnds ==
    ASSUME ProviderInv, ProviderPageNext, "crossed" \notin cardsSpoiled', ~FetchEnds
    PROVE  /\ \A j \in Waiting : job'[j] = job[j]
           /\ connect.open /\ ~connect'.open => job' = job
<1>1. ProviderTypes /\ Waiting \subseteq Running /\ Running \subseteq Jobs
  BY DEF ProviderInv, Waiting, Running
<1>2. ASSUME NEW j \in Jobs, JobServed(j)
      PROVE  Waiting = {} /\ connect' = connect
  <2>1. /\ job[j].at \in {"first", "second"} /\ connect' = FormResumed /\ cardsSpoiled' = cardsSpoiled
    BY <1>2 DEF JobServed
  <2>2. j \in Running \ Waiting
    BY <2>1 DEF Running, Waiting
  <2>3. Waiting = {} /\ Finishing = {}
    BY <2>1, <2>2, AloneAnswered
  <2>. QED  BY <1>1, <2>1, <2>3, ResumedForm
<1>3. ASSUME NEW j \in Jobs, JobFails(j)
      PROVE  Waiting = {} /\ connect'.open = connect.open
  <2>1. /\ job[j].at \in {"first", "second"}
        /\ connect' = (IF job[j].kind = "delete" THEN connect ELSE [connect EXCEPT !.busy = <<"none", 0>>])
        /\ "crossed" \notin cardsSpoiled
    BY <1>3 DEF JobFails
  <2>2. j \in Running \ Waiting
    BY <2>1 DEF Running, Waiting
  <2>3. Waiting = {}
    BY <2>1, <2>2, AloneAnswered
  <2>4. [connect EXCEPT !.busy = <<"none", 0>>].open = connect.open
    BY <1>1 DEF ProviderTypes, CardForm
  <2>. QED  BY <2>1, <2>3, <2>4
<1>4. CASE \/ SubmitProvider
           \/ \E i \in ProviderIds : Disconnect(i) \/ \E a \in StateActions : ChangeState(a, i)
  BY <1>1, <1>4, StartsKeepOthers
<1>5. CASE \/ \E i \in ProviderIds : EditProvider(i) \/ \E a \in StateActions \cup {"delete"} : ProviderChangedElsewhere(a, i)
           \/ \E n \in ProviderNames : ConnectProvider(n)
           \/ ToggleEnabled \/ TogglePrimary \/ CloseProvider \/ ReadProviders
  <2>1. job' = job
    BY <1>5 DEF EditProvider, ProviderChangedElsewhere, ConnectProvider, OpenProvider, ToggleEnabled, TogglePrimary,
                Toggle, CloseProvider, ReadProviders
  <2>. QED  BY <2>1
<1>. QED  BY <1>2, <1>3, <1>4, <1>5 DEF ProviderPageNext, FetchEnds

\* A save that ends alone leaves what its dialog said, and nothing else.
LEMMA SaveEnds ==
    ASSUME ProviderInv, FetchEnds, "crossed" \notin cardsSpoiled', NEW j \in Waiting,
           job'[j].at = "done", job[j].kind \in Saves
    PROVE  Honours(j)
<1>1. ProviderTypes /\ Waiting \subseteq Running /\ Running \subseteq Jobs
  BY DEF ProviderInv, Waiting, Running
<1>2. j \in Finishing
  <2>1. j \in Waiting \ Finishing => job'[j].at = "second"
    BY <1>1, FetchEndsAs, ResumedJobs
  <2>. QED  BY <2>1
<1>3. "crossed" \notin cardsSpoiled
  BY FetchEndsAs
<1>4. Begun(j) /\ (job[j].at = "relisting" => Honours(j))
  BY <1>1, <1>3 DEF ProviderInv, SavesAlone
<1>5. CASE job[j].at = "listing"
  <2>1. ~job[j].primary /\ job[j].enabled
    BY <1>1, <1>2, <1>5 DEF Finishing, GoesOn, Saves, ProviderTypes, Job
  <2>2. /\ Exists(providers[job[j].id])
        /\ job[j].kind = "update" => providers = job[j].before
        /\ \A k \in ProviderIds \ {job[j].id} : providers[k] = job[j].before[k]
    BY <1>4, <1>5 DEF Begun
  <2>3. ASSUME NEW k \in ProviderIds, ~SameChannel(providers[k], providers[job[j].id])
        PROVE  providers[k] = job[j].before[k]
    <3>1. k # job[j].id
      BY <2>2, <2>3 DEF SameChannel
    <3>. QED  BY <2>2, <3>1
  <2>. QED  BY <2>1, <2>2, <2>3 DEF Honours
<1>. QED  BY <1>4, <1>5 DEF Waiting

LEMMA SavesHonoured ==
    ProviderInv /\ [ProviderPageNext]_providerPageVars => [SaveHonoured /\ OwnDialog]_providerPageVars
<1>. SUFFICES ASSUME ProviderInv, ProviderPageNext
              PROVE  SaveHonoured /\ OwnDialog
  OBVIOUS
<1>1. ASSUME NEW j \in Waiting, job'[j].at = "done", job[j].kind \in {"create", "update"}, "crossed" \notin cardsSpoiled'
      PROVE  Honours(j)
  <2>1. FetchEnds
    BY <1>1, OnlyFetchEnds DEF Waiting
  <2>. QED  BY <1>1, <2>1, SaveEnds DEF Saves
<1>2. SaveHonoured
  BY <1>1 DEF SaveHonoured, Honours
<1>3. ASSUME connect.open, ~connect'.open, job' # job, "crossed" \notin cardsSpoiled'
      PROVE  \E j \in Waiting : job'[j].at = "done" /\ job[j].name = connect.name
  <2>1. FetchEnds
    BY <1>3, OnlyFetchEnds
  <2>2. "crossed" \notin cardsSpoiled /\ job' = JobsResumed /\ connect' = FormResumed
    BY <1>3, <2>1, FetchEndsAs
  <2>3. ProviderTypes /\ Finishing \subseteq Waiting /\ Waiting \subseteq Running
    BY DEF ProviderInv, Finishing, Waiting, Running
  <2>4. PICK j \in Finishing : job[j].kind \in Saves
    BY <1>3, <2>2, <2>3, ResumedForm
  <2>5. job'[j].at = "done"
    BY <2>2, <2>3, <2>4, ResumedJobs
  <2>6. job[j].name = connect.name
    BY <2>2, <2>3, <2>4 DEF ProviderInv, SavesAlone
  <2>. QED  BY <2>3, <2>4, <2>5, <2>6
<1>4. OwnDialog
  BY <1>3 DEF OwnDialog
<1>. QED  BY <1>2, <1>4

\* The page of providers: with no function running no button is held back and the cards show the
\* table; a save that nothing crossed leaves its provider as its dialog said and no other channel
\* changed, whatever its two requests met; and a dialog closes by itself only at the end of its own save.
THEOREM ProvidersSettle == BrowserSpec => ProviderPageSound
<1>. DEFINE Inv == focus = "providers" => ProviderInv
<1>1. BrowserInit => Inv
  BY ProvidersAtFirst DEF BrowserInit
<1>2. Inv /\ [BrowserNext]_browserVars => Inv'
  BY PageMoves, ProvidersKept
<1>3. Inv => (focus = "providers" => CardsSettle)
  BY CardsSettled
<1>4. Inv /\ [BrowserNext]_browserVars => [focus = "providers" => SaveHonoured /\ OwnDialog]_providerPageVars
  BY PageMoves, SavesHonoured
<1>. QED  BY <1>1, <1>2, <1>3, <1>4, PTL DEF BrowserSpec, ProviderPageSound
----------------------------------------------------------------------------
(***************************************************************************)
(* The types.                                                              *)
(***************************************************************************)

\* Those of the drawer, and of the page of providers.
LEMMA SenderDrawerTyped ==
    ASSUME SenderDrawerTypeOK, [SenderDrawerNext]_senderDrawerVars
    PROVE  SenderDrawerTypeOK'
BY DEF SenderDrawerTypeOK, Setting, SenderDrawerNext, senderDrawerVars, MountDrawer, ProviderArrives,
       OpenDrawer, TypeSender, ToggleDefaults, SaveDrawer, CloseDrawer

LEMMA ProviderPageTyped == ProviderInv => ProviderPageTypeOK
<1>. SUFFICES ASSUME ProviderInv PROVE ProviderPageTypeOK
  OBVIOUS
<1>1. ProviderTypes /\ (connect.primary => connect.enabled)
  BY DEF ProviderInv, JobsKnow
<1>2. connect.id \in ProviderIds \cup {0} /\ connect.name \in ProviderNames \cup {NoProvider}
  BY <1>1 DEF ProviderTypes, CardForm
<1>3. ASSUME NEW j \in Jobs
      PROVE  /\ job[j].kind \in StateActions \cup {"create", "update", "delete", "none"}
             /\ job[j].at \in {"idle", "first", "listing", "second", "relisting", "done", "failed"}
  <2>1. job[j] \in Job
    BY <1>1 DEF ProviderTypes
  <2>. QED  BY <2>1 DEF Job, Saves
<1>4. /\ providers \in Tables /\ cards \in Tables /\ cardsSpoiled \subseteq CardSpoilers
      /\ cardFetch.at \in {"idle", "asked", "read"} /\ cardFetch.data \in Tables
  BY <1>1 DEF ProviderTypes
<1>. QED  BY <1>1, <1>2, <1>3, <1>4 DEF ProviderPageTypeOK, Tables

\* BrowserTypeOK: every part of the browser keeps its variables within their domains.  For
\* the builder that needs what Array.filter returns, for the saving of a draft that a PUT is
\* sent where there is room for it, and for the pages their invariants.
THEOREM BrowserTypes == BrowserSpec => []BrowserTypeOK
<1>. DEFINE Inv ==
        /\ focus = "builder"     => BuilderTypeOK
        /\ focus = "host"        => CanvasHostInv
        /\ focus = "autosave"    => AutosaveInv /\ AutosaveBounds
        /\ focus = "panel"       => PanelInv
        /\ focus = "workflows"   => WorkflowPageInv
        /\ focus = "providers"   => ProviderInv
        /\ focus = "subscribers" => SubscriberInv
        /\ focus = "keys"        => KeyPageInv
        /\ focus = "session"     => AuthPagesInv
        /\ focus = "channel"     => EditorInv
        /\ focus = "preview"     => PreviewInv
        /\ focus = "drawer"      => SenderDrawerTypeOK
<1>1. BrowserInit => Inv
  <2>1. SenderDrawerInit => SenderDrawerTypeOK
    <3>1. Unset \in Setting
      BY DEF Unset, Setting
    <3>. QED  BY <3>1 DEF SenderDrawerInit, SenderDrawerTypeOK
  <2>. QED
    BY <2>1, BuilderAtFirst, CanvasHostAtFirst, AutosaveAtFirst, BoundsAtFirst, PanelAtFirst,
       WorkflowsAtFirst, ProvidersAtFirst, SubscribersAtFirst, KeysAtFirst, AuthPagesAtFirst,
       EditorAtFirst, PreviewAtFirst DEF BrowserInit
<1>2. Inv /\ [BrowserNext]_browserVars => Inv'
  <2>. SUFFICES ASSUME Inv, [BrowserNext]_browserVars PROVE Inv'
    OBVIOUS
  <2>1. focus = "session" => AuthPagesInv'
    BY OneMoves, AuthTypesKept, PageKept, ProfileKept, WizardKept DEF AuthPagesInv
  <2>2. focus = "panel" => PanelInv'
    BY OneMoves, PanelKept
  <2>3. focus = "autosave" => AutosaveInv' /\ AutosaveBounds'
    BY OneMoves, AutosaveKept, BoundsKept
  <2>4. focus = "builder" => BuilderTypeOK'
    BY PageMoves, BuilderKept
  <2>5. focus = "drawer" => SenderDrawerTypeOK'
    BY PageMoves, SenderDrawerTyped
  <2>6. /\ focus = "host" => CanvasHostInv'
        /\ focus = "keys" => KeyPageInv'
    BY PageMoves, CanvasHostKept, KeysKept
  <2>7. /\ focus = "subscribers" => SubscriberInv'
        /\ focus = "workflows" => WorkflowPageInv'
        /\ focus = "providers" => ProviderInv'
    BY PageMoves, SubscribersKept, WorkflowsKept, ProvidersKept
  <2>8. /\ focus = "channel" => EditorInv'
        /\ focus = "preview" => PreviewInv'
    BY PageMoves, EditorKept, PreviewKept
  <2>. QED  BY <2>1, <2>2, <2>3, <2>4, <2>5, <2>6, <2>7, <2>8, PageMoves
<1>3. Inv => BrowserTypeOK
  BY ProviderPageTyped, AutosaveTypes
     DEF BrowserTypeOK, CanvasHostInv, PanelInv, WorkflowPageInv, SubscriberInv,
         KeyPageInv, AuthPagesInv, AuthTyped, EditorInv, PreviewInv
<1>. HIDE DEF Inv
<1>. QED  BY <1>1, <1>2, <1>3, PTL DEF BrowserSpec
=============================================================================
