----------------------------- MODULE MCBrowser -----------------------------
(***************************************************************************)
(* The instance for TLC of what runs in one browser: the builder's canvas, *)
(* its two copies of a draft and their saving, the panel for a test send,  *)
(* the pages of workflows, providers, subscribers and API keys, those      *)
(* around the session, and the parts of the page of a channel: editor,     *)
(* preview and sender.                                                     *)
(* They share no state, so a run lets one of them move, chosen at the      *)
(* start.  What does not move holds nothing at all: its many initial       *)
(* states would only multiply those of the one that does.                  *)
(***************************************************************************)
EXTENDS WorkflowBuilder, CanvasHost, BuilderAutosave, TriggerPanel, WorkflowPage,
        ProviderPage, SubscriberPage, KeyPage, AuthPages, ChannelEditor, ChannelPreview, SenderDrawer, TLC

VARIABLE focus     \* the component that moves

builderSide == <<builderVars, canvasHostVars, autosaveVars, panelVars>>
pages == <<workflowPageVars, providerPageVars, subscriberPageVars, keyPageVars, authPagesVars>>
channelPage == <<channelEditorVars, channelPreviewVars, senderDrawerVars>>
browserVars == <<focus, builderSide, pages, channelPage>>

MCSubmitted == <<"a", "b", "c">>
OneKey == [w \in Workflows |-> "k"]
ByEmail == [n \in ProviderNames |-> "email"]
MCHits == [q \in Searches |-> IF q = "a" THEN {"ann", "abe"} ELSE {"abe"}]
MCReachable == [email |-> {"me", "ann"}, sms |-> {"abe"}]

\* The two workflows, people, keys and users of a page are interchangeable.  One page moves,
\* so to exchange those of all the pages at once is to exchange those of that page.
Symmetry ==
    {f \in {w @@ p @@ k @@ u : w \in Permutations(Workflows), p \in Permutations(People),
                               k \in Permutations(ApiKeys), u \in Permutations(Users)} :
        (\A x \in DOMAIN f : f[x] # x) \/ (\A x \in DOMAIN f : f[x] = x)}

Off == 0

BrowserInit ==
    /\ focus \in {"builder", "host", "autosave", "panel", "workflows", "providers", "subscribers",
                 "keys", "session", "channel", "preview", "drawer"}
    /\ IF focus = "builder" THEN BuilderInit ELSE canvas = Off /\ opened = Off
    /\ IF focus = "host" THEN CanvasHostInit
       ELSE /\ store = Off /\ value = Off /\ echo = Off /\ due = Off /\ seen = Off
            /\ drafts = Off /\ newest = Off /\ mixups = Off
    /\ IF focus = "autosave" THEN AutosaveInit
       ELSE /\ server = Off /\ page = Off /\ armed = Off /\ saves = Off /\ cache = Off
            /\ fetch = Off /\ edited = Off /\ visits = Off /\ trouble = Off
    /\ IF focus = "panel" THEN PanelInit
       ELSE /\ form = Off /\ draft = Off /\ profiled = Off /\ mutation = Off /\ shown = Off
            /\ drawer = Off /\ sends = Off /\ polls = Off /\ polled = Off /\ lapses = Off
    /\ IF focus = "workflows" THEN WorkflowPageInit
       ELSE status = Off /\ screen = Off /\ operation = Off /\ mishap = Off
    /\ IF focus = "providers" THEN ProviderPageInit
       ELSE /\ providers = Off /\ connect = Off /\ cards = Off /\ cardFetch = Off
            /\ job = Off /\ cardsSpoiled = Off
    /\ IF focus = "subscribers" THEN SubscriberPageInit
       ELSE /\ people = Off /\ listed = Off /\ refetch = Off /\ sheet = Off
            /\ dialog = Off /\ request = Off /\ spoiled = Off
    /\ IF focus = "keys" THEN KeyPageInit
       ELSE /\ keys = Off /\ offered = Off /\ reload = Off /\ panel = Off
            /\ command = Off /\ told = Off /\ upset = Off
    /\ IF focus = "session" THEN AuthPagesInit
       ELSE /\ account = Off /\ mailed = Off /\ cookies = Off /\ place = Off
            /\ wizard = Off /\ profile = Off /\ submit = Off /\ muddle = Off
    /\ IF focus = "channel" THEN ChannelEditorInit
       ELSE /\ medium = Off /\ template = Off /\ linked = Off /\ payload = Off /\ editor = Off /\ clocks = Off
            /\ writes = Off /\ texts = Off /\ openings = Off /\ slips = Off
    /\ IF focus = "preview" THEN ChannelPreviewInit
       ELSE /\ recipient = Off /\ search = Off /\ body = Off /\ preview = Off /\ tester = Off
            /\ tests = Off /\ quirks = Off /\ via = Off
    /\ IF focus = "drawer" THEN SenderDrawerInit
       ELSE sender = Off /\ local = Off /\ provider = Off /\ drawn = Off /\ stale = Off

BrowserNext ==
    /\ UNCHANGED focus
    /\ \/ /\ focus = "builder" /\ BuilderNext
          /\ UNCHANGED <<pages, channelPage, canvasHostVars, autosaveVars, panelVars>>
       \/ /\ focus = "host" /\ CanvasHostNext
          /\ UNCHANGED <<pages, channelPage, builderVars, autosaveVars, panelVars>>
       \/ /\ focus = "autosave" /\ AutosaveNext
          /\ UNCHANGED <<pages, channelPage, builderVars, canvasHostVars, panelVars>>
       \/ /\ focus = "panel" /\ PanelNext
          /\ UNCHANGED <<pages, channelPage, builderVars, canvasHostVars, autosaveVars>>
       \/ /\ focus = "workflows" /\ WorkflowPageNext
          /\ UNCHANGED <<builderSide, channelPage, providerPageVars, subscriberPageVars, keyPageVars, authPagesVars>>
       \/ /\ focus = "providers" /\ ProviderPageNext
          /\ UNCHANGED <<builderSide, channelPage, workflowPageVars, subscriberPageVars, keyPageVars, authPagesVars>>
       \/ /\ focus = "subscribers" /\ SubscriberPageNext
          /\ UNCHANGED <<builderSide, channelPage, workflowPageVars, providerPageVars, keyPageVars, authPagesVars>>
       \/ /\ focus = "keys" /\ KeyPageNext
          /\ UNCHANGED <<builderSide, channelPage, workflowPageVars, providerPageVars, subscriberPageVars, authPagesVars>>
       \/ /\ focus = "session" /\ AuthPagesNext
          /\ UNCHANGED <<builderSide, channelPage, workflowPageVars, providerPageVars, subscriberPageVars, keyPageVars>>
       \/ /\ focus = "channel" /\ ChannelEditorNext
          /\ UNCHANGED <<builderSide, pages, channelPreviewVars, senderDrawerVars>>
       \/ /\ focus = "preview" /\ ChannelPreviewNext
          /\ UNCHANGED <<builderSide, pages, channelEditorVars, senderDrawerVars>>
       \/ /\ focus = "drawer" /\ SenderDrawerNext
          /\ UNCHANGED <<builderSide, pages, channelEditorVars, channelPreviewVars>>

BrowserSpec == BrowserInit /\ [][BrowserNext]_browserVars

\* The variables of each component stay within their domains.
BrowserTypeOK ==
    /\ focus = "builder"     => BuilderTypeOK
    /\ focus = "host"        => CanvasHostTypeOK
    /\ focus = "autosave"    => AutosaveTypeOK
    /\ focus = "panel"       => PanelTypeOK
    /\ focus = "workflows"   => WorkflowPageTypeOK
    /\ focus = "providers"   => ProviderPageTypeOK
    /\ focus = "subscribers" => SubscriberPageTypeOK
    /\ focus = "keys"        => KeyPageTypeOK
    /\ focus = "session"     => AuthPagesTypeOK
    /\ focus = "channel"     => ChannelEditorTypeOK
    /\ focus = "preview"     => ChannelPreviewTypeOK
    /\ focus = "drawer"      => SenderDrawerTypeOK

----------------------------------------------------------------------------
(* What each component owes its user; its module states and explains the   *)
(* parts.                                                                  *)

\* The builder's canvas: ChecksAgree, CanvasStaysValid, EditsKeepPath; and its copy of the
\* draft: CanvasShowsDraft, EditsArrive.
CanvasSound ==
    /\ [](focus = "builder" => ChecksAgree /\ CanvasStaysValid)
    /\ [](focus = "host" => CanvasShowsDraft /\ EditsArrive)
    /\ [][focus = "builder" => EditsKeepPath]_builderVars

\* The saving of the builder and channel pages: SettledShowsServer, CalmEditsSurvive.
AutosaveSound == focus = "autosave" => SettledShowsServer /\ CalmEditsSurvive

\* The panel for a test send: PanelShowsOwnSend.
PanelSound == focus = "panel" => PanelShowsOwnSend

\* The workflow page: PageSettles, OneAtATime, OwnDialogs.
WorkflowPageSound ==
    /\ [](focus = "workflows" => PageSettles /\ OneAtATime)
    /\ [][focus = "workflows" => OwnDialogs]_workflowPageVars

\* The providers page: CardsSettle, SaveHonoured, OwnDialog.
ProviderPageSound ==
    /\ [](focus = "providers" => CardsSettle)
    /\ [][focus = "providers" => SaveHonoured /\ OwnDialog]_providerPageVars

\* The subscribers page: ListSettles, SaveKeepsChannels, OwnSheets, DeletedStays.
SubscriberPageSound ==
    /\ [](focus = "subscribers" => ListSettles)
    /\ [][focus = "subscribers" => SaveKeepsChannels /\ OwnSheets /\ DeletedStays]_subscriberPageVars

\* The API key page: KeysSettle, DialogsStand.
KeyPageSound ==
    /\ [](focus = "keys" => KeysSettle)
    /\ [][focus = "keys" => DialogsStand]_keyPageVars

\* The pages around the session: PageFitsSession, OwnProfile, CheckedPair.
AuthPagesSound == focus = "session" => PageFitsSession /\ OwnProfile /\ CheckedPair

\* The page of a channel: SavedIsStored and NothingOlder of its editor, SendsWhatIsShown,
\* OneTestAtATime and ClosesOnOwnTest of its preview, SenderAsShown of its sender.
ChannelPageSound ==
    /\ [](focus = "channel" => SavedIsStored)
    /\ [](focus = "preview" => SendsWhatIsShown /\ OneTestAtATime)
    /\ [](focus = "drawer" => SenderAsShown)
    /\ [][focus = "channel" => NothingOlder]_channelEditorVars
    /\ [][focus = "preview" => ClosesOnOwnTest]_channelPreviewVars
=============================================================================
