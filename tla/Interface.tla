----------------------------- MODULE Interface -----------------------------
(***************************************************************************)
(* The Linux application's user interface: the one request it runs at a    *)
(* time (Ui::run), pages that replace each other, and the hand-over from    *)
(* the player back to the pages (crates apps/linux/src/app).                *)
(*                                                                         *)
(* Every step is one dispatch of GTK's main loop.  A request outlives the   *)
(* page that asked for it: its answer is dropped when the view generation   *)
(* moved on, which is modelled by the set of requests still heard.          *)
(***************************************************************************)
EXTENDS Naturals, Sequences

CONSTANT Nothing

VARIABLES
  ui,        \* the controller; see UiInit
  core,      \* Ui.session and Ui.core are Some
  playback,  \* the player and its record task; see NoPlayback
  after,     \* after_playback: Nothing, "switch", or the source to start
  window,    \* [open, closing]
  overran    \* history: a hand-over found a request of the pages running

interfaceVars == <<ui, core, playback, after, window, overran>>

\* What a request is for.  `tries` is PlaybackContext.attempted's size.
For(goal) == [to |-> goal, tries |-> 0]
Trying(goal, n) == [to |-> goal, tries |-> n]

MaxAttempts == 3

FirstUi ==
  [busy |-> FALSE, loading |-> FALSE, spinner |-> FALSE, sensitive |-> TRUE,
   handle |-> FALSE,        \* request_abort
   retry |-> Nothing,          \* page_retry
   view |-> "empty",
   editing |-> FALSE,       \* home leads to the settings
   settings |-> FALSE,      \* their window is open, which blocks this one
   heard |-> {}]            \* the requests of this view generation

NoPlayback ==
  [phase |-> "none",        \* "playing", "ending" (finished), "over" (recorded)
   mini |-> FALSE, browsed |-> FALSE,
   next |-> Nothing,
   tries |-> 0,
   stop |-> FALSE,          \* player_stop has been used
   updates |-> <<>>,        \* to the record task
   saved |-> "yes",         \* where it ended: "pending" until it is recorded, or "failed"
   own |-> TRUE]            \* the session it was started in is the open one

Playing == playback.phase = "playing"
Active == playback.phase # "none"              \* playback_active
Covered == Active /\ ~playback.mini            \* the player fills the window

-----------------------------------------------------------------------------
(* The controller's helpers, on the record *)

Run(u, request) ==
  IF u.busy THEN u
  ELSE [u EXCEPT !.busy = TRUE, !.sensitive = u.loading \/ u.spinner,
                 !.handle = TRUE, !.heard = @ \union {request}]

Clear(u) == [u EXCEPT !.spinner = FALSE, !.retry = Nothing, !.heard = {}]

Show(u, page) == [Clear(u) EXCEPT !.view = page]

LoadingPage(u) == [Show(u, "loading") EXCEPT !.loading = TRUE]

\* "Retry" comes with the page, when the page can be asked for again.
LoadingError(u) ==
  IF ~u.loading THEN u
  ELSE [Show(u, IF u.retry = Nothing THEN "error" ELSE u.retry) EXCEPT !.loading = FALSE]

Refresh(u) == Run(u, For("home"))

Home(u) == IF u.editing THEN [u EXCEPT !.settings = TRUE] ELSE Show(u, "home")

Details(u) == Run([LoadingPage(u) EXCEPT !.retry = "retryDetails"], For("details"))

Sources(u) == Run(u, For("sources"))

ResumeTitle(u) ==
  LET page == IF u.spinner THEN u ELSE LoadingPage(u)
  IN Run([page EXCEPT !.retry = "retryTitle"], For("title"))

\* `group`: the context has a binge group.
ContinuePlayback(u, tries, group) ==
  IF ~group \/ tries >= MaxAttempts THEN Sources(u)
  ELSE Run(IF u.spinner THEN u ELSE LoadingPage(u), Trying("matching", tries))

\* The attempts of the context of the request that prepares this source.
\* Fault: the context kept for another try is cloned before the insertion.
AttemptedKept(tries) == IF tries = 0 THEN 1 ELSE tries

Attempted(tries) == tries + 1

\* A player that runs is stopped first, and f follows when it is over.
Defers(f) == Active

\* start_source and switch_profile, from the page u.
StartNow(u, request) ==
  IF Defers(request)
  THEN /\ after' = request
       /\ playback' = [playback EXCEPT !.stop = TRUE]
       /\ ui' = u
  ELSE /\ ui' = Run(u, request)
       /\ UNCHANGED <<after, playback>>

StartSource(u, tries) == StartNow(u, Trying("prepare", Attempted(tries)))

\* A page without a spinner of its own keeps the clicked button loading until
\* the whole chain of requests is over.
Settled(u) == IF u.busy THEN u ELSE [u EXCEPT !.spinner = FALSE]

InterfaceInit ==
  /\ ui = Run(FirstUi, For("picker"))
  /\ core = FALSE
  /\ playback = NoPlayback
  /\ after = Nothing
  /\ window = [open |-> TRUE, closing |-> FALSE]
  /\ overran = FALSE

-----------------------------------------------------------------------------
(* Clicks.  Buttons do nothing while the controller is busy, except Back,   *)
(* nor behind the window of the settings.                                   *)

Unblocked == window.open /\ ~ui.settings

Clickable == Unblocked /\ ~Covered /\ ~ui.busy

SettingsClickable == window.open /\ ui.settings /\ ~ui.busy

\* A page of the profile that was left stays when its successor cannot be read,
\* and so do its settings.  Their handlers unwrap the core, which ends the program.
Usable == Clickable /\ core

Panics ==
  /\ ~core
  /\ \/ Clickable /\ ui.view \in {"home", "details", "sources", "retryDetails", "retryTitle"}
     \/ SettingsClickable
  /\ window' = [window EXCEPT !.open = FALSE]
  /\ UNCHANGED <<ui, core, playback, after, overran>>

ClickLeads(u) == ui' = u /\ UNCHANGED <<core, playback, after, window, overran>>

ClickHome == Usable /\ ClickLeads(Refresh(ui))

ClickProfile == Clickable /\ ui.view = "picker" /\ ClickLeads(Run(ui, For("open")))

ClickTitle == Usable /\ ui.view = "home" /\ ClickLeads(Details(ui))

\* An episode, or "Reload sources".
ClickEpisode == Usable /\ ui.view \in {"details", "sources"} /\ ClickLeads(Sources(ui))

ClickRetry ==
  /\ Usable
  /\ \/ ui.view = "retryDetails" /\ ClickLeads(Details(ui))
     \/ ui.view = "retryTitle" /\ ClickLeads(ResumeTitle(ui))

\* A card of Continue Watching.
ClickContinue ==
  /\ Usable /\ ui.view = "home"
  /\ LET u == [ui EXCEPT !.spinner = TRUE] IN
       \E episodes \in BOOLEAN :
         ClickLeads(IF episodes THEN Run(u, For("resume")) ELSE ResumeTitle(u))

ClickSource ==
  /\ Usable /\ ui.view = "sources"
  /\ StartSource(ui, 0)
  /\ UNCHANGED <<core, window, overran>>

SwitchProfile ==
  /\ Usable
  /\ StartNow(ui, For("leave"))
  /\ UNCHANGED <<core, window, overran>>

\* Settings, beside a player too.  Most of what they offer is a request ("change")
\* and a refresh; "Add" creates a profile.
OpenSettings == Usable /\ ClickLeads(Run(ui, For("authorize")))

UseSettings ==
  /\ SettingsClickable /\ core
  /\ \E goal \in {"change", "create"} : ClickLeads(Run(ui, For(goal)))

CloseSettings ==
  /\ SettingsClickable /\ core
  /\ ClickLeads(Run([ui EXCEPT !.settings = FALSE, !.editing = FALSE], For("lock")))

\* Fault: a request under way stays the controller's.
LeftBehindBusy(u) == Clear([u EXCEPT !.loading = FALSE, !.sensitive = TRUE])

\* What Back leaves of the page and its request.
LeftBehind(u) ==
  Clear([u EXCEPT !.handle = FALSE, !.busy = FALSE, !.loading = FALSE,
                  !.sensitive = TRUE])

Back ==
  /\ Unblocked /\ core /\ ~Covered /\ ui.sensitive
  /\ ui.view \in {"loading", "error", "retryDetails", "retryTitle", "details", "sources"}
  /\ ClickLeads(Refresh(LeftBehind(ui)))

-----------------------------------------------------------------------------
(* Answers *)

\* What run does before it hands the result over.
Answered(r) ==
  [ui EXCEPT !.heard = @ \ {r}, !.handle = FALSE, !.busy = FALSE, !.sensitive = TRUE]

Fails(r) ==
  /\ r.to # "prepare"
  /\ ClickLeads(Settled(LoadingError(Answered(r))))

Leads(u) == ui' = Settled(u) /\ UNCHANGED <<core, playback, after, window, overran>>

Launch(u, tries) ==
  /\ playback' = [NoPlayback EXCEPT !.phase = "playing", !.tries = tries]
  /\ ui' = [Show(u, "empty") EXCEPT !.busy = TRUE]
  /\ UNCHANGED after

Succeeds(r) ==
  LET u == [Answered(r) EXCEPT !.loading = FALSE] IN
  \/ r.to = "home" /\ Leads(Home(u))
  \/ r.to \in {"details", "sources"} /\ Leads(Show(u, r.to))
  \/ r.to = "authorize" /\ Leads(Refresh([u EXCEPT !.editing = TRUE]))
  \/ r.to \in {"change", "lock"} /\ Leads(Refresh(u))
  \/ r.to = "create" /\ Leads(Run([u EXCEPT !.settings = FALSE], For("added")))
  \/ r.to = "title" /\ (Leads(Run(u, For("resume"))) \/ Leads(Details(u)))
  \/ r.to = "resume" /\ \E group \in BOOLEAN : Leads(ContinuePlayback(u, 0, group))
  \/ r.to = "matching" /\ Leads(Show(u, "sources"))
  \/ /\ r.to = "matching"
     /\ StartSource(u, r.tries)
     /\ UNCHANGED <<core, window, overran>>
  \/ r.to = "prepare" /\ Launch(u, r.tries) /\ UNCHANGED <<core, window, overran>>
  \/ r.to = "prepare" /\ Leads(u)   \* libmpv does not start
  \/ r.to = "prepare" /\ \E group \in BOOLEAN : Leads(ContinuePlayback(u, r.tries, group))
  \/ /\ r.to = "leave"
     /\ core' = FALSE
     /\ ui' = Run([u EXCEPT !.editing = FALSE], For("picker"))
     /\ UNCHANGED <<playback, after, window, overran>>
  \/ r.to = "picker" /\ Leads(Show(u, "picker"))
  \/ r.to = "picker" /\ Leads(Run([u EXCEPT !.settings = FALSE], For("open")))
  \/ /\ r.to \in {"open", "added"}
     /\ core' = TRUE
     /\ playback' = IF Active THEN [playback EXCEPT !.own = FALSE] ELSE playback
     /\ ui' = Refresh([u EXCEPT !.editing = FALSE])
     /\ UNCHANGED <<after, window, overran>>

Answers == window.open /\ \E r \in ui.heard : Succeeds(r) \/ Fails(r)

-----------------------------------------------------------------------------
(* The player beside the pages *)

Minimize ==
  /\ Playing /\ ~playback.mini /\ Unblocked
  /\ playback' = [playback EXCEPT !.mini = TRUE, !.browsed = TRUE]
  /\ LET u == [ui EXCEPT !.busy = FALSE] IN
       \/ playback.browsed /\ ui' = u
       \/ ~playback.browsed /\ ui' \in {Run(u, For("details")), Details(u)}
  /\ UNCHANGED <<core, after, window, overran>>

Expand ==
  /\ Playing /\ playback.mini /\ Unblocked
  /\ playback' = [playback EXCEPT !.mini = FALSE]
  /\ ui' = IF ui.handle
           THEN [ui EXCEPT !.handle = FALSE, !.heard = {}, !.busy = FALSE, !.sensitive = TRUE]
           ELSE ui
  /\ UNCHANGED <<core, after, window, overran>>

\* Fault: the record task is told to end first.
LastUpdatesSwapped == <<"finished", "progress">>

LastUpdates == <<"progress", "finished">>

\* Player::finish.  A video that never played has no position to save.
PlayerFinish(next) ==
  /\ Playing
  /\ \E played \in BOOLEAN :
       playback' = [playback EXCEPT !.phase = "ending", !.next = next,
                      !.saved = IF played THEN "pending" ELSE "yes",
                      !.updates = IF played THEN LastUpdates ELSE <<"finished">>]
  /\ UNCHANGED <<ui, core, after, window, overran>>

VideoEnds == \E next \in {Nothing, "episode", "source", "retry"} : PlayerFinish(next)

StopArrives == playback.stop /\ PlayerFinish(Nothing)

\* What record_progress can come to: the store refuses another session than the
\* open one, and may fail.
Recordings == IF playback.own THEN {"yes", "failed"} ELSE {"failed"}

\* One update of the record task; a ticket is revoked after the last.
Record ==
  /\ playback.phase = "ending"
  /\ IF Head(playback.updates) = "progress"
     THEN \E saved \in Recordings :
            playback' = [playback EXCEPT !.updates = Tail(@), !.saved = saved]
     ELSE playback' = [playback EXCEPT !.updates = <<>>, !.phase = "over"]
  /\ UNCHANGED <<ui, core, after, window, overran>>

\* Fault: what waits for the player goes before the window's closing.
FollowsAnyway(goal) ==
  IF after # Nothing THEN "after" ELSE IF window.closing THEN "close" ELSE goal

\* What the end of the player leads to.
Follows(goal) ==
  IF window.closing THEN "close" ELSE IF after # Nothing THEN "after" ELSE goal

HandOver ==
  /\ playback.phase = "over"
  /\ playback' = [NoPlayback EXCEPT !.saved = playback.saved]
  /\ LET u == IF playback.mini THEN ui ELSE [ui EXCEPT !.busy = FALSE]
         to == Follows(playback.next)
         Becomes(v) == ui' = v /\ overran' = (overran \/ u.busy)
     IN \/ /\ to = "close"
           /\ window' = [window EXCEPT !.open = FALSE]
           /\ ui' = u
           /\ UNCHANGED <<after, overran>>
        \/ /\ to = "after"
           /\ after' = Nothing
           /\ Becomes(Run(u, after))
           /\ UNCHANGED window
        \/ /\ to = "source"
           /\ Becomes(Run(u, Trying("prepare", Attempted(0))))
           /\ UNCHANGED <<after, window>>
        \/ /\ to \in {"episode", "retry"}
           /\ \E group \in BOOLEAN :
                Becomes(ContinuePlayback(u, IF to = "episode" THEN 0 ELSE playback.tries,
                                         group))
           /\ UNCHANGED <<after, window>>
        \/ /\ to = Nothing
           /\ ui' = IF playback.mini THEN u ELSE Refresh(u)
           /\ UNCHANGED <<after, window, overran>>
  /\ UNCHANGED core

CloseRequest ==
  /\ window.open
  /\ IF Active
     THEN /\ window' = [window EXCEPT !.closing = TRUE]
          /\ playback' = [playback EXCEPT !.stop = TRUE]
     ELSE /\ window' = [window EXCEPT !.open = FALSE]
          /\ UNCHANGED playback
  /\ UNCHANGED <<ui, core, after, overran>>

\* The application is started again.
Relaunch ==
  /\ ~window.open
  /\ ui' = Run(FirstUi, For("picker"))
  /\ core' = FALSE
  /\ after' = Nothing
  /\ window' = [open |-> TRUE, closing |-> FALSE]
  /\ overran' = FALSE
  /\ UNCHANGED playback

InterfaceNext ==
  \/ ClickHome \/ ClickProfile \/ ClickTitle \/ ClickEpisode \/ ClickRetry
  \/ ClickContinue \/ ClickSource \/ SwitchProfile \/ Back
  \/ OpenSettings \/ UseSettings \/ CloseSettings
  \/ Answers \/ Panics
  \/ Minimize \/ Expand \/ VideoEnds \/ StopArrives \/ Record \/ HandOver
  \/ CloseRequest \/ Relaunch

InterfaceSpec == InterfaceInit /\ [][InterfaceNext]_interfaceVars

\* Requests have timeouts, and the player's channel and the main loop move on.
InterfaceFairness ==
  /\ WF_interfaceVars(Answers)
  /\ WF_interfaceVars(StopArrives) /\ WF_interfaceVars(Record) /\ WF_interfaceVars(HandOver)

FairInterfaceSpec == InterfaceSpec /\ InterfaceFairness

-----------------------------------------------------------------------------
(* Properties *)

Asked(goals) == \E r \in ui.heard : r.to \in goals

\* While nothing plays, a busy interface waits for a request whose answer it
\* will hear, so that it becomes usable again; unless the end of a video broke
\* into a request of the pages (HandOver drops such a request).
BusyIsOwned ==
  window.open /\ ~Active /\ ui.busy => ui.heard # {} \/ overran

\* A source or a profile chosen while a video plays waits until the video is over
\* and its last progress was recorded (or recording it failed): no other player is
\* prepared and no session left or chosen beside it, and what unwraps the core finds
\* it.  "Switching profiles stops playback and saves progress before opening the
\* profile picker."  A profile that the settings add is the exception: it is opened
\* at once.
PlaybackUndisturbed ==
  /\ Active => core /\ ~Asked({"prepare", "leave", "picker", "open"})
  /\ Asked({"home", "details", "sources", "title", "resume", "matching", "prepare", "leave",
            "authorize", "change", "create", "lock"}) => core
  /\ Asked({"prepare", "leave", "picker"}) => playback.saved # "pending"

\* A window that was closed during playback closes.
ClosingCloses == window.closing ~> ~window.open

\* Preparing a video comes to an end: it plays, or the sources are shown, or
\* the interface is free again, however many sources fail.
PreparingEnds ==
  Asked({"prepare"}) ~> Active \/ Asked({"sources"}) \/ ~ui.busy \/ ~window.open

\* At the end of a video with a next episode, that episode is prepared (or its
\* sources are listed), also when the user was browsing meanwhile.
NextPlays ==
  [][playback.phase = "over" /\ Follows(playback.next) = "episode"
       /\ playback'.phase = "none" => \E r \in ui'.heard : r.to \in {"matching", "sources"}
    ]_interfaceVars

=============================================================================
