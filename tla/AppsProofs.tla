------------------------------ MODULE AppsProofs ------------------------------
(***************************************************************************)
(* Theorems about the applications: the seeding of the default addons      *)
(* (DefaultAddons), for any defaults, runs and number of copies, and the   *)
(* requests of the Linux interface (Interface), whatever their number.     *)
(***************************************************************************)
EXTENDS DefaultAddons, Interface, TLAPS

-----------------------------------------------------------------------------
(* Default addons *)

RunsOK ==
  /\ runStep \in [Runs -> 0 .. Len(Defaults) + 1]
  /\ failed = [r \in Runs |-> failed[r]]
  /\ current = [r \in Runs |-> current[r]]
  /\ hindered = [r \in Runs |-> hindered[r]]

\* The open session's run is the only one that may write, and it began unseeded.
OneCurrent ==
  \A r \in Runs : current[r] =>
    /\ runStep[r] # 0 /\ ~seeded
    /\ \A s \in Runs : current[s] => s = r

SeedInv == RunsOK /\ OneCurrent

\* A run that nothing hindered is the open session's, whose settings are unlocked,
\* and none of its defaults failed.
Unhindered ==
  \A r \in Runs : runStep[r] # 0 /\ ~hindered[r] => current[r] /\ ~failed[r] /\ unlocked

ReachInv == RunsOK /\ Unhindered

-----------------------------------------------------------------------------

LEMMA RunsInitially == DefaultsInit => RunsOK
  <1>1. 0 \in 0 .. Len(Defaults) + 1
    BY DefaultsAssumption
  <1> QED BY <1>1 DEF DefaultsInit, RunsOK

LEMMA RunsStep ==
  ASSUME RunsOK, DefaultsNext
  PROVE  RunsOK'
  <1> USE DEF RunsOK
  <1>1. CASE LeaveProfile
    BY <1>1 DEF LeaveProfile
  <1>2. CASE AuthorizeSettings
    BY <1>2 DEF AuthorizeSettings, runVars
  <1>3. CASE RelockSettings
    BY <1>3 DEF RelockSettings
  <1>4. CASE \E u \in Urls : UserInstalls(u) \/ UserRemoves(u)
    BY <1>4 DEF UserInstalls, UserRemoves, openVars, runVars
  <1>5. ASSUME NEW r \in Runs, OpenProfile(r)
        PROVE  RunsOK'
    <2>1. 1 \in 0 .. Len(Defaults) + 1
      BY DefaultsAssumption
    <2>2. hindered' = [s \in Runs |-> hindered'[s]]
      BY <1>5, DefaultsAssumption DEF OpenProfile
    <2>3. CASE UNCHANGED <<runStep, present, failed>> /\ current' = [s \in Runs |-> FALSE]
      BY <2>2, <2>3
    <2>4. CASE /\ runStep' = [runStep EXCEPT ![r] = 1]
               /\ failed' = [failed EXCEPT ![r] = FALSE]
               /\ current' = [s \in Runs |-> s = r]
      BY <2>1, <2>2, <2>4
    <2> QED BY <1>5, <2>3, <2>4 DEF OpenProfile
  <1>6. ASSUME NEW r \in Runs, RunStep(r)
        PROVE  RunsOK'
    <2>1. AtDefault(r) => runStep[r] + 1 \in 0 .. Len(Defaults) + 1
      BY DefaultsAssumption DEF AtDefault
    <2>2. CASE SkipPresent(r)
      BY <2>1, <2>2 DEF SkipPresent, Forward, openVars
    <2>3. CASE InstallDefault(r)
      BY <2>1, <2>3 DEF InstallDefault, Forward, openVars
    <2>4. CASE FailDefault(r)
      BY <2>1, <2>4 DEF FailDefault, Forward, openVars
    <2>5. CASE Finish(r)
      <3>1. 0 \in 0 .. Len(Defaults) + 1
        BY DefaultsAssumption
      <3>2. /\ runStep' = [runStep EXCEPT ![r] = 0]
            /\ failed' = [failed EXCEPT ![r] = FALSE]
            /\ current' = [current EXCEPT ![r] = FALSE]
            /\ hindered' = [hindered EXCEPT ![r] = FALSE]
        BY <2>5 DEF Finish, Return
      <3> QED BY <3>1, <3>2
    <2>6. CASE StoreFails(r)
      BY <2>6 DEF StoreFails, openVars
    <2> QED BY <1>6, <2>2, <2>3, <2>4, <2>5, <2>6 DEF RunStep
  <1> QED BY <1>1, <1>2, <1>3, <1>4, <1>5, <1>6 DEF DefaultsNext

-----------------------------------------------------------------------------
(* Seeded profiles *)

LEMMA SeedInitially == DefaultsInit => SeedInv
  BY RunsInitially DEF DefaultsInit, SeedInv, OneCurrent

LEMMA SeedStep ==
  ASSUME SeedInv, DefaultsNext
  PROVE  OneCurrent'
  <1> USE DEF SeedInv, RunsOK, OneCurrent
  <1>1. CASE LeaveProfile
    BY <1>1 DEF LeaveProfile
  <1>2. CASE AuthorizeSettings
    BY <1>2 DEF AuthorizeSettings, addonVars, runVars
  <1>3. CASE RelockSettings
    BY <1>3 DEF RelockSettings, addonVars
  <1>4. CASE \E u \in Urls : UserInstalls(u) \/ UserRemoves(u)
    BY <1>4 DEF UserInstalls, UserRemoves, runVars
  <1>5. ASSUME NEW r \in Runs, OpenProfile(r)
        PROVE  OneCurrent'
    <2>1. CASE current' = [s \in Runs |-> FALSE]
      BY <2>1
    <2>2. CASE ~seeded /\ runStep' = [runStep EXCEPT ![r] = 1] /\ current' = [s \in Runs |-> s = r]
      <3>1. \A s \in Runs : current'[s] => s = r
        BY <2>2
      <3>2. runStep'[r] = 1 /\ seeded' = seeded
        BY <1>5, <2>2 DEF OpenProfile, addonVars
      <3> QED BY <2>2, <3>1, <3>2
    <2> QED BY <1>5, <2>1, <2>2 DEF OpenProfile
  <1>6. ASSUME NEW r \in Runs, RunStep(r)
        PROVE  OneCurrent'
    <2>1. AtDefault(r) => runStep[r] + 1 # 0
      BY DefaultsAssumption DEF AtDefault
    <2>2. CASE SkipPresent(r)
      BY <2>1, <2>2 DEF SkipPresent, Forward, addonVars
    <2>3. CASE InstallDefault(r)
      BY <2>1, <2>3 DEF InstallDefault, Forward
    <2>4. CASE FailDefault(r)
      BY <2>1, <2>4 DEF FailDefault, Forward, addonVars
    <2>5. CASE Finish(r)
      <3>1. /\ current' = [current EXCEPT ![r] = FALSE]
            /\ runStep' = [runStep EXCEPT ![r] = 0]
        BY <2>5 DEF Finish, Return
      <3>2. seeded' # seeded => current[r]
        BY <2>5 DEF Finish
      <3> QED BY <3>1, <3>2
    <2>6. CASE StoreFails(r)
      BY <2>6 DEF StoreFails, addonVars
    <2> QED BY <1>6, <2>2, <2>3, <2>4, <2>5, <2>6 DEF RunStep
  <1> QED BY <1>1, <1>2, <1>3, <1>4, <1>5, <1>6 DEF DefaultsNext

\* What install_default_addons finds seeded stays as the user left it, whichever runs
\* of earlier sessions go on (crates/madari-core/src/lib.rs).
THEOREM SeededStays == DefaultsSpec => SeededStaysAsIs
  <1>1. SeedInv /\ [DefaultsNext]_defaultsVars => SeedInv'
    <2>1. SeedInv /\ DefaultsNext => SeedInv'
      BY RunsStep, SeedStep DEF SeedInv
    <2>2. SeedInv /\ UNCHANGED defaultsVars => SeedInv'
      BY DEF SeedInv, RunsOK, OneCurrent, defaultsVars, addonVars, openVars, runVars
    <2> QED BY <2>1, <2>2
  <1>2. SeedInv /\ [DefaultsNext]_defaultsVars
          => [\A r \in Runs : InstallDefault(r) => ~seeded]_defaultsVars
    BY DEF SeedInv, OneCurrent, InstallDefault, MayInstall
  <1> QED BY <1>1, <1>2, SeedInitially, PTL DEF DefaultsSpec, SeededStaysAsIs

-----------------------------------------------------------------------------
(* Runs that nothing hinders *)

LEMMA ReachStep ==
  ASSUME ReachInv, DefaultsNext, Authorizes = TRUE
  PROVE  Unhindered'
  <1> USE DEF ReachInv, RunsOK, Unhindered
  <1>1. CASE LeaveProfile
    BY <1>1 DEF LeaveProfile, Working
  <1>2. CASE AuthorizeSettings
    BY <1>2 DEF AuthorizeSettings, runVars
  <1>3. CASE RelockSettings
    BY <1>3 DEF RelockSettings, Working
  <1>4. CASE \E u \in Urls : UserInstalls(u) \/ UserRemoves(u)
    BY <1>4 DEF UserInstalls, UserRemoves, openVars, runVars
  <1>5. ASSUME NEW r \in Runs, OpenProfile(r)
        PROVE  Unhindered'
    BY <1>5 DEF OpenProfile, Working
  <1>6. ASSUME NEW r \in Runs, RunStep(r)
        PROVE  Unhindered'
    <2>1. AtDefault(r) => runStep[r] # 0
      BY DefaultsAssumption DEF AtDefault
    <2>2. CASE SkipPresent(r)
      BY <2>1, <2>2 DEF SkipPresent, Forward, openVars
    <2>3. CASE InstallDefault(r)
      BY <2>1, <2>3 DEF InstallDefault, Forward, openVars
    <2>4. CASE FailDefault(r)
      BY <2>1, <2>4 DEF FailDefault, Forward, MayInstall, openVars
    <2>5. CASE Finish(r)
      BY <2>5 DEF Finish, Return, openVars
    <2>6. CASE StoreFails(r)
      BY <2>6 DEF StoreFails, openVars
    <2> QED BY <1>6, <2>2, <2>3, <2>4, <2>5, <2>6 DEF RunStep
  <1> QED BY <1>1, <1>2, <1>3, <1>4, <1>5, <1>6 DEF DefaultsNext

\* Where the client authorizes settings first, as AppModel.swift does, a run that reached
\* every manifest in a session that lasted seeds the profile.
THEOREM ReachableSeeds ==
  ASSUME Authorizes = TRUE
  PROVE  DefaultsSpec => ReachableRunsSeed
  <1>1. DefaultsInit => ReachInv
    BY RunsInitially DEF DefaultsInit, ReachInv, Unhindered
  <1>2. ReachInv /\ [DefaultsNext]_defaultsVars => ReachInv'
    <2>1. ReachInv /\ DefaultsNext => ReachInv'
      BY RunsStep, ReachStep DEF ReachInv
    <2>2. ReachInv /\ UNCHANGED defaultsVars => ReachInv'
      BY DEF ReachInv, RunsOK, Unhindered, defaultsVars, openVars, runVars
    <2> QED BY <2>1, <2>2
  <1> DEFINE Ends == \A r \in Runs :
               (runStep[r] = Len(Defaults) + 1 /\ runStep'[r] = 0 /\ ~hindered[r]) => seeded'
  <1>3. ReachInv /\ [DefaultsNext]_defaultsVars => [Ends]_defaultsVars
    <2> SUFFICES ASSUME ReachInv, DefaultsNext, NEW r \in Runs,
                        runStep[r] = Len(Defaults) + 1, runStep'[r] = 0, ~hindered[r]
                 PROVE  seeded'
      OBVIOUS
    <2>1. runStep[r] # 0 /\ ~AtDefault(r)
      BY DefaultsAssumption DEF AtDefault
    <2>2. Finish(r)
      BY <2>1 DEF DefaultsNext, LeaveProfile, AuthorizeSettings, RelockSettings, UserInstalls,
           UserRemoves, OpenProfile, RunStep, SkipPresent, InstallDefault, FailDefault, Finish,
           StoreFails, Forward, Return, runVars, ReachInv, RunsOK, AtDefault
    <2> QED BY <2>1, <2>2 DEF Finish, Complete, ReachInv, Unhindered
  <1> QED BY <1>1, <1>2, <1>3, PTL DEF DefaultsSpec, ReachableRunsSeed

-----------------------------------------------------------------------------
(* The interface *)

\* The controller keeps its fields, which EXCEPT relies on.
IsUi(u) ==
  /\ DOMAIN u = {"busy", "loading", "spinner", "sensitive", "handle", "retry", "view",
                 "editing", "settings", "heard"}
  /\ u.busy \in BOOLEAN /\ u.handle \in BOOLEAN
  /\ u.retry = Nothing \/ u.retry # "picker"
  /\ u = [f \in DOMAIN u |-> u[f]]

\* At most one request is heard, and then the controller is busy and can abort it.
Tidy(u) ==
  /\ IsUi(u)
  /\ u.heard # {} => u.busy /\ u.handle
  /\ \A r, q \in u.heard : r = q

\* A page that asks may only ask for these goals, and asks if it can.
AsksFor(u, v, goals) ==
  /\ Tidy(v)
  /\ \A r \in v.heard : r \in u.heard \/ r.to \in goals
  /\ ~u.busy => v.busy /\ v.heard # {}
  /\ v.view \in {u.view, "loading"}

LEMMA RunAsks ==
  ASSUME NEW u, Tidy(u), NEW request, NEW goals, request.to \in goals
  PROVE  AsksFor(u, Run(u, request), goals)
<1>1. CASE u.busy
  BY <1>1 DEF Run, AsksFor, Tidy
<1>2. CASE ~u.busy
  <2> DEFINE v == Run(u, request)
  <2>1. /\ IsUi(v) /\ v.busy /\ v.handle /\ v.view = u.view
        /\ v.heard = u.heard \union {request}
    BY <1>2 DEF Run, Tidy, IsUi
  <2> HIDE DEF v
  <2>2. u.heard = {}
    BY <1>2 DEF Tidy
  <2> QED BY <2>1, <2>2, <1>2 DEF AsksFor, Tidy, v
<1> QED BY <1>1, <1>2 DEF Tidy, IsUi

LEMMA ShowTidy ==
  ASSUME NEW u, Tidy(u), NEW page
  PROVE  /\ Tidy(Show(u, page)) /\ Show(u, page).heard = {}
         /\ Show(u, page).busy = u.busy /\ Show(u, page).view = page
         /\ Tidy(Clear(u)) /\ Clear(u).heard = {} /\ Clear(u).busy = u.busy
<1>1. /\ IsUi(Clear(u)) /\ Clear(u).heard = {} /\ Clear(u).busy = u.busy
      /\ Clear(u).handle = u.handle
  BY DEF Clear, Tidy, IsUi
<1>2. /\ IsUi(Show(u, page)) /\ Show(u, page).heard = {} /\ Show(u, page).busy = u.busy
      /\ Show(u, page).view = page
  BY <1>1 DEF Show, IsUi
<1> QED BY <1>1, <1>2 DEF Tidy

LEMMA LoadingPageTidy ==
  ASSUME NEW u, Tidy(u)
  PROVE  /\ Tidy(LoadingPage(u)) /\ LoadingPage(u).heard = {}
         /\ LoadingPage(u).busy = u.busy /\ LoadingPage(u).view = "loading"
<1> DEFINE s == Show(u, "loading")
           l == LoadingPage(u)
<1>1. Tidy(s) /\ s.heard = {} /\ s.busy = u.busy /\ s.view = "loading"
  BY ShowTidy
<1>2. l = [s EXCEPT !.loading = TRUE]
  BY DEF LoadingPage
<1> HIDE DEF s, l
<1>3. Tidy(l) /\ l.heard = {} /\ l.busy = u.busy /\ l.view = "loading"
  BY <1>1, <1>2 DEF Tidy, IsUi
<1> QED BY <1>3 DEF l

LEMMA RetryTidy ==
  ASSUME NEW u, Tidy(u), NEW retry, retry # "picker"
  PROVE  LET v == [u EXCEPT !.retry = retry]
         IN  Tidy(v) /\ v.heard = u.heard /\ v.busy = u.busy /\ v.view = u.view
  BY DEF Tidy, IsUi

LEMMA SettingsTidy ==
  ASSUME NEW u, Tidy(u), NEW flag \in BOOLEAN
  PROVE  \A v \in {[u EXCEPT !.settings = flag], [u EXCEPT !.editing = flag],
                   [u EXCEPT !.settings = flag, !.editing = flag]} :
           Tidy(v) /\ v.heard = u.heard /\ v.busy = u.busy /\ v.view = u.view
<1>1. ASSUME NEW v, \/ v = [u EXCEPT !.settings = flag]
                    \/ v = [u EXCEPT !.editing = flag]
                    \/ v = [u EXCEPT !.settings = flag, !.editing = flag]
      PROVE  IsUi(v) /\ v.heard = u.heard /\ v.busy = u.busy /\ v.view = u.view /\ v.handle = u.handle
  BY <1>1 DEF Tidy, IsUi
<1> QED BY <1>1 DEF Tidy

LEMMA PagesAsk ==
  ASSUME NEW u, Tidy(u)
  PROVE  /\ AsksFor(u, Refresh(u), {"home"})
         /\ AsksFor(u, Details(u), {"details"})
         /\ AsksFor(u, Sources(u), {"sources"})
         /\ AsksFor(u, ResumeTitle(u), {"title"})
<1>1. For("home").to = "home" /\ For("details").to = "details"
        /\ For("sources").to = "sources" /\ For("title").to = "title"
  BY DEF For
<1>2. AsksFor(u, Refresh(u), {"home"}) /\ AsksFor(u, Sources(u), {"sources"})
  BY <1>1, RunAsks DEF Refresh, Sources
<1>3. ASSUME NEW page, NEW retry, NEW goal, Tidy(page), page.busy = u.busy,
             \/ page = u
             \/ page.heard = {} /\ page.view = "loading"
      PROVE  AsksFor(u, Run(page, For(goal)), {goal})
  <2>1. AsksFor(page, Run(page, For(goal)), {goal})
    BY <1>3, RunAsks DEF For
  <2> QED BY <1>3, <2>1 DEF AsksFor
<1>4. AsksFor(u, Details(u), {"details"})
  <2> DEFINE page == [LoadingPage(u) EXCEPT !.retry = "retryDetails"]
  <2>1. Tidy(page) /\ page.heard = {} /\ page.busy = u.busy /\ page.view = "loading"
    BY LoadingPageTidy, RetryTidy
  <2> HIDE DEF page
  <2> QED BY <1>3, <2>1 DEF Details, page
<1>5. AsksFor(u, ResumeTitle(u), {"title"})
  <2> DEFINE page == IF u.spinner THEN u ELSE LoadingPage(u)
             v == [page EXCEPT !.retry = "retryTitle"]
  <2>1. Tidy(page) /\ page.busy = u.busy /\ page.heard \subseteq u.heard /\ page.view \in {u.view, "loading"}
    BY LoadingPageTidy
  <2> HIDE DEF page
  <2>2. Tidy(v) /\ v.busy = u.busy /\ v.heard \subseteq u.heard /\ v.view \in {u.view, "loading"}
    BY <2>1, RetryTidy
  <2>3. ResumeTitle(u) = Run(v, For("title"))
    BY DEF ResumeTitle, page
  <2> HIDE DEF v
  <2>4. AsksFor(v, Run(v, For("title")), {"title"})
    BY <2>2, <1>1, RunAsks
  <2> QED BY <2>2, <2>3, <2>4 DEF AsksFor
<1> QED BY <1>2, <1>4, <1>5

LEMMA ContinuePlaybackAsks ==
  ASSUME NEW u, Tidy(u), NEW tries, NEW group
  PROVE  AsksFor(u, ContinuePlayback(u, tries, group), {"sources", "matching"})
<1>1. CASE ContinuePlayback(u, tries, group) = Sources(u)
  BY <1>1, PagesAsk DEF AsksFor
<1>2. CASE ContinuePlayback(u, tries, group)
             = Run(IF u.spinner THEN u ELSE LoadingPage(u), Trying("matching", tries))
  <2> DEFINE page == IF u.spinner THEN u ELSE LoadingPage(u)
  <2>1. Tidy(page) /\ page.busy = u.busy /\ page.heard \subseteq u.heard /\ page.view \in {u.view, "loading"}
    BY LoadingPageTidy
  <2> HIDE DEF page
  <2>2. AsksFor(page, Run(page, Trying("matching", tries)), {"matching"})
    BY <2>1, RunAsks DEF Trying
  <2> QED BY <1>2, <2>1, <2>2 DEF AsksFor, page
<1> QED BY <1>1, <1>2 DEF ContinuePlayback

-----------------------------------------------------------------------------
(* The invariant *)

PageGoals == {"home", "details", "sources", "title", "resume", "matching"}
SettingsGoals == {"authorize", "change", "create", "lock"}
NeedCore == PageGoals \union SettingsGoals \union {"prepare", "leave"}
Alone == {"prepare", "leave", "picker", "open"}

IsPlayback(p) ==
  /\ DOMAIN p = {"phase", "mini", "browsed", "next", "tries", "stop", "updates", "saved", "own"}
  /\ p = [f \in DOMAIN p |-> p[f]]
  /\ p.mini \in BOOLEAN
  /\ p.phase \in {"none", "playing", "ending", "over"}
  /\ p.saved = "pending" => p.phase = "ending" /\ p.updates = LastUpdates

Plays(p) == p.phase # "none"
Fills(p) == Plays(p) /\ ~p.mini

\* A controller that is not covered by the player waits for what it is busy with
\* (or a hand-over found it so), and has not asked for what must be alone while
\* a player runs.
Good(u, c, p, w, o) ==
  /\ Tidy(u) /\ IsPlayback(p)
  /\ DOMAIN w = {"open", "closing"} /\ w = [f \in DOMAIN w |-> w[f]] /\ w.open \in BOOLEAN
  /\ c \in BOOLEAN /\ o \in BOOLEAN
  /\ Fills(p) => u.heard = {}
  /\ Fills(p) /\ u.settings => u.busy
  /\ w.open /\ ~Fills(p) /\ u.busy => u.heard # {} \/ o
  /\ Plays(p) => w.open /\ c /\ u.view # "picker" /\ \A r \in u.heard : r.to \notin Alone
  /\ \A r \in u.heard : r.to \in NeedCore => c

InterfaceInv == Good(ui, core, playback, window, overran)

LEMMA InvImplies == InterfaceInv => BusyIsOwned /\ PlaybackUndisturbed
  BY DEF InterfaceInv, Good, IsPlayback, Plays, Fills, BusyIsOwned, PlaybackUndisturbed,
         Active, Asked, NeedCore, PageGoals, SettingsGoals, Alone

-----------------------------------------------------------------------------
(* Pages *)

\* What may become of the controller while nothing else changes.
Leading(v) ==
  /\ Tidy(v)
  /\ v.busy => v.heard # {}
  /\ Active => v.view # "picker"
  /\ \A r \in v.heard : (r.to \in NeedCore => core) /\ (Active => r.to \notin Alone)

LEMMA SettledLeads ==
  ASSUME NEW v, Leading(v)
  PROVE  Leading(Settled(v))
<1>1. CASE v.busy
  BY <1>1 DEF Settled
<1>2. CASE ~v.busy
  <2>1. Settled(v) = [v EXCEPT !.spinner = FALSE]
    BY <1>2 DEF Settled
  <2> HIDE DEF Settled
  <2>2. /\ IsUi(Settled(v)) /\ Settled(v).heard = v.heard /\ Settled(v).busy = v.busy
        /\ Settled(v).handle = v.handle /\ Settled(v).view = v.view
    BY <2>1 DEF Leading, Tidy, IsUi
  <2> QED BY <2>2 DEF Leading, Tidy
<1> QED BY <1>1, <1>2 DEF Leading, Tidy, IsUi

LEMMA LeadingKeeps ==
  ASSUME InterfaceInv, ~Covered, NEW v, Leading(v), ui' \in {v, Settled(v)},
         UNCHANGED <<core, playback, window, overran>>
  PROVE  InterfaceInv'
<1>1. Leading(ui')
  BY SettledLeads
<1> QED BY <1>1 DEF InterfaceInv, Good, Leading, Covered, Active, Plays, Fills

LEMMA AsksLeads ==
  ASSUME NEW u, Tidy(u), ~u.busy, Active => u.view # "picker",
         NEW goals, \A g \in goals : (g \in NeedCore => core) /\ (Active => g \notin Alone),
         NEW v, AsksFor(u, v, goals)
  PROVE  Leading(v)
<1>1. u.heard = {}
  BY DEF Tidy
<1> QED BY <1>1 DEF Leading, AsksFor

\* A page's own requests, with the profile open.
LEMMA PagesLead ==
  ASSUME NEW u, Tidy(u), ~u.busy, Active => u.view # "picker", core
  PROVE  /\ Leading(Refresh(u)) /\ Leading(Details(u)) /\ Leading(Sources(u))
         /\ Leading(ResumeTitle(u)) /\ Leading(Run(u, For("resume")))
         /\ \A tries, group : Leading(ContinuePlayback(u, tries, group))
<1>1. \A g \in PageGoals : (g \in NeedCore => core) /\ (Active => g \notin Alone)
  BY DEF PageGoals, NeedCore, Alone
<1>2. {"home"} \subseteq PageGoals /\ {"details"} \subseteq PageGoals /\ {"sources"} \subseteq PageGoals
        /\ {"title"} \subseteq PageGoals /\ {"resume"} \subseteq PageGoals
        /\ {"sources", "matching"} \subseteq PageGoals
  BY DEF PageGoals
<1> HIDE DEF PageGoals
<1>3. \A goals \in SUBSET PageGoals : \A v : AsksFor(u, v, goals) => Leading(v)
  BY <1>1, AsksLeads
<1>4. Leading(Refresh(u)) /\ Leading(Details(u)) /\ Leading(Sources(u)) /\ Leading(ResumeTitle(u))
  BY <1>2, <1>3, PagesAsk
<1>5. Leading(Run(u, For("resume")))
  <2>1. AsksFor(u, Run(u, For("resume")), {"resume"})
    BY RunAsks DEF For
  <2> QED BY <1>2, <1>3, <2>1
<1>6. ASSUME NEW tries, NEW group PROVE Leading(ContinuePlayback(u, tries, group))
  BY <1>2, <1>3, ContinuePlaybackAsks
<1> QED BY <1>4, <1>5, <1>6

\* A request of the settings, likewise.
LEMMA SettingsLead ==
  ASSUME NEW u, Tidy(u), ~u.busy, Active => u.view # "picker", core
  PROVE  \A goal \in SettingsGoals : Leading(Run(u, For(goal)))
<1> SUFFICES ASSUME NEW goal \in SettingsGoals PROVE Leading(Run(u, For(goal)))
  OBVIOUS
<1>1. AsksFor(u, Run(u, For(goal)), {goal})
  BY RunAsks DEF For
<1>2. goal \notin Alone
  BY DEF SettingsGoals, Alone
<1> QED BY <1>1, <1>2, AsksLeads

\* A player that runs is stopped and the request waits; else it is the only one.
LEMMA StartNowKeeps ==
  ASSUME InterfaceInv, ~Covered, core, NEW u, Tidy(u), ~u.busy, Active => u.view # "picker",
         NEW request, request.to \in {"prepare", "leave"}, StartNow(u, request),
         UNCHANGED <<core, window, overran>>
  PROVE  InterfaceInv'
<1>1. u.heard = {}
  BY DEF Tidy
<1>2. CASE Active
  <2>1. ui' = u /\ playback' = [playback EXCEPT !.stop = TRUE]
    BY <1>2 DEF StartNow, Defers
  <2>2. IsPlayback(playback') /\ playback'.phase = playback.phase /\ playback'.mini = playback.mini
    BY <2>1 DEF InterfaceInv, Good, IsPlayback
  <2> QED BY <1>1, <1>2, <2>1, <2>2 DEF InterfaceInv, Good, Plays, Fills, Active, Covered
<1>3. CASE ~Active
  <2>1. ui' = Run(u, request) /\ UNCHANGED playback
    BY <1>3 DEF StartNow, Defers
  <2>2. AsksFor(u, Run(u, request), {"prepare", "leave"})
    BY RunAsks
  <2>3. Leading(ui')
    BY <1>3, <2>1, <2>2, AsksLeads
  <2> QED BY <2>1, <2>3, LeadingKeeps
<1> QED BY <1>2, <1>3

LEMMA IdleFacts ==
  ASSUME InterfaceInv, ~Covered
  PROVE  Tidy(ui) /\ (Active => ui.view # "picker" /\ core)
  BY DEF InterfaceInv, Good, Plays, Active

LEMMA ClickKeeps ==
  ASSUME InterfaceInv,
         \/ ClickHome \/ ClickProfile \/ ClickTitle \/ ClickEpisode \/ ClickRetry
         \/ ClickContinue \/ ClickSource \/ SwitchProfile
  PROVE  InterfaceInv'
<1>1. ~Covered /\ ~ui.busy /\ Tidy(ui) /\ (Active => ui.view # "picker" /\ core)
  BY IdleFacts DEF ClickHome, ClickProfile, ClickTitle, ClickEpisode, ClickRetry, ClickContinue,
                   ClickSource, SwitchProfile, Usable, Clickable
<1>2. ASSUME NEW v, Leading(v), ClickLeads(v) PROVE InterfaceInv'
  BY <1>1, <1>2, LeadingKeeps DEF ClickLeads
<1>3. CASE ClickProfile
  <2>1. ~Active
    BY <1>1, <1>3 DEF ClickProfile
  <2>2. AsksFor(ui, Run(ui, For("open")), {"open"})
    BY <1>1, RunAsks DEF For
  <2>3. Leading(Run(ui, For("open")))
    BY <1>1, <2>1, <2>2, AsksLeads DEF NeedCore, PageGoals, SettingsGoals
  <2> QED BY <1>2, <1>3, <2>3 DEF ClickProfile
<1>4. CASE ClickHome \/ ClickTitle \/ ClickEpisode \/ ClickRetry
  BY <1>1, <1>2, <1>4, PagesLead DEF ClickHome, ClickTitle, ClickEpisode, ClickRetry, Usable
<1>5. CASE ClickContinue
  <2> DEFINE u == [ui EXCEPT !.spinner = TRUE]
  <2>1. Tidy(u) /\ ~u.busy /\ (Active => u.view # "picker") /\ core
    BY <1>1, <1>5 DEF Tidy, IsUi, ClickContinue, Usable
  <2>2. PICK episodes \in BOOLEAN : ClickLeads(IF episodes THEN Run(u, For("resume")) ELSE ResumeTitle(u))
    BY <1>5 DEF ClickContinue
  <2> HIDE DEF u
  <2> QED BY <1>2, <2>1, <2>2, PagesLead
<1>6. CASE ClickSource
  BY <1>1, <1>6, StartNowKeeps DEF ClickSource, StartSource, Trying, Usable
<1>7. CASE SwitchProfile
  BY <1>1, <1>7, StartNowKeeps DEF SwitchProfile, For, Usable
<1> QED BY <1>3, <1>4, <1>5, <1>6, <1>7

LEMMA SettingsKeeps ==
  ASSUME InterfaceInv, OpenSettings \/ UseSettings \/ CloseSettings
  PROVE  InterfaceInv'
<1>1. ~ui.busy /\ core
  BY DEF OpenSettings, UseSettings, CloseSettings, Usable, Clickable, SettingsClickable
<1>2. ~Covered
  BY <1>1 DEF OpenSettings, UseSettings, CloseSettings, Usable, Clickable, SettingsClickable,
              InterfaceInv, Good, Fills, Plays, Covered, Active
<1>3. Tidy(ui) /\ (Active => ui.view # "picker")
  BY <1>2, IdleFacts
<1>4. ASSUME NEW v, Leading(v), ClickLeads(v) PROVE InterfaceInv'
  BY <1>2, <1>4, LeadingKeeps DEF ClickLeads
<1>5. CASE OpenSettings
  BY <1>1, <1>3, <1>4, <1>5, SettingsLead DEF OpenSettings, SettingsGoals
<1>6. CASE UseSettings
  BY <1>1, <1>3, <1>4, <1>6, SettingsLead DEF UseSettings, SettingsGoals
<1>7. CASE CloseSettings
  <2> DEFINE v == [ui EXCEPT !.settings = FALSE, !.editing = FALSE]
  <2>1. Tidy(v) /\ v.busy = ui.busy /\ v.view = ui.view
    BY <1>3, SettingsTidy
  <2>2. ClickLeads(Run(v, For("lock")))
    BY <1>7 DEF CloseSettings
  <2> HIDE DEF v
  <2> QED BY <1>1, <1>3, <1>4, <2>1, <2>2, SettingsLead DEF SettingsGoals
<1> QED BY <1>5, <1>6, <1>7

LEMMA BackKeeps ==
  ASSUME InterfaceInv, Back
  PROVE  InterfaceInv'
<1> DEFINE w == [ui EXCEPT !.handle = FALSE, !.busy = FALSE, !.loading = FALSE, !.sensitive = TRUE]
           v == LeftBehind(ui)
<1>1. Tidy(ui) /\ (Active => ui.view # "picker") /\ core /\ ~Covered
  BY IdleFacts DEF Back
<1>2. IsUi(w) /\ ~w.busy /\ w.view = ui.view
  BY <1>1 DEF Tidy, IsUi
<1>3. v = Clear(w)
  BY DEF LeftBehind
<1> HIDE DEF w, v
<1>4. IsUi(v) /\ v.heard = {} /\ ~v.busy /\ v.view = ui.view
  BY <1>2, <1>3 DEF Clear, IsUi
<1>5. Tidy(v)
  BY <1>4 DEF Tidy
<1>6. Leading(Refresh(v))
  BY <1>1, <1>4, <1>5, PagesLead
<1> QED BY <1>1, <1>6, LeadingKeeps DEF Back, ClickLeads, v

-----------------------------------------------------------------------------
(* Answers *)

LEMMA AnsweredTidy ==
  ASSUME NEW r \in ui.heard, Tidy(ui)
  PROVE  LET a == Answered(r)
             u == [a EXCEPT !.loading = FALSE]
         IN  /\ Tidy(a) /\ a.heard = {} /\ ~a.busy /\ a.view = ui.view
             /\ Tidy(u) /\ u.heard = {} /\ ~u.busy /\ u.view = ui.view
<1> DEFINE a == Answered(r)
           u == [a EXCEPT !.loading = FALSE]
<1>1. IsUi(a) /\ a.heard = ui.heard \ {r} /\ ~a.busy /\ a.view = ui.view
  BY DEF Answered, Tidy, IsUi
<1>2. ui.heard \ {r} = {}
  BY DEF Tidy
<1> HIDE DEF a
<1>3. IsUi(u) /\ u.heard = {} /\ ~u.busy /\ u.view = ui.view
  BY <1>1, <1>2 DEF IsUi
<1> QED BY <1>1, <1>2, <1>3 DEF Tidy, a

LEMMA FailsKeeps ==
  ASSUME InterfaceInv, NEW r \in ui.heard, Fails(r)
  PROVE  InterfaceInv'
<1> DEFINE a == Answered(r)
           e == LoadingError(a)
<1>1. ~Covered /\ Tidy(ui) /\ (Active => ui.view # "picker")
  BY DEF InterfaceInv, Good, Covered, Active, Plays, Fills
<1>2. Tidy(a) /\ a.heard = {} /\ ~a.busy /\ a.view = ui.view
  BY <1>1, AnsweredTidy
<1>3. Tidy(e) /\ e.heard = {} /\ ~e.busy /\ (e.view = ui.view \/ e.view # "picker")
  <2>1. CASE ~a.loading
    BY <1>2, <2>1 DEF LoadingError
  <2>2. CASE a.loading
    <3> DEFINE page == IF a.retry = Nothing THEN "error" ELSE a.retry
               s == Show(a, page)
    <3>1. Tidy(s) /\ s.heard = {} /\ ~s.busy /\ s.view = page
      BY <1>2, ShowTidy
    <3>2. page # "picker"
      BY <1>2 DEF Tidy, IsUi
    <3>3. e = [s EXCEPT !.loading = FALSE]
      BY <2>2 DEF LoadingError
    <3> HIDE DEF s, e, page
    <3> QED BY <3>1, <3>2, <3>3 DEF Tidy, IsUi
  <2> QED BY <2>1, <2>2
<1>4. Leading(e)
  BY <1>1, <1>3 DEF Leading
<1> QED BY <1>1, <1>4, LeadingKeeps DEF Fails, ClickLeads

LEMMA SucceedsKeeps ==
  ASSUME InterfaceInv, window.open, NEW r \in ui.heard, Succeeds(r)
  PROVE  InterfaceInv'
<1> DEFINE u == [Answered(r) EXCEPT !.loading = FALSE]
<1>1. ~Covered /\ Tidy(ui) /\ (Active => ui.view # "picker" /\ core /\ r.to \notin Alone)
        /\ (r.to \in NeedCore => core)
  BY DEF InterfaceInv, Good, Covered, Active, Plays, Fills
<1>2. Tidy(u) /\ u.heard = {} /\ ~u.busy /\ (Active => u.view # "picker")
  BY <1>1, AnsweredTidy
<1> HIDE DEF u
<1>3. ASSUME NEW v, Leading(v), Leads(v) PROVE InterfaceInv'
  BY <1>1, <1>3, LeadingKeeps DEF Leads
<1>4. ASSUME NEW page, Active => page # "picker" PROVE Leading(Show(u, page))
  BY <1>2, <1>4, ShowTidy DEF Leading
<1>5. CASE r.to \in {"details", "sources"} /\ Leads(Show(u, r.to))
  BY <1>3, <1>4, <1>5
<1>16. CASE r.to = "home" /\ Leads(Home(u))
  <2>1. Leading([u EXCEPT !.settings = TRUE])
    BY <1>2, SettingsTidy DEF Leading
  <2> QED BY <1>3, <1>4, <1>16, <2>1 DEF Home
<1>17. CASE r.to = "authorize" /\ Leads(Refresh([u EXCEPT !.editing = TRUE]))
  <2> DEFINE v == [u EXCEPT !.editing = TRUE]
  <2>1. Tidy(v) /\ ~v.busy /\ (Active => v.view # "picker")
    BY <1>2, SettingsTidy
  <2>2. core
    BY <1>1, <1>17 DEF NeedCore, SettingsGoals
  <2> HIDE DEF v
  <2>3. Leading(Refresh(v))
    BY <2>1, <2>2, PagesLead
  <2> QED BY <1>3, <1>17, <2>3 DEF v
<1>18. CASE r.to \in {"change", "lock"} /\ Leads(Refresh(u))
  BY <1>1, <1>2, <1>3, <1>18, PagesLead DEF NeedCore, SettingsGoals
<1>19. CASE r.to = "create" /\ Leads(Run([u EXCEPT !.settings = FALSE], For("added")))
  <2> DEFINE v == [u EXCEPT !.settings = FALSE]
  <2>1. Tidy(v) /\ ~v.busy /\ (Active => v.view # "picker")
    BY <1>2, SettingsTidy
  <2> HIDE DEF v
  <2>2. AsksFor(v, Run(v, For("added")), {"added"})
    BY <2>1, RunAsks DEF For
  <2>3. "added" \notin NeedCore /\ "added" \notin Alone
    BY DEF NeedCore, PageGoals, SettingsGoals, Alone
  <2>4. Leading(Run(v, For("added")))
    BY <2>1, <2>2, <2>3, AsksLeads
  <2> QED BY <1>3, <1>19, <2>4 DEF v
<1>6. CASE r.to = "title" /\ (Leads(Run(u, For("resume"))) \/ Leads(Details(u)))
  BY <1>1, <1>2, <1>3, <1>6, PagesLead DEF NeedCore, PageGoals, SettingsGoals
<1>7. CASE r.to = "resume" /\ \E group \in BOOLEAN : Leads(ContinuePlayback(u, 0, group))
  BY <1>1, <1>2, <1>3, <1>7, PagesLead DEF NeedCore, PageGoals, SettingsGoals
<1>8. CASE r.to = "matching" /\ Leads(Show(u, "sources"))
  BY <1>3, <1>4, <1>8
<1>9. CASE r.to = "matching" /\ StartSource(u, r.tries) /\ UNCHANGED <<core, window, overran>>
  BY <1>1, <1>2, <1>9, StartNowKeeps DEF StartSource, Trying, NeedCore, PageGoals
<1>10. CASE r.to = "prepare" /\ Launch(u, r.tries) /\ UNCHANGED <<core, window, overran>>
  <2> DEFINE s == Show(u, "empty")
  <2>1. Tidy(s) /\ s.heard = {} /\ s.view = "empty"
    BY <1>2, ShowTidy
  <2>2. ui' = [s EXCEPT !.busy = TRUE]
    BY <1>10 DEF Launch
  <2> HIDE DEF s
  <2>3. IsUi(ui') /\ ui'.heard = {} /\ ui'.view = "empty" /\ ui'.busy
    BY <2>1, <2>2 DEF Tidy, IsUi
  <2>4. playback' = [NoPlayback EXCEPT !.phase = "playing", !.tries = r.tries]
    BY <1>10 DEF Launch
  <2>5. IsPlayback(playback') /\ playback'.phase = "playing" /\ ~playback'.mini
    BY <2>4 DEF IsPlayback, NoPlayback
  <2>6. Tidy(ui')
    BY <2>3 DEF Tidy
  <2>7. core /\ UNCHANGED <<core, window, overran>>
    BY <1>1, <1>10 DEF NeedCore
  <2> QED BY <2>3, <2>5, <2>6, <2>7 DEF InterfaceInv, Good, Plays, Fills
<1>11. CASE r.to = "prepare" /\ Leads(u)
  <2>1. Leading(u)
    BY <1>2 DEF Leading
  <2> QED BY <1>3, <1>11, <2>1
<1>12. CASE r.to = "prepare" /\ \E group \in BOOLEAN : Leads(ContinuePlayback(u, r.tries, group))
  BY <1>1, <1>2, <1>3, <1>12, PagesLead DEF NeedCore
<1>13. CASE /\ r.to = "leave"
            /\ core' = FALSE
            /\ ui' = Run([u EXCEPT !.editing = FALSE], For("picker"))
            /\ UNCHANGED <<playback, after, window, overran>>
  <2> DEFINE v == [u EXCEPT !.editing = FALSE]
  <2>1. Tidy(v) /\ v.heard = {} /\ ~v.busy
    BY <1>2, SettingsTidy
  <2>2. ui' = Run(v, For("picker"))
    BY <1>13
  <2> HIDE DEF v
  <2>3. AsksFor(v, ui', {"picker"})
    BY <2>1, <2>2, RunAsks DEF For
  <2>4. ~Active
    BY <1>1, <1>13 DEF Alone
  <2> QED BY <1>13, <2>1, <2>3, <2>4
          DEF AsksFor, InterfaceInv, Good, Plays, Fills, Active, NeedCore, PageGoals, SettingsGoals
<1>14. CASE r.to = "picker" /\ Leads(Show(u, "picker"))
  <2>1. ~Active
    BY <1>1, <1>14 DEF Alone
  <2> QED BY <1>3, <1>4, <1>14, <2>1
<1>20. CASE r.to = "picker" /\ Leads(Run([u EXCEPT !.settings = FALSE], For("open")))
  <2> DEFINE v == [u EXCEPT !.settings = FALSE]
  <2>1. Tidy(v) /\ ~v.busy /\ ~Active
    BY <1>1, <1>2, <1>20, SettingsTidy DEF Alone
  <2> HIDE DEF v
  <2>2. AsksFor(v, Run(v, For("open")), {"open"})
    BY <2>1, RunAsks DEF For
  <2>3. Leading(Run(v, For("open")))
    BY <2>1, <2>2, AsksLeads DEF NeedCore, PageGoals, SettingsGoals
  <2> QED BY <1>3, <1>20, <2>3 DEF v
<1>15. CASE /\ r.to \in {"open", "added"}
            /\ core' = TRUE
            /\ playback' = IF Active THEN [playback EXCEPT !.own = FALSE] ELSE playback
            /\ ui' = Refresh([u EXCEPT !.editing = FALSE])
            /\ UNCHANGED <<after, window, overran>>
  <2> DEFINE v == [u EXCEPT !.editing = FALSE]
  <2>1. Tidy(v) /\ v.heard = {} /\ ~v.busy /\ v.view = u.view
    BY <1>2, SettingsTidy
  <2>2. ui' = Refresh(v)
    BY <1>15
  <2> HIDE DEF v
  <2>3. AsksFor(v, ui', {"home"})
    BY <2>1, <2>2, PagesAsk
  <2>4. IsPlayback(playback') /\ playback'.phase = playback.phase /\ playback'.mini = playback.mini
    BY <1>15 DEF InterfaceInv, Good, IsPlayback
  <2>5. "home" \notin Alone
    BY DEF Alone
  <2> QED BY <1>1, <1>2, <1>15, <2>1, <2>3, <2>4, <2>5
          DEF AsksFor, InterfaceInv, Good, Plays, Fills, Active, Covered
<1> QED
  BY <1>5, <1>6, <1>7, <1>8, <1>9, <1>10, <1>11, <1>12, <1>13, <1>14, <1>15,
     <1>16, <1>17, <1>18, <1>19, <1>20 DEF Succeeds, u

-----------------------------------------------------------------------------
(* The player and the window *)

LEMMA PlayerKeeps ==
  ASSUME InterfaceInv, Minimize \/ Expand \/ VideoEnds \/ StopArrives \/ Record
  PROVE  InterfaceInv'
<1>1. Tidy(ui) /\ IsPlayback(playback)
  BY DEF InterfaceInv, Good
<1>2. CASE Minimize
  <2> DEFINE u == [ui EXCEPT !.busy = FALSE]
  <2>1. ui.heard = {} /\ core /\ ui.view # "picker" /\ Active
    BY <1>2 DEF Minimize, Playing, InterfaceInv, Good, Plays, Fills, Active
  <2>2. IsUi(u) /\ u.heard = {} /\ ~u.busy /\ u.view # "picker"
    BY <1>1, <2>1 DEF Tidy, IsUi
  <2>3. Tidy(u)
    BY <2>2 DEF Tidy
  <2>4. ui' \in {u, Run(u, For("details")), Details(u)}
    BY <1>2 DEF Minimize
  <2> HIDE DEF u
  <2>5. AsksFor(u, Run(u, For("details")), {"details"})
    BY <2>3, RunAsks DEF For
  <2>6. \A g \in {"details"} : g \notin Alone
    BY DEF Alone
  <2>7. Leading(Run(u, For("details"))) /\ Leading(Details(u))
    BY <2>1, <2>2, <2>3, <2>5, <2>6, AsksLeads, PagesLead
  <2>8. Leading(u)
    BY <2>2, <2>3 DEF Leading
  <2>9. Leading(ui')
    BY <2>4, <2>7, <2>8
  <2>10. IsPlayback(playback') /\ playback'.phase = playback.phase /\ playback'.mini
    BY <1>1, <1>2 DEF Minimize, IsPlayback
  <2>11. UNCHANGED <<core, window, overran>>
    BY <1>2 DEF Minimize
  <2> QED BY <2>1, <2>9, <2>10, <2>11 DEF Leading, InterfaceInv, Good, Plays, Fills, Active
<1>3. CASE Expand
  <2>1. IsPlayback(playback') /\ playback'.phase = playback.phase
    BY <1>1, <1>3 DEF Expand, IsPlayback
  <2>2. Tidy(ui') /\ ui'.heard = {} /\ ui'.view = ui.view /\ ~ui'.settings
    <3>1. CASE ui.handle
      <4>1. IsUi(ui') /\ ui'.heard = {} /\ ui'.view = ui.view /\ ~ui'.settings
        BY <1>1, <1>3, <3>1 DEF Expand, Unblocked, Tidy, IsUi
      <4> QED BY <4>1 DEF Tidy
    <3>2. CASE ~ui.handle
      BY <1>1, <1>3, <3>2 DEF Expand, Unblocked, Tidy
    <3> QED BY <3>1, <3>2
  <2>3. playback.phase = "playing" /\ ~playback'.mini
    BY <1>1, <1>3 DEF Expand, Playing, IsPlayback
  <2> QED BY <1>3, <2>1, <2>2, <2>3 DEF Expand, InterfaceInv, Good, Plays, Fills
<1>4. ASSUME NEW next, PlayerFinish(next) PROVE InterfaceInv'
  <2>1. IsPlayback(playback') /\ Plays(playback) /\ Plays(playback') /\ playback'.mini = playback.mini
    <3>1. PICK played \in BOOLEAN :
            playback' = [playback EXCEPT !.phase = "ending", !.next = next,
                           !.saved = IF played THEN "pending" ELSE "yes",
                           !.updates = IF played THEN LastUpdates ELSE <<"finished">>]
      BY <1>4 DEF PlayerFinish
    <3> DEFINE updates == IF played THEN LastUpdates ELSE <<"finished">>
               saved == IF played THEN "pending" ELSE "yes"
    <3>2. saved = "pending" => updates = LastUpdates
      OBVIOUS
    <3> HIDE DEF updates, saved
    <3>3. playback' = [playback EXCEPT !.phase = "ending", !.next = next, !.saved = saved,
                         !.updates = updates]
      BY <3>1 DEF updates, saved
    <3>4. playback.phase = "playing"
      BY <1>4 DEF PlayerFinish, Playing
    <3> QED BY <1>1, <3>2, <3>3, <3>4 DEF IsPlayback, Plays
  <2> QED BY <1>4, <2>1 DEF PlayerFinish, InterfaceInv, Good, Fills
<1>5. CASE Record
  <2>1. IsPlayback(playback') /\ Plays(playback) /\ Plays(playback') /\ playback'.mini = playback.mini
    <3>0. playback.phase = "ending"
      BY <1>5 DEF Record
    <3>1. CASE Head(playback.updates) = "progress"
      <4> DEFINE updates == Tail(playback.updates)
      <4>1. PICK saved \in Recordings : playback' = [playback EXCEPT !.updates = updates, !.saved = saved]
        BY <1>5, <3>1 DEF Record
      <4>2. saved # "pending"
        BY DEF Recordings
      <4> HIDE DEF updates
      <4> QED BY <1>1, <3>0, <4>1, <4>2 DEF IsPlayback, Plays
    <3>2. CASE Head(playback.updates) # "progress"
      <4>1. playback' = [playback EXCEPT !.updates = <<>>, !.phase = "over"]
        BY <1>5, <3>2 DEF Record
      <4>2. playback.saved # "pending"
        <5>1. Head(LastUpdates) = "progress"
          BY DEF LastUpdates
        <5> QED BY <1>1, <3>2, <5>1 DEF IsPlayback
      <4> QED BY <1>1, <3>0, <4>1, <4>2 DEF IsPlayback, Plays
    <3> QED BY <3>1, <3>2
  <2> QED BY <1>5, <2>1 DEF Record, InterfaceInv, Good, Fills
<1> QED BY <1>2, <1>3, <1>4, <1>5 DEF VideoEnds, StopArrives

LEMMA HandOverKeeps ==
  ASSUME InterfaceInv, HandOver
  PROVE  InterfaceInv'
<1> DEFINE u == IF playback.mini THEN ui ELSE [ui EXCEPT !.busy = FALSE]
<1>1. Tidy(ui) /\ IsPlayback(playback) /\ Active /\ core /\ ui.view # "picker"
  BY DEF HandOver, InterfaceInv, Good, Plays, Active
<1>2. playback.saved # "pending"
  BY <1>1 DEF HandOver, IsPlayback
<1>3. Tidy(u) /\ (~playback.mini => ~u.busy) /\ \A r \in u.heard : r \in ui.heard
  <2>1. CASE playback.mini
    BY <1>1, <2>1
  <2>2. CASE ~playback.mini
    <3>1. ui.heard = {}
      BY <1>1, <2>2 DEF InterfaceInv, Good, Fills, Plays, Active
    <3>2. IsUi(u) /\ u.heard = {} /\ ~u.busy
      BY <1>1, <2>2, <3>1 DEF Tidy, IsUi
    <3> QED BY <2>2, <3>2 DEF Tidy
  <2> QED BY <2>1, <2>2
<1>4. IsPlayback(playback') /\ ~Plays(playback') /\ UNCHANGED core
  BY <1>1, <1>2 DEF HandOver, IsPlayback, NoPlayback, Plays
<1>5. ASSUME NEW v, ui' = v, Tidy(v), window'.open => (v.busy => v.heard # {} \/ overran'),
             overran' \in BOOLEAN, window' = window \/ window' = [window EXCEPT !.open = FALSE]
      PROVE  InterfaceInv'
  <2>1. DOMAIN window' = {"open", "closing"} /\ window' = [f \in DOMAIN window' |-> window'[f]]
          /\ window'.open \in BOOLEAN
    BY <1>5 DEF InterfaceInv, Good
  <2> QED BY <1>1, <1>4, <1>5, <2>1 DEF InterfaceInv, Good, Fills
<1>6. ASSUME NEW v, NEW goals, AsksFor(u, v, goals), ui' = v, overran' = (overran \/ u.busy),
             UNCHANGED window
      PROVE  InterfaceInv'
  <2>1. u.busy \in BOOLEAN /\ overran \in BOOLEAN /\ window.open
    BY <1>1, <1>3 DEF Tidy, IsUi, InterfaceInv, Good, Plays, Active
  <2> QED BY <1>5, <1>6, <2>1 DEF AsksFor
<1>7. CASE /\ window' = [window EXCEPT !.open = FALSE]
           /\ ui' = u
           /\ UNCHANGED <<after, overran>>
  <2>1. ~window'.open /\ overran' \in BOOLEAN
    BY <1>7 DEF InterfaceInv, Good
  <2> QED BY <1>3, <1>5, <1>7, <2>1
<1>8. CASE ui' = Run(u, after) /\ overran' = (overran \/ u.busy) /\ UNCHANGED window
  <2>1. AsksFor(u, Run(u, after), {after.to})
    BY <1>3, RunAsks
  <2> QED BY <1>6, <1>8, <2>1
<1>9. CASE ui' = Run(u, Trying("prepare", Attempted(0))) /\ overran' = (overran \/ u.busy)
             /\ UNCHANGED window
  <2>1. AsksFor(u, Run(u, Trying("prepare", Attempted(0))), {"prepare"})
    BY <1>3, RunAsks DEF Trying
  <2> QED BY <1>6, <1>9, <2>1
<1>10. ASSUME NEW tries, NEW group, ui' = ContinuePlayback(u, tries, group),
              overran' = (overran \/ u.busy), UNCHANGED window
       PROVE  InterfaceInv'
  BY <1>3, <1>6, <1>10, ContinuePlaybackAsks
<1>11. CASE ui' = (IF playback.mini THEN u ELSE Refresh(u)) /\ UNCHANGED <<window, overran>>
  <2>1. overran' \in BOOLEAN
    BY <1>11 DEF InterfaceInv, Good
  <2>2. CASE playback.mini
    <3>1. u = ui /\ (window.open => (u.busy => u.heard # {} \/ overran))
      BY <2>2 DEF InterfaceInv, Good, Fills
    <3> QED BY <1>3, <1>5, <1>11, <2>1, <2>2, <3>1
  <2>3. CASE ~playback.mini
    <3>1. AsksFor(u, Refresh(u), {"home"})
      BY <1>3, PagesAsk
    <3> QED BY <1>3, <1>5, <1>11, <2>1, <2>3, <3>1 DEF AsksFor
  <2> QED BY <2>2, <2>3
<1> HIDE DEF u
<1> QED BY <1>7, <1>8, <1>9, <1>10, <1>11 DEF HandOver, u

LEMMA WindowKeeps ==
  ASSUME InterfaceInv, CloseRequest \/ Relaunch \/ Panics
  PROVE  InterfaceInv'
<1>1. IsPlayback(playback) /\ (Active => window.open /\ core)
  BY DEF InterfaceInv, Good, Plays, Active
<1>2. CASE CloseRequest /\ Active
  <2>1. IsPlayback(playback') /\ playback'.phase = playback.phase /\ playback'.mini = playback.mini
    BY <1>1, <1>2 DEF CloseRequest, IsPlayback
  <2>2. window' = [window EXCEPT !.closing = TRUE]
    BY <1>2 DEF CloseRequest
  <2> QED BY <1>2, <2>1, <2>2 DEF CloseRequest, InterfaceInv, Good, Plays, Fills
<1>3. CASE CloseRequest /\ ~Active
  BY <1>3 DEF CloseRequest, InterfaceInv, Good, Plays, Fills, Active
<1>4. CASE Panics
  <2>1. ~Active
    BY <1>1, <1>4 DEF Panics
  <2> QED BY <1>4, <2>1 DEF Panics, InterfaceInv, Good, Plays, Fills, Active
<1>5. CASE Relaunch
  <2>1. ~Active
    BY <1>1, <1>5 DEF Relaunch
  <2>2. Tidy(FirstUi)
    BY DEF FirstUi, Tidy, IsUi
  <2>3. AsksFor(FirstUi, Run(FirstUi, For("picker")), {"picker"})
    BY <2>2, RunAsks DEF For
  <2>4. FirstUi.heard = {} /\ ~FirstUi.busy
    BY DEF FirstUi
  <2> HIDE DEF FirstUi
  <2>5. ui' = Run(FirstUi, For("picker")) /\ window' = [open |-> TRUE, closing |-> FALSE]
          /\ core' = FALSE /\ overran' = FALSE /\ UNCHANGED playback
    BY <1>5 DEF Relaunch
  <2> HIDE DEF Run, For
  <2> QED BY <1>1, <2>1, <2>3, <2>4, <2>5
          DEF AsksFor, InterfaceInv, Good, Plays, Fills, Active, NeedCore, PageGoals, SettingsGoals
<1> QED BY <1>2, <1>3, <1>4, <1>5

LEMMA InterfaceInvariant == InterfaceSpec => []InterfaceInv
<1>1. InterfaceInit => InterfaceInv
  <2> SUFFICES ASSUME InterfaceInit PROVE InterfaceInv
    OBVIOUS
  <2>1. Tidy(FirstUi) /\ FirstUi.heard = {} /\ ~FirstUi.busy
    BY DEF FirstUi, Tidy, IsUi
  <2>2. AsksFor(FirstUi, ui, {"picker"})
    BY <2>1, RunAsks DEF For, InterfaceInit
  <2>3. IsPlayback(playback) /\ playback.phase = "none"
    BY DEF InterfaceInit, NoPlayback, IsPlayback
  <2> QED BY <2>1, <2>2, <2>3 DEF InterfaceInit, AsksFor, InterfaceInv, Good, Plays, Fills, NeedCore, PageGoals, SettingsGoals
<1>2. InterfaceInv /\ [InterfaceNext]_interfaceVars => InterfaceInv'
  <2> SUFFICES ASSUME InterfaceInv, [InterfaceNext]_interfaceVars PROVE InterfaceInv'
    OBVIOUS
  <2>1. CASE UNCHANGED interfaceVars
    BY <2>1 DEF interfaceVars, InterfaceInv
  <2>2. CASE Answers
    BY <2>2, SucceedsKeeps, FailsKeeps DEF Answers
  <2> QED BY <2>1, <2>2, ClickKeeps, SettingsKeeps, BackKeeps, PlayerKeeps, HandOverKeeps, WindowKeeps DEF InterfaceNext
<1> QED BY <1>1, <1>2, PTL DEF InterfaceSpec

\* A busy interface waits for an answer that it will hear.
THEOREM BusyOwned == InterfaceSpec => []BusyIsOwned
  BY InterfaceInvariant, InvImplies, PTL

\* A video keeps its profile until it is over and saved.
THEOREM PlaybackKept == InterfaceSpec => []PlaybackUndisturbed
  BY InterfaceInvariant, InvImplies, PTL

=============================================================================
