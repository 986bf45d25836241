# Madari: TLA+ models, model checking and proofs

This directory is a verification project for Madari, a Stremio-protocol media
client: a Rust core with a companion server, a Linux GTK application, and TV, iOS
and macOS clients over the same core. It holds TLA+ modules translated from the
source, TLC configurations that check them on small instances, and TLAPS proofs
of the properties that matter most for every value of the constants.

Every definition that models code is listed in `PROJECT.json` under `map` with
the lines it stands for; paths below start at the repository's root.

1. [Inventory of the system](#1-inventory-of-the-system)
2. [The modules and the code](#2-the-modules-and-the-code)
3. [The runs, their bounds and what they show](#3-the-runs-their-bounds-and-what-they-show)
4. [Fairness](#4-fairness)
5. [What is proved](#5-what-is-proved)
6. [Disagreements between the code and its promises](#6-disagreements-between-the-code-and-its-promises)
7. [What is not modelled, and why](#7-what-is-not-modelled-and-why)
8. [Plan](#8-plan)
9. [Running it](#9-running-it)

## 1. Inventory of the system

| Component | State it keeps | Operations | Hard behaviour | What makes it correct |
| --- | --- | --- | --- | --- |
| **Core state** `madari-core/src/lib.rs`, `SqliteStorage` in `madari-native/src/lib.rs` | one persisted `Snapshot` with a revision; the senders of subscribers | install, configure, enable, reorder and remove addons; library; progress; hidden titles; preferences; `subscribe` | optimistic writes that retry, dropped futures whose blocking write goes on, notification outside the lock, bounded channels | no lost update; contention reported only when real; no silent gap in the event stream |
| **Event stream** `apps/server/src/lib.rs` `events` | one channel of 32 per client | subscribe, snapshot, deliver, end | a snapshot taken between a commit and its announcement; overflow | every announced revision reaches the client, or the stream ends |
| **Default addons** `Core::install_default_addons`, offered by the three clients | `defaults_seeded` in the snapshot | a run installs what is missing and sets the marker | user edits, failures, a session that ends under the run | the marker means complete; removed defaults stay removed; a reachable run seeds |
| **Profiles** `madari-native/src/profiles.rs` | profiles, guardians, kids mode, revision, shared installations and links; one session per handle | bootstrap, create, unlock, leave, authorize, update, delete, share, and the profile's snapshot store | two handles on one database, checks before transactions, restarts in kids mode, old Core handles | guardians never vanish; kids mode ends by the guardian; links and registry agree; stale handles write nothing |
| **Trakt account** `profiles/trakt.rs`, `trakt/client.rs` | per profile an account with a single-use refresh token and an import | sync, report, connect, disconnect | token rotation against crashes and session changes, an import of an account that was replaced | no rotation is lost; nothing is sent for an ended connection; imports belong to their account |
| **Trakt device login** `madari-tv/src/lib.rs`, `TvViewModel.kt`, `AppModel.swift` | one pending login in the bridge, a polling task in the client | start, poll, cancel, leave | polls that outlive their task, a second code, another profile | a login is stored only for a profile whose settings are unlocked; an approval is not forgotten |
| **Playback reports** Linux `playback/trakt.rs` | a `Session` per playback, one bounded queue | observe, finish, queue, send, answer, flush | late answers, lost answers, a full queue, the next episode, quitting | the badge says what Trakt recorded; order; one watched scrobble; the last report is heard |
| **Playback preparation** `madari-core/src/playback.rs`, `madari-addon/src/torrent.rs` | none | plan a stream, prepare it for a player | two functions read the same hints; positions near the end; the choice of a torrent's file | what is delivered was planned and can be opened |
| **Episodes and viewing history** `episodes.rs`, `trakt/data.rs`, `apply_trakt_history` | the progress of the snapshot | order, next and previous episode, continue, import | specials, missing numbers, unreleased episodes, imports before, between and after views | every episode is offered once, in order; the device goes on where it was |
| **Metadata and its cache** `metadata.rs`, `resume_cache.rs` | a row per title: fields with their provider, and the addons it came from | resolve, continue, merge, store | requests that overlap each other and changes of the addons; partial answers | each field from the right addon; nothing kept of addons that changed |
| **Companion server, internal media, torrent engine** `apps/server`, `internal_media.rs`, `madari-media` | torrents and the files they fetch, tickets, slots | add, prioritise, pause, remove, ticket, revoke, open, transcode | awaits between check, change and insertion; dropped calls; torrents that stop with an error; a restart | a ticket names a torrent there is and a file that is fetched |
| **Web settings** `madari-tv/src/web.rs` | pairing code and throttle, browsers, tokens and revocations, the version the TV saw | pair, refresh, log out, read and edit | handlers that interleave at awaits, hang-ups, restarts, expiry, a file rewritten in place | a sign-out lasts; guesses between right codes are rare; the TV sees every edit |
| **Remote control** `web.rs`, `Bridge::call` | a queue of keys, the player's state, open sockets | push, poll, update, serve, stop | sockets that outlive their server, lagging receivers, queues that two sides drain | keys are pressed once and in order; sockets show the newest state |
| **Bridge sessions** `madari-tv/src/lib.rs`, `TvViewModel.kt` | the session beside the handle's, the profile on the screen | unlock, leave, delete, all else; the picker's management of profiles | the lock is not held during a call; operations that are replaced while their call goes on | both sessions agree; the profile on the screen is open; the picker holds none |
| **Linux interface** `apps/linux/src/app` | one request at a time, view generations, what waits for the player | pages, Back, resume, sources, play, switch, settings, close | answers of pages that are gone, a hand-over that meets a page's request, settings beside a video | a busy interface becomes free; what waits for the player happens after it; a video's progress is saved |
| **Linux player** `playback/embedded`, `controls.rs`, `engine.rs` | position, countdown, surface, seek bar, tracks | finish, next, mini, picture in picture, seek, select | timers, dialogs, mpv and a worker thread in any order; input after the end | an end is recorded; the last choice wins |
| **PIN throttle** `profiles.rs:111-148` | failed attempts and a lock-out time in the profile's row, shared by all handles | `verify_pin` | | five wrong PINs cost a minute |
| **Query routing, addon protocol, Trakt client, companion client, model types, bindings** | none | parsing, URLs, HTTP, JNI, UniFFI | size and redirect limits | data only |
| **TV, iOS and macOS interfaces** | screens | | | out of scope except where they drive the parts above |
| **vendor/librqbit** | | | | third-party |

How they interact. A client opens a profile (*Profiles*) and gets a `Core` whose
storage is that profile's snapshot; every command of the *Core* is a compare and
swap on the profile store's revision, and is refused once the session has
changed. Opening a profile starts a run of *Default addons* and, when connected, a
sync of its *Trakt account*; a *Device login* ends by storing an account;
a player sends its *Playback reports* through the account of the profile that
started the playback, which may have been left since. The companion server offers
the same core commands over HTTP with an *Event stream* for other clients. *Web
settings* give each paired browser a handle of its own on the profile database, and
its *Remote control* reaches the player through the bridge. To play a title the
*Linux interface* asks for its *Metadata*, the *Episodes* say which one is next, a
chosen source goes through *Playback preparation*, which asks the *Torrent engine*
for a ticket, and the *Linux player* opens it; what follows the video is handed back
to the interface when the player is over.

The behaviours that are hard to test are listed line by line in `PROJECT.json`
under `hazards`, each with the properties that cover it.

## 2. The modules and the code

### Core: `Lists`, `CoreCommands`, `AtomicState`, `CoreState`

`CoreCommands` has no variables: a command is a record, `Accepts(k, s)` says
whether the closure of the command passes its checks on snapshot `s` (the `Err`
returns before and inside `mutate`), and `Change(k, s)` is the snapshot it
leaves. Addons, library, progress and hidden titles are sequences as in
`Snapshot`, because `reorder`, `record_progress` (which moves an entry to the end)
and `KnownMetadata` (which searches from the end) depend on the order. `Without` of `Lists` is
`Vec::retain`, by which entries leave; it is a recursive function, so that it can be proved about. URLs,
manifests and metadata are model values; validation is a set of valid values.

`CoreState` is `mutate` with callers that interleave at every await:

| Action | Code |
| --- | --- |
| `Begin`, `Fetch` | a call begins; `install` and `configure_addon` fetch a manifest before `mutate` |
| `Load` | `storage.load()` and the closure; a refusal returns at once |
| `Swap`, `Conflict`, `SwapFails` | `compare_and_swap` succeeds, finds another revision, or fails (a full revision counter included) |
| `Notify` | `try_send` to every subscriber after the swap; whoever is full or gone is dropped |
| `Abandon`, `Detached` | the caller's future is dropped; a blocking write already handed to SQLite goes on alone and is never announced |
| `Subscribe`, `InitialSnapshot`, `Deliver`, `Overflowed`, `Hangup` | `GET /v1/events`: subscribe first, then snapshot, then events above its revision; the end when the sender is gone |

`AtomicState` is the abstract promise: a call applies its command to the stored
snapshot in one step, at most once, or fails and changes nothing. `CoreState`
implements it under the mapping `phaseBar`/`outcomeBar`
(`ImplementsAtomicState`).

### Profiles: `Profiles`

One database, several `Handles`. `Screens` are the handles of applications, whose
sessions can enter kids mode; the others belong to paired browsers
(`UnlockManagement`). A handler that writes is two steps, because its checks are
separate SQL statements: the first reads and decides (`Bootstrap`, `CreateRegular`,
`CreateKids`, `UnlockKids`, `Leave`, `Update`, `Delete`, `Share`, `Write`), the
second is the transaction (`...Commits`), which re-checks only what SQLite does:
foreign keys and the compared revision. `Fails` is a storage error between the two, and `Restart`
throws away every session and keeps the database. PINs are right or wrong, and
whether a profile has one is part of its row.

The store behind a profile's Core is `Load`, `Write` and `WriteCommits`: what a
snapshot lists is what it was loaded with (`loaded`), and the transaction turns the
difference to the current links into inserts, deletes and the removal of
installations nobody links.

### Default addons: `DefaultAddons`

A run of `install_default_addons`: it decides what is missing when it starts
(`OpenProfile`), installs one default after the other (`InstallDefault`, `FailDefault`,
`SkipPresent`), and sets the marker if nothing failed (`Finish`). Core commands are single
steps here, which the refinement of `CoreState` justifies. `Authorizes` tells the
clients apart: iOS authorizes settings first, TV and Linux do not.

### Trakt: `TraktAccount`, `TraktLogin`, `Scrobble`

`TraktAccount` follows each call from the gate (`trakt_gate`) through loading the
account, refreshing the single-use token, storing its successor, the request, and
saving or marking the import; sessions open and end and profiles are deleted in
between, since the gate does not hold the session. Trakt is `live` (the
valid refresh token of each connection) and `watched`. The call's outcome at each
request includes an answer that is lost after Trakt acted. `Restart` drops the
calls and keeps the tables. An import is abstracted to how many of the reported
titles it contains.

`TraktLogin` is the bridge's `trakt_pending` with the client's polling task: a poll
takes the login, asks Trakt, and puts it back if the answer is "pending".
Cancelling the task does not stop the poll.

`Scrobble` is the Linux player's `Session` and `Queue`: `Observe` and `Finish` are
`Session::observe` and `finish`, `See` is the answer handler, `Take`, `Confirm`
and `Reject` the sending task, `AskFlush`, `FlushDone` and `GiveUp` the five
seconds at quitting. A position is one of three places: the start, the middle, or
past the 95% that count as watched.

### What to watch: `Metadata`, `Continuation`, `Preparation`

`Metadata` is `resolve_metadata` and `continue_metadata` for one title: a request
takes the addons and begins (`BeginResolve`, `BeginContinue`), its answers come or fail, it reads
the cache and merges (`ResolveReads`, `ContinueAnswers`), and writes (`CacheMetadata`), each across
an await, while the user enables, disables and reconfigures addons. An answer has fields that
are full, blank or missing. What the client shows of the title already (`Preview`) is merged last, as the
originating addon's, before the cache is consulted, and is cached like an answer. A value has
the `provider` the code names; the addon and configuration it really came from (`from`) is a
history for the properties. The two differ where the code says so: `Filled` names the cache's provider
for what an answer left blank and the cache has blank too.

`Continuation` holds one series: numbers and release days of its episodes are chosen
freely in `ContinuationInit` (numbers may be missing or double), and the operators
`ContinueEpisode`, `NextEpisode` and `PreviousEpisode` are `episodes.rs`. Its actions
are the ones that change the progress of a title: views on this device, and the import of
Trakt's history, which is what other devices watched.

`Preparation` is `prepare_inner` with the plan it must agree with. A stream is
what decides about it: its forms, the class of its URL's scheme, the headers it wants.

### The local network: `WebSettings`, `WebRemote`

`WebSettings` follows each request of a browser through `claims`, the pairing lock
that is held across awaits (`holder`), the browser's cached state, and the
announcement of an edit. Clients may hang up at every await, the server restarts, the
clock moves on. `Revoke` inserts into the list in memory, where the last sign-out of a browser counts,
and rewrites the file in place, which may leave the old one, some of the lines or none of them
(`spoiled`); a server that reads it so has `forgotten` the browsers it should have refused. Codes are
counted as the server counts them: a right one, whoever enters it, clears the wrong ones
(`excused` remembers how many that may excuse), and a new server draws a new code. `WebRemote` has the queue of keys, sockets authorized by one server and
living on beside the next, and the broadcast of player states with a bounded buffer.

### The device: `Media`, `BridgeSession`, `TvScreen`, `Player`, `Controls`, `Interface`

`Media` is the torrent engine under either of its hosts, told apart by `embedded`:
the companion server and the applications' `InternalMedia`. A call is a record
that says what it waits for; `KeepReads` and `KeepFile` are the two halves of
`keep_file`, and `Dropped` ends a call at any await. `EngineFails` puts a torrent in librqbit's
error state, which is neither live nor paused: `keep_file` returns without starting it. A
client of the server may write a torrent's id in another case than the engine (`Spellings`):
the engine finds the torrent, and the tickets, compared as strings, stay (`DropTickets`).

`BridgeSession` clones the session, works, and puts the outcome back, as
`Bridge::call` does without its lock; the TV runs one session call at a time. `TvScreen` adds
the operations of `TvViewModel.kt` as sequences of these calls: choosing a profile, leaving it, and
managing one from the picker (`UsePicker`: unlock, authorize, change, and leave whatever happened before),
each with a right or a wrong PIN. `Browse` replaces the operation under way; its native call
goes on (`NativeStep`) and nobody hears its answer. `kept` remembers a session that refused to be left.

`Player` is the record `video` (what ends it and what follows) and the record `layout`
(mini player, picture in picture, and the timers that move it). `Controls` has the seek bar
(`bar`), mpv behind it, and the worker that selects tracks, with `preferred_track` as
`PreferredTrack`. A seek goes through `Player::action`, which is `deaf` from `PlaybackEnds` on; `lost`
remembers that the choice made last was dropped there, or by a press that was cancelled.
`Interface` is the controller of the Linux application: `ui.heard` are the
requests whose answer is still wanted, `playback` is the player as the pages see it,
`after` what was put off until it is over. `OpenSettings`, `UseSettings` and
`CloseSettings` are the settings' window, modal and open beside a mini player too; its "Add" creates a profile
and opens it at once. `Record` may fail, and does when the session it belongs to was replaced
(`playback.own`).

### Mutation operators

An operator with a comment that begins "Fault:" stands beside the definition it
damages and is used by nothing else. It is the definition with a plausible bug
(a dropped guard, a stale read, a swapped order); `PROJECT.json` lists under
`mutants` which property finds it. They show that no property holds by the shape
of the model.

## 3. The runs, their bounds and what they show

A run that checks several modules has *parts*: a variable `part` is chosen in the
initial state, and only that part moves. The modules of one run do not share
variables, so a product of them would add nothing but states.

| Run | Properties | Shows |
| --- | --- | --- |
| `core` | `ImplementsAtomicState` `ReorderKeepsAddons` `ContentionIsReal` `NoSilentGap` `CollectionsConsistent` | two clients install, remove and reorder over each other with lost races, storage errors and dropped calls; every sequence of three commands of every kind, each waited for; callers that race while a stream of events comes, lags and goes |
| `profiles` | `GuardedKids` `KidsModeEndsByGuardian` `LinksOwned` `SharedLinksSurvive` `OldCoresWriteNothing` | an application and a browser manage an adult's and a kid's profile at the same time, with restarts; two handles write and share addons of two profiles while sessions end |
| `profiles_bootstrap` | `OnlyFirstBootstraps`, violated | section 6 |
| `titles` | `StoredTokenWorks` `RefreshesAreFirst` `FreshIsComplete` `ImportOfAccount` `ReportsStayBound` `ContinuesWhereLeft` `ResolvedByRank` | the Trakt account under overlapping calls, two logins, disconnects, restarts; every series of three episodes, watched as offered or not, with imports in between; requests for a title against each other and changes of the addons |
| `stale_sources` | `CachedFromSources`, violated | section 6 |
| `scrobble` | `BadgeConfirmed` `EndsAreHeardOnce` `Retried` | two playbacks, a queue that fills up, lost and late answers, an account that goes away, quitting |
| `trakt_login_profile` | `LoginStaysWithProfile`, violated | section 6 |
| `web_settings` | `NoEditMissed` `GuessesBounded` `SignedOutStaysOut` | two browsers pair, edit and sign out with requests that overlap and are dropped (`requests`); one after the other while tokens and revocations expire and the file's writes fail (`time`); wrong and right codes while the lock runs out (`codes`) |
| `devices` | `SocketsUpToDate` `KeysPressedOnce` `SessionsAgree` `ShownIsOpen` `TicketsServe` `EndedIsWatched` `LastChoiceSought` `TracksAsChosen` `DeliveredAsPlanned` | remote control, bridge session and the TV's screen, torrents and tickets (two torrents, two files, the server), the Linux player's end, surface, seek bar and tracks, and what each stream becomes for each player |
| `pages` | `BusyIsOwned` `PlaybackUndisturbed` `ClosingCloses` `PreparingEnds` | the Linux interface and its settings around its player, under weak fairness |
| `apps` | `ApprovalEnds` `SeededStaysAsIs` `ReachableRunsSeed` `StreamsCatchUp` | the device login, a client that offers the default addons, and two writers with an event stream, all under weak fairness |
| `up_next` | `NextPlays`, violated | section 6 |

Deadlock is not checked in `scrobble`, where the application stops after quitting,
and in `devices`, where a finished player and a prepared stream are the end of their
parts. Symmetry is used in runs without liveness only.

Why the bounds are enough:

- **Core.** Two callers suffice for every race on one row: a third only adds
  another winner, and what a loser sees is a revision that moved. `MaxTries = 2`
  (8 in the code) makes running out of attempts reachable with
  `MaxRevision = 3`; it is also the revision at which the store refuses, so the
  edge at `i64::MAX` is reached. `Buffer = 1` (32) makes overflow
  happen at the second unread event. The part with every command has one caller:
  interleaving is covered by the refinement, and what matters there is the
  sequence (two episodes and two titles, with and without metadata).
- **Profiles.** Two handles, one of them a browser's, are the two sides of each
  check-then-write race. With two profiles a kid and its guardian exist; ids are never reused, and
  `MaxProfiles = 2` puts the limit (12) where the model meets it. `MaxRevision`
  bounds how often the database changes: 4 is enough to create both, enter and leave, and
  delete; the part `links` starts from a device in use (`DeviceInUse`, a state that three
  changes reach) so that its two further revisions go to writes and shares. Two
  session tokens suffice since a token is only compared for equality with the one in use.
- **Trakt account.** Two connections of one profile (the second replaces
  the first), two calls, two refresh tokens and one reported title. Profiles only share
  the gate, which serialises all of them alike; the theorems of section 5 hold for any number.
- **Continuation.** Three episodes with numbers from a special, two of one season, or none: a
  special first or between, doubled and missing numbers all occur. One episode comes out
  late; two views elsewhere make an import with an order.
- **Metadata.** Two requests, the originating addon and one installed before it (the theorem has any
  number), one
  field (fields are merged one by one) and one change of the addons, which is what separates an
  answer from the sources it is filed under.
- **Scrobble.** Two playbacks of three reports in total and a last one each, and a
  queue of two (64): full after one playback's two reports.
- **Web settings.** `MaxBrowsers = 1` and two browsers make pruning happen; two
  overlapping requests are the two sides of each race, with one wrong code and no clock
  (`Overlapping`). With time there is one request at a time (`OneByOne`), two clock ticks, and
  tokens of lifetime two. Codes need one browser (`Guessing`): two wrong ones (5) lock pairing for two ticks,
  and right ones may excuse two.
- **Devices.** One key, one update and one stream fill the queue, the buffer and the slots; three
  keys and states distinguish losing the oldest from losing the newest. Two torrents
  or two files are what a removal, respectively `keep_file`, can confuse; the server has one torrent, and two tickets to spell its id
  in two ways. The TV's screen has two calls, one that is waited for and one of an operation that was replaced. The countdown has 3 seconds
  (10): first, middle and last. Positions of the bar are three, more than 0.75 s
  apart. Preparation is checked for every combination of its inputs.
- **Apps.** Two codes and two polls: an old poll against a new code. The two real defaults,
  two runs (an earlier session's and the current one), two copies of one URL at
  most. The pages need no bound but `MaxAttempts`, the code's own; they have a run of their own, since their state
  space is the largest.

## 4. Fairness

Safety runs assume none. Liveness runs assume weak fairness of exactly what the
runtime or the clock schedules:

- `CoreState`: a call in progress goes on (tokio polls woken tasks) and a stream
  takes what its channel holds. Storage errors are not fair, nor do new
  calls, subscriptions or dropped futures have to happen. An attempt either wins or
  finds that somebody else did, and there are `MaxTries`, so no fairness among callers
  is needed for the streams to be told (`StreamsCatchUp`).
- `TraktLogin`: the polling task wakes after each interval, and a poll returns, at
  the latest by the HTTP client's 30 seconds. That Trakt says "authorized" is not
  assumed separately: an approved code is answered so.
- `Interface`: a request is answered (the runtime polls it, and each of its parts
  has a timeout), a stop that was sent reaches the player, the record task drains its channel, and
  the hand-over runs once the player is over. Nothing is assumed of the user, and not
  that a video ends by itself.
- `Scrobble`: the player's 200 ms tick observes, the 30 seconds of a failure pass,
  the task takes and finishes what it sends, the interface's loop looks at answers.
  The fairness of `Observe` is that of the tick as a whole, at whichever position the player is.
  Finishing, quitting or pausing need not happen.

## 5. What is proved

TLAPS proves every safety property that a passing run checks except `ShownIsOpen`, invariants and action properties
alike, for every number of callers, streams, handles, profiles, calls, addons, browsers,
requests, torrents, episodes and reports, every set of commands and every bound. The only
assumptions are the `ASSUME`s of the modules (bounds are numbers, model values differ from what
they mark as missing, tracks and wishes have their types), and `OneScreen`, `Authorizes` and
`OwnMetadata` in the theorems that name them. What stays fixed is what the modules enumerate as
classes: three tracks of five language tags, the forms of a stream, the kinds of a player. Liveness
stays with TLC.

| Module | Proves about |
| --- | --- |
| `ListsProofs` | lists and numbers, for the others |
| `CoreStateProofs` | `CoreState` |
| `ProfilesProofs` | `Profiles` |
| `TitlesProofs` | `TraktAccount`, `Metadata`, `Continuation` |
| `ScrobbleProofs` | `Scrobble` |
| `WebSettingsProofs` | `WebSettings` |
| `DevicesProofs` | `BridgeSession`, `Player`, `Controls`, `Preparation`, `WebRemote`, `Media` |
| `AppsProofs` | `DefaultAddons`, `Interface` |

A module that proves about several components has a section for each; they share no variables.

`CoreStateProofs`:

| Theorem | States | Argument |
| --- | --- | --- |
| `ControlTypeCorrect` | `[]ControlTypeOK` | `Shape`, the conjunction of the types of callers and of streams, is inductive |
| `ReadsCurrent` | `[]ReadsAreCurrentOrLose` | inductive with `Shape`: a commit raises the revision, so any other snapshot already loaded is now older, and one that is not older is the stored one |
| `Refinement` | `Spec => ImplementsAtomicState` | by `ReadsCurrent` a swap that succeeds applies the command to the stored snapshot: `Swap` and `Detached` map to the abstract effect, all else to beginning, ending or stuttering |
| `ContentionReal` | `Spec => ContentionIsReal` | each conflict of an attempt proves a revision above the one it loaded (`LostRace`); inductively the stored revision is at least `since + tries` |
| `TypeCorrect` | `[]TypeOK` | `Contents`: a closure turns a snapshot into a snapshot (`ContentsKept` in all its ten cases), so the stored one and every loaded one is one |
| `OneEntryOfEach` | `[]OneEntryEach` | `OneEach`, in the same induction: `Without` leaves the lists without the key that is then appended (`OnceWithout`, `OnceAppend`); `reorder` is a permutation |
| `CollectionsStayConsistent` | `[]CollectionsConsistent`, under `OwnMetadata` | `MetadataKept`: metadata that an entry has is its title's, and newer entries of the title have it too |
| `ReordersKeepAddons` | `ReorderKeepsAddons` | by `ReadsCurrent` an order that is written was checked against the stored addons |
| `NoGap` | `[]NoSilentGap` | every revision above the snapshot's has been seen, waits, is about to be notified, or is silent: a commit adds its own to the third or the fourth, a notification moves it to the second or drops the sender |

`OwnMetadata` says that a report which brings metadata brings its own title's. It is needed: of a report
that brings another's, `record_progress` drops it after it has decided not to look for the title's own, and
the newest entry then hides what an older one has. The clients send the metadata of the title they play.

`ProfilesProofs`:

| Theorem | States | Inductive invariant |
| --- | --- | --- |
| `KidsGuarded` | `[]GuardedKids` | `GuardInv`: besides the rows, what a creation in flight was promised about its guardian: guardians that were deleted meanwhile fail the foreign key, and neither PINs nor kinds of rows are ever weakened |
| `LinksAlwaysOwned`, `SharedSurvive`, `OnlyByShare` | `[]LinksOwned`, `SharedLinksSurvive`, `ExistingOnlyByShare` | `LinkInv`: a write in flight whose expected revision is still the stored one has seen the current links, because whoever changes links raises the revision in the same transaction |
| `OldCoresHarmless` | `OldCoresWriteNothing` | `SessionInv`: while a handle's handler runs, its session does not change, as both need the handle's mutex |
| `KidsModeNamed`, `KidsModeEnds` | `[]KidsModeNamesAProfile`, `KidsModeEndsByGuardian` | `KidsInv`, under `OneScreen`: every handler in flight that could end kids mode was started from it |

`OneScreen` says that only one application opens the database. It is needed: two
screens can pass the check for kids mode one after the other and enter different
profiles. The applications open the database once per process; browsers never enter kids
mode.

`TitlesProofs`, on the Trakt account:

| Theorem | States | Argument |
| --- | --- | --- |
| `TypeCorrect` | `[]TypeOK` | a call works with a connection that was made (`CallsMade`), so what it writes to Trakt's state has its type |
| `StoredTokensWork`, `RefreshesFirst` | `[]StoredTokenWorks`, `[]RefreshesAreFirst` | `TokenInHand`: the token a call holds is live or its login is lost. A rotation that finds its row replaces the spent token by the live one; one that does not has no row left that needed it |
| `ImportsOfAccounts`, `FreshImportsComplete` | `[]ImportOfAccount`, `[]FreshIsComplete` | `AccountHeld`: the row of a working call's profile, if it is still there, is the account the call works with, and no other profile has it. So a late `SaveData` or `MarkStale` meets its own account or none |
| `NothingAfter` | `[]NothingAfterDisconnect` | accounts name connections that have not ended (`RowsMade`), and only the gate's holder ends one |
| `ReportsBound` | `ReportsStayBound` | `Load` is the only step that could rebind a report, and `Usable` compares the connection |

All of these rest on one inductive invariant, `Inv`. Its backbone is `GateHeld`: a
call past the gate holds it, so in each step of a call all others are idle
(`OthersIdle`) and only the account, the import and the session can have moved under it;
the steps that move them without the gate (`DeleteProfile`, `Leave`, `Open`,
`Age`, `RevokedOnTrakt`, `Restart`) remove rows, weaken freshness or end all calls. A new
connection takes an unused number, which is why `gone` and the rows never meet.

`TitlesProofs`, on details and episodes:

| Theorem | States | Inductive invariant |
| --- | --- | --- |
| `TitlesResolvedByRank` | `[]ResolvedByRank` | `MetadataInv`: what a request holds, what it resolved and what the cache has name the addon they came from (`Attributed`), in every field that says something; of a blank one the provider may be another's. `ForemostIsFirst` says what the two orders of the addons put first, `FilledWell` and `MergedCachedWell` what the two ways of filling in from the cache leave alone |
| `SeriesContinue` | `[]ContinuesWhereLeft` | `ContinuationInv`: the views are of one entry each and end with the device's last; and as long as the user keeps to what is offered, the regular episodes up to the last view are exactly the completed ones (`WatchedInOrder`). `OfferedInOrder` then says that what is offered is the first unwatched one. An import only adds episodes that have no view, before the others (`Importable`) |

`DevicesProofs`, `AppsProofs`, `WebSettingsProofs` and `ScrobbleProofs`:

| Theorem | States | Argument |
| --- | --- | --- |
| `SessionsAlwaysAgree` | `[]SessionsAgree` | `CallKnows`: the one call that changes a session either has not reached the handle, and both sessions are as before, or holds what the handle now has, and is the only one that will write it to the bridge |
| `SeededStays` | `SeededStaysAsIs` | `OneCurrent`: at most one run may still write, the one of the open session, and it began before anything was seeded |
| `ReachableSeeds` | `ReachableRunsSeed`, for `Authorizes = TRUE` | `Unhindered`: what could make such a run stop (a lock, a new session, an unreachable addon) is noted in `hindered`. The Android and the Linux clients do not authorize first, and for them it does not hold (section 6) |
| `EndRecorded` | `[]EndedIsWatched` | `EndIsKept`: a video that reached its end awaits what is next, and `FinishVideo` counts awaiting as completed. The player has a dozen ways to finish; `FinishKeeps` is the one argument for all |
| `LastChoiceIsSought` | `[]LastChoiceSought` | `BarHolds`: a current timer carries the user's choice, a dragged bar has none, and without one mpv was sent where the user chose, or that choice is `lost`. A drag that may be cancelled keeps both as they were `before` it |
| `TracksStayAsChosen` | `[]TracksAsChosen` | `TracksHold`: an automatic choice was never the user's, and at rest nothing is preferred to it. `PreferredIs` and `ScoresCompare` say that the score, which is one number in the model, orders tracks by rank, then flags, then what is selected; so the choice comes to rest although it depends on what is selected |
| `PlansAreKept` | `[]DeliveredAsPlanned` | `PlanKept`: a stream that passed `from_stream` has one form (`WellFormed`), by which the plan and the delivery then decide alike |
| `KeysInOrder` | `KeysPressedOnce` | `QueueInOrder`: the queue holds, rising, every key after the last pressed one that was not skipped |
| `SocketsShowPlayer` | `[]SocketsUpToDate` | `Fresh`: the newest state in a socket's inbox, or what it shows when that is empty, is the player's; `StoredIsPlayers` says so of the report being sent. A full inbox drops its oldest, and the buffer holds one at least |
| `TicketsAlwaysServe` | `[]TicketsServe` | `TicketServed` and `CallServed`: a ticket, and a call on its way to insert one, still has its torrent, or a removal has forgotten it and will drop its tickets next (`Sweeping`), or it is one that the exceptions name (`outlived`, where a removal that spells the id in the other case leaves its tickets too); in an application its file is selected in a torrent that is not paused, or was taken by a call noted in `disturbed`. Of a torrent in its error state the property only says that it is not paused |
| `BusyOwned`, `PlaybackKept` | `[]BusyIsOwned`, `[]PlaybackUndisturbed` | `Good`, of the controller, the core, the player and the window: at most one request is heard, and then the controller is busy (`Tidy`); a player that fills the window has none; beside a player no request is heard that must be alone; nothing that needs the core is asked without one. Pages, Back, the settings (`SettingsKeeps`), answers, the player and the hand-over each keep it |
| `GuessesStayBounded` | `[]GuessesBounded` | `PairingInv`: until pairing locks, the wrong codes of the last `LockTime` are at most the failures counted and what the right codes among them excused (`RightCodeExcuses`); while it is locked no code is accepted, and when the lock ends, so late that no code tried before it counts any more |
| `SignedOutStays` | `SignedOutStaysOut` | `RevocationsHold`: until the token a browser signed out with last expires, the sign-out is in the list in memory, unless a server read a file that had lost it (`forgotten`), and in the file, unless its last write was not whole (`spoiled`). A sign-out replaces the browser's earlier one, in the list as in the history; pruning drops expired ones, and a restart reads the file |
| `BadgeAlwaysConfirmed` | `[]BadgeConfirmed` | `InQueueOrder`: answers, the report being sent and the queue hold rising numbers of a playback. So the answer that `Current` admits is to the newest report, behind which nothing is left to be recorded (`BadgeRests`), and Trakt still has what it says (`NewestIsHeard`) |
| `EditsAreSeen` | `[]NoEditMissed` | `EditKnown`: behind an edit the TV has not seen is the news of it, a request that has stored it and will announce it, or a client that hung up in between. Whatever clears the news reads the snapshot. `SessionsOK` types the requests, so that none is taken for the missing one |
| `EndsHeardOnce` | `[]EndsAreHeardOnce` | `EndInv`, on top of the one for the badge. `FlightOK`: once a playback ended only its newest report and the one before it can be under way, and not both say "stop"; so each of the three places a report can be in holds at most one (`AtMostOneCounted`). `SessionOK`, `WatchedOK` and `AnswersOK` say what a session and an answer remember of them |

The proofs are kept apart from the models. What recursive functions compute is proved by an
induction of its own: `NatInd` and `LeastNumber` (`ListsProofs`) follow from the library's theorem that
`<` on the numbers is well-founded. So lists lose entries by `Without` and guesses are added up by
`Guesses`, which are such functions; the provers know nothing of what `SelectSeq` or a fold returns.

Some theorems have no run of their own because the runs' properties are the sharper way to look
for a counterexample: `KidsModeNamed`, `OnlyByShare`, `NothingAfter`, `OneEntryOfEach`, the type invariants, and `ReadsCurrent`.

Only model-checked is liveness (`StreamsCatchUp`, `ApprovalEnds`, `Retried`, `ClosingCloses`,
`PreparingEnds`), since the prover does not reason about fairness, `ShownIsOpen`, and the four
properties that the code violates (section 6).

## 6. Disagreements between the code and its promises

Four runs expect a violation; `PROJECT.json` quotes the lines.

- **`profiles_bootstrap`.** `create_with_avatar` counts the profiles before the
  transaction that inserts one. The screen and a browser, each with a handle, can both find
  the device empty; the second profile is then stored without a session although a first exists.
- **`trakt_login_profile`.** The bridge's pending login is not bound to the profile
  that asked for it. If the user switches profiles before approving the code, the account is
  stored for the other one.
- **`up_next`.** When the countdown to the next episode ends in the mini player while a
  page's request runs, `continue_playback` advances the view generation and then finds the
  controller busy: the next episode is never asked for, the page's answer is dropped, and the
  interface stays busy. `BusyIsOwned` excludes this case by name (`overran`).
- **`stale_sources`.** `resolve_metadata` files its answers under the addons that are installed
  after it has them. When an addon was disabled or reconfigured in between, its answer counts as
  fresh under the new ones. `continue_metadata` takes one snapshot for both.

Seen while modelling, without a run of their own:

- **The default addons on TV and Linux.** "A new profile is offered two curated addons once" (`README.md:40`). Both run
  them right after `unlock` (`TvViewModel.kt:169-171`, `session.rs:28-36`), in a session whose settings are locked, and
  changing addons needs them unlocked (`profiles.rs:681`): every install is refused and the profile is never seeded. iOS
  authorizes first, as `AppModel.swift:176` notes. With `Authorizes = FALSE` TLC refutes `ReachableRunsSeed`
  at once; the run and the theorem are about a client that authorizes.
- **Signed out until the file is lost.** Browsers that signed out are "kept on disk so a restart cannot
  resurrect them" (`web.rs:192`, and `docs/android-tv.md:311-312`), but the list is rewritten with a bare `fs::write` whose
  error is ignored: a full disk or a kill after the truncation empties it, and the next start lets in browsers that
  signed out earlier. `SignedOutStaysOut` excludes these by name (`forgotten`).
- **A drag into Up Next.** A drag "commits an exact seek on release" (`README.md:127`). When Up Next begins or
  the player finishes while the bar is held, `Player::action` returns before it, nothing is sent to
  mpv, and the bar stays where it was dragged to. `LastChoiceSought` excludes this case (`lost`).
- **A kids profile behind the picker.** "Never leave the picker holding another profile's session"
  (`TvViewModel.kt:131`, `:164`). A kids profile is unlocked without a PIN and left with its guardian's. When one is
  changed or deleted from the picker with a wrong PIN, both the authorization and the leave that follows fail, the latter
  silently, and it stays open. `ShownIsOpen` excludes this session (`kept`).
- **A profile added beside the mini player.** "Madari saves progress every two seconds and on stop"
  (`README.md:138`). "Add" in the settings opens the new profile at once (`session.rs:96-99`), where switching profiles
  would stop the player first. Progress of the video is refused from then on, on stop too.
  `PlaybackUndisturbed` excludes this case.
- A default that a partial run installed and the user removed comes back with the next run, until the marker is set.
- A poll that was under way when a new code was requested can put the old login back over
  the new one; `ApprovalEnds` excludes this case by name.
- When the last report of a playback finds the queue full it is lost, and
  the answer to an earlier report clears the failure; `EndsAreHeardOnce` excludes these playbacks (`dropped`).
- A torrent whose removal falls between the check of a ticket and its insertion leaves a
  ticket for nothing, and so does a `DELETE` that writes the torrent's id in another case than the ticket;
  `TicketsServe` excludes these tickets by name (`outlived`, `disturbed`).
- In an application, a ticket for a torrent that stopped with an error is issued although nothing fetches it:
  `keep_file` only starts torrents that are paused.
- Any right code clears the count of wrong ones, so that whoever guesses while others pair has
  `MaxFailed - 1` more tries for each of them; `GuessesBounded` counts them. A new server forgets the count, but
  draws another code as well.
- Leaving a profile on the TV and pressing Back or another tab before the answer keeps the profile on
  the screen after both sessions ended; every call from it is refused. `ShownIsOpen` excludes this
  case by name (`stranded`).
- A press on the seek bar discards the step queued before it; when the press is a touch that is
  cancelled, that step is never sent (`TouchCancel`).
- `resolve_metadata` names the cache's provider for a field that an addon answered blank when the
  cached one is blank too (`Filled`).
- A source picked from a chooser that closes after Stop was pressed is still played
  (`Player`), and picture in picture asked for in the mini player can arrive in a layout that is both.
- Trakt's history is prepended to the progress. When it comes in two imports, the later
  views stand before the earlier ones; an episode watched elsewhere in between may be offered again.
- An episode without a number is offered first, and nothing after it.
- A progress report whose metadata names another title is stored without any and hides the metadata
  of the title's older entries (`record_progress`; see `OwnMetadata` in section 5).
- `merge_cached` keeps a cached field that an addon now answers with a blank.
- A magnet whose scheme is written in capitals is planned as unsupported and delivered all the same.

## 7. What is not modelled, and why

- **Formats and wording**: manifests, URLs, metadata, magnet links, HTTP bodies: model values or classes.
- **Time** is abstracted to choices (an import may turn stale, a failure's 30 seconds pass, a timer
  fires) except in `WebSettings`, whose limits are about time. The PIN throttle keeps its count in two
  columns of the profile's row, shared by all handles, and reads and writes them in one synchronous pass: it
  is the sequential case of the one in `WebSettings`, up to two handles that read the same count at once.
- **Single steps of `Profiles` and `Continuation`.** `load_snapshot` (`profiles.rs:605-637`) reads the row's
  `data`, then the revision, then the links; `Load` is one step. `Profiles` keeps of a snapshot its revision
  and its links: another handle's commit before the links are read makes the later compare-and-swap fail, as it
  does when it comes after them. Such a commit between `data` and the revision is not noticed, and what it
  changed in the library, the progress or the preferences of the same profile is then overwritten; those are
  outside `Profiles`, and no property here speaks of them across handles.
  `ApplyTraktH` is the import as the progress of one title sees it. That it sets the revision
  without comparing it (`profiles/trakt.rs:285-299`) is not in `Profiles`: only the Linux application imports
  (`browsing/sources.rs:127`, `browsing/trakt.rs:190`), it has one handle on its database, and under that handle's
  mutex the load and the write are one step. Where several handles imported, the revision could go back and
  `SharedLinksSurvive` would have to be asked again.
- **Linux's login dialog** keeps code and session in its own task, so the hazards of
  `TraktLogin` do not arise; its guard `addons.is_empty()` before offering defaults
  (`session.rs:33`) is left out of `DefaultAddons`, which makes the model offer more often than Linux does.
- **Reports without identifiers** (`Media::from_video`, titles Trakt does not know) never reach the queue.
- **A request that arrives at Trakt after its own timeout** is not in `Scrobble`; an answer lost after Trakt acted is.
- **The iOS bindings' session calls**, which overlap: `BridgeSession` has the TV's discipline, and says so.
- **The pages of the Linux interface** are one view each: what a page shows, catalogs that load further,
  search and the contents of the settings are left out, as are the drawing, geometry and most keys of the player. Both components are
  therefore "partly" modelled.
- **Query routing, the addon protocol, the Trakt and companion clients**: requests and answers without state
  of their own; the modules that use them let them answer anything, refuse or be silent.
- **TV, iOS and macOS screens**: presentation around the bridge; what of them decides anything is in
  `TraktLogin`, `DefaultAddons`, `BridgeSession`, `TvScreen` and `WebRemote`.
- **librqbit, mpv, GTK, ffmpeg, SQLite, Trakt, addons** are external: modelled by what the code relies on.

## 8. Plan

Modules in the order of how much could go wrong and how little a test reaches it.

| Step | Module | Models | Status |
| --- | --- | --- | --- |
| 1 | `CoreCommands`, `AtomicState`, `CoreState` (+ proofs) | core state, event stream | done |
| 2 | `Profiles` (+ proofs) | profiles, kids mode, sharing | done |
| 3 | `DefaultAddons` | the offer of defaults, on top of atomic commands | done |
| 4 | `TraktAccount` (+ proofs), `TraktLogin`, `Scrobble` | Trakt | done |
| 5 | `WebSettings`, `WebRemote` | the local network | done |
| 6 | `Media`, `BridgeSession`, `TvScreen` | torrents and tickets, the bridge and the TV's screen | done |
| 7 | `Interface`, `Player`, `Controls` | the Linux application | done, within section 7 |
| 8 | `Metadata`, `Continuation`, `Preparation` | what is shown, what is next, what is opened | done |
| 9 | proofs for `BridgeSession`, `DefaultAddons`, `Player`, `WebSettings`, `Scrobble` | the invariants of each that a user or Trakt would notice | done |
| 10 | `ListsProofs`, `DevicesProofs`, `AppsProofs`, `TitlesProofs` and the contents of `CoreState` | every other safety property of a passing run | done |

Composition: `CoreState` instantiates `AtomicState`; `DefaultAddons` uses atomic
commands in place of `CoreState`; `Scrobble` uses of `TraktAccount` only that a report is confirmed, fails or
finds no account; `WebSettings` notes an edit that `Profiles` and `CoreState` carry
out; `Interface` sees of `Player` that it plays, ends and what it asks to follow. `MCCoreState`,
`MCProfiles`, `MCDevices` and `MCWebSettings` instantiate a module several times with other constants,
so that one run covers several sizes. The suite is kept small enough to be run on every change.

## 9. Running it

With TLC and the community modules on the path, in this directory:

    tlc -workers 2 -config core.cfg MCCoreState.tla
    tlapm CoreStateProofs.tla      # and the other modules whose name ends in Proofs

The module of each run is in `PROJECT.json`. Every passing run ends within five
minutes on two cores; the longest is `core`.
