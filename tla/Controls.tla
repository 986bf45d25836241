------------------------------ MODULE Controls ------------------------------
(***************************************************************************)
(* What the Linux player's controls ask of mpv: the seek bar                *)
(* (apps/linux/src/app/playback/controls.rs) with Player::action, which     *)
(* passes its seeks on (playback/embedded/mod.rs), and the choice of a      *)
(* track (playback/engine.rs).                                              *)
(*                                                                         *)
(* The bar runs in the GTK thread. The worker of engine.rs is a thread of   *)
(* its own, fed by a channel; it has the tracks of both kinds, here those   *)
(* of one kind, since it treats both alike.                                *)
(***************************************************************************)
EXTENDS Naturals, Sequences

CONSTANTS
  Positions,   \* of the bar, more than 0.75 s apart: 1, 2, ...
  MaxSeeks,    \* seeks that mpv has not executed
  MaxCommands, \* commands that the worker has not taken
  Wishes,      \* PlaybackPreferences: languages in the user's order, and the two flags
  TrackLists   \* the tag and the two flags of each track

Tags == {"en", "eng", "en_GB", "fr", "fra"}

TrackPreference == {"any", "prefer", "avoid"}

Wish == [languages : Seq(Tags), flags : TrackPreference \X TrackPreference]

\* Track 1 is in the file, track 2 comes with the source, track 3 is the user's file.
TrackList == [1 .. 3 -> [tag : Tags, flags : BOOLEAN \X BOOLEAN]]

ASSUME TracksAssumption == Wishes \subseteq Wish /\ TrackLists \subseteq TrackList

VARIABLES
  bar,    \* the seek bar and its timers
  mpv,    \* where mpv is, and the seeks it was sent
  worker  \* the worker of the engine and mpv's tracks

controlsVars == <<bar, mpv, worker>>

Nowhere == 0
Off == 0

NoChoice == [asked |-> Nowhere, lost |-> FALSE]

FirstBar ==
  [shown |-> 1, dragging |-> FALSE,
   released |-> FALSE,       \* an idle callback of a release is queued
   timers |-> {},            \* those of queue_seek, with their generation: is it current
   pending |-> Nowhere, old |-> FALSE,   \* pending_seek, and is it four seconds old
   deaf |-> FALSE,           \* the next episode is awaited, or playback has finished
   asked |-> Nowhere,        \* history: what the user last chose on the bar
   lost |-> FALSE,           \* history: that choice was dropped
   before |-> NoChoice,      \* history: of a drag, both as they were before it
   sent |-> Nowhere]         \* history: where the bar last sent mpv

FirstWorker(enabled, wishes, tracks) ==
  [commands |-> <<>>, enabled |-> enabled, auto |-> TRUE, due |-> TRUE,
   wishes |-> wishes, tracks |-> tracks,
   known |-> {}, selected |-> Off,
   touched |-> FALSE,        \* history: the user gave a command
   chosen |-> {},            \* history: what the user's last command selected
   refused |-> FALSE]        \* history: mpv could not select the preferred track

NoWishes == [languages |-> <<>>, flags |-> <<"any", "any">>]

ControlsInit ==
  /\ bar = FirstBar
  /\ mpv = [at |-> 1, seeks |-> <<>>, seekable |-> TRUE]
  /\ worker \in {FirstWorker(e, w, t) : e \in BOOLEAN, w \in Wishes, t \in TrackLists}

-----------------------------------------------------------------------------
(* The seek bar *)

Seeking(b, m) == bar' = b /\ mpv' = m /\ UNCHANGED worker

Superseded(timers) == {[value |-> t.value, current |-> FALSE] : t \in timers}

\* connect_change_value: while the bar is dragged it only shows where.
ChangeValue(v) ==
  /\ mpv.seekable
  /\ bar.dragging \/ \A t \in bar.timers : t.current => t.value # v
  /\ LET b == [bar EXCEPT !.shown = v, !.asked = v, !.lost = FALSE]
     IN Seeking(IF bar.dragging THEN b
                ELSE [b EXCEPT !.pending = v, !.old = FALSE,
                               !.timers = Superseded(@) \cup {[value |-> v, current |-> TRUE]}],
                mpv)

\* A choice whose timer has not fired yet.
Queued == \E t \in bar.timers : t.current

\* A bar that cannot seek is insensitive. What was queued is not sent any more.
Press ==
  /\ mpv.seekable
  /\ LET before == IF bar.dragging THEN bar.before
                   ELSE [asked |-> bar.asked, lost |-> bar.lost \/ Queued]
     IN Seeking([bar EXCEPT !.dragging = TRUE, !.timers = Superseded(@), !.asked = bar.shown,
                            !.lost = FALSE, !.before = before],
                mpv)

Release == bar.dragging /\ Seeking([bar EXCEPT !.released = TRUE], mpv)

\* The drag never was; a choice that its press took from the queue is not put back.
TouchCancel ==
  /\ bar.dragging
  /\ Seeking([bar EXCEPT !.dragging = FALSE, !.asked = bar.before.asked,
                         !.lost = bar.before.lost, !.before = NoChoice],
             mpv)

\* On a bar and the value to commit; Player::action sends the seek on, or not.
CommitSeek(b, v) ==
  LET pending == [b EXCEPT !.pending = v, !.old = FALSE]
  IN \/ /\ mpv.seekable /\ ~bar.deaf /\ Len(mpv.seeks) < MaxSeeks
        /\ Seeking([pending EXCEPT !.sent = v], [mpv EXCEPT !.seeks = Append(@, v)])
     \/ mpv.seekable /\ bar.deaf /\ Seeking([pending EXCEPT !.lost = TRUE], mpv)
     \/ ~mpv.seekable /\ Seeking([b EXCEPT !.lost = TRUE], mpv)

IdleRelease ==
  /\ bar.released
  /\ LET b == [bar EXCEPT !.released = FALSE, !.dragging = FALSE, !.before = NoChoice]
     IN IF bar.dragging THEN CommitSeek(b, bar.shown) ELSE Seeking(b, mpv)

\* Fault: a timer seeks although a later choice replaced it.
CommitsSuperseded(t) == ~bar.dragging

Commits(t) == t.current /\ ~bar.dragging

QueuedSeek(t) ==
  LET b == [bar EXCEPT !.timers = @ \ {t}]
  IN IF Commits(t) THEN CommitSeek(b, t.value) ELSE Seeking(b, mpv)

\* The four seconds of a pending seek pass; a timer takes 120 ms.
PendingAges ==
  /\ bar.pending # Nowhere /\ ~bar.old /\ ~Queued
  /\ Seeking([bar EXCEPT !.old = TRUE], mpv)

\* Controls::position, with what mpv last reported.
Position ==
  /\ ~bar.dragging /\ ~bar.deaf
  /\ bar.pending \in {Nowhere, mpv.at} \/ bar.old
  /\ bar.shown # mpv.at \/ bar.pending # Nowhere
  /\ Seeking([bar EXCEPT !.pending = Nowhere, !.old = FALSE, !.shown = mpv.at], mpv)

\* Also Action::Seek and "Skip intro", which leave the bar alone.
MpvMoves ==
  \/ \E p \in Positions : Seeking(bar, [mpv EXCEPT !.at = p])
  \/ /\ mpv.seeks # <<>>
     /\ Seeking(bar, [mpv EXCEPT !.at = Head(mpv.seeks), !.seeks = Tail(@)])

SeekableChanges == ~bar.deaf /\ Seeking(bar, [mpv EXCEPT !.seekable = ~@])

\* up_next or finish: poll and action return early from now on.
PlaybackEnds == ~bar.deaf /\ Seeking([bar EXCEPT !.deaf = TRUE], mpv)

-----------------------------------------------------------------------------
(* The worker *)

Works(w) == worker' = w /\ UNCHANGED <<bar, mpv>>

Ask(c) ==
  /\ Len(worker.commands) < MaxCommands
  /\ Works([worker EXCEPT !.commands = Append(@, c)])

\* Action::Set, Action::Subtitles or Audio, and Action::OpenSubtitle.
Choose ==
  \/ \E t \in worker.known \cup {Off} : Ask([op |-> "set", track |-> t])
  \/ Ask([op |-> "cycle", track |-> Off])
  \/ Ask([op |-> "sub-add", track |-> 3])

Changed(w, known, selected) ==
  [w EXCEPT !.known = known, !.selected = selected, !.due = TRUE]

\* mpv loads the file and selects what it was told to prefer, or nothing.
FileLoaded ==
  /\ worker.known = {}
  /\ \E first \in {Off, 1} :
       /\ first = 1 => worker.enabled /\ worker.chosen = {}
       /\ \E found \in {{1}, {1, 2}} :
            Works(Changed(worker, found, first))

\* Fault: cycling through the tracks leaves the choice automatic.
StaysAutomaticWhenCycled(w, c) == w.auto /\ c.op = "cycle"

StaysAutomatic(w, c) == FALSE

\* The commands of Set and Run that concern the tracks; what mpv refuses selects
\* nothing, and before the file is loaded there is nothing but "off" to select.
Execute ==
  /\ worker.commands # <<>>
  /\ LET c == Head(worker.commands)
         w == [worker EXCEPT !.commands = Tail(@), !.due = TRUE, !.touched = TRUE,
                             !.auto = StaysAutomatic(worker, c)]
         Selects(t, known) == [w EXCEPT !.selected = t, !.known = known, !.chosen = {t}]
     IN \/ c.op = "set" /\ Works(Selects(c.track, w.known))
        \/ c.op = "cycle" /\ w.known # {}
             /\ \E t \in (w.known \cup {Off}) \ {w.selected} : Works(Selects(t, w.known))
        \/ c.op = "sub-add" /\ w.known # {} /\ Works(Selects(c.track, w.known \cup {c.track}))
        \/ Works([w EXCEPT !.chosen = IF w.known = {} THEN @ ELSE {w.selected}])

\* language: the primary code, of two letters, and the region.
Language ==
  [en |-> <<"en", "">>, eng |-> <<"en", "">>, en_GB |-> <<"en", "gb">>,
   fr |-> <<"fr", "">>, fra |-> <<"fr", "">>]

Penalty(wish, flag) ==
  CASE wish = "any" -> 0
    [] wish = "prefer" -> IF flag THEN 0 ELSE 1
    [] wish = "avoid" -> IF flag THEN 1 ELSE 0

\* The places of a track's language in the user's order; its region comes second.
Ranks(w, t) ==
  LET tag == Language[w.tracks[t].tag]
      wanted(i) == Language[w.wishes.languages[i]]
  IN {2 * i + (IF wanted(i) = tag THEN 0 ELSE 1) :
        i \in {i \in DOMAIN w.wishes.languages : wanted(i)[1] = tag[1]}}

Least(numbers) == CHOOSE n \in numbers : \A m \in numbers : n <= m

\* Language, then flags, then what is selected already, then the order of the tracks.
Score(w, t) ==
  LET penalties == Penalty(w.wishes.flags[1], w.tracks[t].flags[1])
                     + Penalty(w.wishes.flags[2], w.tracks[t].flags[2])
  IN 100 * (IF Ranks(w, t) = {} THEN 0 ELSE Least(Ranks(w, t)))
       + 20 * penalties + (IF w.selected = t THEN 0 ELSE 10) + t

\* preferred_track: without a track in a wanted language, mpv's language is kept.
PreferredTrack(w) ==
  LET sameLanguage(t) == Language[w.tracks[t].tag] = Language[w.tracks[w.selected].tag]
      candidates ==
        IF \E t \in w.known : Ranks(w, t) # {} THEN {t \in w.known : Ranks(w, t) # {}}
        ELSE IF w.selected # Off THEN {t \in w.known : sameLanguage(t)}
        ELSE IF w.wishes.languages = <<>> THEN w.known
        ELSE {}
  IN IF w.wishes = NoWishes \/ candidates = {} THEN Off
     ELSE CHOOSE t \in candidates : \A u \in candidates : Score(w, t) <= Score(w, u)

\* Every 300 ms, when something changed.
UpdateTracks ==
  /\ worker.due
  /\ LET t == PreferredTrack(worker)
         w == [worker EXCEPT !.due = FALSE]
     IN IF worker.auto /\ worker.enabled /\ t # Off /\ worker.selected # t
        THEN \/ Works([w EXCEPT !.selected = t, !.due = TRUE])
             \/ Works([w EXCEPT !.refused = TRUE])
        ELSE Works(w)

\* The two do not interact.
SeekBarNext ==
  \/ \E v \in Positions : ChangeValue(v)
  \/ Press \/ Release \/ TouchCancel \/ IdleRelease
  \/ \E t \in bar.timers : QueuedSeek(t)
  \/ PendingAges \/ Position \/ MpvMoves \/ SeekableChanges \/ PlaybackEnds

TracksNext == Choose \/ FileLoaded \/ Execute \/ UpdateTracks

ControlsSpec == ControlsInit /\ [][SeekBarNext \/ TracksNext]_controlsVars

-----------------------------------------------------------------------------
(* Properties *)

\* The bar shows where the hand is, and when nothing of the bar is under way mpv was
\* last sent where the user last wanted, however steps, drags, a second press, timers
\* and reports of mpv fall together: unless that choice was dropped because the stream
\* could not be sought, because Player::action takes no more actions, or because a touch
\* that was cancelled had taken it from the queue.
LastChoiceSought ==
  /\ bar.dragging => bar.shown = bar.asked
  /\ ~bar.dragging /\ ~bar.released /\ ~Queued => bar.sent = bar.asked \/ bar.lost

\* Of the wanted languages that there are, the first one is heard or read.
InLanguage(w) ==
  \A t \in w.known : \A i \in DOMAIN w.wishes.languages :
    Language[w.tracks[t].tag][1] = Language[w.wishes.languages[i]][1] =>
      /\ w.selected # Off
      /\ \E j \in 1 .. i : Language[w.tracks[w.selected].tag][1] = Language[w.wishes.languages[j]][1]

\* No other track of that language and region suits the user's other wishes better.
SuitsBest(w) ==
  LET disregards(t, i) == Penalty(w.wishes.flags[i], w.tracks[t].flags[i])
  IN w.selected # Off => \A t \in w.known :
       Language[w.tracks[t].tag] = Language[w.tracks[w.selected].tag] =>
         disregards(w.selected, 1) + disregards(w.selected, 2) <= disregards(t, 1) + disregards(t, 2)

\* "Manual selections remain in control for that video" (README.md): what the user
\* selected stays selected, whatever tracks turn up; subtitles that are off stay
\* off; and until the user chooses, "language order takes priority over
\* accessibility/forced-track preferences" (tracks.rs), with those next, and the
\* choice comes to rest although it depends on what is selected.
TracksAsChosen ==
  /\ worker.chosen \subseteq {worker.selected}
  /\ ~worker.touched =>
       /\ ~worker.enabled => worker.selected = Off
       /\ worker.enabled /\ ~worker.due /\ ~worker.refused =>
            /\ InLanguage(worker) /\ SuitsBest(worker)
            /\ PreferredTrack(worker) \in {Off, worker.selected}

=============================================================================
