------------------------------- MODULE Player -------------------------------
(***************************************************************************)
(* The Linux player (apps/linux/src/app/playback/embedded): how a video     *)
(* ends, what follows it, and where its surface is.                        *)
(*                                                                         *)
(* One GTK thread runs clicks, keys, the poll of mpv's notices every 50 ms  *)
(* and the timers of the countdown, the mini player and picture in picture, *)
(* in any order.                                                           *)
(***************************************************************************)
EXTENDS Integers

CONSTANT Seconds  \* of the countdown: 10

ASSUME SecondsAssumption == Seconds \in Nat \ {0}

VARIABLES
  video,   \* the Player's state; see VideoInit
  layout   \* where its surface is

playerVars == <<video, layout>>

FirstVideo ==
  [series |-> FALSE,        \* there is a next episode
   loaded |-> FALSE,
   at |-> "none",           \* position: "middle", "credits" (up_next::suggest), "end"
   hint |-> FALSE, dismissed |-> FALSE,     \* next_hint
   awaiting |-> FALSE, left |-> Seconds,    \* awaiting_next and the countdown
   next |-> "nothing",
   idle |-> FALSE,          \* an episode was picked: finish follows
   chooser |-> FALSE,       \* a source was picked: finish follows when menus close
   finished |-> FALSE, completed |-> FALSE,
   watched |-> FALSE]       \* history: mpv played the video to its end

FirstLayout ==
  [mini |-> FALSE, pip |-> FALSE, animating |-> FALSE,
   timer |-> "none",        \* moving: what its 16 ms timer does, "mini", "pip", "unpip"
   follow |-> FALSE,        \* the 50 ms timer that goes on from mini to pip
   menus |-> FALSE]

PlayerInit ==
  /\ video \in {[FirstVideo EXCEPT !.series = s] : s \in BOOLEAN}
  /\ layout = FirstLayout

Unfinished == ~video.finished

\* Fault: what awaits the next episode is finished like any other.
CompletedAsked(v, completed) == completed

Completed(v, completed) == completed \/ v.awaiting

\* Player::finish, on the record; the last Progress is sent once.
FinishVideo(v, completed) ==
  IF v.finished THEN v
  ELSE [v EXCEPT !.finished = TRUE, !.completed = Completed(v, completed)]

Ends(v, completed) == video' = FinishVideo(v, completed) /\ UNCHANGED layout

Becomes(v) == video' = v /\ UNCHANGED layout

-----------------------------------------------------------------------------
(* poll *)

Polls == Unfinished /\ ~video.awaiting

Load == Polls /\ ~video.loaded /\ Becomes([video EXCEPT !.loaded = TRUE])

MoveTo(where) == Polls /\ video.loaded /\ Becomes([video EXCEPT !.at = where])

\* The update of the hints, every 200 ms.
Hints ==
  /\ Polls
  /\ LET eligible == video.series /\ ~video.dismissed /\ video.at = "credits"
                       /\ ~layout.mini /\ ~layout.pip
     IN /\ video.hint # eligible
        /\ Becomes([video EXCEPT !.hint = eligible])

\* mpv ends the file: at its end, or where the stream broke off.
EndOfFile ==
  /\ Polls
  /\ \E eof \in BOOLEAN :
       LET completed == eof /\ video.loaded /\ video.at = "end"
           v == [video EXCEPT !.watched = completed]
       IN IF completed /\ video.series
          THEN /\ video' = [v EXCEPT !.hint = FALSE, !.awaiting = TRUE]
               /\ layout' = [layout EXCEPT !.menus = FALSE]
          ELSE Ends(v, completed)

\* An error of mpv, or no start within a minute.
PlaybackFails == Polls /\ Ends([video EXCEPT !.next = "retry"], FALSE)

-----------------------------------------------------------------------------
(* Clicks, keys and timers *)

HintNext ==
  /\ Unfinished /\ video.hint
  /\ Ends([video EXCEPT !.next = "episode"], TRUE)

HintDismiss ==
  /\ Unfinished /\ video.hint
  /\ Becomes([video EXCEPT !.hint = FALSE, !.dismissed = TRUE])

\* The card of the countdown: "Next episode" and "Not now", which Stop and
\* Escape stand for.
UpNext ==
  /\ Unfinished /\ video.awaiting
  /\ Ends([video EXCEPT !.next = "episode"], TRUE) \/ Ends(video, TRUE)

CountDown ==
  /\ Unfinished /\ video.awaiting
  /\ IF video.left = 1
     THEN Ends([video EXCEPT !.next = "episode", !.left = 0], TRUE)
     ELSE Becomes([video EXCEPT !.left = @ - 1])

\* Action::Stop, and the stop that Interface sends, also during the countdown.
Stop == Unfinished /\ Ends(video, FALSE)

\* PreviousEpisode and NextEpisode.
Skip == Polls /\ video.series /\ Ends([video EXCEPT !.next = "episode"], FALSE)

\* The dialog of the episodes may stay open while the video ends.
PickEpisode ==
  /\ Unfinished /\ ~video.idle
  /\ Becomes([video EXCEPT !.next = "episode", !.idle = TRUE])

FinishPicked == video.idle /\ Ends([video EXCEPT !.idle = FALSE], FALSE)

ChooseSource ==
  /\ Polls /\ ~video.chooser
  /\ video' = [video EXCEPT !.next = "source", !.chooser = TRUE]
  /\ layout' = [layout EXCEPT !.menus = FALSE]

Chosen ==
  /\ video.chooser /\ (layout.menus => video.finished)
  /\ Ends([video EXCEPT !.chooser = FALSE], FALSE)

-----------------------------------------------------------------------------
(* The surface *)

Moves(l) == layout' = l /\ UNCHANGED video

Menus == Polls /\ Moves([layout EXCEPT !.menus = ~@])

\* schedule_mini and schedule_pip, on the record.
ScheduleMini(l) ==
  IF l.animating \/ l.timer # "none" THEN l
  ELSE [l EXCEPT !.timer = "mini", !.menus = FALSE]

SchedulePip(l, what) ==
  IF l.timer # "none" THEN l ELSE [l EXCEPT !.timer = what, !.menus = FALSE]

PressMini == Polls /\ Moves(ScheduleMini(layout))

\* From the mini player the way leads through the full one; while the mini player
\* still moves into place, that step is skipped.
ThroughFull(l) == [ScheduleMini(l) EXCEPT !.follow = TRUE]

PressPip ==
  /\ Polls
  /\ Moves(IF layout.mini THEN ThroughFull(layout) ELSE SchedulePip(layout, "pip"))

\* "Return to player", Escape and the closing of the window.
LeavePip == Unfinished /\ layout.pip /\ Moves(SchedulePip(layout, "unpip"))

\* return_from_pip, or else toggle_mini and its animation.
ToggleMini(l) ==
  IF l.pip THEN [l EXCEPT !.pip = FALSE]
  ELSE [l EXCEPT !.mini = ~@, !.animating = TRUE]

MiniTimer ==
  /\ layout.timer = "mini" /\ Unfinished /\ ~layout.menus
  /\ Moves([ToggleMini(layout) EXCEPT !.timer = "none"])

PipTimer ==
  /\ layout.timer \in {"pip", "unpip"} /\ Unfinished
  /\ ~layout.menus /\ ~layout.animating
  /\ Moves([layout EXCEPT !.timer = "none",
                          !.pip = IF layout.timer = "unpip" THEN FALSE ELSE ~@])

AnimationEnds == layout.animating /\ Moves([layout EXCEPT !.animating = FALSE])

FollowTimer ==
  /\ layout.follow /\ Unfinished
  /\ layout.timer = "none" /\ ~layout.animating
  /\ Moves([SchedulePip(layout, "pip") EXCEPT !.follow = FALSE])

PlayerNext ==
  \/ Load \/ Hints \/ EndOfFile \/ PlaybackFails
  \/ \E where \in {"middle", "credits", "end"} : MoveTo(where)
  \/ HintNext \/ HintDismiss \/ UpNext \/ CountDown \/ Stop \/ Skip
  \/ PickEpisode \/ FinishPicked \/ ChooseSource \/ Chosen
  \/ Menus \/ PressMini \/ PressPip \/ LeavePip
  \/ MiniTimer \/ PipTimer \/ AnimationEnds \/ FollowTimer

PlayerSpec == PlayerInit /\ [][PlayerNext]_playerVars

-----------------------------------------------------------------------------
(* Properties *)

\* A video that played to its end is recorded as watched, whoever ends its
\* player: the countdown, "Not now", the window, a profile switch, an episode or
\* a source picked a moment before the end.
EndedIsWatched == video.finished /\ video.watched => video.completed

=============================================================================
