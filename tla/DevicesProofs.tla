---------------------------- MODULE DevicesProofs -----------------------------
(***************************************************************************)
(* Theorems about what a device runs around the core: the sessions of the   *)
(* TV's bridge (BridgeSession); how a video of the Linux player ends         *)
(* (Player), its seek bar and tracks (Controls); what is prepared for a      *)
(* player (Preparation); the remote in a browser (WebRemote); and torrents   *)
(* and tickets (Media).  For every number of calls, sockets and positions    *)
(* and every limit.                                                          *)
(***************************************************************************)
EXTENDS WebRemote, BridgeSession, Media, Player, Controls, Preparation,
        ListsProofs, FiniteSetTheorems

-----------------------------------------------------------------------------
(* Sessions of the bridge *)

BridgeTypeOK ==
  /\ bridgeSession \in MaybeTokens
  /\ handleActive \in MaybeTokens
  /\ bridgeCall \in [BridgeCalls -> BridgeRecord \union {NoBridgeCall}]

\* TvViewModel.run: one call at a time changes the session.
OneChanges ==
  \A c, d \in BridgeCalls : ChangesSession(c) /\ ChangesSession(d) => c = d

\* Until that call has changed the handle's session, the bridge's is the same; after
\* that, the call knows what the handle has.
CallKnows ==
  \A c \in BridgeCalls : ChangesSession(c) =>
    /\ bridgeCall[c].op # "unlock" => bridgeCall[c].session # NoToken
    /\ bridgeCall[c].done = NoToken => bridgeSession = handleActive
    /\ bridgeCall[c].done # NoToken => handleActive = After(c)

BridgeInv == BridgeTypeOK /\ OneChanges /\ CallKnows /\ SessionsAgree

-----------------------------------------------------------------------------

LEMMA BridgeInitially == BridgeInit => BridgeInv
  BY DEF BridgeInit, BridgeInv, BridgeTypeOK, MaybeTokens, OneChanges, CallKnows,
         SessionsAgree, ChangesSession

\* A call that ends without a change of either session.
LEMMA EndsQuietly ==
  ASSUME BridgeInv, NEW c \in BridgeCalls, BridgeEnds(c),
         UNCHANGED <<bridgeSession, handleActive>>,
         ~ChangesSession(c) \/ bridgeCall[c].done = NoToken
  PROVE  BridgeInv'
  <1>1. BridgeTypeOK'
    BY DEF BridgeInv, BridgeTypeOK, BridgeEnds
  <1>2. \A d \in BridgeCalls :
          ChangesSession(d)' => d # c /\ ChangesSession(d) /\ bridgeCall'[d] = bridgeCall[d]
    BY DEF BridgeInv, BridgeTypeOK, BridgeEnds, ChangesSession
  <1>3. OneChanges' /\ CallKnows'
    BY <1>2 DEF BridgeInv, OneChanges, CallKnows, After
  <1>4. SessionsAgree'
    <2> SUFFICES ASSUME \A d \in BridgeCalls : ~ChangesSession(d)'
                 PROVE  bridgeSession = handleActive
      BY DEF SessionsAgree
    <2>1. CASE ChangesSession(c)
      BY <2>1 DEF BridgeInv, CallKnows
    <2>2. CASE ~ChangesSession(c)
      <3>1. \A d \in BridgeCalls : ~ChangesSession(d)
        BY <2>2 DEF BridgeInv, BridgeTypeOK, BridgeEnds, ChangesSession
      <3> QED BY <3>1 DEF BridgeInv, SessionsAgree
    <2> QED BY <2>1, <2>2
  <1> QED BY <1>1, <1>3, <1>4 DEF BridgeInv

LEMMA CallBegins ==
  ASSUME BridgeInv, NEW c \in BridgeCalls, NEW op \in Changing \union {"other"}, BridgeBegins(c, op)
  PROVE  BridgeInv'
  <1> DEFINE begun == [op |-> op, session |-> bridgeSession, done |-> NoToken]
  <1>1. begun \in BridgeRecord /\ bridgeCall' = [bridgeCall EXCEPT ![c] = begun]
    BY DEF BridgeBegins, BridgeCalled, BridgeInv, BridgeTypeOK, BridgeRecord, MaybeTokens, Changing
  <1>2. BridgeTypeOK'
    BY <1>1 DEF BridgeInv, BridgeTypeOK, BridgeBegins, BridgeCalled
  <1>3. begun # NoBridgeCall
    BY <1>1, BridgeAssumption DEF BridgeRecord, MaybeTokens
  <1>4. bridgeCall'[c] = begun /\ \A d \in BridgeCalls \ {c} : bridgeCall'[d] = bridgeCall[d]
    BY <1>1 DEF BridgeInv, BridgeTypeOK
  <1>5. ~ChangesSession(c)
    BY DEF BridgeBegins, BridgeCalled, ChangesSession
  <1>6. ChangesSession(c)' <=> op \in Changing
    BY <1>3, <1>4 DEF ChangesSession
  <1>7. \A d \in BridgeCalls \ {c} : ChangesSession(d)' <=> ChangesSession(d)
    BY <1>4 DEF ChangesSession
  <1>8. op \in Changing => bridgeSession = handleActive /\ \A d \in BridgeCalls : ~ChangesSession(d)
    BY DEF BridgeBegins, BridgeCalled, BridgeInv, SessionsAgree
  <1>9. OneChanges'
    BY <1>6, <1>7, <1>8 DEF BridgeInv, OneChanges
  <1>10. CallKnows'
    <2> SUFFICES ASSUME NEW d \in BridgeCalls, ChangesSession(d)'
                 PROVE  /\ bridgeCall'[d].op # "unlock" => bridgeCall'[d].session # NoToken
                        /\ bridgeCall'[d].done = NoToken => bridgeSession = handleActive
                        /\ bridgeCall'[d].done # NoToken => handleActive = After(d)'
      BY DEF CallKnows, BridgeBegins, BridgeCalled
    <2>1. CASE d = c
      BY <2>1, <1>4, <1>6, <1>8 DEF BridgeBegins, BridgeCalled
    <2>2. CASE d # c
      BY <2>2, <1>4, <1>7 DEF BridgeInv, CallKnows, After
    <2> QED BY <2>1, <2>2
  <1>11. SessionsAgree'
    BY <1>5, <1>7, <1>8 DEF BridgeInv, SessionsAgree, BridgeBegins, BridgeCalled
  <1> QED BY <1>2, <1>9, <1>10, <1>11 DEF BridgeInv

\* unlock, leave and delete change the handle's session and remember what it has.
LEMMA ChangesHandle ==
  ASSUME BridgeInv, NEW c \in BridgeCalls, UnlockInHandle(c) \/ LeaveInHandle(c)
  PROVE  BridgeInv'
  <1>1. PICK t \in BridgeTokens :
          /\ bridgeCall' = [bridgeCall EXCEPT ![c].done = t]
          /\ handleActive' = IF bridgeCall[c].op = "unlock" THEN t ELSE NoToken
    <2>1. CASE UnlockInHandle(c)
      BY <2>1 DEF UnlockInHandle
    <2>2. CASE LeaveInHandle(c)
      BY <2>2 DEF LeaveInHandle, BridgeInv, BridgeTypeOK, CallKnows, MaybeTokens
    <2> QED BY <2>1, <2>2
  <1>2. ChangesSession(c) /\ bridgeSession' = bridgeSession
    BY DEF UnlockInHandle, LeaveInHandle
  <1>3. /\ bridgeCall[c] \in BridgeRecord
        /\ bridgeCall'[c] = [bridgeCall[c] EXCEPT !.done = t]
        /\ \A d \in BridgeCalls \ {c} : bridgeCall'[d] = bridgeCall[d]
    BY <1>1, <1>2 DEF BridgeInv, BridgeTypeOK, ChangesSession
  <1>4. /\ bridgeCall'[c] \in BridgeRecord
        /\ bridgeCall'[c].op = bridgeCall[c].op
        /\ bridgeCall'[c].session = bridgeCall[c].session
        /\ bridgeCall'[c].done = t
    BY <1>3 DEF BridgeRecord, MaybeTokens
  <1>5. BridgeTypeOK'
    BY <1>1, <1>2, <1>3, <1>4 DEF BridgeInv, BridgeTypeOK, MaybeTokens
  <1>6. bridgeCall'[c] # NoBridgeCall /\ t # NoToken
    BY <1>4, BridgeAssumption DEF BridgeRecord, MaybeTokens
  <1>7. \A d \in BridgeCalls : ChangesSession(d)' <=> d = c
    BY <1>2, <1>3, <1>4, <1>6 DEF ChangesSession, BridgeInv, OneChanges
  <1>8. OneChanges' /\ SessionsAgree'
    BY <1>7 DEF OneChanges, SessionsAgree
  <1>9. CallKnows'
    BY <1>1, <1>2, <1>4, <1>6, <1>7 DEF CallKnows, BridgeInv, After
  <1> QED BY <1>5, <1>8, <1>9 DEF BridgeInv

LEMMA Follows ==
  ASSUME BridgeInv, NEW c \in BridgeCalls, BridgeFollows(c)
  PROVE  BridgeInv'
  <1>1. bridgeSession' = handleActive /\ handleActive' = handleActive
    BY DEF BridgeFollows, BridgeInv, CallKnows
  <1>2. BridgeTypeOK'
    BY <1>1 DEF BridgeInv, BridgeTypeOK, BridgeFollows, BridgeEnds
  <1>3. \A d \in BridgeCalls : ~ChangesSession(d)'
    BY DEF BridgeFollows, BridgeInv, BridgeTypeOK, OneChanges, BridgeEnds, ChangesSession
  <1> QED BY <1>1, <1>2, <1>3 DEF BridgeInv, OneChanges, CallKnows, SessionsAgree

LEMMA BridgeStep == BridgeInv /\ [BridgeNext]_bridgeVars => BridgeInv'
  <1> SUFFICES ASSUME BridgeInv, [BridgeNext]_bridgeVars PROVE BridgeInv'
    OBVIOUS
  <1>1. CASE UNCHANGED bridgeVars
    BY <1>1 DEF bridgeVars, BridgeInv, BridgeTypeOK, OneChanges, CallKnows, SessionsAgree,
                ChangesSession, After
  <1>2. CASE BridgeNext
    <2> PICK c \in BridgeCalls :
          \/ \E op \in Changing \union {"other"} : BridgeBegins(c, op)
          \/ BridgeRefused(c) \/ UnlockInHandle(c) \/ LeaveInHandle(c)
          \/ BridgeFollows(c) \/ OtherReturns(c)
      BY <1>2 DEF BridgeNext
    <2>1. CASE \E op \in Changing \union {"other"} : BridgeBegins(c, op)
      BY <2>1, CallBegins
    <2>2. CASE BridgeRefused(c)
      BY <2>2, EndsQuietly DEF BridgeRefused
    <2>3. CASE UnlockInHandle(c) \/ LeaveInHandle(c)
      BY <2>3, ChangesHandle
    <2>4. CASE BridgeFollows(c)
      BY <2>4, Follows
    <2>5. CASE OtherReturns(c)
      BY <2>5, EndsQuietly DEF OtherReturns, ChangesSession, Changing
    <2> QED BY <2>1, <2>2, <2>3, <2>4, <2>5
  <1> QED BY <1>1, <1>2

-----------------------------------------------------------------------------

\* Whenever no call is changing the session, the one that the bridge shows is the one
\* that Profiles accepts (lib.rs of madari-tv, Bridge::call).
THEOREM SessionsAlwaysAgree == BridgeSpec => []SessionsAgree
  <1>1. BridgeInv => SessionsAgree
    BY DEF BridgeInv
  <1> QED BY <1>1, BridgeInitially, BridgeStep, PTL DEF BridgeSpec

-----------------------------------------------------------------------------
(* The TV's player *)

VideoRecord ==
  [series : BOOLEAN, loaded : BOOLEAN, at : {"none", "middle", "credits", "end"},
   hint : BOOLEAN, dismissed : BOOLEAN, awaiting : BOOLEAN, left : Int,
   next : {"nothing", "episode", "source", "retry"}, idle : BOOLEAN, chooser : BOOLEAN,
   finished : BOOLEAN, completed : BOOLEAN, watched : BOOLEAN]

\* What played to its end awaits the next episode until it is over, and whoever
\* finishes it then finds it awaiting.
EndIsKept ==
  video.watched => IF video.finished THEN video.completed ELSE video.awaiting

VideoInv == video \in VideoRecord /\ EndIsKept

-----------------------------------------------------------------------------

LEMMA VideoInitially == PlayerInit => VideoInv
  <1>1. \A s \in BOOLEAN : [FirstVideo EXCEPT !.series = s] \in VideoRecord
    <2>1. FirstVideo \in VideoRecord
      BY SecondsAssumption DEF FirstVideo, VideoRecord
    <2> QED BY <2>1 DEF VideoRecord
  <1>2. \A s \in BOOLEAN : ~[FirstVideo EXCEPT !.series = s].watched
    BY DEF FirstVideo
  <1> QED BY <1>1, <1>2 DEF PlayerInit, VideoInv, EndIsKept

\* Player::finish loses no end, and needs no help to record it.
LEMMA FinishKeeps ==
  ASSUME NEW v \in VideoRecord, NEW completed \in BOOLEAN,
         v.watched => IF v.finished THEN v.completed ELSE v.awaiting \/ completed
  PROVE  /\ FinishVideo(v, completed) \in VideoRecord
         /\ FinishVideo(v, completed).watched =>
              /\ FinishVideo(v, completed).finished
              /\ FinishVideo(v, completed).completed
  <1>1. CASE v.finished
    BY <1>1 DEF FinishVideo, VideoRecord
  <1>2. CASE ~v.finished
    <2>1. PICK c \in BOOLEAN : c = Completed(v, completed)
      BY DEF Completed, VideoRecord
    <2>2. FinishVideo(v, completed) = [v EXCEPT !.finished = TRUE, !.completed = c]
      BY <1>2, <2>1 DEF FinishVideo
    <2>3. v.watched => c
      BY <1>2, <2>1 DEF Completed
    <2> QED BY <2>2, <2>3 DEF VideoRecord
  <1> QED BY <1>1, <1>2

LEMMA EndsKeeps ==
  ASSUME VideoInv, NEW v \in VideoRecord, NEW completed \in BOOLEAN, Ends(v, completed),
         v.watched => IF v.finished THEN v.completed ELSE v.awaiting \/ completed
  PROVE  VideoInv'
  BY FinishKeeps DEF Ends, VideoInv, EndIsKept

\* A step that leaves alone what says whether the video is over and how.
LEMMA OthersKeep ==
  ASSUME VideoInv, video' \in VideoRecord,
         video'.watched = video.watched, video'.finished = video.finished,
         video'.completed = video.completed, video'.awaiting = video.awaiting
  PROVE  VideoInv'
  BY DEF VideoInv, EndIsKept

Ending ==
  \/ PlaybackFails \/ HintNext \/ UpNext \/ Stop \/ Skip \/ FinishPicked \/ Chosen

Noting ==
  \/ Load \/ Hints \/ HintDismiss \/ PickEpisode \/ ChooseSource
  \/ \E where \in {"middle", "credits", "end"} : MoveTo(where)

Moving ==
  \/ Menus \/ PressMini \/ PressPip \/ LeavePip
  \/ MiniTimer \/ PipTimer \/ AnimationEnds \/ FollowTimer

LEMMA EndingSteps == VideoInv /\ Ending => VideoInv'
  <1> SUFFICES ASSUME VideoInv, Ending PROVE VideoInv'
    OBVIOUS
  <1> USE DEF VideoInv, EndIsKept
  <1>1. CASE PlaybackFails
    <2>1. [video EXCEPT !.next = "retry"] \in VideoRecord
      BY DEF VideoRecord
    <2> QED BY <1>1, <2>1, EndsKeeps DEF PlaybackFails, VideoRecord
  <1>2. CASE HintNext \/ Skip
    <2>1. [video EXCEPT !.next = "episode"] \in VideoRecord
      BY DEF VideoRecord
    <2>2. \E completed \in BOOLEAN : Ends([video EXCEPT !.next = "episode"], completed)
      BY <1>2 DEF HintNext, Skip
    <2> QED BY <2>1, <2>2, EndsKeeps DEF VideoRecord
  <1>3. CASE UpNext
    <2>1. [video EXCEPT !.next = "episode"] \in VideoRecord
      BY DEF VideoRecord
    <2> QED BY <1>3, <2>1, EndsKeeps DEF UpNext, VideoRecord
  <1>4. CASE Stop
    BY <1>4, EndsKeeps DEF Stop
  <1>5. CASE FinishPicked
    <2>1. [video EXCEPT !.idle = FALSE] \in VideoRecord
      BY DEF VideoRecord
    <2> QED BY <1>5, <2>1, EndsKeeps DEF FinishPicked, VideoRecord
  <1>6. CASE Chosen
    <2>1. [video EXCEPT !.chooser = FALSE] \in VideoRecord
      BY DEF VideoRecord
    <2> QED BY <1>6, <2>1, EndsKeeps DEF Chosen, VideoRecord
  <1> QED BY <1>1, <1>2, <1>3, <1>4, <1>5, <1>6 DEF Ending

LEMMA NotingSteps == VideoInv /\ Noting => VideoInv'
  <1> SUFFICES ASSUME VideoInv, Noting PROVE VideoInv'
    OBVIOUS
  <1> SUFFICES /\ video' \in VideoRecord
               /\ video'.watched = video.watched /\ video'.finished = video.finished
               /\ video'.completed = video.completed /\ video'.awaiting = video.awaiting
    BY OthersKeep
  <1> USE DEF VideoInv, VideoRecord
  <1>1. CASE Load
    BY <1>1 DEF Load, Becomes
  <1>2. CASE Hints
    <2>1. PICK eligible \in BOOLEAN : video' = [video EXCEPT !.hint = eligible]
      BY <1>2 DEF Hints, Becomes
    <2> QED BY <2>1
  <1>3. CASE HintDismiss
    BY <1>3 DEF HintDismiss, Becomes
  <1>4. CASE PickEpisode
    BY <1>4 DEF PickEpisode, Becomes
  <1>5. CASE ChooseSource
    BY <1>5 DEF ChooseSource
  <1>6. CASE \E where \in {"middle", "credits", "end"} : MoveTo(where)
    BY <1>6 DEF MoveTo, Becomes
  <1> QED BY <1>1, <1>2, <1>3, <1>4, <1>5, <1>6 DEF Noting

\* mpv's own end: with a next episode the video awaits it, else it is finished.
LEMMA EndOfFileStep == VideoInv /\ EndOfFile => VideoInv'
  <1> SUFFICES ASSUME VideoInv, EndOfFile PROVE VideoInv'
    OBVIOUS
  <1> DEFINE Over(eof) == eof /\ video.loaded /\ video.at = "end"
             V(eof) == [video EXCEPT !.watched = Over(eof)]
  <1>1. PICK eof \in BOOLEAN :
          IF Over(eof) /\ video.series
          THEN video' = [V(eof) EXCEPT !.hint = FALSE, !.awaiting = TRUE]
          ELSE Ends(V(eof), Over(eof))
    BY DEF EndOfFile
  <1>2. ~video.finished /\ Over(eof) \in BOOLEAN
    BY DEF EndOfFile, Polls, Unfinished, VideoInv, VideoRecord
  <1>3. V(eof) \in VideoRecord /\ V(eof).watched = Over(eof) /\ V(eof).finished = video.finished
    BY <1>2 DEF VideoInv, VideoRecord
  <1>4. CASE Over(eof) /\ video.series
    <2>1. [V(eof) EXCEPT !.hint = FALSE, !.awaiting = TRUE] \in VideoRecord
      <3> HIDE DEF V, Over
      <3> QED BY <1>3 DEF VideoRecord
    <2>2. video' = [V(eof) EXCEPT !.hint = FALSE, !.awaiting = TRUE]
      BY <1>1, <1>4
    <2>3. video'.awaiting /\ video'.finished = video.finished
      <3> HIDE DEF V, Over
      <3> QED BY <1>3, <2>2 DEF VideoRecord
    <2> QED BY <1>2, <2>1, <2>2, <2>3 DEF VideoInv, EndIsKept
  <1>5. CASE ~(Over(eof) /\ video.series)
    <2> HIDE DEF V, Over
    <2> QED BY <1>1, <1>2, <1>3, <1>5, EndsKeeps
  <1> QED BY <1>4, <1>5

LEMMA CountDownStep == VideoInv /\ CountDown => VideoInv'
  <1> SUFFICES ASSUME VideoInv, CountDown PROVE VideoInv'
    OBVIOUS
  <1>1. CASE video.left = 1
    <2>1. [video EXCEPT !.next = "episode", !.left = 0] \in VideoRecord
      <3>1. 0 \in Int
        OBVIOUS
      <3> QED BY <3>1, Zenon DEF VideoInv, VideoRecord
    <2> QED BY <1>1, <2>1, EndsKeeps DEF CountDown, VideoInv, EndIsKept, VideoRecord
  <1>2. CASE video.left # 1
    <2>1. video' = [video EXCEPT !.left = @ - 1]
      BY <1>2 DEF CountDown, Becomes
    <2>2. video.left - 1 \in Int
      BY DEF VideoInv, VideoRecord
    <2> QED BY <2>1, <2>2, OthersKeep DEF VideoInv, VideoRecord
  <1> QED BY <1>1, <1>2

LEMMA MovingSteps == VideoInv /\ Moving => VideoInv'
  <1> SUFFICES ASSUME VideoInv, Moving PROVE VideoInv'
    OBVIOUS
  <1>1. UNCHANGED video
    BY DEF Moving, Menus, PressMini, PressPip, LeavePip, MiniTimer, PipTimer, AnimationEnds,
           FollowTimer, Moves
  <1> QED BY <1>1 DEF VideoInv, EndIsKept

-----------------------------------------------------------------------------

\* No dialog, timer or key of the Linux player, in any order, lets an end go
\* unrecorded (Player::finish, playback/embedded/mod.rs).
THEOREM EndRecorded == PlayerSpec => []EndedIsWatched
  <1>1. VideoInv /\ [PlayerNext]_playerVars => VideoInv'
    <2>1. VideoInv /\ PlayerNext => VideoInv'
      BY EndingSteps, NotingSteps, EndOfFileStep, CountDownStep, MovingSteps
         DEF PlayerNext, Ending, Noting, Moving
    <2>2. VideoInv /\ UNCHANGED playerVars => VideoInv'
      BY DEF VideoInv, EndIsKept, playerVars
    <2> QED BY <2>1, <2>2
  <1>2. VideoInv => EndedIsWatched
    BY DEF VideoInv, EndIsKept, EndedIsWatched
  <1> QED BY <1>1, <1>2, VideoInitially, PTL DEF PlayerSpec

-----------------------------------------------------------------------------
(* The seek bar *)

Places == Positions \union {1, Nowhere}

TimerRecord == [value : Places, current : BOOLEAN]

BarRecord ==
  [shown : Places, dragging : BOOLEAN, released : BOOLEAN, timers : SUBSET TimerRecord,
   pending : Places, old : BOOLEAN, deaf : BOOLEAN, asked : Places, lost : BOOLEAN,
   before : [asked : Places, lost : BOOLEAN], sent : Places]

MpvRecord == [at : Places, seeks : Seq(Places), seekable : BOOLEAN]

\* A current timer is for the user's choice, a dragged bar has none, and without one
\* mpv was sent where the user chose, or had chosen before the drag, or it is known lost.
BarHolds(b) ==
  /\ b \in BarRecord
  /\ b.dragging => b.shown = b.asked /\ \A t \in b.timers : ~t.current
  /\ ~b.dragging => \A t \in b.timers : t.current => t.value = b.asked
  /\ ~b.dragging /\ (\A t \in b.timers : ~t.current) => b.sent = b.asked \/ b.lost
  /\ b.dragging => b.sent = b.before.asked \/ b.before.lost

BarInv == BarHolds(bar) /\ mpv \in MpvRecord

LEMMA BarServes == BarInv => LastChoiceSought
  BY DEF BarInv, BarHolds, LastChoiceSought, Queued

LEMMA BarInitHolds == ControlsInit => BarInv
<1> SUFFICES ASSUME ControlsInit PROVE BarInv
  OBVIOUS
<1>1. bar = FirstBar
  BY DEF ControlsInit
<1>2. 1 \in Places /\ Nowhere \in Places /\ {} \in SUBSET TimerRecord
  BY DEF Places
<1>3. FirstBar \in BarRecord /\ ~FirstBar.dragging /\ FirstBar.timers = {} /\ FirstBar.sent = FirstBar.asked
  BY <1>2 DEF FirstBar, BarRecord, NoChoice
<1>4. mpv \in MpvRecord
  BY DEF ControlsInit, MpvRecord, Places
<1> QED BY <1>1, <1>3, <1>4 DEF BarInv, BarHolds

LEMMA NoneCurrent ==
  ASSUME NEW timers \in SUBSET TimerRecord
  PROVE  Superseded(timers) \in SUBSET TimerRecord /\ \A t \in Superseded(timers) : ~t.current
<1>1. \A t \in timers : t.value \in Places
  BY DEF TimerRecord
<1>2. \A v \in Places : [value |-> v, current |-> FALSE] \in TimerRecord
  BY DEF TimerRecord
<1>3. \A s \in Superseded(timers) : \E t \in timers : s = [value |-> t.value, current |-> FALSE]
  BY DEF Superseded
<1>4. \A s \in Superseded(timers) : s \in TimerRecord
  BY <1>1, <1>2, <1>3
<1>5. \A s \in Superseded(timers) : s.current = FALSE
  BY <1>3
<1> QED BY <1>4, <1>5

LEMMA ChangeKeeps == ASSUME BarInv, NEW v \in Positions, ChangeValue(v) PROVE BarInv'
<1> DEFINE b == [bar EXCEPT !.shown = v, !.asked = v, !.lost = FALSE]
           timer == [value |-> v, current |-> TRUE]
           timers == Superseded(bar.timers) \union {timer}
<1>1. bar \in BarRecord /\ mpv' = mpv /\ v \in Places
  BY DEF ChangeValue, Seeking, BarInv, BarHolds, Places
<1>2. /\ b \in BarRecord /\ b.shown = v /\ b.asked = v /\ b.dragging = bar.dragging /\ b.timers = bar.timers
      /\ b.sent = bar.sent /\ b.before = bar.before
  BY <1>1 DEF BarRecord
<1>3. timer \in TimerRecord /\ timer.value = v /\ timer.current
  BY <1>1 DEF TimerRecord
<1>4. timers \in SUBSET TimerRecord /\ timer \in timers /\ \A t \in timers : t = timer \/ ~t.current
  BY <1>1, <1>3, NoneCurrent DEF BarRecord
<1>5. CASE bar.dragging
  <2>1. bar' = b
    BY <1>5 DEF ChangeValue, Seeking
  <2> HIDE DEF b
  <2> QED BY <1>1, <1>2, <1>5, <2>1 DEF BarInv, BarHolds
<1>6. CASE ~bar.dragging
  <2> DEFINE c == [b EXCEPT !.pending = v, !.old = FALSE, !.timers = timers]
  <2>1. bar' = c
    BY <1>2, <1>6 DEF ChangeValue, Seeking
  <2> HIDE DEF b, timers
  <2>2. c \in BarRecord /\ c.shown = v /\ c.asked = v /\ ~c.dragging /\ c.timers = timers
    BY <1>1, <1>2, <1>4, <1>6 DEF BarRecord
  <2> HIDE DEF c, timer
  <2> QED BY <1>1, <1>3, <1>4, <2>1, <2>2 DEF BarInv, BarHolds
<1> QED BY <1>5, <1>6

\* On a bar that awaits nothing but this commit.
LEMMA CommitKeeps ==
  ASSUME BarInv, NEW b \in BarRecord, NEW v \in Places, CommitSeek(b, v),
         ~b.dragging, b.asked = v, \A t \in b.timers : ~t.current
  PROVE  BarInv'
<1> DEFINE pending == [b EXCEPT !.pending = v, !.old = FALSE]
<1>1. /\ pending \in BarRecord /\ pending.asked = v /\ ~pending.dragging
      /\ pending.timers = b.timers
  BY DEF BarRecord
<1>2. \/ /\ bar' = [pending EXCEPT !.sent = v]
         /\ mpv' = [mpv EXCEPT !.seeks = Append(mpv.seeks, v)]
      \/ (bar' = [pending EXCEPT !.lost = TRUE] \/ bar' = [b EXCEPT !.lost = TRUE]) /\ mpv' = mpv
  BY DEF CommitSeek, Seeking
<1> HIDE DEF pending
<1>3. CASE /\ bar' = [pending EXCEPT !.sent = v]
           /\ mpv' = [mpv EXCEPT !.seeks = Append(mpv.seeks, v)]
  <2>1. bar' \in BarRecord /\ bar'.asked = v /\ bar'.sent = v /\ ~bar'.dragging /\ bar'.timers = b.timers
    BY <1>1, <1>3 DEF BarRecord
  <2>2. mpv' \in MpvRecord
    <3>1. mpv \in MpvRecord
      BY DEF BarInv
    <3>2. Append(mpv.seeks, v) \in Seq(Places)
      BY <3>1 DEF MpvRecord
    <3> QED BY <1>3, <3>1, <3>2 DEF MpvRecord
  <2> QED BY <2>1, <2>2 DEF BarInv, BarHolds
<1>4. CASE /\ bar' = [pending EXCEPT !.lost = TRUE] \/ bar' = [b EXCEPT !.lost = TRUE]
           /\ mpv' = mpv
  <2>1. bar' \in BarRecord /\ bar'.lost /\ ~bar'.dragging /\ bar'.timers = b.timers
    BY <1>1, <1>4 DEF BarRecord
  <2> QED BY <1>4, <2>1 DEF BarInv, BarHolds
<1> QED BY <1>2, <1>3, <1>4

LEMMA HandKeeps == ASSUME BarInv, Press \/ Release \/ TouchCancel PROVE BarInv'
<1>1. bar \in BarRecord /\ mpv' = mpv
  BY DEF BarInv, BarHolds, Press, Release, TouchCancel, Seeking
<1>2. CASE Press
  <2> DEFINE timers == Superseded(bar.timers)
             before == IF bar.dragging THEN bar.before
                       ELSE [asked |-> bar.asked, lost |-> bar.lost \/ Queued]
             c == [bar EXCEPT !.dragging = TRUE, !.timers = timers, !.asked = bar.shown,
                              !.lost = FALSE, !.before = before]
  <2>1. bar' = c
    BY <1>2 DEF Press, Seeking
  <2>4. before \in [asked : Places, lost : BOOLEAN]
    BY <1>1 DEF BarRecord, Queued
  <2>5. bar.sent = before.asked \/ before.lost
    BY DEF BarInv, BarHolds, Queued
  <2>2. timers \in SUBSET TimerRecord /\ \A t \in timers : ~t.current
    BY <1>1, NoneCurrent DEF BarRecord
  <2> HIDE DEF timers, before
  <2>3. c \in BarRecord /\ c.dragging /\ c.timers = timers /\ c.shown = c.asked
          /\ c.sent = bar.sent /\ c.before = before
    BY <1>1, <2>2, <2>4 DEF BarRecord
  <2> HIDE DEF c
  <2> QED BY <1>1, <2>1, <2>2, <2>3, <2>5 DEF BarInv, BarHolds
<1>3. CASE Release
  <2> DEFINE c == [bar EXCEPT !.released = TRUE]
  <2>1. bar' = c
    BY <1>3 DEF Release, Seeking
  <2>2. /\ c \in BarRecord /\ c.dragging = bar.dragging /\ c.timers = bar.timers
        /\ c.shown = bar.shown /\ c.asked = bar.asked /\ c.sent = bar.sent
        /\ c.lost = bar.lost /\ c.before = bar.before
    BY <1>1 DEF BarRecord
  <2> HIDE DEF c
  <2> QED BY <1>1, <2>1, <2>2 DEF BarInv, BarHolds
<1>4. CASE TouchCancel
  <2> DEFINE c == [bar EXCEPT !.dragging = FALSE, !.asked = bar.before.asked,
                              !.lost = bar.before.lost, !.before = NoChoice]
  <2>1. bar' = c /\ bar.dragging
    BY <1>4 DEF TouchCancel, Seeking
  <2>3. NoChoice \in [asked : Places, lost : BOOLEAN] /\ bar.before \in [asked : Places, lost : BOOLEAN]
    BY <1>1 DEF NoChoice, BarRecord, Places
  <2>2. /\ c \in BarRecord /\ ~c.dragging /\ c.timers = bar.timers /\ c.asked = bar.before.asked
        /\ c.lost = bar.before.lost /\ c.sent = bar.sent
    BY <1>1, <2>3 DEF BarRecord
  <2> HIDE DEF c
  <2> QED BY <1>1, <2>1, <2>2 DEF BarInv, BarHolds
<1> QED BY <1>2, <1>3, <1>4

LEMMA IdleKeeps == ASSUME BarInv, IdleRelease PROVE BarInv'
<1> DEFINE c == [bar EXCEPT !.released = FALSE, !.dragging = FALSE, !.before = NoChoice]
<1>1. bar \in BarRecord
  BY DEF BarInv, BarHolds
<1>2. /\ c \in BarRecord /\ ~c.dragging /\ c.timers = bar.timers
      /\ c.shown = bar.shown /\ c.asked = bar.asked /\ c.sent = bar.sent /\ c.lost = bar.lost
  BY <1>1 DEF BarRecord, NoChoice, Places
<1>3. IF bar.dragging THEN CommitSeek(c, bar.shown) ELSE Seeking(c, mpv)
  BY DEF IdleRelease
<1> HIDE DEF c
<1>4. bar.shown \in Places
  BY <1>1 DEF BarRecord
<1>5. CASE bar.dragging
  <2>1. bar.shown = bar.asked /\ \A t \in bar.timers : ~t.current
    BY <1>5 DEF BarInv, BarHolds
  <2> QED BY <1>2, <1>3, <1>4, <1>5, <2>1, CommitKeeps
<1>6. CASE ~bar.dragging
  BY <1>2, <1>3, <1>6 DEF Seeking, BarInv, BarHolds
<1> QED BY <1>5, <1>6

LEMMA QueuedKeeps == ASSUME BarInv, NEW t \in bar.timers, QueuedSeek(t) PROVE BarInv'
<1> DEFINE rest == bar.timers \ {t}
           c == [bar EXCEPT !.timers = rest]
<1>1. bar \in BarRecord
  BY DEF BarInv, BarHolds
<1>2. /\ c \in BarRecord /\ c.dragging = bar.dragging /\ c.timers = rest
      /\ c.shown = bar.shown /\ c.asked = bar.asked /\ c.sent = bar.sent
      /\ c.lost = bar.lost /\ c.before = bar.before
  BY <1>1 DEF BarRecord
<1>3. IF Commits(t) THEN CommitSeek(c, t.value) ELSE Seeking(c, mpv)
  BY DEF QueuedSeek
<1> HIDE DEF c
<1>4. t \in TimerRecord /\ t.value \in Places
  BY <1>1 DEF BarRecord, TimerRecord
<1>5. CASE Commits(t)
  <2>1. ~bar.dragging /\ t.current /\ t.value = bar.asked
    BY <1>5 DEF Commits, BarInv, BarHolds
  <2>2. \A u \in rest : u \in TimerRecord /\ u # t
    BY <1>1 DEF BarRecord
  <2>3. \A u \in rest : ~u.current
    <3> TAKE u \in rest
    <3>1. u \in TimerRecord /\ u # t /\ (u.current => u.value = t.value)
      BY <2>1, <2>2 DEF BarInv, BarHolds
    <3> QED BY <1>4, <2>1, <3>1 DEF TimerRecord
  <2> QED BY <1>2, <1>3, <1>4, <1>5, <2>1, <2>3, CommitKeeps
<1>6. CASE ~Commits(t)
  <2>1. bar.dragging \/ ~t.current
    BY <1>6 DEF Commits
  <2>2. bar' = c /\ mpv' = mpv
    BY <1>3, <1>6 DEF Seeking
  <2> QED BY <1>2, <2>1, <2>2 DEF BarInv, BarHolds
<1> QED BY <1>5, <1>6

LEMMA ReportsKeep_ == ASSUME BarInv, PendingAges \/ Position \/ PlaybackEnds PROVE BarInv'
<1>1. bar \in BarRecord /\ mpv' = mpv /\ mpv.at \in Places
  BY DEF BarInv, BarHolds, MpvRecord, PendingAges, Position, PlaybackEnds, Seeking
<1>2. CASE PendingAges
  <2> DEFINE c == [bar EXCEPT !.old = TRUE]
  <2>1. bar' = c
    BY <1>2 DEF PendingAges, Seeking
  <2>2. /\ c \in BarRecord /\ c.dragging = bar.dragging /\ c.timers = bar.timers
        /\ c.shown = bar.shown /\ c.asked = bar.asked /\ c.sent = bar.sent
        /\ c.lost = bar.lost /\ c.before = bar.before
    BY <1>1 DEF BarRecord
  <2> HIDE DEF c
  <2> QED BY <1>1, <2>1, <2>2 DEF BarInv, BarHolds
<1>4. CASE PlaybackEnds
  <2> DEFINE c == [bar EXCEPT !.deaf = TRUE]
  <2>1. bar' = c
    BY <1>4 DEF PlaybackEnds, Seeking
  <2>2. /\ c \in BarRecord /\ c.dragging = bar.dragging /\ c.timers = bar.timers
        /\ c.shown = bar.shown /\ c.asked = bar.asked /\ c.sent = bar.sent
        /\ c.lost = bar.lost /\ c.before = bar.before
    BY <1>1 DEF BarRecord
  <2> HIDE DEF c
  <2> QED BY <1>1, <2>1, <2>2 DEF BarInv, BarHolds
<1>3. CASE Position
  <2> DEFINE c == [bar EXCEPT !.pending = Nowhere, !.old = FALSE, !.shown = mpv.at]
  <2>1. bar' = c /\ ~bar.dragging
    BY <1>3 DEF Position, Seeking
  <2>2. /\ c \in BarRecord /\ c.dragging = bar.dragging /\ c.timers = bar.timers
        /\ c.asked = bar.asked /\ c.sent = bar.sent /\ c.lost = bar.lost
    BY <1>1 DEF BarRecord, Places
  <2> HIDE DEF c
  <2> QED BY <1>1, <2>1, <2>2 DEF BarInv, BarHolds
<1> QED BY <1>2, <1>3, <1>4

LEMMA MpvKeeps == ASSUME BarInv, MpvMoves \/ SeekableChanges PROVE BarInv'
<1>1. bar' = bar
  BY DEF MpvMoves, SeekableChanges, Seeking
<1>2. mpv \in MpvRecord
  BY DEF BarInv
<1>3. ASSUME NEW p \in Positions, mpv' = [mpv EXCEPT !.at = p] PROVE mpv' \in MpvRecord
  BY <1>2, <1>3 DEF MpvRecord, Places
<1>4. ASSUME mpv.seeks # <<>>, mpv' = [mpv EXCEPT !.at = Head(mpv.seeks), !.seeks = Tail(mpv.seeks)]
      PROVE  mpv' \in MpvRecord
  <2>1. mpv.seeks \in Seq(Places)
    BY <1>2 DEF MpvRecord
  <2>2. Head(mpv.seeks) \in Places /\ Tail(mpv.seeks) \in Seq(Places)
    BY <1>4, <2>1
  <2> QED BY <1>2, <1>4, <2>2 DEF MpvRecord
<1>5. ASSUME mpv' = [mpv EXCEPT !.seekable = ~mpv.seekable] PROVE mpv' \in MpvRecord
  BY <1>2, <1>5 DEF MpvRecord
<1>6. mpv' \in MpvRecord
  BY <1>3, <1>4, <1>5 DEF MpvMoves, SeekableChanges, Seeking
<1> QED BY <1>1, <1>6 DEF BarInv

LEMMA BarStep == BarInv /\ [SeekBarNext \/ TracksNext]_controlsVars => BarInv'
<1> SUFFICES ASSUME BarInv, [SeekBarNext \/ TracksNext]_controlsVars PROVE BarInv'
  OBVIOUS
<1>1. CASE SeekBarNext
  BY <1>1, ChangeKeeps, HandKeeps, IdleKeeps, QueuedKeeps, ReportsKeep_, MpvKeeps DEF SeekBarNext
<1>2. CASE UNCHANGED <<bar, mpv>>
  BY <1>2 DEF BarInv
<1>3. TracksNext => UNCHANGED <<bar, mpv>>
  BY DEF TracksNext, Choose, Ask, FileLoaded, Execute, UpdateTracks, Works
<1> QED BY <1>1, <1>2, <1>3 DEF controlsVars

\* However steps, drags, a second press, cancelled touches, timers, reports of mpv and the
\* end of playback fall together, over any number of positions, mpv was sent where the
\* user last chose on the bar, or that choice was dropped in one of the three ways named.
THEOREM LastChoiceIsSought == ControlsSpec => []LastChoiceSought
  BY BarInitHolds, BarStep, BarServes, PTL DEF ControlsSpec

-----------------------------------------------------------------------------
(* The tracks *)

TrackCommand == [op : {"set", "cycle", "sub-add"}, track : 0 .. 3]

WorkerRecord ==
  [commands : Seq(TrackCommand), enabled : BOOLEAN, auto : BOOLEAN, due : BOOLEAN, wishes : Wish,
   tracks : TrackList, known : SUBSET (1 .. 3), selected : 0 .. 3,
   touched : BOOLEAN, chosen : SUBSET (0 .. 3), refused : BOOLEAN]

-----------------------------------------------------------------------------
(* The preferred track *)

LEMMA LeastIs == ASSUME NEW S \in SUBSET Nat, S # {} PROVE Least(S) \in S /\ \A m \in S : Least(S) <= m
  BY LeastNumber DEF Least

RankOf(w, t) == IF Ranks(w, t) = {} THEN 0 ELSE Least(Ranks(w, t))

Disregarded(w, t) ==
  Penalty(w.wishes.flags[1], w.tracks[t].flags[1]) + Penalty(w.wishes.flags[2], w.tracks[t].flags[2])

Candidates(w) ==
  IF \E t \in w.known : Ranks(w, t) # {} THEN {t \in w.known : Ranks(w, t) # {}}
  ELSE IF w.selected # Off
    THEN {t \in w.known : Language[w.tracks[t].tag] = Language[w.tracks[w.selected].tag]}
  ELSE IF w.wishes.languages = <<>> THEN w.known
  ELSE {}

LEMMA RanksAre ==
  ASSUME NEW w \in WorkerRecord, NEW t
  PROVE  /\ Ranks(w, t) \in SUBSET Nat
         /\ \A n \in Ranks(w, t) : \E i \in DOMAIN w.wishes.languages :
              /\ i \in Nat /\ (n = 2 * i \/ n = 2 * i + 1)
              /\ Language[w.wishes.languages[i]][1] = Language[w.tracks[t].tag][1]
         /\ \A i \in DOMAIN w.wishes.languages :
              Language[w.wishes.languages[i]][1] = Language[w.tracks[t].tag][1] =>
                i \in Nat /\ (2 * i \in Ranks(w, t) \/ 2 * i + 1 \in Ranks(w, t))
<1>1. w.wishes.languages \in Seq(Tags)
  BY DEF WorkerRecord, Wish
<1>2. \A i \in DOMAIN w.wishes.languages : i \in Nat
  BY <1>1
<1>3. \A n \in Ranks(w, t) : \E i \in DOMAIN w.wishes.languages :
              /\ i \in Nat /\ (n = 2 * i \/ n = 2 * i + 1)
              /\ Language[w.wishes.languages[i]][1] = Language[w.tracks[t].tag][1]
  BY <1>2 DEF Ranks
<1>4. \A i \in DOMAIN w.wishes.languages :
              Language[w.wishes.languages[i]][1] = Language[w.tracks[t].tag][1] =>
                i \in Nat /\ (2 * i \in Ranks(w, t) \/ 2 * i + 1 \in Ranks(w, t))
  BY <1>2 DEF Ranks
<1>5. Ranks(w, t) \in SUBSET Nat
  BY <1>3
<1> QED BY <1>3, <1>4, <1>5

LEMMA PenaltyIs == ASSUME NEW wish \in TrackPreference, NEW flag PROVE Penalty(wish, flag) \in {0, 1}
  BY DEF TrackPreference, Penalty

LEMMA DisregardedIs == ASSUME NEW w \in WorkerRecord, NEW t PROVE Disregarded(w, t) \in {0, 1, 2}
<1>1. w.wishes.flags[1] \in TrackPreference /\ w.wishes.flags[2] \in TrackPreference
  BY DEF WorkerRecord, Wish
<1>2. Penalty(w.wishes.flags[1], w.tracks[t].flags[1]) \in {0, 1}
  BY <1>1, PenaltyIs
<1>3. Penalty(w.wishes.flags[2], w.tracks[t].flags[2]) \in {0, 1}
  BY <1>1, PenaltyIs
<1> QED BY <1>2, <1>3 DEF Disregarded

LEMMA RankIs ==
  ASSUME NEW w \in WorkerRecord, NEW t
  PROVE  /\ RankOf(w, t) \in Nat
         /\ Ranks(w, t) # {} => RankOf(w, t) \in Ranks(w, t) /\ \A n \in Ranks(w, t) : RankOf(w, t) <= n
<1>1. Ranks(w, t) \in SUBSET Nat
  BY RanksAre
<1> QED BY <1>1, LeastIs DEF RankOf

LEMMA ScoreIs ==
  ASSUME NEW w \in WorkerRecord, NEW t
  PROVE  Score(w, t) = 100 * RankOf(w, t) + 20 * Disregarded(w, t) + (IF w.selected = t THEN 0 ELSE 10) + t
  BY DEF Score, RankOf, Disregarded

\* The scores of two tracks differ, by rank, then by the flags.
LEMMA ScoresCompare ==
  ASSUME NEW w \in WorkerRecord, NEW t \in 1 .. 3, NEW u \in 1 .. 3
  PROVE  /\ Score(w, t) \in Nat
         /\ Score(w, t) = Score(w, u) => t = u
         /\ Score(w, t) <= Score(w, u) => RankOf(w, t) <= RankOf(w, u)
         /\ w.selected = t /\ Score(w, t) <= Score(w, u) /\ RankOf(w, t) = RankOf(w, u) =>
              Disregarded(w, t) <= Disregarded(w, u)
<1> DEFINE kept(x) == IF w.selected = x THEN 0 ELSE 10
<1>1. RankOf(w, t) \in Nat /\ RankOf(w, u) \in Nat
  BY RankIs
<1>2. Disregarded(w, t) \in {0, 1, 2} /\ Disregarded(w, u) \in {0, 1, 2}
  BY DisregardedIs
<1>3. kept(t) \in {0, 10} /\ kept(u) \in {0, 10} /\ (w.selected = t => kept(t) = 0)
  OBVIOUS
<1>4. /\ Score(w, t) = 100 * RankOf(w, t) + 20 * Disregarded(w, t) + kept(t) + t
      /\ Score(w, u) = 100 * RankOf(w, u) + 20 * Disregarded(w, u) + kept(u) + u
  BY ScoreIs
<1> HIDE DEF kept
<1>5. t \in {1, 2, 3} /\ u \in {1, 2, 3}
  OBVIOUS
<1> QED BY <1>1, <1>2, <1>3, <1>4, <1>5

\* The preferred track is a candidate, none has a smaller score, and no other has the same.
LEMMA PreferredIs ==
  ASSUME NEW w \in WorkerRecord
  PROVE  IF w.wishes = NoWishes \/ Candidates(w) = {} THEN PreferredTrack(w) = Off
         ELSE /\ PreferredTrack(w) \in Candidates(w)
              /\ \A u \in Candidates(w) : Score(w, PreferredTrack(w)) <= Score(w, u)
<1>1. PreferredTrack(w) = IF w.wishes = NoWishes \/ Candidates(w) = {} THEN Off
        ELSE CHOOSE t \in Candidates(w) : \A u \in Candidates(w) : Score(w, t) <= Score(w, u)
  BY DEF PreferredTrack, Candidates
<1>2. CASE ~(w.wishes = NoWishes \/ Candidates(w) = {})
  <2> DEFINE scores == {Score(w, t) : t \in Candidates(w)}
  <2>1. Candidates(w) \subseteq 1 .. 3
    BY DEF Candidates, WorkerRecord
  <2>2. scores \in SUBSET Nat /\ scores # {}
    BY <1>2, <2>1, ScoresCompare
  <2>3. PICK n \in scores : \A m \in scores : n <= m
    BY <2>2, LeastNumber
  <2>4. \E t \in Candidates(w) : \A u \in Candidates(w) : Score(w, t) <= Score(w, u)
    BY <2>3
  <2> HIDE DEF scores
  <2> QED BY <1>1, <1>2, <2>4
<1> QED BY <1>1, <1>2

\* It depends on the wishes, the tracks and what is selected.
LEMMA SamePreferred ==
  ASSUME NEW w \in WorkerRecord, NEW v \in WorkerRecord, v.wishes = w.wishes, v.tracks = w.tracks,
         v.known = w.known, v.selected = w.selected
  PROVE  PreferredTrack(v) = PreferredTrack(w)
<1>1. \A t : Ranks(v, t) = Ranks(w, t)
  BY DEF Ranks
<1>2. \A t : Score(v, t) = Score(w, t)
  BY <1>1 DEF Score
<1>3. Candidates(v) = Candidates(w)
  BY <1>1 DEF Candidates
<1>4. CASE w.wishes = NoWishes \/ Candidates(w) = {}
  BY <1>3, <1>4, PreferredIs
<1>5. CASE ~(w.wishes = NoWishes \/ Candidates(w) = {})
  <2> DEFINE p == PreferredTrack(v)
             q == PreferredTrack(w)
  <2>1. p \in Candidates(w) /\ \A u \in Candidates(w) : Score(v, p) <= Score(v, u)
    BY <1>3, <1>5, PreferredIs
  <2>2. q \in Candidates(w) /\ \A u \in Candidates(w) : Score(w, q) <= Score(w, u)
    BY <1>5, PreferredIs
  <2>3. p \in 1 .. 3 /\ q \in 1 .. 3
    BY <2>1, <2>2 DEF Candidates, WorkerRecord
  <2> HIDE DEF p, q
  <2>4. Score(w, p) <= Score(w, q) /\ Score(w, q) <= Score(w, p)
    BY <1>2, <2>1, <2>2
  <2>5. Score(w, p) \in Nat /\ Score(w, q) \in Nat
    BY <2>3, ScoresCompare
  <2>6. p = q
    BY <2>3, <2>4, <2>5, ScoresCompare
  <2> QED BY <2>6 DEF p, q
<1> QED BY <1>4, <1>5

-----------------------------------------------------------------------------
(* A worker at rest *)

LEMMA RestInLanguage ==
  ASSUME NEW w \in WorkerRecord, PreferredTrack(w) \in {Off, w.selected}
  PROVE  InLanguage(w)
<1> SUFFICES ASSUME NEW t \in w.known, NEW i \in DOMAIN w.wishes.languages,
                    Language[w.tracks[t].tag][1] = Language[w.wishes.languages[i]][1]
             PROVE  /\ w.selected # Off
                    /\ \E j \in 1 .. i : Language[w.tracks[w.selected].tag][1]
                                           = Language[w.wishes.languages[j]][1]
  BY DEF InLanguage
<1> DEFINE p == PreferredTrack(w)
<1>1. i \in Nat /\ (2 * i \in Ranks(w, t) \/ 2 * i + 1 \in Ranks(w, t))
  BY RanksAre
<1>2. Candidates(w) = {u \in w.known : Ranks(w, u) # {}} /\ t \in Candidates(w)
  BY <1>1 DEF Candidates
<1>3. w.wishes # NoWishes
  BY DEF NoWishes
<1>4. p \in Candidates(w) /\ \A u \in Candidates(w) : Score(w, p) <= Score(w, u)
  BY <1>2, <1>3, PreferredIs
<1>5. p \in 1 .. 3 /\ t \in 1 .. 3 /\ Ranks(w, p) # {}
  BY <1>2, <1>4 DEF WorkerRecord
<1>6. p = w.selected /\ p # Off
  BY <1>5 DEF Off
<1> HIDE DEF p
<1>7. RankOf(w, p) <= RankOf(w, t)
  BY <1>2, <1>4, <1>5, ScoresCompare
<1>8. RankOf(w, p) \in Nat /\ RankOf(w, p) \in Ranks(w, p)
  BY <1>5, RankIs
<1>9. RankOf(w, t) \in Nat /\ RankOf(w, t) <= 2 * i + 1
  BY <1>1, RankIs
<1>10. PICK j \in DOMAIN w.wishes.languages :
         /\ j \in Nat /\ (RankOf(w, p) = 2 * j \/ RankOf(w, p) = 2 * j + 1)
         /\ Language[w.wishes.languages[j]][1] = Language[w.tracks[p].tag][1]
  BY <1>8, RanksAre
<1>11. j <= i
  BY <1>1, <1>7, <1>8, <1>9, <1>10
<1>12. j \in 1 .. i
  <2>1. w.wishes.languages \in Seq(Tags)
    BY DEF WorkerRecord, Wish
  <2> QED BY <1>1, <1>11, <2>1
<1> QED BY <1>6, <1>10, <1>12

LEMMA RestSuitsBest ==
  ASSUME NEW w \in WorkerRecord, PreferredTrack(w) \in {Off, w.selected}
  PROVE  SuitsBest(w)
<1> DEFINE s == w.selected
<1> SUFFICES ASSUME s # Off, NEW t \in w.known, Language[w.tracks[t].tag] = Language[w.tracks[s].tag]
             PROVE  Disregarded(w, s) <= Disregarded(w, t)
  BY DEF SuitsBest, Disregarded
<1>1. s \in 1 .. 3 /\ t \in 1 .. 3
  BY DEF WorkerRecord, Off
<1>2. Ranks(w, t) = Ranks(w, s)
  BY DEF Ranks
<1>3. Disregarded(w, s) \in {0, 1, 2} /\ Disregarded(w, t) \in {0, 1, 2}
  BY DisregardedIs
<1>4. CASE w.wishes = NoWishes
  <2>1. w.wishes.flags[1] = "any" /\ w.wishes.flags[2] = "any"
    BY <1>4 DEF NoWishes
  <2>2. \A x : Penalty("any", x) = 0
    BY DEF Penalty
  <2>3. Disregarded(w, s) = 0
    BY <2>1, <2>2 DEF Disregarded
  <2> QED BY <1>3, <2>3
<1>5. CASE w.wishes # NoWishes
  <2>1. Candidates(w) # {}
    BY DEF Candidates
  <2>2. /\ PreferredTrack(w) \in Candidates(w)
        /\ \A u \in Candidates(w) : Score(w, PreferredTrack(w)) <= Score(w, u)
    BY <1>5, <2>1, PreferredIs
  <2>3. PreferredTrack(w) \in 1 .. 3
    BY <2>2 DEF Candidates, WorkerRecord
  <2>4. PreferredTrack(w) = s
    BY <2>3 DEF Off
  <2>0. t \in Candidates(w)
    BY <1>2, <2>2, <2>4 DEF Candidates
  <2>5. Score(w, s) <= Score(w, t)
    BY <2>0, <2>2, <2>4
  <2>6. RankOf(w, s) = RankOf(w, t)
    BY <1>2 DEF RankOf
  <2> QED BY <1>1, <2>5, <2>6, ScoresCompare
<1> QED BY <1>4, <1>5
-----------------------------------------------------------------------------
(* The invariant *)

\* An automatic choice was never the user's, and at rest nothing is preferred to it.
TracksHold(w) ==
  /\ w \in WorkerRecord
  /\ \A i \in 1 .. Len(w.commands) :
       /\ w.commands[i].op = "set" => w.commands[i].track \in w.known \union {Off}
       /\ w.commands[i].op = "sub-add" => w.commands[i].track = 3
  /\ w.chosen \subseteq {w.selected}
  /\ w.auto => w.chosen = {}
  /\ w.known = {} => w.selected = Off
  /\ ~w.touched => /\ w.auto
                   /\ ~w.enabled => w.selected = Off
                   /\ w.enabled /\ ~w.due /\ ~w.refused => PreferredTrack(w) \in {Off, w.selected}

TracksInv == TracksHold(worker)

LEMMA TracksServe == TracksInv => TracksAsChosen
  BY RestInLanguage, RestSuitsBest DEF TracksInv, TracksHold, TracksAsChosen

LEMMA TracksInitHolds == ControlsInit => TracksInv
<1> SUFFICES ASSUME ControlsInit PROVE TracksInv
  OBVIOUS
<1>1. PICK e \in BOOLEAN, w \in Wishes, l \in TrackLists : worker = FirstWorker(e, w, l)
  BY DEF ControlsInit
<1>2. w \in Wish /\ l \in TrackList
  BY TracksAssumption
<1> DEFINE r == FirstWorker(e, w, l)
<1>3. /\ r \in WorkerRecord /\ r.commands = <<>> /\ r.chosen = {} /\ r.auto /\ r.selected = Off /\ r.due
      /\ r.known = {} /\ ~r.touched
  <2>1. <<>> \in Seq(TrackCommand) /\ {} \in SUBSET (1 .. 3) /\ {} \in SUBSET (0 .. 3) /\ Off \in 0 .. 3
    BY DEF Off
  <2> QED BY <1>2, <2>1 DEF FirstWorker, WorkerRecord
<1> HIDE DEF r
<1>4. worker = r
  BY <1>1 DEF r
<1> QED BY <1>3, <1>4 DEF TracksInv, TracksHold

LEMMA AskKeeps ==
  ASSUME TracksInv, NEW c \in TrackCommand, Ask(c),
         c.op = "set" => c.track \in worker.known \union {Off}, c.op = "sub-add" => c.track = 3
  PROVE  TracksInv'
<1> DEFINE commands == Append(worker.commands, c)
           w == [worker EXCEPT !.commands = commands]
<1>1. worker \in WorkerRecord /\ worker.commands \in Seq(TrackCommand)
  BY DEF TracksInv, TracksHold, WorkerRecord
<1>2. commands \in Seq(TrackCommand) /\ Len(commands) = Len(worker.commands) + 1 /\ Len(worker.commands) \in Nat
        /\ commands[Len(worker.commands) + 1] = c
        /\ \A i \in 1 .. Len(worker.commands) : commands[i] = worker.commands[i]
  BY <1>1
<1>3. worker' = w
  BY DEF Ask, Works
<1> HIDE DEF commands
<1>4. /\ w \in WorkerRecord /\ w.commands = commands /\ w.enabled = worker.enabled /\ w.auto = worker.auto
      /\ w.due = worker.due /\ w.wishes = worker.wishes /\ w.tracks = worker.tracks /\ w.known = worker.known
      /\ w.selected = worker.selected /\ w.touched = worker.touched /\ w.chosen = worker.chosen
      /\ w.refused = worker.refused
  BY <1>1, <1>2 DEF WorkerRecord
<1> HIDE DEF w
<1>5. PreferredTrack(w) = PreferredTrack(worker)
  BY <1>1, <1>4, SamePreferred
<1>6. \A i \in 1 .. Len(commands) : i \in 1 .. Len(worker.commands) \/ i = Len(worker.commands) + 1
  BY <1>2
<1>7. \A i \in 1 .. Len(w.commands) :
       /\ w.commands[i].op = "set" => w.commands[i].track \in w.known \union {Off}
       /\ w.commands[i].op = "sub-add" => w.commands[i].track = 3
  BY <1>2, <1>4, <1>6 DEF TracksInv, TracksHold
<1>8. TracksHold(w)
  BY <1>4, <1>5, <1>7 DEF TracksInv, TracksHold
<1> QED BY <1>3, <1>8 DEF TracksInv

LEMMA ChooseKeeps == TracksInv /\ Choose => TracksInv'
<1> SUFFICES ASSUME TracksInv, Choose PROVE TracksInv'
  OBVIOUS
<1>1. worker.known \subseteq 1 .. 3 /\ Off = 0
  BY DEF TracksInv, TracksHold, WorkerRecord, Off
<1>2. ASSUME NEW t \in worker.known \union {Off}, Ask([op |-> "set", track |-> t]) PROVE TracksInv'
  <2> DEFINE c == [op |-> "set", track |-> t]
  <2>1. c \in TrackCommand /\ c.op = "set" /\ c.track = t
    BY <1>1 DEF TrackCommand
  <2>2. Ask(c)
    BY <1>2
  <2> HIDE DEF c
  <2> QED BY <2>1, <2>2, AskKeeps
<1>3. CASE Ask([op |-> "cycle", track |-> Off])
  <2> DEFINE c == [op |-> "cycle", track |-> Off]
  <2>1. c \in TrackCommand /\ c.op = "cycle"
    BY <1>1 DEF TrackCommand
  <2>2. Ask(c)
    BY <1>3
  <2> HIDE DEF c
  <2> QED BY <2>1, <2>2, AskKeeps
<1>4. CASE Ask([op |-> "sub-add", track |-> 3])
  <2> DEFINE c == [op |-> "sub-add", track |-> 3]
  <2>1. c \in TrackCommand /\ c.op = "sub-add" /\ c.track = 3
    BY DEF TrackCommand
  <2>2. Ask(c)
    BY <1>4
  <2> HIDE DEF c
  <2> QED BY <2>1, <2>2, AskKeeps
<1> QED BY <1>2, <1>3, <1>4 DEF Choose

\* Another track is selected, or known, without the user.
LEMMA ChangedKeeps ==
  ASSUME TracksInv, NEW known \in SUBSET (1 .. 3), NEW selected \in 0 .. 3,
         worker' = Changed(worker, known, selected),
         worker.known \subseteq known, known # {}, worker.chosen \subseteq {selected},
         ~worker.enabled /\ ~worker.touched => selected = Off
  PROVE  TracksInv'
<1> DEFINE w == Changed(worker, known, selected)
<1>1. worker \in WorkerRecord
  BY DEF TracksInv, TracksHold
<1>2. /\ w \in WorkerRecord /\ w.commands = worker.commands /\ w.enabled = worker.enabled
      /\ w.auto = worker.auto /\ w.due /\ w.known = known /\ w.selected = selected
      /\ w.touched = worker.touched /\ w.chosen = worker.chosen
  BY <1>1 DEF WorkerRecord, Changed
<1> HIDE DEF w
<1>3. TracksHold(w)
  BY <1>2 DEF TracksInv, TracksHold
<1>4. worker' = w
  BY DEF w
<1> QED BY <1>3, <1>4 DEF TracksInv

LEMMA LoadedKeeps == TracksInv /\ FileLoaded => TracksInv'
<1> SUFFICES ASSUME TracksInv, FileLoaded PROVE TracksInv'
  OBVIOUS
<1>1. PICK first \in {Off, 1}, found \in {{1}, {1, 2}} :
        /\ worker.known = {} /\ worker' = Changed(worker, found, first)
        /\ first = 1 => worker.enabled /\ worker.chosen = {}
  BY DEF FileLoaded, Works
<1>2. found \in SUBSET (1 .. 3) /\ found # {} /\ first \in 0 .. 3
  BY DEF Off
<1>3. worker.chosen \subseteq {Off}
  BY <1>1 DEF TracksInv, TracksHold
<1> QED BY <1>1, <1>2, <1>3, ChangedKeeps

\* A command of the user: what is selected afterwards is the user's choice.
LEMMA ExecuteKeeps == TracksInv /\ Execute => TracksInv'
<1> SUFFICES ASSUME TracksInv, Execute PROVE TracksInv'
  OBVIOUS
<1> DEFINE c == Head(worker.commands)
           rest == Tail(worker.commands)
           w == [worker EXCEPT !.commands = rest, !.due = TRUE, !.touched = TRUE, !.auto = FALSE]
<1>1. worker \in WorkerRecord /\ worker.commands \in Seq(TrackCommand) /\ worker.commands # <<>>
        /\ worker.known \in SUBSET (1 .. 3) /\ worker.selected \in 0 .. 3
  BY DEF TracksInv, TracksHold, WorkerRecord, Execute
<1>2. /\ c \in TrackCommand /\ c = worker.commands[1] /\ 1 \in 1 .. Len(worker.commands)
      /\ rest \in Seq(TrackCommand) /\ Len(rest) = Len(worker.commands) - 1 /\ Len(worker.commands) \in Nat
      /\ \A i \in 1 .. Len(rest) : rest[i] = worker.commands[i + 1]
  BY <1>1
<1>3. /\ c.op = "set" => c.track \in worker.known \union {Off}
      /\ c.op = "sub-add" => c.track = 3
  BY <1>2 DEF TracksInv, TracksHold
<1>4. \A i \in 1 .. Len(rest) :
        /\ rest[i].op = "set" => rest[i].track \in worker.known \union {Off}
        /\ rest[i].op = "sub-add" => rest[i].track = 3
  <2> TAKE i \in 1 .. Len(rest)
  <2>1. i + 1 \in 1 .. Len(worker.commands) /\ rest[i] = worker.commands[i + 1]
    BY <1>2
  <2> QED BY <2>1 DEF TracksInv, TracksHold
<1>5. \/ c.op = "set" /\ worker' = [w EXCEPT !.selected = c.track, !.known = w.known, !.chosen = {c.track}]
      \/ /\ c.op = "cycle" /\ w.known # {}
         /\ \E t \in (w.known \union {Off}) \ {w.selected} :
              worker' = [w EXCEPT !.selected = t, !.known = w.known, !.chosen = {t}]
      \/ /\ c.op = "sub-add" /\ w.known # {}
         /\ worker' = [w EXCEPT !.selected = c.track, !.known = w.known \union {c.track},
                                !.chosen = {c.track}]
      \/ worker' = [w EXCEPT !.chosen = IF w.known = {} THEN w.chosen ELSE {w.selected}]
  BY DEF Execute, Works, StaysAutomatic
<1> HIDE DEF c, rest
<1>6. /\ w \in WorkerRecord /\ w.commands = rest /\ ~w.auto /\ w.touched /\ w.known = worker.known
      /\ w.selected = worker.selected /\ w.chosen = worker.chosen
  BY <1>1, <1>2 DEF WorkerRecord
<1> HIDE DEF w
<1>7. ASSUME NEW v, NEW t \in 0 .. 3, NEW known \in SUBSET (1 .. 3),
             v = [w EXCEPT !.selected = t, !.known = known, !.chosen = {t}], worker' = v,
             worker.known \subseteq known, known = {} => t = Off
      PROVE  TracksInv'
  <2>0. {t} \in SUBSET (0 .. 3)
    OBVIOUS
  <2>1. /\ v \in WorkerRecord /\ v.commands = rest /\ ~v.auto /\ v.touched /\ v.known = known
        /\ v.selected = t /\ v.chosen = {t}
    BY <1>6, <1>7, <2>0 DEF WorkerRecord
  <2>2. TracksHold(v)
    BY <1>4, <1>7, <2>1 DEF TracksHold
  <2> QED BY <1>7, <2>2 DEF TracksInv
<1>8. CASE c.op = "set" /\ worker' = [w EXCEPT !.selected = c.track, !.known = w.known, !.chosen = {c.track}]
  <2>1. c.track \in 0 .. 3 /\ (w.known = {} => c.track = Off)
    BY <1>1, <1>2, <1>3, <1>6, <1>8 DEF TrackCommand
  <2>2. w.known \in SUBSET (1 .. 3) /\ worker.known \subseteq w.known
    BY <1>1, <1>6
  <2> DEFINE v == [w EXCEPT !.selected = c.track, !.known = w.known, !.chosen = {c.track}]
  <2>3. v = [w EXCEPT !.selected = c.track, !.known = w.known, !.chosen = {c.track}] /\ worker' = v
    BY <1>8
  <2> HIDE DEF v
  <2> QED BY <1>7, <2>1, <2>2, <2>3
<1>9. ASSUME w.known # {}, NEW t \in (w.known \union {Off}) \ {w.selected},
             worker' = [w EXCEPT !.selected = t, !.known = w.known, !.chosen = {t}]
      PROVE  TracksInv'
  <2>1. t \in 0 .. 3 /\ (w.known = {} => t = Off)
    BY <1>1, <1>6, <1>9 DEF Off
  <2>2. w.known \in SUBSET (1 .. 3) /\ worker.known \subseteq w.known
    BY <1>1, <1>6
  <2> DEFINE v == [w EXCEPT !.selected = t, !.known = w.known, !.chosen = {t}]
  <2>3. v = [w EXCEPT !.selected = t, !.known = w.known, !.chosen = {t}] /\ worker' = v
    BY <1>9
  <2> HIDE DEF v
  <2> QED BY <1>7, <2>1, <2>2, <2>3
<1>10. CASE /\ c.op = "sub-add" /\ w.known # {}
            /\ worker' = [w EXCEPT !.selected = c.track, !.known = w.known \union {c.track},
                                   !.chosen = {c.track}]
  <2> DEFINE known == w.known \union {c.track}
             v == [w EXCEPT !.selected = c.track, !.known = known, !.chosen = {c.track}]
  <2>1. c.track \in 0 .. 3 /\ (known = {} => c.track = Off)
    BY <1>3, <1>10
  <2>2. known \in SUBSET (1 .. 3) /\ worker.known \subseteq known
    BY <1>1, <1>3, <1>6, <1>10
  <2>3. v = [w EXCEPT !.selected = c.track, !.known = known, !.chosen = {c.track}] /\ worker' = v
    BY <1>10
  <2> HIDE DEF v, known
  <2> QED BY <1>7, <2>1, <2>2, <2>3
<1>11. CASE worker' = [w EXCEPT !.chosen = IF w.known = {} THEN w.chosen ELSE {w.selected}]
  <2> DEFINE chosen == IF w.known = {} THEN w.chosen ELSE {w.selected}
  <2>1. chosen \subseteq {w.selected} /\ chosen \in SUBSET (0 .. 3) /\ (w.known = {} => w.selected = Off)
    BY <1>1, <1>6 DEF TracksInv, TracksHold
  <2> DEFINE v == [w EXCEPT !.chosen = chosen]
  <2> HIDE DEF chosen
  <2>2. /\ v \in WorkerRecord /\ v.commands = rest /\ ~v.auto /\ v.touched /\ v.known = w.known
        /\ v.selected = w.selected /\ v.chosen = chosen
    BY <1>6, <2>1 DEF WorkerRecord
  <2>3. worker' = v
    BY <1>11 DEF chosen
  <2> HIDE DEF v
  <2>4. TracksHold(v)
    BY <1>4, <1>6, <2>1, <2>2 DEF TracksHold
  <2> QED BY <2>3, <2>4 DEF TracksInv
<1> QED BY <1>5, <1>8, <1>9, <1>10, <1>11

LEMMA UpdateKeeps == TracksInv /\ UpdateTracks => TracksInv'
<1> SUFFICES ASSUME TracksInv, UpdateTracks PROVE TracksInv'
  OBVIOUS
<1> DEFINE t == PreferredTrack(worker)
           w == [worker EXCEPT !.due = FALSE]
           chosen == worker.auto /\ worker.enabled /\ t # Off /\ worker.selected # t
<1>1. worker \in WorkerRecord
  BY DEF TracksInv, TracksHold
<1>2. IF chosen THEN \/ worker' = [w EXCEPT !.selected = t, !.due = TRUE]
                     \/ worker' = [w EXCEPT !.refused = TRUE]
      ELSE worker' = w
  BY DEF UpdateTracks, Works
<1>3. /\ w \in WorkerRecord /\ w.commands = worker.commands /\ w.enabled = worker.enabled /\ w.auto = worker.auto
      /\ w.wishes = worker.wishes /\ w.tracks = worker.tracks /\ w.known = worker.known
      /\ w.selected = worker.selected /\ w.touched = worker.touched /\ w.chosen = worker.chosen
      /\ w.refused = worker.refused
  BY <1>1 DEF WorkerRecord
<1>4. t = Off \/ (t \in worker.known /\ t \in 1 .. 3)
  <2>1. t = Off \/ t \in Candidates(worker)
    BY <1>1, PreferredIs
  <2> QED BY <1>1, <2>1 DEF Candidates, WorkerRecord
<1>5. PreferredTrack(w) = t
  BY <1>1, <1>3, SamePreferred
<1> HIDE DEF w, t
<1>6. CASE ~chosen
  <2>1. ~worker.touched /\ worker.enabled => PreferredTrack(w) \in {Off, w.selected}
    BY <1>3, <1>5, <1>6 DEF TracksInv, TracksHold
  <2>2. TracksHold(w)
    BY <1>3, <2>1 DEF TracksInv, TracksHold
  <2> QED BY <1>2, <1>6, <2>2 DEF TracksInv
<1>7. CASE chosen /\ worker' = [w EXCEPT !.selected = t, !.due = TRUE]
  <2> DEFINE v == [w EXCEPT !.selected = t, !.due = TRUE]
  <2>1. t \in 0 .. 3 /\ t \in worker.known
    BY <1>4, <1>7
  <2>2. /\ v \in WorkerRecord /\ v.commands = worker.commands /\ v.enabled = worker.enabled
        /\ v.auto = worker.auto /\ v.due /\ v.known = worker.known /\ v.selected = t
        /\ v.touched = worker.touched /\ v.chosen = worker.chosen
    BY <1>3, <2>1 DEF WorkerRecord
  <2> HIDE DEF v
  <2>3. TracksHold(v)
    BY <1>7, <2>1, <2>2 DEF TracksInv, TracksHold
  <2> QED BY <1>7, <2>3 DEF TracksInv, v
<1>8. CASE chosen /\ worker' = [w EXCEPT !.refused = TRUE]
  <2> DEFINE v == [w EXCEPT !.refused = TRUE]
  <2>1. /\ v \in WorkerRecord /\ v.commands = worker.commands /\ v.enabled = worker.enabled
        /\ v.auto = worker.auto /\ v.known = worker.known /\ v.selected = worker.selected
        /\ v.touched = worker.touched /\ v.chosen = worker.chosen /\ v.refused
    BY <1>3 DEF WorkerRecord
  <2> HIDE DEF v
  <2>2. TracksHold(v)
    BY <2>1 DEF TracksInv, TracksHold
  <2> QED BY <1>8, <2>2 DEF TracksInv, v
<1> QED BY <1>2, <1>6, <1>7, <1>8

LEMMA TracksStep == TracksInv /\ [SeekBarNext \/ TracksNext]_controlsVars => TracksInv'
<1> SUFFICES ASSUME TracksInv, [SeekBarNext \/ TracksNext]_controlsVars PROVE TracksInv'
  OBVIOUS
<1>1. SeekBarNext => UNCHANGED worker
  BY DEF SeekBarNext, ChangeValue, Press, Release, TouchCancel, IdleRelease, QueuedSeek, PendingAges, Position,
         MpvMoves, SeekableChanges, PlaybackEnds, CommitSeek, Seeking
<1>2. CASE UNCHANGED worker
  BY <1>2 DEF TracksInv
<1>3. CASE TracksNext
  BY <1>3, ChooseKeeps, LoadedKeeps, ExecuteKeeps, UpdateKeeps DEF TracksNext
<1> QED BY <1>1, <1>2, <1>3 DEF controlsVars

\* Whatever the user and mpv do in between, a choice of the user's stays, and until there
\* is one the selected track comes to rest at the best one for the user's wishes.
THEOREM TracksStayAsChosen == ControlsSpec => []TracksAsChosen
  BY TracksInitHolds, TracksStep, TracksServe, PTL DEF ControlsSpec

-----------------------------------------------------------------------------
(* Preparing a playback *)

NeedsEngine(s, p) == p.companion \/ (p.torrent /\ ~p.web)

\* At most one of a stream's forms: the cases of its disposition exclude each other.
OneForm(s) == \A f, g \in s.forms : f = g

PlanKept ==
  LET s == asked.source
      p == asked.player
  IN /\ preparing.at \in {"start", "failed", "link", "torrent", "file", "ready"}
     /\ s \in Streams
     /\ preparing.at \in {"link", "torrent", "file"} => OneForm(s)
     /\ preparing.at = "link" => ~IsTorrent(s)
     /\ preparing.at \in {"torrent", "file"} =>
          /\ IsTorrent(s)
          /\ preparing.resume = IF asked.title = "given" THEN ResumePosition(viewing) ELSE 0
     /\ preparing.at = "file" =>
          /\ NeedsEngine(s, p)
          /\ preparing.files \in [DOMAIN preparing.files -> 0 .. MaxLength]

PreparationInv == PlanKept /\ DeliveredAsPlanned

LEMMA WellFormed == ASSUME NEW s \in Streams, ~Malformed(s) PROVE OneForm(s)
<1>1. \A x, y : x # y => Cardinality({x, y}) = 2
  <2> SUFFICES ASSUME NEW x, NEW y, x # y PROVE Cardinality({x, y}) = 2
    OBVIOUS
  <2>1. IsFiniteSet({x}) /\ Cardinality({x}) = 1
    BY FS_Singleton
  <2>2. Cardinality({x} \union {y}) = 2
    BY <2>1, FS_AddElement
  <2>3. {x, y} = {x} \union {y}
    OBVIOUS
  <2> QED BY <2>2, <2>3
<1>2. s.forms # {"infoHash", "url"} /\ s.forms # {"url", "rarUrls"}
  <2>1. Cardinality({"infoHash", "url"}) = 2 /\ Cardinality({"url", "rarUrls"}) = 2
    <3>1. "infoHash" # "url" /\ "url" # "rarUrls"
      OBVIOUS
    <3> QED BY <1>1, <3>1, Zenon
  <2>2. ~(Cardinality(s.forms) > 1)
    BY DEF Malformed
  <2> QED BY <2>1, <2>2
<1>3. s.forms \in {{}, {"infoHash"}, {"url"}, {"externalUrl"}, {"ytId"}, {"rarUrls"}}
  BY <1>2 DEF Streams, Offered, Plain
<1> QED BY <1>3 DEF OneForm

LEMMA PreparationInitHolds == PreparationInit => PreparationInv
<1> SUFFICES ASSUME PreparationInit PROVE PreparationInv
  OBVIOUS
<1>1. preparing.at = "start" /\ asked.source \in Streams
  BY DEF PreparationInit, Request
<1> QED BY <1>1 DEF PreparationInv, PlanKept, DeliveredAsPlanned

LEMMA PlanKeeps == PlanKept /\ (Reject \/ Plan) => PreparationInv'
<1> SUFFICES ASSUME PlanKept, Reject \/ Plan PROVE PreparationInv'
  OBVIOUS
<1>1. UNCHANGED <<asked, viewing>>
  BY DEF Reject, Plan, Failed, Proceeds
<1>0. asked.source \in Streams
  BY DEF PlanKept
<1>2. CASE preparing' = [at |-> "failed"]
  BY <1>0, <1>1, <1>2 DEF PreparationInv, PlanKept, DeliveredAsPlanned
<1>3. ASSUME ~Rejected(asked),
             NEW place \in {"torrent", "link"}, place = (IF IsTorrent(asked.source) THEN "torrent" ELSE "link"),
             NEW resume, resume = (IF asked.title = "given" THEN ResumePosition(viewing) ELSE 0),
             preparing' = [at |-> place, resume |-> resume]
      PROVE  PreparationInv'
  <2>1. preparing'.at = place /\ preparing'.resume = resume
    BY <1>3
  <2>2. OneForm(asked.source)
    BY <1>0, <1>3, WellFormed DEF Rejected
  <2> QED BY <1>0, <1>1, <1>3, <2>1, <2>2
             DEF PreparationInv, PlanKept, DeliveredAsPlanned, OneForm, IsTorrent, HasUrl, ResumePosition
<1> QED BY <1>2, <1>3 DEF Reject, Plan, Failed, Proceeds

LEMMA DeliverKeeps == PlanKept /\ Deliver => PreparationInv'
<1> SUFFICES ASSUME PlanKept, Deliver PROVE PreparationInv'
  OBVIOUS
<1> DEFINE s == asked.source
           p == asked.player
<1>1. UNCHANGED <<asked, viewing>> /\ preparing.at = "link" /\ ~IsTorrent(s) /\ OneForm(s) /\ s \in Streams
  BY DEF Deliver, Failed, Proceeds, PlanKept
<1>2. CASE preparing' = [at |-> "failed"]
  BY <1>1, <1>2 DEF PreparationInv, PlanKept, DeliveredAsPlanned
<1>3. CASE preparing' = [at |-> "ready", delivery |-> Planned(s, p)]
  <2>1. preparing'.at = "ready" /\ preparing'.delivery = Planned(s, p)
    BY <1>3
  <2>2. Planned(s, p) # "MediaService"
    BY <1>1 DEF Planned, IsTorrent, HasUrl, OneForm
  <2>3. Planned(s, p) = "Direct" => ~(p.web /\ ~s.webReady) /\ (s.headers = "valid" => p.headers)
    BY <1>1 DEF Planned, Opens, OneForm, IsTorrent, HasUrl
  <2> QED BY <1>1, <2>1, <2>2, <2>3 DEF PreparationInv, PlanKept, DeliveredAsPlanned
<1> QED BY <1>2, <1>3 DEF Deliver, Failed, Proceeds

LEMMA NoEngineKeeps == PlanKept /\ NoEngine => PreparationInv'
<1> SUFFICES ASSUME PlanKept, NoEngine PROVE PreparationInv'
  OBVIOUS
<1> DEFINE s == asked.source
           p == asked.player
<1>1. /\ UNCHANGED <<asked, viewing>> /\ IsTorrent(s) /\ OneForm(s) /\ s \in Streams /\ ~p.companion /\ (~p.torrent \/ p.web)
      /\ preparing' = [at |-> "ready", delivery |-> "Unsupported"]
  BY DEF NoEngine, Proceeds, PlanKept
<1>2. preparing'.at = "ready" /\ preparing'.delivery = "Unsupported"
  BY <1>1
<1>3. Planned(s, p) = "Unsupported" \/ s.scheme = "Magnet:"
  BY <1>1 DEF Planned, IsTorrent, HasUrl, OneForm
<1> QED BY <1>1, <1>2, <1>3 DEF PreparationInv, PlanKept, DeliveredAsPlanned

LEMMA ResolveKeeps == PlanKept /\ ResolveTorrent => PreparationInv'
<1> SUFFICES ASSUME PlanKept, ResolveTorrent PROVE PreparationInv'
  OBVIOUS
<1>0. UNCHANGED <<asked, viewing>>
  BY DEF ResolveTorrent, Failed, Proceeds
<1>1. IsTorrent(asked.source) /\ NeedsEngine(asked.source, asked.player) /\ OneForm(asked.source)
        /\ asked.source \in Streams
  BY DEF ResolveTorrent, PlanKept, NeedsEngine
<1>2. CASE preparing' = [at |-> "failed"]
  BY <1>0, <1>1, <1>2 DEF PreparationInv, PlanKept, DeliveredAsPlanned
<1>3. ASSUME NEW listed, NEW files \in [listed -> 0 .. MaxLength],
             preparing' = [at |-> "file", resume |-> preparing.resume, files |-> files]
      PROVE  PreparationInv'
  <2>1. preparing'.at = "file" /\ preparing'.resume = preparing.resume /\ preparing'.files = files
    BY <1>3
  <2>2. files \in [DOMAIN files -> 0 .. MaxLength]
    OBVIOUS
  <2>3. preparing.resume = IF asked.title = "given" THEN ResumePosition(viewing) ELSE 0
    BY DEF ResolveTorrent, PlanKept
  <2> QED BY <1>0, <1>1, <2>1, <2>2, <2>3 DEF PreparationInv, PlanKept, DeliveredAsPlanned, NeedsEngine, ResumePosition,
                                        OneForm, IsTorrent, HasUrl
<1> QED BY <1>2, <1>3 DEF ResolveTorrent, Failed, Proceeds

LEMMA CreateKeeps == PlanKept /\ CreateTicket => PreparationInv'
<1> SUFFICES ASSUME PlanKept, CreateTicket PROVE PreparationInv'
  OBVIOUS
<1> DEFINE s == asked.source
           p == asked.player
<1>1. /\ UNCHANGED <<asked, viewing>> /\ IsTorrent(s) /\ NeedsEngine(s, p) /\ OneForm(s) /\ s \in Streams
      /\ preparing.files \in [DOMAIN preparing.files -> 0 .. MaxLength]
      /\ preparing.resume = IF asked.title = "given" THEN ResumePosition(viewing) ELSE 0
  BY DEF CreateTicket, Failed, Proceeds, PlanKept
<1>2. CASE preparing' = [at |-> "failed"]
  BY <1>1, <1>2 DEF PreparationInv, PlanKept, DeliveredAsPlanned
<1>3. ASSUME NEW f \in SelectFile(asked, preparing.files), preparing.files[f] # 0,
             preparing' = [at |-> "ready", delivery |-> "MediaService", files |-> preparing.files,
                           file |-> f, resume |-> preparing.resume]
      PROVE  PreparationInv'
  <2>1. /\ preparing'.at = "ready" /\ preparing'.delivery = "MediaService"
        /\ preparing'.files = preparing.files /\ preparing'.file = f /\ preparing'.resume = preparing.resume
    BY <1>3
  <2>2. Planned(s, p) = "MediaService" \/ s.scheme = "Magnet:"
    BY <1>1 DEF Planned, IsTorrent, HasUrl, NeedsEngine, OneForm
  <2>3. p.companion \/ ~p.web
    BY <1>1 DEF NeedsEngine
  <2>4. f \in DOMAIN preparing.files
    BY DEF SelectFile
  <2>5. \A g \in DOMAIN preparing.files : preparing.files[g] \in Nat
    BY <1>1, PreparationAssumption
  <2>6. preparing.files[f] > 0
    BY <1>3, <2>4, <2>5
  <2>7. /\ asked.index \in {NoIndex, f}
        /\ asked.index = NoIndex => s.index \in {NoIndex, f}
    BY DEF SelectFile, ChosenIndex
  <2>8. asked.index = NoIndex /\ s.index = NoIndex =>
          \A g \in DOMAIN preparing.files : preparing.files[g] <= preparing.files[f]
    BY <2>4, <2>5 DEF SelectFile, ChosenIndex
  <2>9. /\ preparing.resume \in {0, viewing.position}
        /\ viewing.completed \/ viewing.seen = "most" \/ asked.title # "given" => preparing.resume = 0
    BY <1>1 DEF ResumePosition
  <2> QED BY <1>1, <2>1, <2>2, <2>3, <2>6, <2>7, <2>8, <2>9 DEF PreparationInv, PlanKept, DeliveredAsPlanned
<1> QED BY <1>2, <1>3 DEF CreateTicket, Failed, Proceeds

\* Whatever any client asks for, of any stream and any torrent, what is delivered is what
\* the plan announced, and what the player can open, from where the viewing stopped.
THEOREM PlansAreKept == PreparationSpec => []DeliveredAsPlanned
<1>1. PreparationInv /\ [PreparationNext]_preparationVars => PreparationInv'
  <2> SUFFICES ASSUME PreparationInv, [PreparationNext]_preparationVars PROVE PreparationInv'
    OBVIOUS
  <2>1. CASE UNCHANGED preparationVars
    <3>1. UNCHANGED <<asked, viewing, preparing>>
      BY <2>1 DEF preparationVars
    <3> QED BY <3>1 DEF PreparationInv, PlanKept, DeliveredAsPlanned
  <2>2. CASE PreparationNext
    BY <2>2, PlanKeeps, DeliverKeeps, NoEngineKeeps, ResolveKeeps, CreateKeeps
       DEF PreparationNext, PreparationInv
  <2> QED BY <2>1, <2>2
<1>2. PreparationInv => DeliveredAsPlanned
  BY DEF PreparationInv
<1> QED BY <1>1, <1>2, PreparationInitHolds, PTL DEF PreparationSpec

-----------------------------------------------------------------------------
(* The remote *)

Reporters == {"update", "close"}

SocketRecord ==
  [server : Nat, at : {"closed", "connected", "subscribed", "open"}, inbox : Seq(Nat), shown : Nat]

RemoteTypes ==
  /\ server \in Nat /\ servers \in Nat /\ server <= servers
  /\ queue \in Seq(Nat) /\ keys \in Nat /\ pressed \in Nat
  /\ player \in Nat /\ states \in Nat /\ alone \in BOOLEAN
  /\ reports \in [Reporters -> [state : Nat, at : {"idle", "made", "stored"}]]
  /\ socket \in [Sockets -> SocketRecord]
  /\ \A s \in Sockets : /\ socket[s].server <= servers
                        /\ socket[s].at # "closed" => socket[s].server # 0
                        /\ socket[s].at \notin {"subscribed", "open"} => socket[s].inbox = <<>>

\* The queue holds, in order, the keys after the last pressed one that were not skipped.
QueueInOrder ==
  /\ pressed <= keys
  /\ \A i \in 1 .. Len(queue) : pressed < queue[i] /\ queue[i] <= keys
  /\ \A i, j \in 1 .. Len(queue) : i < j => queue[i] < queue[j]
  /\ \A k \in Nat : pressed < k /\ k <= keys => k \in skipped \/ \E i \in 1 .. Len(queue) : queue[i] = k

Pending == \E p \in Reporters : reports[p].at = "stored"

\* The report that is being sent is the player's state, when no other one is.
StoredIsPlayers ==
  alone => \A p \in Reporters : reports[p].at = "stored" =>
             /\ reports[p].state = player
             /\ \A q \in Reporters : reports[q].at = "stored" => q = p

\* What s shows when it has read its inbox, or will start from.
Fresh(s) ==
  /\ socket[s].server = server /\ socket[s].at \in {"subscribed", "open"} /\ alone /\ ~Pending
  => IF socket[s].inbox # <<>> THEN socket[s].inbox[Len(socket[s].inbox)] = player
     ELSE socket[s].at = "open" => socket[s].shown = player

RemoteInv ==
  RemoteTypes /\ QueueInOrder /\ StoredIsPlayers /\ \A s \in Sockets : Fresh(s)

USE RemoteAssumption

LEMMA FreshShows == RemoteInv => SocketsUpToDate
  BY DEF RemoteInv, RemoteTypes, Fresh, Pending, SocketsUpToDate, Reporters

LEMMA RemoteInitHolds == RemoteInit => RemoteInv
  BY DEF RemoteInit, RemoteInv, RemoteTypes, QueueInOrder, StoredIsPlayers, Fresh, Pending, Closed, Idle,
         SocketRecord, Reporters

-----------------------------------------------------------------------------

LEMMA PushKeeps ==
  ASSUME RemoteTypes, QueueInOrder, Push, UNCHANGED <<pressed, skipped>>
  PROVE  QueueInOrder' /\ queue' \in Seq(Nat) /\ keys' \in Nat
<1> USE DEF RemoteTypes
<1>1. keys' = keys + 1 /\ queue' = Append(queue, keys + 1)
  BY DEF Push
<1>2. queue' \in Seq(Nat) /\ keys' \in Nat /\ Len(queue') = Len(queue) + 1 /\ queue'[Len(queue) + 1] = keys + 1
        /\ \A i \in 1 .. Len(queue) : queue'[i] = queue[i]
  BY <1>1
<1>3. \A i \in 1 .. Len(queue) : queue[i] \in Nat
  OBVIOUS
<1>4. Len(queue) \in Nat
  OBVIOUS
<1>5. \A i \in 1 .. Len(queue') : i \in 1 .. Len(queue) \/ i = Len(queue) + 1
  BY <1>2, <1>4
<1>6. \A i \in 1 .. Len(queue') : pressed' < queue'[i] /\ queue'[i] <= keys'
  BY <1>1, <1>2, <1>3, <1>4, <1>5 DEF QueueInOrder
<1>7. \A i, j \in 1 .. Len(queue') : i < j => queue'[i] < queue'[j]
  BY <1>1, <1>2, <1>3, <1>4, <1>5 DEF QueueInOrder
<1>8. \A k \in Nat : pressed' < k /\ k <= keys' =>
        k \in skipped' \/ \E i \in 1 .. Len(queue') : queue'[i] = k
  <2> TAKE k \in Nat
  <2> HAVE pressed' < k /\ k <= keys'
  <2>1. CASE k = keys + 1
    BY <1>2, <1>4, <2>1
  <2>2. CASE k <= keys
    <3>1. k \in skipped \/ \E i \in 1 .. Len(queue) : queue[i] = k
      BY <2>2 DEF QueueInOrder
    <3> QED BY <1>2, <1>4, <3>1
  <2> QED BY <1>1, <2>1, <2>2
<1> QED BY <1>1, <1>2, <1>6, <1>7, <1>8 DEF QueueInOrder

LEMMA TakenKeeps ==
  ASSUME RemoteTypes, QueueInOrder, queue' = <<>>, keys' = keys, pressed' \in Nat,
         \/ pressed' = pressed /\ skipped' = skipped \union ToSet(queue)
         \/ queue # <<>> /\ pressed' = Last(queue) /\ skipped' = skipped
  PROVE  QueueInOrder'
<1> USE DEF RemoteTypes
<1>1. CASE pressed' = pressed /\ skipped' = skipped \union ToSet(queue)
  <2>1. Len(queue') = 0
    OBVIOUS
  <2>2. \A i \in 1 .. Len(queue) : queue[i] \in skipped'
    BY <1>1 DEF ToSet
  <2>3. \A k \in Nat : pressed < k /\ k <= keys => k \in skipped'
    BY <1>1, <2>2 DEF QueueInOrder
  <2>4. pressed' <= keys'
    BY <1>1 DEF QueueInOrder
  <2> QED BY <1>1, <2>1, <2>3, <2>4 DEF QueueInOrder
<1>2. CASE queue # <<>> /\ pressed' = Last(queue) /\ skipped' = skipped
  <2>1. Len(queue) \in 1 .. Len(queue) /\ pressed' = queue[Len(queue)]
    BY <1>2 DEF Last
  <2>2. \A i \in 1 .. Len(queue) : queue[i] \in Nat /\ queue[i] <= pressed'
    BY <2>1 DEF QueueInOrder
  <2>3. pressed < pressed' /\ pressed' <= keys
    BY <2>1 DEF QueueInOrder
  <2>4. \A k \in Nat : pressed' < k /\ k <= keys => k \in skipped
    BY <2>2, <2>3 DEF QueueInOrder
  <2>5. Len(queue') = 0 /\ keys' = keys /\ skipped' = skipped
    BY <1>2
  <2> QED BY <2>3, <2>4, <2>5 DEF QueueInOrder
<1> QED BY <1>1, <1>2

LEMMA KeysKeep ==
  ASSUME RemoteInv, Remote \/ WebStatus \/ \E s \in Sockets : Accept(s)
  PROVE  RemoteInv'
<1> USE DEF RemoteInv
<1>1. UNCHANGED <<server, servers, skipped, player, states, reports, socket, alone>>
  BY DEF Remote, WebStatus, Accept
<1>2. QueueInOrder' /\ queue' \in Seq(Nat) /\ keys' \in Nat /\ pressed' \in Nat
  <2>1. CASE WebStatus
    <3>1. queue' = <<>> /\ keys' = keys /\ queue # <<>> /\ pressed' = Last(queue)
      BY <2>1 DEF WebStatus, Left
    <3>2. pressed' \in Nat
      BY <3>1 DEF Last, RemoteTypes
    <3> QED BY <1>1, <3>1, <3>2, TakenKeeps DEF RemoteTypes
  <2>2. CASE Remote \/ \E s \in Sockets : Accept(s)
    <3>1. Push /\ pressed' = pressed
      BY <2>2 DEF Remote, Accept
    <3> QED BY <1>1, <3>1, PushKeeps DEF RemoteTypes
  <2> QED BY <2>1, <2>2
<1>3. RemoteTypes'
  BY <1>1, <1>2 DEF RemoteTypes
<1> QED BY <1>1, <1>2, <1>3 DEF StoredIsPlayers, Fresh, Pending

LEMMA ServerKeeps ==
  ASSUME RemoteInv, WebStart \/ WebStop
  PROVE  RemoteInv'
<1> USE DEF RemoteInv
<1>1. UNCHANGED <<keys, pressed, player, states, reports, socket, alone>>
  BY DEF WebStart, WebStop
<1>2. QueueInOrder' /\ queue' \in Seq(Nat)
  <2>1. CASE Drain
    BY <1>1, <2>1, TakenKeeps DEF Drain, RemoteTypes
  <2>2. CASE UNCHANGED <<queue, skipped>>
    BY <1>1, <2>2 DEF QueueInOrder, RemoteTypes
  <2> QED BY <2>1, <2>2 DEF WebStart, WebStop
<1>3. /\ server' \in Nat /\ servers' \in Nat /\ servers <= servers' /\ server' <= servers'
      /\ server' = server \/ server' = 0 \/ servers < server'
  BY DEF WebStart, WebStop, RemoteTypes
<1>4. RemoteTypes'
  <2>1. \A s \in Sockets : socket[s].server \in Nat
    BY DEF RemoteTypes, SocketRecord
  <2>2. \A s \in Sockets : socket[s].server <= servers'
    BY <1>3, <2>1 DEF RemoteTypes
  <2> QED BY <1>1, <1>2, <1>3, <2>2 DEF RemoteTypes
<1>5. \A s \in Sockets : Fresh(s)'
  <2> TAKE s \in Sockets
  <2>1. socket[s].server \in Nat /\ socket[s].server <= servers
          /\ (socket[s].at # "closed" => socket[s].server # 0)
    BY DEF RemoteTypes, SocketRecord
  <2>2. server' = server \/ socket[s].at = "closed" \/ socket[s].server # server'
    BY <1>3, <2>1 DEF RemoteTypes
  <2> QED BY <1>1, <2>2 DEF Fresh, Pending
<1> QED BY <1>1, <1>2, <1>4, <1>5 DEF StoredIsPlayers

LEMMA ReportsKeep ==
  ASSUME RemoteInv, NEW p \in Reporters, PlayerState(p) \/ Stores(p)
  PROVE  RemoteInv'
<1> USE DEF RemoteInv
<1>1. UNCHANGED <<server, servers, queue, keys, pressed, skipped, socket>>
  BY DEF PlayerState, Stores
<1>2. reports[p].state \in Nat
  BY DEF RemoteTypes
<1>3. CASE PlayerState(p)
  <2>1. states' \in Nat /\ UNCHANGED <<player, alone>>
    BY <1>3 DEF PlayerState, RemoteTypes
  <2> DEFINE made == [state |-> IF p = "close" THEN 0 ELSE states', at |-> "made"]
  <2>2. made \in [state : Nat, at : {"idle", "made", "stored"}] /\ made.at = "made"
    BY <2>1
  <2>3. reports' = [reports EXCEPT ![p] = made] /\ reports[p].at = "idle"
    BY <1>3 DEF PlayerState
  <2> HIDE DEF made
  <2>4. RemoteTypes'
    BY <1>1, <2>1, <2>2, <2>3 DEF RemoteTypes
  <2>5. \A q \in Reporters : reports'[q] = reports[q] \/ (reports'[q].at # "stored" /\ reports[q].at # "stored")
    BY <2>2, <2>3 DEF RemoteTypes
  <2>6. StoredIsPlayers' /\ Pending' = Pending
    BY <2>1, <2>5 DEF StoredIsPlayers, Pending
  <2>7. QueueInOrder'
    BY <1>1 DEF QueueInOrder
  <2> QED BY <1>1, <2>1, <2>4, <2>6, <2>7 DEF Fresh
<1>4. CASE Stores(p)
  <2>1. /\ player' = reports[p].state /\ states' = states
        /\ reports' = [reports EXCEPT ![p].at = "stored"]
        /\ alone' = \A q \in Reporters \ {p} : reports[q].at # "stored"
    BY <1>4 DEF Stores, RemoteTypes
  <2>2. alone' \in BOOLEAN
    BY <2>1
  <2>3. /\ reports' \in [Reporters -> [state : Nat, at : {"idle", "made", "stored"}]]
        /\ reports'[p].at = "stored" /\ reports'[p].state = reports[p].state
        /\ \A q \in Reporters \ {p} : reports'[q] = reports[q]
    BY <2>1 DEF RemoteTypes
  <2>4. RemoteTypes'
    BY <1>1, <1>2, <2>1, <2>2, <2>3 DEF RemoteTypes
  <2>5. StoredIsPlayers' /\ Pending'
    BY <2>1, <2>3 DEF StoredIsPlayers, Pending
  <2>6. QueueInOrder'
    BY <1>1 DEF QueueInOrder
  <2> QED BY <2>4, <2>5, <2>6 DEF Fresh
<1> QED BY <1>3, <1>4

LEMMA InboxEnds ==
  ASSUME NEW x \in Seq(Nat), NEW state \in Nat
  PROVE  /\ Inbox(x, state) \in Seq(Nat) /\ Inbox(x, state) # <<>>
         /\ Inbox(x, state)[Len(Inbox(x, state))] = state
<1>1. CASE Len(x) = UpdateBuffer
  <2>1. Tail(x) \in Seq(Nat) /\ Len(Tail(x)) \in Nat
    BY <1>1
  <2> HIDE DEF Inbox
  <2>2. Inbox(x, state) = Append(Tail(x), state)
    BY <1>1 DEF Inbox
  <2> QED BY <2>1, <2>2
<1>2. CASE Len(x) # UpdateBuffer
  <2>1. Inbox(x, state) = Append(x, state)
    BY <1>2 DEF Inbox
  <2> QED BY <2>1
<1> QED BY <1>1, <1>2

LEMMA EmptyLength == \A y \in Seq(Nat) : Len(y) \in Nat /\ (y = <<>> <=> Len(y) = 0)
  OBVIOUS

LEMMA TailEnds ==
  ASSUME NEW x \in Seq(Nat), x # <<>>
  PROVE  IF Tail(x) # <<>> THEN Tail(x)[Len(Tail(x))] = x[Len(x)] ELSE Head(x) = x[Len(x)]
<1>1. Len(x) \in Nat \ {0} /\ Len(Tail(x)) = Len(x) - 1 /\ Tail(x) \in Seq(Nat) /\ Head(x) = x[1]
  OBVIOUS
<1>2. \A i \in 1 .. Len(x) - 1 : Tail(x)[i] = x[i + 1]
  OBVIOUS
<1> DEFINE y == Tail(x)
           n == Len(x)
<1>3. y \in Seq(Nat) /\ Len(y) = n - 1 /\ n \in Nat \ {0} /\ \A i \in 1 .. n - 1 : y[i] = x[i + 1]
  BY <1>1, <1>2
<1> HIDE DEF y, n
<1>4. CASE y = <<>>
  <2>1. Len(y) = 0
    BY <1>3, <1>4, EmptyLength
  <2>2. n = 1
    BY <1>3, <2>1
  <2> QED BY <1>1, <1>4, <2>2 DEF n, y
<1>5. CASE y # <<>>
  <2>1. Len(y) # 0
    BY <1>3, <1>5, EmptyLength
  <2>2. n - 1 \in 1 .. n - 1
    BY <1>3, <2>1
  <2>3. y[n - 1] = x[n]
    BY <1>3, <2>2
  <2>4. y[Len(y)] = x[n]
    BY <1>3, <2>3
  <2> QED BY <1>5, <2>4 DEF n, y
<1> QED BY <1>4, <1>5

LEMMA PublishKeeps ==
  ASSUME RemoteInv, NEW p \in Reporters, Publish(p)
  PROVE  RemoteInv'
<1> USE DEF RemoteInv
<1>1. /\ reports[p].at = "stored" /\ reports' = [reports EXCEPT ![p] = Idle]
      /\ UNCHANGED <<server, servers, queue, keys, pressed, skipped, player, states, alone>>
  BY DEF Publish
<1>2. /\ reports' \in [Reporters -> [state : Nat, at : {"idle", "made", "stored"}]]
      /\ reports'[p].at = "idle" /\ \A q \in Reporters \ {p} : reports'[q] = reports[q]
  BY <1>1 DEF RemoteTypes, Idle
<1> DEFINE hears(s) == server # 0 /\ socket[s].server = server /\ socket[s].at \in {"subscribed", "open"}
           heard(s) == [socket[s] EXCEPT !.inbox = Inbox(socket[s].inbox, reports[p].state)]
<1>3. socket' = [s \in Sockets |-> IF hears(s) THEN heard(s) ELSE socket[s]]
  BY DEF Publish
<1>4. \A s \in Sockets :
        /\ heard(s) \in SocketRecord
        /\ heard(s).server = socket[s].server /\ heard(s).at = socket[s].at
        /\ heard(s).inbox # <<>> /\ heard(s).inbox[Len(heard(s).inbox)] = reports[p].state
  <2> TAKE s \in Sockets
  <2>1. socket[s] \in SocketRecord /\ socket[s].inbox \in Seq(Nat) /\ reports[p].state \in Nat
    BY DEF RemoteTypes, SocketRecord
  <2> DEFINE x == Inbox(socket[s].inbox, reports[p].state)
  <2>2. x \in Seq(Nat) /\ x # <<>> /\ x[Len(x)] = reports[p].state
    BY <2>1, InboxEnds
  <2> HIDE DEF x
  <2>3. [socket[s] EXCEPT !.inbox = x] \in SocketRecord
          /\ [socket[s] EXCEPT !.inbox = x].server = socket[s].server
          /\ [socket[s] EXCEPT !.inbox = x].at = socket[s].at
          /\ [socket[s] EXCEPT !.inbox = x].inbox = x
    BY <2>1, <2>2 DEF SocketRecord
  <2>4. heard(s) = [socket[s] EXCEPT !.inbox = x]
    BY DEF x
  <2> HIDE DEF heard
  <2> QED BY <2>2, <2>3, <2>4
<1> HIDE DEF heard
<1>5. \A s \in Sockets : IF hears(s) THEN socket'[s] = heard(s) ELSE socket'[s] = socket[s]
  BY <1>3
<1>6. socket' \in [Sockets -> SocketRecord]
  BY <1>3, <1>4 DEF RemoteTypes
<1>7. RemoteTypes'
  <2>1. \A s \in Sockets : /\ socket'[s].server = socket[s].server /\ socket'[s].at = socket[s].at
                           /\ socket'[s].at \notin {"subscribed", "open"} => socket'[s].inbox = socket[s].inbox
    BY <1>4, <1>5
  <2> QED BY <1>1, <1>2, <1>6, <2>1 DEF RemoteTypes
<1>8. StoredIsPlayers'
  BY <1>1, <1>2 DEF StoredIsPlayers
<1>9. \A s \in Sockets : Fresh(s)'
  <2> TAKE s \in Sockets
  <2>1. socket[s].at # "closed" => socket[s].server # 0
    BY DEF RemoteTypes
  <2>2. CASE hears(s)
    <3>1. alone => reports[p].state = player
      BY <1>1 DEF StoredIsPlayers
    <3>2. socket'[s].inbox # <<>> /\ socket'[s].inbox[Len(socket'[s].inbox)] = reports[p].state
      BY <1>4, <1>5, <2>2
    <3> QED BY <1>1, <3>1, <3>2 DEF Fresh
  <2>3. CASE ~hears(s)
    <3>1. socket'[s] = socket[s]
      BY <1>5, <2>3
    <3> QED BY <1>1, <2>1, <2>3, <3>1 DEF Fresh
  <2> QED BY <2>2, <2>3
<1>10. QueueInOrder'
  BY <1>1 DEF QueueInOrder
<1> QED BY <1>7, <1>8, <1>9, <1>10

LEMMA SocketsKeep ==
  ASSUME RemoteInv, NEW s \in Sockets, Socket(s) \/ Authorize(s) \/ SendState(s) \/ Update(s) \/ Close(s)
  PROVE  RemoteInv'
<1> USE DEF RemoteInv
<1>1. UNCHANGED <<server, servers, queue, keys, pressed, skipped, player, states, reports, alone>>
  BY DEF Socket, Authorize, SendState, Update, Close
<1>2. socket[s] \in SocketRecord /\ Fresh(s) /\ socket[s].server <= servers
        /\ (socket[s].at # "closed" => socket[s].server # 0)
        /\ (socket[s].at \notin {"subscribed", "open"} => socket[s].inbox = <<>>)
  BY DEF RemoteTypes
<1>3. ASSUME NEW new \in SocketRecord, socket' = [socket EXCEPT ![s] = new],
             new.server <= servers, new.at # "closed" => new.server # 0,
             new.at \notin {"subscribed", "open"} => new.inbox = <<>>,
             /\ new.server = server /\ new.at \in {"subscribed", "open"} /\ alone /\ ~Pending
             => IF new.inbox # <<>> THEN new.inbox[Len(new.inbox)] = player
                ELSE new.at = "open" => new.shown = player
      PROVE  RemoteInv'
  <2>1. socket'[s] = new /\ \A r \in Sockets \ {s} : socket'[r] = socket[r]
    BY <1>3 DEF RemoteTypes
  <2>2. RemoteTypes'
    BY <1>1, <1>3, <2>1 DEF RemoteTypes
  <2>3. Pending' = Pending /\ QueueInOrder' /\ StoredIsPlayers'
    BY <1>1 DEF Pending, QueueInOrder, StoredIsPlayers
  <2>4. \A r \in Sockets : Fresh(r)'
    <3> TAKE r \in Sockets
    <3>1. CASE r = s
      BY <1>1, <1>3, <2>1, <2>3, <3>1 DEF Fresh
    <3>2. CASE r # s
      <4>1. socket'[r] = socket[r]
        BY <2>1, <3>2
      <4> QED BY <1>1, <2>3, <4>1 DEF Fresh
    <3> QED BY <3>1, <3>2
  <2> QED BY <2>2, <2>3, <2>4
<1>4. <<>> \in Seq(Nat)
  OBVIOUS
<1>5. CASE Socket(s)
  <2> DEFINE new == [Closed EXCEPT !.server = server, !.at = "connected"]
  <2>1. new \in SocketRecord /\ new.server = server /\ new.at = "connected" /\ new.inbox = <<>>
    BY <1>4 DEF Closed, SocketRecord, RemoteTypes
  <2>2. socket' = [socket EXCEPT ![s] = new] /\ server # 0
    BY <1>5 DEF Socket
  <2> HIDE DEF new
  <2> QED BY <1>3, <2>1, <2>2 DEF RemoteTypes
<1>6. CASE Close(s)
  <2>1. Closed \in SocketRecord /\ Closed.at = "closed" /\ Closed.server = 0 /\ Closed.inbox = <<>>
    BY <1>4 DEF Closed, SocketRecord
  <2>2. socket' = [socket EXCEPT ![s] = Closed]
    BY <1>6 DEF Close
  <2>3. Closed.server <= servers /\ Closed.at \notin {"subscribed", "open"}
    BY <2>1 DEF RemoteTypes
  <2> HIDE DEF RemoteInv
  <2> QED BY ONLY <1>3, <2>1, <2>2, <2>3
<1>7. CASE Authorize(s)
  <2> DEFINE new == [socket[s] EXCEPT !.at = "subscribed"]
  <2>1. new \in SocketRecord /\ new.server = socket[s].server /\ new.at = "subscribed"
          /\ new.inbox = socket[s].inbox /\ socket[s].at = "connected"
    BY <1>2, <1>7 DEF SocketRecord, Authorize
  <2>2. socket' = [socket EXCEPT ![s] = new]
    BY <1>7 DEF Authorize
  <2> HIDE DEF new
  <2> QED BY <1>2, <1>3, <2>1, <2>2
<1>8. CASE SendState(s)
  <2> DEFINE new == [socket[s] EXCEPT !.at = "open", !.shown = player]
  <2>1. new \in SocketRecord /\ new.server = socket[s].server /\ new.at = "open"
          /\ new.inbox = socket[s].inbox /\ socket[s].at = "subscribed" /\ new.shown = player
    BY <1>2, <1>8 DEF SocketRecord, SendState, RemoteTypes
  <2>2. socket' = [socket EXCEPT ![s] = new]
    BY <1>8 DEF SendState
  <2> HIDE DEF new
  <2> QED BY <1>2, <1>3, <2>1, <2>2 DEF Fresh
<1>9. CASE Update(s)
  <2> DEFINE x == socket[s].inbox
             new == [socket[s] EXCEPT !.inbox = Tail(x), !.shown = Head(x)]
  <2>1. x \in Seq(Nat) /\ x # <<>> /\ socket[s].at = "open"
    BY <1>2, <1>9 DEF SocketRecord, Update
  <2>2. Tail(x) \in Seq(Nat) /\ Head(x) \in Nat /\ Len(Tail(x)) = Len(x) - 1 /\ Len(x) \in Nat
    BY <2>1
  <2>3. IF Tail(x) # <<>> THEN Tail(x)[Len(Tail(x))] = x[Len(x)] ELSE Head(x) = x[Len(x)]
    BY <2>1, TailEnds
  <2>4. socket' = [socket EXCEPT ![s] = new]
    BY <1>9 DEF Update
  <2> HIDE DEF x
  <2>5. new \in SocketRecord /\ new.server = socket[s].server /\ new.at = "open"
          /\ new.inbox = Tail(x) /\ new.shown = Head(x)
    BY <1>2, <2>1, <2>2 DEF SocketRecord
  <2> HIDE DEF new
  <2>6. socket[s].server = server /\ alone /\ ~Pending => x[Len(x)] = player
    BY <1>2, <2>1 DEF Fresh, x
  <2> QED BY <1>2, <1>3, <2>1, <2>3, <2>4, <2>5, <2>6
<1> QED BY <1>5, <1>6, <1>7, <1>8, <1>9

LEMMA RemoteStep == RemoteInv /\ [RemoteNext]_remoteVars => RemoteInv'
<1> SUFFICES ASSUME RemoteInv, [RemoteNext]_remoteVars PROVE RemoteInv'
  OBVIOUS
<1>1. CASE UNCHANGED remoteVars
  BY <1>1 DEF remoteVars, RemoteInv, RemoteTypes, QueueInOrder, StoredIsPlayers, Fresh, Pending
<1>2. CASE RemoteNext
  <2>1. ASSUME NEW p \in Reporters, PlayerState(p) \/ Stores(p) \/ Publish(p) PROVE RemoteInv'
    BY <2>1, ReportsKeep, PublishKeeps
  <2>2. ASSUME NEW s \in Sockets, Socket(s) \/ Authorize(s) \/ SendState(s) \/ Update(s) \/ Close(s)
        PROVE  RemoteInv'
    BY <2>2, SocketsKeep
  <2>3. CASE Remote \/ WebStatus \/ \E s \in Sockets : Accept(s)
    BY <2>3, KeysKeep
  <2>4. CASE WebStart \/ WebStop
    BY <2>4, ServerKeeps
  <2> QED BY <1>2, <2>1, <2>2, <2>3, <2>4 DEF RemoteNext, Reporters
<1> QED BY <1>1, <1>2

LEMMA RemoteInvariant == RemoteSpec => []RemoteInv
  BY RemoteInitHolds, RemoteStep, PTL DEF RemoteSpec

\* Of any number of browsers, over any number of starts and stops of the server, a
\* socket that has read everything shows the player's state, when the TV's last two
\* reports did not overlap: a small buffer that drops states never drops the last.
THEOREM SocketsShowPlayer == RemoteSpec => []SocketsUpToDate
  BY RemoteInvariant, FreshShows, PTL

\* The TV presses every accepted key once and in order, whatever the bound of the queue.
THEOREM KeysInOrder == RemoteSpec => KeysPressedOnce
<1> DEFINE A == WebStatus => /\ \A i \in 1 .. Len(queue) : queue[i] > pressed
                             /\ (pressed + 1) .. pressed' \subseteq ToSet(queue) \union skipped
<1>1. RemoteInv /\ [RemoteNext]_remoteVars => [A]_remoteVars
  <2> SUFFICES ASSUME RemoteInv, WebStatus PROVE A
    OBVIOUS
  <2> USE DEF RemoteInv, RemoteTypes
  <2>1. queue # <<>> /\ pressed' = queue[Len(queue)] /\ Len(queue) \in 1 .. Len(queue)
    BY DEF WebStatus, Last
  <2>2. pressed' \in Nat /\ pressed' <= keys
    BY <2>1 DEF QueueInOrder
  <2>3. \A i \in 1 .. Len(queue) : queue[i] > pressed
    BY DEF QueueInOrder
  <2>4. \A k \in (pressed + 1) .. pressed' : k \in ToSet(queue) \union skipped
    <3> TAKE k \in (pressed + 1) .. pressed'
    <3>1. k \in Nat /\ pressed < k /\ k <= keys
      BY <2>2
    <3> QED BY <3>1 DEF QueueInOrder, ToSet
  <2> QED BY <2>3, <2>4
<1> HIDE DEF A
<1>2. RemoteSpec => [][A]_remoteVars
  BY <1>1, RemoteInvariant, PTL DEF RemoteSpec
<1> QED BY <1>2 DEF KeysPressedOnce, A

-----------------------------------------------------------------------------
(* Torrents and tickets *)

MediaTypes ==
  /\ embedded \in BOOLEAN
  /\ torrents \in [Torrents -> TorrentRecord \union {NoTorrent}]
  /\ tickets \in [Tokens -> TicketRecord \union {NoTicket}]
  /\ call \in [MediaCalls -> CallRecord \union {NoCall}]
  /\ \A c \in MediaCalls : call[c] # NoCall /\ call[c].op \in {"ticket", "play"} => call[c].file \in Files

\* What is not fetched for a file was taken by another call.
Serving(t, f) ==
  \/ <<t, f>> \in disturbed
  \/ torrents[t] # NoTorrent /\ ~torrents[t].paused /\ f \in torrents[t].files

\* A removal of t has forgotten it, and drops its tickets next.
Sweeping(t) ==
  \E d \in MediaCalls : call[d] # NoCall /\ call[d].op = "remove" /\ call[d].torrent = t
                        /\ call[d].at = "second"

TicketServed(k) ==
  tickets[k] # NoTicket =>
    /\ torrents[tickets[k].torrent] # NoTorrent \/ Sweeping(tickets[k].torrent) \/ k \in outlived
    /\ embedded => Serving(tickets[k].torrent, tickets[k].file)

\* A ticket that is not inserted yet knows of the removals of its torrent.
CallServed(c) ==
  call[c] # NoCall /\ call[c].op = "ticket" =>
    /\ \/ torrents[call[c].torrent] # NoTorrent
       \/ call[c].removed = "yes"
       \/ call[c].removed = "forgotten" /\ Sweeping(call[c].torrent)
    /\ embedded /\ call[c].at = "insert" => Serving(call[c].torrent, call[c].file)

MediaInv ==
  /\ MediaTypes
  /\ \A k \in Tokens : TicketServed(k)
  /\ \A c \in MediaCalls : CallServed(c)

USE AbsenceAssumption

LEMMA ServedImplies == MediaInv => TicketsServe
  BY DEF MediaInv, MediaTypes, TicketServed, Sweeping, Serving, TicketsServe, TicketsNameTorrents,
         TicketedIsFetched

-----------------------------------------------------------------------------

\* One call begins, goes on or returns, no removal has been at its second step
\* and no ticket at its insertion, before or after.
LEMMA OtherCallKeeps ==
  ASSUME MediaInv, UNCHANGED <<embedded, torrents, tickets, disturbed, outlived>>,
         NEW c \in MediaCalls, NEW next \in CallRecord \union {NoCall},
         call' = [call EXCEPT ![c] = next],
         call[c] = NoCall \/ call[c].op # "remove" \/ call[c].at # "second",
         next # NoCall /\ next.op \in {"ticket", "play"} => next.file \in Files,
         next # NoCall /\ next.op = "ticket" =>
            \/ torrents[next.torrent] # NoTorrent /\ (embedded => next.at # "insert")
            \/ /\ call[c] # NoCall /\ call[c].op = "ticket"
               /\ next.torrent = call[c].torrent /\ next.removed = call[c].removed
               /\ next.at # "insert"
  PROVE  MediaInv'
<1>1. MediaTypes'
  BY DEF MediaInv, MediaTypes
<1>2. \A t \in Torrents : Sweeping(t) => Sweeping(t)'
  <2> TAKE t \in Torrents
  <2> HAVE Sweeping(t)
  <2>1. PICK d \in MediaCalls : call[d] # NoCall /\ call[d].op = "remove" /\ call[d].torrent = t
                                /\ call[d].at = "second"
    BY DEF Sweeping
  <2>2. call'[d] = call[d]
    BY <2>1 DEF MediaInv, MediaTypes
  <2> QED BY <2>1, <2>2 DEF Sweeping
<1>3. \A k \in Tokens : TicketServed(k)'
  <2> TAKE k \in Tokens
  <2>1. TicketServed(k)
    BY DEF MediaInv
  <2>2. tickets[k] # NoTicket => tickets[k].torrent \in Torrents
    BY DEF MediaInv, MediaTypes, TicketRecord
  <2> QED BY <2>1, <2>2, <1>2 DEF TicketServed, Serving
<1>4. \A d \in MediaCalls : CallServed(d)'
  <2> TAKE d \in MediaCalls
  <2>1. CallServed(d) /\ CallServed(c)
    BY DEF MediaInv
  <2>2. call[d] # NoCall => call[d].torrent \in Torrents
    BY DEF MediaInv, MediaTypes, CallRecord
  <2>3. CASE d # c
    <3>1. call'[d] = call[d]
      BY <2>3 DEF MediaInv, MediaTypes
    <3> QED BY <2>1, <2>2, <3>1, <1>2 DEF CallServed, Serving
  <2>4. CASE d = c
    <3>1. call'[c] = next
      BY DEF MediaInv, MediaTypes
    <3> QED BY <2>1, <2>2, <2>4, <3>1, <1>2 DEF CallServed, Serving
  <2> QED BY <2>3, <2>4
<1> QED BY <1>1, <1>3, <1>4 DEF MediaInv

LEMMA CallsKeep ==
  ASSUME MediaInv, UNCHANGED embedded, NEW c \in MediaCalls,
         \/ \E t \in Torrents :
              Add(c, t) \/ RemoveTorrent(c, t) \/ \E f \in Files : Prioritize(c, t, f) \/ IssueTicket(c, t, f)
         \/ \E k \in Tokens : Original(c, k) \/ Transcode(c, k)
         \/ AddReturns(c) \/ KeepReads(c) \/ Open(c) \/ FfmpegOpens(c) \/ ReadEnds(c)
  PROVE  MediaInv'
<1> USE DEF MediaInv, MediaTypes
<1>1. ASSUME NEW op \in MediaOps, NEW u \in Torrents, NEW g \in Files \cup {0}, NEW at \in MediaPlaces,
             NEW spelt \in Spellings, BeginsAs(c, op, u, spelt, g, at), UNCHANGED <<torrents, tickets, disturbed, outlived>>,
             op \in {"ticket", "play"} => g \in Files,
             op = "ticket" => u \in Managed /\ (embedded => at # "insert")
      PROVE  MediaInv'
  <2> DEFINE next == [op |-> op, torrent |-> u, spelt |-> spelt, file |-> g, at |-> at,
                      files |-> {}, removed |-> "no"]
  <2>1. next \in CallRecord /\ next # NoCall /\ next.op = op /\ next.file = g /\ next.torrent = u
          /\ next.at = at
    BY DEF CallRecord
  <2>2. call[c] = NoCall /\ call' = [call EXCEPT ![c] = next]
    BY <1>1 DEF BeginsAs
  <2> HIDE DEF next
  <2>3. op = "ticket" => torrents[u] # NoTorrent
    BY <1>1 DEF Managed
  <2> QED BY <1>1, <2>1, <2>2, <2>3, OtherCallKeeps
<1>2. ASSUME Returns(c), UNCHANGED <<torrents, tickets, disturbed, outlived>>,
             call[c] # NoCall => call[c].op # "remove"
      PROVE  MediaInv'
  BY <1>2, OtherCallKeeps DEF Returns
<1>3. ASSUME NEW at \in MediaPlaces, Goes(c, at), UNCHANGED <<torrents, tickets, disturbed, outlived>>,
             call[c] # NoCall, call[c].op \notin {"remove", "ticket", "play"}
      PROVE  MediaInv'
  <2> DEFINE next == [call[c] EXCEPT !.at = at]
  <2>1. next \in CallRecord /\ next.op = call[c].op
    BY <1>3 DEF CallRecord
  <2>2. call' = [call EXCEPT ![c] = next]
    BY <1>3 DEF Goes
  <2> HIDE DEF next
  <2> QED BY <1>3, <2>1, <2>2, OtherCallKeeps
<1>4. ASSUME NEW t \in Torrents, Add(c, t) PROVE MediaInv'
  BY <1>1, <1>4 DEF Add, Begins, MediaOps, MediaPlaces, Spellings
<1>5. CASE AddReturns(c) \/ ReadEnds(c)
  BY <1>2, <1>5 DEF AddReturns, ReadEnds, Active
<1>6. ASSUME NEW t \in Torrents, NEW f \in Files, Prioritize(c, t, f) PROVE MediaInv'
  BY <1>1, <1>6 DEF Prioritize, Begins, MediaOps, MediaPlaces, Spellings
<1>7. ASSUME NEW t \in Torrents, NEW f \in Files, IssueTicket(c, t, f) PROVE MediaInv'
  BY <1>1, <1>7 DEF IssueTicket, Written, MediaOps, MediaPlaces, Spellings
<1>8. ASSUME NEW t \in Torrents, RemoveTorrent(c, t) PROVE MediaInv'
  BY <1>1, <1>8 DEF RemoveTorrent, Written, MediaOps, MediaPlaces, Spellings
<1>9. ASSUME NEW k \in Tokens, Original(c, k) \/ Transcode(c, k) PROVE MediaInv'
  <2>1. tickets[k].torrent \in Torrents /\ tickets[k].file \in Files
    BY <1>9 DEF Original, Transcode, TicketRecord
  <2> QED BY <1>1, <1>9, <2>1 DEF Original, Transcode, Begins, MediaOps, MediaPlaces, Spellings
<1>10. CASE Open(c)
  BY <1>2, <1>3, <1>10 DEF Open, Is, MediaPlaces
<1>11. CASE FfmpegOpens(c)
  BY <1>2, <1>3, <1>11 DEF FfmpegOpens, Is, MediaPlaces
<1>12. CASE KeepReads(c)
  <2>1. call[c] # NoCall /\ call[c].op \in {"ticket", "play"} /\ call[c] \in CallRecord
    BY <1>12 DEF KeepReads, Active
  <2>2. CASE call[c].torrent \in Managed
    <3> DEFINE next == [call[c] EXCEPT !.at = "kept", !.files = torrents[call[c].torrent].files]
    <3>1. torrents[call[c].torrent].files \in SUBSET Files
      BY <2>1, <2>2 DEF Managed, CallRecord, TorrentRecord
    <3>2. next \in CallRecord /\ next.op = call[c].op /\ next.file = call[c].file /\ next.at = "kept"
            /\ next.torrent = call[c].torrent /\ next.removed = call[c].removed
      BY <2>1, <3>1 DEF CallRecord, MediaPlaces
    <3>3. call' = [call EXCEPT ![c] = next]
      BY <1>12, <2>2 DEF KeepReads
    <3> HIDE DEF next
    <3> QED BY <1>12, <2>1, <3>2, <3>3, OtherCallKeeps DEF KeepReads
  <2>3. CASE call[c].torrent \notin Managed
    BY <1>2, <1>12, <2>1, <2>3 DEF KeepReads
  <2> QED BY <2>2, <2>3
<1> QED BY <1>4, <1>5, <1>6, <1>7, <1>8, <1>9, <1>10, <1>11, <1>12

-----------------------------------------------------------------------------
(* What is fetched *)

\* A step that keeps the managed torrents, and does not take a fetched file of a
\* ticket without leaving it among the disturbed.
LEMMA FetchingKeeps ==
  ASSUME MediaInv, MediaTypes', UNCHANGED <<embedded, tickets, outlived>>,
         \A t \in Torrents : torrents[t] # NoTorrent => torrents'[t] # NoTorrent,
         \A t \in Torrents, f \in Files : Serving(t, f) => Serving(t, f)',
         NEW c \in MediaCalls, \A d \in MediaCalls \ {c} : call'[d] = call[d],
         call[c] # NoCall => call[c].op # "remove",
         CallServed(c)'
  PROVE  MediaInv'
<1> USE DEF MediaInv, MediaTypes
<1>1. \A t \in Torrents : Sweeping(t) => Sweeping(t)'
  <2> TAKE t \in Torrents
  <2> HAVE Sweeping(t)
  <2>1. PICK d \in MediaCalls : call[d] # NoCall /\ call[d].op = "remove" /\ call[d].torrent = t
                                /\ call[d].at = "second"
    BY DEF Sweeping
  <2>2. call'[d] = call[d]
    BY <2>1
  <2> QED BY <2>1, <2>2 DEF Sweeping
<1>2. \A k \in Tokens : TicketServed(k)'
  <2> TAKE k \in Tokens
  <2>1. tickets[k] # NoTicket => tickets[k].torrent \in Torrents /\ tickets[k].file \in Files
    BY DEF TicketRecord
  <2> QED BY <2>1, <1>1 DEF TicketServed
<1>3. \A d \in MediaCalls : CallServed(d)'
  <2> TAKE d \in MediaCalls
  <2>1. CASE d = c
    BY <2>1
  <2>2. CASE d # c
    <3>1. call'[d] = call[d] /\ CallServed(d)
      BY <2>2
    <3>2. call[d] # NoCall => call[d].torrent \in Torrents
      BY DEF CallRecord
    <3>3. call[d] # NoCall /\ call[d].op = "ticket" => call[d].file \in Files
      OBVIOUS
    <3> QED BY <3>1, <3>2, <3>3, <1>1 DEF CallServed
  <2> QED BY <2>1, <2>2
<1> QED BY <1>2, <1>3

LEMMA AddedKeeps ==
  ASSUME MediaInv, UNCHANGED embedded, NEW c \in MediaCalls, Added(c)
  PROVE  MediaInv'
<1> USE DEF MediaInv, MediaTypes
<1> DEFINE t == call[c].torrent
           new == [paused |-> FALSE, failed |-> FALSE, files |-> {}]
           next == [call[c] EXCEPT !.at = "initializing"]
<1>1. call[c] # NoCall /\ call[c].op = "add" /\ call[c] \in CallRecord /\ t \in Torrents
  BY DEF Added, Is, CallRecord
<1>2. next \in CallRecord /\ next.op = "add"
  BY <1>1 DEF CallRecord, MediaPlaces
<1>3. call' = [call EXCEPT ![c] = next]
  BY DEF Added, Goes
<1>4. new \in TorrentRecord /\ new # NoTorrent
  <2>1. \A x \in SUBSET Files : [paused |-> FALSE, failed |-> FALSE, files |-> x] \in TorrentRecord
    BY DEF TorrentRecord
  <2>2. {} \in SUBSET Files
    OBVIOUS
  <2>3. new \in TorrentRecord
    BY <2>1, <2>2
  <2> HIDE DEF new
  <2> QED BY <2>3
<1>5. /\ torrents' = torrents \/ (t \notin Managed /\ torrents' = [torrents EXCEPT ![t] = new])
      /\ UNCHANGED <<tickets, disturbed, outlived>>
  BY DEF Added
<1> HIDE DEF next, new, t
<1>6. MediaTypes' /\ CallServed(c)' /\ \A d \in MediaCalls \ {c} : call'[d] = call[d]
  BY <1>1, <1>2, <1>3, <1>4, <1>5 DEF CallServed
<1>7. \A u \in Torrents : torrents[u] # NoTorrent => torrents'[u] = torrents[u]
  BY <1>1, <1>5 DEF Managed
<1>8. \A u \in Torrents, f \in Files : Serving(u, f) => Serving(u, f)'
  BY <1>5, <1>7, <1>4 DEF Serving
<1>9. \A u \in Torrents : torrents[u] # NoTorrent => torrents'[u] # NoTorrent
  BY <1>7
<1> QED BY <1>1, <1>5, <1>6, <1>8, <1>9, FetchingKeeps

\* The managed torrent t fetches other files, is paused, or fails.
LEMMA TorrentChanges ==
  ASSUME MediaTypes, NEW t \in Managed, NEW new \in TorrentRecord,
         torrents' = [torrents EXCEPT ![t] = new],
         \A f \in Files : Serving(t, f) => <<t, f>> \in disturbed' \/ (~new.paused /\ f \in new.files),
         \A u \in Torrents \ {t}, f \in Files : <<u, f>> \in disturbed => <<u, f>> \in disturbed'
  PROVE  /\ torrents' \in [Torrents -> TorrentRecord \union {NoTorrent}]
         /\ \A u \in Torrents : torrents[u] # NoTorrent => torrents'[u] # NoTorrent
         /\ \A u \in Torrents, f \in Files : Serving(u, f) => Serving(u, f)'
<1>1. t \in Torrents /\ new # NoTorrent
  BY DEF Managed
<1>2. torrents'[t] = new /\ \A u \in Torrents \ {t} : torrents'[u] = torrents[u]
  BY <1>1 DEF MediaTypes
<1>3. \A f \in Files : Serving(t, f) => Serving(t, f)'
  BY <1>1, <1>2 DEF Serving
<1>4. \A u \in Torrents \ {t}, f \in Files : Serving(u, f) => Serving(u, f)'
  BY <1>2 DEF Serving
<1> QED BY <1>1, <1>2, <1>3, <1>4 DEF MediaTypes

LEMMA PausesKeep ==
  ASSUME MediaInv, UNCHANGED embedded, NEW t \in Torrents,
         \/ EngineFails(t)
         \/ \E paused \in BOOLEAN : SetPaused(t, paused)
         \/ \E c \in MediaCalls : PauseOther(c, t)
  PROVE  MediaInv'
<1> USE DEF MediaInv, MediaTypes
<1> DEFINE changed(p, f) == [paused |-> p, failed |-> f, files |-> torrents[t].files]
<1>1. t \in Managed /\ torrents[t] \in TorrentRecord /\ UNCHANGED <<tickets, call, outlived>>
  BY DEF SetPaused, PauseOther, EngineFails, Managed, Live
<1>2. \E p \in BOOLEAN, f \in BOOLEAN :
        /\ torrents' = [torrents EXCEPT ![t] = changed(p, f)]
        /\ \/ disturbed' = disturbed \union ({t} \X Files)
           \/ disturbed' = disturbed /\ (p => torrents[t].paused)
  <2>1. CASE EngineFails(t)
    BY <1>1, <2>1 DEF EngineFails, TorrentRecord
  <2>2. ASSUME NEW paused \in BOOLEAN, SetPaused(t, paused)
        PROVE  \E p \in BOOLEAN, f \in BOOLEAN :
                 /\ torrents' = [torrents EXCEPT ![t] = changed(p, f)]
                 /\ \/ disturbed' = disturbed \union ({t} \X Files)
                    \/ disturbed' = disturbed /\ (p => torrents[t].paused)
    <3>1. torrents' = [torrents EXCEPT ![t] = changed(paused, FALSE)]
      BY <2>2 DEF SetPaused
    <3>2. \/ disturbed' = disturbed \union ({t} \X Files)
          \/ disturbed' = disturbed /\ (paused => torrents[t].paused)
      BY <2>2 DEF SetPaused
    <3> HIDE DEF changed
    <3> QED BY <3>1, <3>2
  <2>3. CASE \E c \in MediaCalls : PauseOther(c, t)
    <3>1. torrents' = [torrents EXCEPT ![t] = changed(TRUE, FALSE)]
      BY <2>3 DEF PauseOther
    <3>2. disturbed' = disturbed \union ({t} \X Files)
      BY <2>3 DEF PauseOther
    <3> HIDE DEF changed
    <3> QED BY <3>1, <3>2
  <2> QED BY <2>1, <2>2, <2>3
<1>3. PICK p \in BOOLEAN, f \in BOOLEAN :
        /\ torrents' = [torrents EXCEPT ![t] = changed(p, f)]
        /\ \/ disturbed' = disturbed \union ({t} \X Files)
           \/ disturbed' = disturbed /\ (p => torrents[t].paused)
  BY <1>2
<1> DEFINE new == changed(p, f)
<1>4. disturbed \subseteq disturbed' /\ (p => torrents[t].paused \/ {t} \X Files \subseteq disturbed')
  BY <1>3
<1>5. UNCHANGED <<tickets, call, outlived>>
  BY <1>1
<1>6. new \in TorrentRecord /\ new.paused = p /\ new.files = torrents[t].files
        /\ torrents' = [torrents EXCEPT ![t] = new]
  BY <1>1, <1>3 DEF TorrentRecord
<1> HIDE DEF new, changed
<1>7. \A g \in Files : Serving(t, g) => <<t, g>> \in disturbed' \/ (~new.paused /\ g \in new.files)
  <2> TAKE g \in Files
  <2>1. <<t, g>> \in {t} \X Files
    OBVIOUS
  <2> QED BY <2>1, <1>4, <1>6 DEF Serving
<1>8. \A u \in Torrents \ {t}, g \in Files : <<u, g>> \in disturbed => <<u, g>> \in disturbed'
  BY <1>4
<1>9. /\ torrents' \in [Torrents -> TorrentRecord \union {NoTorrent}]
      /\ \A u \in Torrents : torrents[u] # NoTorrent => torrents'[u] # NoTorrent
      /\ \A u \in Torrents, g \in Files : Serving(u, g) => Serving(u, g)'
  BY <1>1, <1>6, <1>7, <1>8, TorrentChanges
<1>10. MediaTypes'
  BY <1>5, <1>9
<1>11. \A u \in Torrents : Sweeping(u)' <=> Sweeping(u)
  BY <1>5 DEF Sweeping
<1>12. \A k \in Tokens : TicketServed(k)'
  <2> TAKE k \in Tokens
  <2>1. tickets[k] # NoTicket => tickets[k].torrent \in Torrents /\ tickets[k].file \in Files
    BY DEF TicketRecord
  <2> QED BY <2>1, <1>5, <1>9, <1>11 DEF TicketServed
<1>13. \A d \in MediaCalls : CallServed(d)'
  <2> TAKE d \in MediaCalls
  <2>1. call[d] # NoCall => call[d].torrent \in Torrents
    BY DEF CallRecord
  <2>2. call[d] # NoCall /\ call[d].op = "ticket" => call[d].file \in Files
    OBVIOUS
  <2> QED BY <2>1, <2>2, <1>5, <1>9, <1>11 DEF CallServed
<1> QED BY <1>10, <1>12, <1>13

LEMMA SelectOnlyKeeps ==
  ASSUME MediaInv, UNCHANGED embedded, NEW c \in MediaCalls, SelectOnly(c)
  PROVE  MediaInv'
<1> USE DEF MediaInv, MediaTypes
<1> DEFINE t == call[c].torrent
<1>1. call[c] # NoCall /\ call[c].op = "play" /\ call[c] \in CallRecord /\ t \in Torrents
        /\ call[c].file \in Files
  BY DEF SelectOnly, Is, CallRecord
<1>2. CASE t \notin Managed
  BY <1>1, <1>2, OtherCallKeeps DEF SelectOnly, Returns
<1>3. CASE t \in Managed
  <2> DEFINE new == [paused |-> torrents[t].paused, failed |-> torrents[t].failed,
                     files |-> {call[c].file}]
             next == [call[c] EXCEPT !.at = "keep"]
  <2>1. torrents[t] \in TorrentRecord
    BY <1>3 DEF Managed
  <2>2. new \in TorrentRecord /\ new.paused = torrents[t].paused /\ new.files = {call[c].file}
    BY <1>1, <2>1 DEF TorrentRecord
  <2>3. next \in CallRecord /\ next.op = "play" /\ next.file = call[c].file
    BY <1>1 DEF CallRecord, MediaPlaces
  <2>4. /\ torrents' = [torrents EXCEPT ![t] = new]
        /\ disturbed' = disturbed \union {<<t, g>> : g \in torrents[t].files \ new.files}
        /\ call' = [call EXCEPT ![c] = next]
        /\ UNCHANGED <<tickets, outlived>>
    BY <1>3, <2>2 DEF SelectOnly, Goes
  <2> HIDE DEF new, next, t
  <2>5. \A f \in Files : Serving(t, f) => <<t, f>> \in disturbed' \/ (~new.paused /\ f \in new.files)
    BY <2>2, <2>4 DEF Serving
  <2>6. /\ torrents' \in [Torrents -> TorrentRecord \union {NoTorrent}]
        /\ \A u \in Torrents : torrents[u] # NoTorrent => torrents'[u] # NoTorrent
        /\ \A u \in Torrents, f \in Files : Serving(u, f) => Serving(u, f)'
    BY <1>3, <2>2, <2>4, <2>5, TorrentChanges
  <2>7. MediaTypes' /\ CallServed(c)' /\ \A d \in MediaCalls \ {c} : call'[d] = call[d]
    BY <1>1, <2>3, <2>4, <2>6 DEF CallServed
  <2> QED BY <1>1, <2>4, <2>6, <2>7, FetchingKeeps
<1> QED BY <1>2, <1>3

LEMMA KeepFileKeeps ==
  ASSUME MediaInv, UNCHANGED embedded, NEW c \in MediaCalls, KeepFile(c)
  PROVE  MediaInv'
<1> USE DEF MediaInv, MediaTypes
<1> DEFINE t == call[c].torrent
           f == call[c].file
           next == IF call[c].op = "ticket" THEN [call[c] EXCEPT !.at = "insert"] ELSE NoCall
<1>1. /\ call[c] # NoCall /\ call[c].op \in {"ticket", "play"} /\ call[c] \in CallRecord /\ t \in Torrents
      /\ call[c].files \in SUBSET Files /\ f \in Files
  BY DEF KeepFile, Active, CallRecord
<1>2. CASE t \notin Managed
  BY <1>1, <1>2, OtherCallKeeps DEF KeepFile, Returns
<1>3. CASE t \in Managed
  <2> DEFINE files == call[c].files \union {f}
             new == [paused |-> FALSE, failed |-> torrents[t].failed /\ ~torrents[t].paused,
                     files |-> files]
  <2>1. torrents[t] \in TorrentRecord
    BY <1>3 DEF Managed
  <2>2. new \in TorrentRecord /\ ~new.paused /\ new.files = files /\ f \in files /\ files \in SUBSET Files
    BY <1>1, <2>1 DEF TorrentRecord
  <2>3. /\ next \in CallRecord \union {NoCall}
        /\ next # NoCall => next.op = "ticket" /\ next.file = f /\ next.torrent = t
    BY <1>1 DEF CallRecord, MediaPlaces
  <2>4. /\ torrents' = [torrents EXCEPT ![t] = new]
        /\ disturbed' = (disturbed \ {<<t, f>>}) \union {<<t, g>> : g \in torrents[t].files \ files}
        /\ UNCHANGED <<tickets, outlived>>
    BY <1>3 DEF KeepFile
  <2>5. call' = [call EXCEPT ![c] = next]
    BY <1>3 DEF KeepFile, Goes, Returns
  <2> HIDE DEF new, next, t, files, f
  <2>6. \A g \in Files : Serving(t, g) => <<t, g>> \in disturbed' \/ (~new.paused /\ g \in new.files)
    BY <2>2, <2>4 DEF Serving
  <2>7. \A u \in Torrents \ {t}, g \in Files : <<u, g>> \in disturbed => <<u, g>> \in disturbed'
    BY <2>4
  <2>8. /\ torrents' \in [Torrents -> TorrentRecord \union {NoTorrent}]
        /\ \A u \in Torrents : torrents[u] # NoTorrent => torrents'[u] # NoTorrent
        /\ \A u \in Torrents, g \in Files : Serving(u, g) => Serving(u, g)'
    BY <1>3, <2>2, <2>4, <2>6, <2>7, TorrentChanges
  <2>9. MediaTypes' /\ \A d \in MediaCalls \ {c} : call'[d] = call[d]
    BY <1>1, <2>3, <2>4, <2>5, <2>8
  <2>10. call'[c] = next /\ torrents'[t] = new /\ new # NoTorrent
    BY <1>1, <2>2, <2>4, <2>5
  <2>11. \A u \in Torrents, g \in Files : u = t /\ g = f => Serving(u, g)'
    BY <2>2, <2>10 DEF Serving
  <2>12. CallServed(c)'
    BY <1>1, <2>3, <2>10, <2>11 DEF CallServed, f, t
  <2> QED BY <1>1, <2>4, <2>8, <2>9, <2>12, FetchingKeeps
<1> QED BY <1>2, <1>3

-----------------------------------------------------------------------------
(* Tickets *)

LEMMA InsertKeeps ==
  ASSUME MediaInv, UNCHANGED embedded, NEW c \in MediaCalls, InsertTicket(c)
  PROVE  MediaInv'
<1> USE DEF MediaInv, MediaTypes
<1>1. call[c] # NoCall /\ call[c].op = "ticket" /\ call[c].at = "insert" /\ call[c] \in CallRecord
        /\ call[c].torrent \in Torrents /\ call[c].spelt \in Spellings /\ call[c].file \in Files
  BY DEF InsertTicket, Is, CallRecord
<1>2. call' = [call EXCEPT ![c] = NoCall] /\ UNCHANGED <<torrents, disturbed>>
  BY DEF InsertTicket, Returns
<1>3. CASE UNCHANGED <<tickets, outlived>>
  BY <1>1, <1>2, <1>3, OtherCallKeeps
<1>4. ASSUME NEW k \in Tokens, tickets[k] = NoTicket,
             tickets' = [tickets EXCEPT ![k] =
               [torrent |-> call[c].torrent, spelt |-> call[c].spelt, file |-> call[c].file]],
             outlived' = IF call[c].removed = "yes" THEN outlived \union {k} ELSE outlived
      PROVE  MediaInv'
  <2> DEFINE new == [torrent |-> call[c].torrent, spelt |-> call[c].spelt, file |-> call[c].file]
  <2>1. new \in TicketRecord /\ new.torrent = call[c].torrent /\ new.file = call[c].file
    BY <1>1 DEF TicketRecord
  <2>2. tickets' = [tickets EXCEPT ![k] = new]
    BY <1>4
  <2> HIDE DEF new
  <2>3. MediaTypes'
    BY <1>2, <2>1, <2>2
  <2>4. \A t \in Torrents : Sweeping(t) => Sweeping(t)'
    <3> TAKE t \in Torrents
    <3> HAVE Sweeping(t)
    <3>1. PICK d \in MediaCalls : call[d] # NoCall /\ call[d].op = "remove" /\ call[d].torrent = t
                                  /\ call[d].at = "second"
      BY DEF Sweeping
    <3>2. call'[d] = call[d]
      BY <1>1, <1>2, <3>1
    <3> QED BY <3>1, <3>2 DEF Sweeping
  <2>5. \A j \in Tokens : TicketServed(j)'
    <3> TAKE j \in Tokens
    <3>1. CASE j = k
      <4>1. tickets'[j] = new /\ CallServed(c)
        BY <2>2, <3>1
      <4>2. torrents'[new.torrent] # NoTorrent \/ Sweeping(new.torrent) \/ j \in outlived'
        BY <1>1, <1>2, <1>4, <2>1, <3>1, <4>1 DEF CallServed
      <4>3. embedded => Serving(new.torrent, new.file)
        BY <1>1, <2>1, <4>1 DEF CallServed
      <4> QED BY <1>1, <1>2, <2>1, <2>4, <4>1, <4>2, <4>3 DEF TicketServed, Serving
    <3>2. CASE j # k
      <4>1. tickets'[j] = tickets[j] /\ TicketServed(j) /\ (j \in outlived => j \in outlived')
        BY <1>4, <2>2, <3>2
      <4>2. tickets[j] # NoTicket => tickets[j].torrent \in Torrents
        BY DEF TicketRecord
      <4> QED BY <1>2, <2>4, <4>1, <4>2 DEF TicketServed, Serving
    <3> QED BY <3>1, <3>2
  <2>6. \A d \in MediaCalls : CallServed(d)'
    <3> TAKE d \in MediaCalls
    <3>1. call[d] # NoCall => call[d].torrent \in Torrents
      BY DEF CallRecord
    <3>2. CallServed(d) /\ (call'[d] = call[d] \/ call'[d] = NoCall)
      BY <1>2
    <3> QED BY <1>2, <2>4, <3>1, <3>2 DEF CallServed, Serving
  <2> QED BY <2>3, <2>5, <2>6
<1> QED BY <1>3, <1>4 DEF InsertTicket

LEMMA RevokeKeeps ==
  ASSUME MediaInv, UNCHANGED embedded, NEW k \in Tokens, RevokeTicket(k)
  PROVE  MediaInv'
<1> USE DEF MediaInv, MediaTypes
<1>1. /\ tickets' = [tickets EXCEPT ![k] = NoTicket] /\ outlived' = outlived \ {k}
      /\ UNCHANGED <<torrents, call, disturbed>>
  BY DEF RevokeTicket
<1>2. MediaTypes'
  BY <1>1
<1>3. \A j \in Tokens : TicketServed(j)'
  <2> TAKE j \in Tokens
  <2>1. TicketServed(j) /\ (tickets'[j] = NoTicket \/ (j # k /\ tickets'[j] = tickets[j]))
    BY <1>1
  <2> QED BY <1>1, <2>1 DEF TicketServed, Serving, Sweeping
<1>4. \A d \in MediaCalls : CallServed(d)'
  <2> TAKE d \in MediaCalls
  <2>1. CallServed(d)
    OBVIOUS
  <2> QED BY <1>1, <2>1 DEF CallServed, Serving, Sweeping
<1> QED BY <1>2, <1>3, <1>4

\* Only a ticket that is being issued sees a removal, and only how far it went.
LEMMA SeeingCalls ==
  ASSUME MediaTypes, NEW t, NEW from, NEW to \in {"no", "forgotten", "yes"}, NEW d \in MediaCalls
  PROVE  LET s == Seeing(t, from, to)[d]
         IN  /\ s \in CallRecord \union {NoCall}
             /\ s = NoCall <=> call[d] = NoCall
             /\ s # NoCall => /\ s.op = call[d].op /\ s.torrent = call[d].torrent /\ s.file = call[d].file
                              /\ s.at = call[d].at
                              /\ s.removed = IF call[d].op = "ticket" /\ call[d].torrent = t
                                                  /\ call[d].removed = from
                                             THEN to ELSE call[d].removed
<1> DEFINE s == Seeing(t, from, to)[d]
           seen == [call[d] EXCEPT !.removed = to]
           sees == call[d] # NoCall /\ call[d].op = "ticket" /\ call[d].torrent = t /\ call[d].removed = from
<1>1. s = IF sees THEN seen ELSE call[d]
  BY DEF Seeing
<1>2. call[d] \in CallRecord \union {NoCall}
  BY DEF MediaTypes
<1>3. CASE sees
  <2>1. s = seen
    BY <1>1, <1>3
  <2>2. seen \in CallRecord /\ seen.op = call[d].op /\ seen.torrent = call[d].torrent
          /\ seen.file = call[d].file /\ seen.at = call[d].at /\ seen.removed = to
    BY <1>2, <1>3 DEF CallRecord
  <2>3. seen # NoCall /\ call[d] # NoCall
    BY <1>3, <2>2
  <2> HIDE DEF s, seen
  <2> QED BY <1>3, <2>1, <2>2, <2>3 DEF s
<1>4. CASE ~sees
  <2>1. s = call[d]
    BY <1>1, <1>4
  <2> HIDE DEF s
  <2> QED BY <1>2, <1>4, <2>1 DEF s
<1> QED BY <1>3, <1>4

LEMMA ForgetKeeps ==
  ASSUME MediaInv, UNCHANGED embedded, NEW c \in MediaCalls, Is(c, "remove", "first"),
         Forget(c, [call[c] EXCEPT !.at = "second"])
  PROVE  MediaInv'
<1> USE DEF MediaInv, MediaTypes
<1> DEFINE t == call[c].torrent
           s == Seeing(t, "no", "forgotten")
           next == [call[c] EXCEPT !.at = "second"]
<1>1. call[c] # NoCall /\ call[c].op = "remove" /\ call[c] \in CallRecord /\ t \in Torrents
  BY DEF Is, CallRecord
<1>2. next \in CallRecord /\ next # NoCall /\ next.op = "remove" /\ next.torrent = t /\ next.at = "second"
  BY <1>1 DEF CallRecord, MediaPlaces
<1>3. /\ torrents' = [torrents EXCEPT ![t] = NoTorrent]
      /\ disturbed' = disturbed \union ({t} \X Files)
      /\ call' = [s EXCEPT ![c] = next]
      /\ UNCHANGED <<tickets, outlived>>
  BY DEF Forget
<1>4. DOMAIN s = MediaCalls
  BY DEF Seeing
<1>5. \A d \in MediaCalls :
        /\ s[d] \in CallRecord \union {NoCall}
        /\ s[d] = NoCall <=> call[d] = NoCall
        /\ s[d] # NoCall => /\ s[d].op = call[d].op /\ s[d].torrent = call[d].torrent
                            /\ s[d].file = call[d].file /\ s[d].at = call[d].at
                            /\ s[d].removed = IF call[d].op = "ticket" /\ call[d].torrent = t
                                                /\ call[d].removed = "no"
                                              THEN "forgotten" ELSE call[d].removed
  BY SeeingCalls
<1> HIDE DEF s, next, t
<1>6. call'[c] = next /\ DOMAIN call' = MediaCalls /\ call' = [d \in MediaCalls |-> call'[d]]
        /\ \A d \in MediaCalls \ {c} : call'[d] = s[d]
  BY <1>3, <1>4
<1>7. call' \in [MediaCalls -> CallRecord \union {NoCall}]
  BY <1>2, <1>5, <1>6
<1>8. MediaTypes'
  <2>1. \A d \in MediaCalls : call'[d] # NoCall /\ call'[d].op \in {"ticket", "play"} => call'[d].file \in Files
    BY <1>1, <1>2, <1>5, <1>6
  <2> QED BY <1>3, <1>7, <2>1
<1>9. \A u \in Torrents : u = t \/ Sweeping(u) => Sweeping(u)'
  <2> TAKE u \in Torrents
  <2>1. CASE u = t
    BY <1>2, <1>6, <2>1 DEF Sweeping
  <2>2. CASE u # t /\ Sweeping(u)
    <3>1. PICK d \in MediaCalls : call[d] # NoCall /\ call[d].op = "remove" /\ call[d].torrent = u
                                  /\ call[d].at = "second"
      BY <2>2 DEF Sweeping
    <3>2. d # c
      BY <2>2, <3>1 DEF t
    <3>3. call'[d] # NoCall /\ call'[d].op = "remove" /\ call'[d].torrent = u /\ call'[d].at = "second"
      BY <1>5, <1>6, <3>1, <3>2
    <3> QED BY <3>3 DEF Sweeping
  <2> QED BY <2>1, <2>2
<1>10. \A u \in Torrents, f \in Files : Serving(u, f) => Serving(u, f)'
  <2> TAKE u \in Torrents, f \in Files
  <2>1. CASE u = t
    BY <1>3, <2>1 DEF Serving
  <2>2. CASE u # t
    <3>1. torrents'[u] = torrents[u]
      BY <1>1, <1>3, <2>2
    <3> QED BY <1>3, <3>1 DEF Serving
  <2> QED BY <2>1, <2>2
<1>11. \A u \in Torrents : u # t => torrents'[u] = torrents[u]
  BY <1>1, <1>3
<1>12. \A k \in Tokens : TicketServed(k)'
  <2> TAKE k \in Tokens
  <2>1. TicketServed(k) /\ (tickets[k] # NoTicket => tickets[k].torrent \in Torrents /\ tickets[k].file \in Files)
    BY DEF TicketRecord
  <2> QED BY <2>1, <1>3, <1>9, <1>10, <1>11 DEF TicketServed
<1>13. \A d \in MediaCalls : CallServed(d)'
  <2> TAKE d \in MediaCalls
  <2> SUFFICES ASSUME call'[d] # NoCall, call'[d].op = "ticket" PROVE CallServed(d)'
    BY DEF CallServed
  <2>1. d # c /\ call'[d] = s[d]
    BY <1>2, <1>6
  <2>2. CallServed(d) /\ call[d] # NoCall /\ call[d].op = "ticket" /\ call[d] \in CallRecord
          /\ call[d].torrent \in Torrents /\ call[d].file \in Files
    BY <1>5, <2>1 DEF CallRecord
  <2>3. call'[d].torrent = call[d].torrent /\ call'[d].file = call[d].file /\ call'[d].at = call[d].at
    BY <1>5, <2>1
  <2>4. embedded' /\ call'[d].at = "insert" => Serving(call[d].torrent, call[d].file)'
    BY <1>10, <2>2, <2>3 DEF CallServed
  <2>5. CASE call[d].torrent = t
    <3>1. call'[d].removed \in {"forgotten", "yes"}
      BY <1>5, <2>1, <2>2, <2>5 DEF CallRecord
    <3>2. \A u \in Torrents : u = t => Sweeping(u)'
      BY <1>9
    <3>3. \A u \in Torrents : u = call[d].torrent => Sweeping(u)'
      BY <2>5, <3>2
    <3> QED BY <2>2, <2>3, <2>4, <3>1, <3>3 DEF CallServed, Serving
  <2>6. CASE call[d].torrent # t
    <3>1. call'[d].removed = call[d].removed
      BY <1>5, <2>1, <2>2, <2>6
    <3> QED BY <1>9, <1>11, <2>2, <2>3, <2>4, <2>6, <3>1 DEF CallServed, Serving
  <2> QED BY <2>5, <2>6
<1> QED BY <1>8, <1>12, <1>13

\* A removal of c's torrent is over: the tickets that are being issued have seen all of
\* it, and those in the table were dropped or missed it.
LEMMA OverKeeps ==
  ASSUME MediaInv, UNCHANGED <<embedded, torrents, disturbed>>,
         NEW c \in MediaCalls, Is(c, "remove", "second"),
         call' = [Seeing(call[c].torrent, "forgotten", "yes") EXCEPT ![c] = NoCall],
         tickets' \in [Tokens -> TicketRecord \union {NoTicket}],
         \A k \in Tokens : tickets'[k] # NoTicket =>
            /\ tickets'[k] = tickets[k]
            /\ tickets[k].torrent = call[c].torrent => k \in outlived'
            /\ k \in outlived => k \in outlived'
  PROVE  MediaInv'
<1> USE DEF MediaInv, MediaTypes
<1> DEFINE t == call[c].torrent
           s == Seeing(t, "forgotten", "yes")
<1>1. call[c] # NoCall /\ call[c].op = "remove" /\ call[c] \in CallRecord /\ t \in Torrents
  BY DEF Is, CallRecord
<1>2. call' = [s EXCEPT ![c] = NoCall] /\ DOMAIN s = MediaCalls
  BY DEF Seeing
<1>3. \A k \in Tokens : tickets'[k] # NoTicket =>
        /\ tickets'[k] = tickets[k]
        /\ tickets[k].torrent = t => k \in outlived'
        /\ k \in outlived => k \in outlived'
  OBVIOUS
<1>4. \A d \in MediaCalls :
        /\ s[d] \in CallRecord \union {NoCall}
        /\ s[d] = NoCall <=> call[d] = NoCall
        /\ s[d] # NoCall => /\ s[d].op = call[d].op /\ s[d].torrent = call[d].torrent
                            /\ s[d].file = call[d].file /\ s[d].at = call[d].at
                            /\ s[d].removed = IF call[d].op = "ticket" /\ call[d].torrent = t
                                                /\ call[d].removed = "forgotten"
                                              THEN "yes" ELSE call[d].removed
  BY SeeingCalls
<1> HIDE DEF s, t
<1>5. call'[c] = NoCall /\ call' = [d \in MediaCalls |-> call'[d]]
        /\ \A d \in MediaCalls \ {c} : call'[d] = s[d]
  BY <1>2
<1>6. call' \in [MediaCalls -> CallRecord \union {NoCall}]
  BY <1>4, <1>5
<1>7. MediaTypes'
  <2>1. \A d \in MediaCalls : call'[d] # NoCall /\ call'[d].op \in {"ticket", "play"} => call'[d].file \in Files
    BY <1>4, <1>5
  <2> QED BY <1>6, <2>1
<1>8. \A u \in Torrents : u # t /\ Sweeping(u) => Sweeping(u)'
  <2> TAKE u \in Torrents
  <2> HAVE u # t /\ Sweeping(u)
  <2>1. PICK d \in MediaCalls : call[d] # NoCall /\ call[d].op = "remove" /\ call[d].torrent = u
                                /\ call[d].at = "second"
    BY DEF Sweeping
  <2>2. d # c
    BY <2>1 DEF t
  <2>3. call'[d] # NoCall /\ call'[d].op = "remove" /\ call'[d].torrent = u /\ call'[d].at = "second"
    BY <1>4, <1>5, <2>1, <2>2
  <2> QED BY <2>3 DEF Sweeping
<1>9. \A k \in Tokens : TicketServed(k)'
  <2> TAKE k \in Tokens
  <2> SUFFICES ASSUME tickets'[k] # NoTicket PROVE TicketServed(k)'
    BY DEF TicketServed
  <2>1. TicketServed(k) /\ tickets'[k] = tickets[k] /\ tickets[k].torrent \in Torrents
    BY <1>3 DEF TicketRecord
  <2> QED BY <1>3, <1>8, <2>1 DEF TicketServed, Serving
<1>10. \A d \in MediaCalls : CallServed(d)'
  <2> TAKE d \in MediaCalls
  <2> SUFFICES ASSUME call'[d] # NoCall, call'[d].op = "ticket" PROVE CallServed(d)'
    BY DEF CallServed
  <2>1. d # c /\ call'[d] = s[d]
    BY <1>5
  <2>2. CallServed(d) /\ call[d] # NoCall /\ call[d].op = "ticket" /\ call[d].torrent \in Torrents
    BY <1>4, <2>1 DEF CallRecord
  <2>3. call'[d].torrent = call[d].torrent /\ call'[d].file = call[d].file /\ call'[d].at = call[d].at
    BY <1>4, <2>1
  <2>4. call'[d].removed = IF call[d].torrent = t /\ call[d].removed = "forgotten" THEN "yes"
                           ELSE call[d].removed
    BY <1>4, <2>1, <2>2
  <2> QED BY <1>8, <2>2, <2>3, <2>4 DEF CallServed, Serving
<1> QED BY <1>7, <1>9, <1>10

LEMMA RemoveKeeps ==
  ASSUME MediaInv, UNCHANGED embedded, NEW c \in MediaCalls, RemoveSteps(c)
  PROVE  MediaInv'
<1>1. CASE Is(c, "remove", "first")
  <2>1. call[c].at = "first"
    BY <1>1 DEF Is
  <2>2. Forget(c, [call[c] EXCEPT !.at = "second"])
    BY <1>1, <2>1 DEF RemoveSteps, Is, DropTickets, Order
  <2> QED BY <1>1, <2>2, ForgetKeeps
<1>2. CASE Is(c, "remove", "second")
  <2> DEFINE gone == {k \in TicketsOf(call[c].torrent) : tickets[k].spelt = call[c].spelt}
  <2>1. call[c].at = "second"
    BY <1>2 DEF Is
  <2>2. DropTickets(c, NoCall)
    BY <1>2, <2>1 DEF RemoveSteps, Is, Forget, Order
  <2>3. /\ tickets' = [k \in Tokens |-> IF k \in gone THEN NoTicket ELSE tickets[k]]
        /\ outlived' = (outlived \union TicketsOf(call[c].torrent)) \ gone
        /\ call' = [Seeing(call[c].torrent, "forgotten", "yes") EXCEPT ![c] = NoCall]
        /\ UNCHANGED <<torrents, disturbed>>
    BY <2>2 DEF DropTickets
  <2>4. tickets \in [Tokens -> TicketRecord \union {NoTicket}]
    BY DEF MediaInv, MediaTypes
  <2>5. \A k \in Tokens : tickets'[k] # NoTicket => tickets'[k] = tickets[k] /\ k \notin gone
    BY <2>3
  <2>6. tickets' \in [Tokens -> TicketRecord \union {NoTicket}]
    BY <2>3, <2>4
  <2>7. \A k \in Tokens : tickets'[k] # NoTicket =>
          /\ tickets'[k] = tickets[k]
          /\ tickets[k].torrent = call[c].torrent => k \in outlived'
          /\ k \in outlived => k \in outlived'
    BY <2>3, <2>5 DEF TicketsOf
  <2> QED BY <1>2, <2>3, <2>6, <2>7, OverKeeps
<1> QED BY <1>1, <1>2 DEF RemoveSteps

LEMMA DroppedKeeps ==
  ASSUME MediaInv, UNCHANGED embedded, NEW c \in MediaCalls, Dropped(c)
  PROVE  MediaInv'
<1>1. call[c] # NoCall /\ UNCHANGED <<torrents, tickets, disturbed>>
  BY DEF Dropped, Active
<1>2. CASE call[c].op = "remove" /\ call[c].at = "second"
  <2>1. /\ call' = [Seeing(call[c].torrent, "forgotten", "yes") EXCEPT ![c] = NoCall]
        /\ outlived' = outlived \union
             {k \in Tokens : tickets[k] # NoTicket /\ tickets[k].torrent = call[c].torrent}
    BY <1>2 DEF Dropped, TicketsOf
  <2>2. tickets \in [Tokens -> TicketRecord \union {NoTicket}]
    BY DEF MediaInv, MediaTypes
  <2> QED BY <1>1, <1>2, <2>1, <2>2, OverKeeps DEF Is
<1>3. CASE ~(call[c].op = "remove" /\ call[c].at = "second")
  <2>1. call' = [call EXCEPT ![c] = NoCall] /\ UNCHANGED outlived
    BY <1>3 DEF Dropped, Returns
  <2> QED BY <1>1, <1>3, <2>1, OtherCallKeeps
<1> QED BY <1>2, <1>3

LEMMA RestartKeeps ==
  ASSUME MediaInv, MediaRestart, UNCHANGED embedded
  PROVE  MediaInv'
<1> DEFINE again(t) == [paused |-> torrents[t].paused, failed |-> FALSE, files |-> torrents[t].files]
<1>1. \A t \in Managed : again(t) \in TorrentRecord
  BY DEF Managed, MediaInv, MediaTypes, TorrentRecord
<1>2. torrents' = [t \in Torrents |-> IF t \in Managed THEN again(t) ELSE NoTorrent]
  BY DEF MediaRestart
<1> HIDE DEF again
<1>3. torrents' \in [Torrents -> TorrentRecord \union {NoTorrent}]
  BY <1>1, <1>2
<1> QED BY <1>3 DEF MediaInv, MediaTypes, MediaRestart, TicketServed, CallServed

LEMMA MediaInitHolds == MediaInit => MediaInv
  BY DEF MediaInit, MediaInv, MediaTypes, TicketServed, CallServed

LEMMA MediaStep == MediaInv /\ [MediaNext]_mediaVars => MediaInv'
<1> SUFFICES ASSUME MediaInv, [MediaNext]_mediaVars PROVE MediaInv'
  OBVIOUS
<1>1. CASE UNCHANGED mediaVars
  BY <1>1 DEF mediaVars, MediaInv, MediaTypes, TicketServed, CallServed, Serving, Sweeping
<1>2. CASE MediaNext
  <2>1. UNCHANGED embedded
    BY <1>2 DEF MediaNext
  <2>2. ASSUME NEW c \in MediaCalls, NEW t \in Torrents, Add(c, t) \/ RemoveTorrent(c, t)
        PROVE  MediaInv'
    BY <2>1, <2>2, CallsKeep
  <2>3. ASSUME NEW c \in MediaCalls, NEW t \in Torrents, NEW f \in Files,
               Prioritize(c, t, f) \/ IssueTicket(c, t, f)
        PROVE  MediaInv'
    BY <2>1, <2>3, CallsKeep
  <2>4. ASSUME NEW c \in MediaCalls, NEW k \in Tokens, Original(c, k) \/ Transcode(c, k)
        PROVE  MediaInv'
    BY <2>1, <2>4, CallsKeep
  <2>5. ASSUME NEW c \in MediaCalls,
               AddReturns(c) \/ KeepReads(c) \/ Open(c) \/ FfmpegOpens(c) \/ ReadEnds(c)
        PROVE  MediaInv'
    BY <2>1, <2>5, CallsKeep
  <2>6. ASSUME NEW c \in MediaCalls, NEW t \in Torrents, PauseOther(c, t)
        PROVE  MediaInv'
    BY <2>1, <2>6, PausesKeep
  <2>7. ASSUME NEW t \in Torrents, EngineFails(t) \/ \E paused \in BOOLEAN : SetPaused(t, paused)
        PROVE  MediaInv'
    BY <2>1, <2>7, PausesKeep
  <2>8. ASSUME NEW c \in MediaCalls,
               Added(c) \/ KeepFile(c) \/ SelectOnly(c) \/ InsertTicket(c) \/ RemoveSteps(c) \/ Dropped(c)
        PROVE  MediaInv'
    BY <2>1, <2>8, AddedKeeps, KeepFileKeeps, SelectOnlyKeeps, InsertKeeps, RemoveKeeps, DroppedKeeps
  <2>9. ASSUME NEW k \in Tokens, RevokeTicket(k)
        PROVE  MediaInv'
    BY <2>1, <2>9, RevokeKeeps
  <2>10. CASE MediaRestart
    BY <2>1, <2>10, RestartKeeps
  <2> QED BY <1>2, <2>2, <2>3, <2>4, <2>5, <2>6, <2>7, <2>8, <2>9, <2>10 DEF MediaNext, MediaSteps
<1> QED BY <1>1, <1>2

\* A ticket serves a torrent the engine has, from a file that it fetches unless the engine
\* failed: of any number of calls that add, remove, play and issue tickets at the same
\* time, however they write the torrent's id, and may be dropped at any await, each that
\* could have taken either is named by the exceptions.
THEOREM TicketsAlwaysServe == MediaSpec => []TicketsServe
<1>1. MediaSpec => []MediaInv
  BY MediaInitHolds, MediaStep, PTL DEF MediaSpec
<1> QED BY <1>1, ServedImplies, PTL

=============================================================================
