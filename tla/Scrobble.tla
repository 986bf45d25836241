------------------------------ MODULE Scrobble ------------------------------
(***************************************************************************)
(* Playback reports of the Linux application to Trakt: Session and Queue of *)
(* apps/linux/src/app/playback/trakt.rs, driven by the player of            *)
(* playback/embedded/mod.rs.                                                *)
(*                                                                         *)
(* One player runs at a time, and each playback has a Session.  A session   *)
(* hands its reports to a bounded queue, which one task sends in order; the *)
(* answers come back to the user interface's loop in any order.  What       *)
(* scrobble_trakt does with the account is TraktAccount's matter: here it   *)
(* confirms a report, fails, or says that the account is gone.              *)
(***************************************************************************)
EXTENDS Integers, Sequences, FiniteSets, FiniteSetsExt

CONSTANTS
  MaxPlays,    \* bound: playbacks
  MaxReports,  \* bound: no report after so many, but the last one of a playback
  Capacity,    \* of the queue: 64
  None

ASSUME ScrobbleAssumption ==
  MaxPlays \in Nat /\ MaxReports \in Nat /\ Capacity \in Nat \ {0} /\ None \notin Nat

VARIABLES
  plays,    \* playbacks started; the last one is the player's
  playing,  \* the player is on
  loaded,   \* its position and duration are known
  session,  \* each playback's Session
  queue,    \* reports [play, number, action], and Flush
  sending,  \* the report the task is sending, or None
  answers,  \* answers [play, number, action, result] the sessions have not seen yet
  heard,    \* Trakt: what it recorded last of each playback
  quit,     \* "no", "asked", "flushing", "flushed", "gave up"
  dropped   \* history: playbacks whose last report found the queue full

player == <<plays, playing, loaded>>
vars == <<player, session, queue, sending, answers, heard, quit, dropped>>

Plays == 1 .. MaxPlays

\* A position: at the very start, or from 95% of the duration on, or between
Positions == {"zero", "middle", "late"}

NewSession ==
  [ready |-> FALSE, connected |-> FALSE, pending |-> FALSE, watched |-> FALSE,
   ended |-> FALSE, failed |-> FALSE, due |-> FALSE, number |-> 0, last |-> None,
   status |-> "hidden"]

Init ==
  /\ plays = 0 /\ playing = FALSE /\ loaded = FALSE
  /\ session = [s \in Plays |-> NewSession]
  /\ queue = <<>> /\ sending = None /\ answers = {}
  /\ heard = [s \in Plays |-> "nothing"]
  /\ quit = "no"
  /\ dropped = {}

-----------------------------------------------------------------------------
(* The player *)

Play ==
  /\ ~playing /\ plays < MaxPlays /\ quit = "no"
  /\ plays' = plays + 1
  /\ playing' = TRUE /\ loaded' = FALSE
  /\ UNCHANGED <<session, queue, sending, answers, heard, quit, dropped>>

\* The player reports the file as loaded, and where it is.
Loaded ==
  /\ playing /\ ~loaded
  /\ loaded' = TRUE
  /\ UNCHANGED <<plays, playing, session, queue, sending, answers, heard, quit, dropped>>

\* trakt_playback answers: the profile has an account, or not.
Check(s) ==
  /\ playing /\ s = plays /\ ~session[s].ready
  /\ \E has \in BOOLEAN :
       session' = [session EXCEPT ![s].ready = TRUE, ![s].connected = has]
  /\ UNCHANGED <<player, queue, sending, answers, heard, quit, dropped>>

-----------------------------------------------------------------------------
(* Reports *)

\* At a position; paused also stands for buffering, and for the end of the playback.
Action(at, paused) ==
  IF at = "late" THEN "stop" ELSE IF paused THEN "pause" ELSE "start"

Full == Len(queue) >= Capacity

\* The session's new state once it has queued a report, or found no room.
Send(s, new, action) ==
  IF Full
  THEN /\ session' = [session EXCEPT ![s] =
            [new EXCEPT !.failed = TRUE, !.due = FALSE, !.status = "not synced"]]
       /\ UNCHANGED queue
  ELSE /\ session' = [session EXCEPT ![s] =
            [new EXCEPT !.last = action, !.pending = TRUE, !.due = FALSE,
                        !.number = @ + 1, !.status = "syncing"]]
       /\ queue' = Append(queue, [play |-> s, number |-> session'[s].number, action |-> action])

\* Fault: no retry.
NewsOnly(x, action) == x.last # action /\ ~x.failed

Idle(x) == ~x.ended /\ ~x.pending /\ ~x.watched

\* There is something to report, or to try again after 30 seconds.
ToReport(x, action) == IF x.failed THEN x.due ELSE x.last # action

\* Reports made so far
Reports == MapThenSumSet(LAMBDA s : session[s].number, Plays)

Observe(at, paused) ==
  /\ playing /\ loaded
  /\ LET x == session[plays]
         action == Action(at, paused) IN
       /\ x.ready /\ x.connected /\ Idle(x)
       /\ ~(at = "zero" /\ x.last = None)
       /\ ToReport(x, action)
       /\ Reports < MaxReports
       /\ Send(plays, x, action)
  /\ UNCHANGED <<player, sending, answers, heard, quit, dropped>>

\* Thirty seconds after a failure.
TimePasses(s) ==
  /\ session[s].failed /\ ~session[s].due /\ ~session[s].ended
  /\ session' = [session EXCEPT ![s].due = TRUE]
  /\ UNCHANGED <<player, queue, sending, answers, heard, quit, dropped>>

\* Fault: not behind a report under way.
LastReportIdle(x, at) == ~x.ended /\ ~x.watched /\ loaded /\ x.connected /\ ~x.pending

\* The playback ends with a report of its own, behind what is under way.
LastReport(x, at) ==
  /\ ~x.ended /\ ~x.watched /\ loaded /\ x.connected
  /\ ~(at = "late" /\ x.last = "stop" /\ x.pending)

\* At the end of an episode the player stays for the "up next" panel, and
\* finishes once more when it is closed.
Finish(at) ==
  /\ playing
  /\ playing' = FALSE \/ (at = "late" /\ playing' = TRUE)
  /\ LET x == session[plays]
         ended == [x EXCEPT !.ended = TRUE]
         reports == LastReport(x, at) IN
       /\ IF reports THEN Send(plays, ended, Action(at, TRUE))
          ELSE session' = [session EXCEPT ![plays] = ended] /\ UNCHANGED queue
       /\ dropped' = IF reports /\ Full THEN dropped \union {plays} ELSE dropped
  /\ UNCHANGED <<plays, loaded, sending, answers, heard, quit>>

-----------------------------------------------------------------------------
(* The queue's task *)

Flush == [play |-> 0, number |-> 0, action |-> "flush"]

\* receiver.recv()
NextUp == {i \in DOMAIN queue : i = 1 /\ queue[i] # Flush}

Take(i) ==
  /\ sending = None
  /\ sending' = queue[i]
  /\ queue' = SubSeq(queue, 1, i - 1) \o SubSeq(queue, i + 1, Len(queue))
  /\ UNCHANGED <<player, session, answers, heard, quit, dropped>>

\* What Trakt records for an action; below its own threshold it takes a stop as
\* a pause.
Recorded(action) ==
  CASE action = "start" -> {"watching"}
    [] action = "pause" -> {"paused"}
    [] action = "stop" -> {"watched", "paused"}

Results == {"watching", "paused", "watched", "gone", "error"}

Answered(result) ==
  /\ answers' = answers \union
       {[play |-> sending.play, number |-> sending.number, action |-> sending.action,
         result |-> result]}
  /\ sending' = None
  /\ UNCHANGED <<player, session, queue, quit, dropped>>

\* Trakt records the report, and the task learns of it or not.
Confirm ==
  /\ sending # None
  /\ \E r \in Recorded(sending.action) :
       /\ heard' = [heard EXCEPT ![sending.play] = r]
       /\ Answered(r) \/ Answered("error")

\* Trakt is not reached or refuses; the account was disconnected or replaced.
Reject ==
  /\ sending # None
  /\ Answered("error") \/ Answered("gone")
  /\ UNCHANGED heard

\* Fault: any answer counts.
CurrentAlways(a) == TRUE

Current(a) == session[a.play].number = a.number

Settled(x, result) ==
  CASE result = "error" -> [x EXCEPT !.pending = FALSE, !.failed = TRUE, !.status = "not synced"]
    [] result = "gone" -> [x EXCEPT !.pending = FALSE, !.connected = FALSE, !.status = "hidden"]
    [] OTHER -> [x EXCEPT !.pending = FALSE, !.failed = FALSE, !.status = result,
                          !.watched = IF result = "watched" THEN TRUE ELSE x.watched]

See(a) ==
  /\ session' =
       IF Current(a) THEN [session EXCEPT ![a.play] = Settled(session[a.play], a.result)]
       ELSE session
  /\ answers' = answers \ {a}
  /\ UNCHANGED <<player, queue, sending, heard, quit, dropped>>

-----------------------------------------------------------------------------
(* Quitting: the window closes once the playback has ended. *)

Quit ==
  /\ ~playing /\ quit = "no"
  /\ quit' = "asked"
  /\ UNCHANGED <<player, session, queue, sending, answers, heard, dropped>>

FlushedQueue == Append(queue, Flush)

AskFlush ==
  /\ quit = "asked" /\ ~Full
  /\ queue' = FlushedQueue
  /\ quit' = "flushing"
  /\ UNCHANGED <<player, session, sending, answers, heard, dropped>>

FlushDone ==
  /\ quit = "flushing" /\ sending = None
  /\ queue # <<>> /\ Head(queue) = Flush
  /\ queue' = Tail(queue)
  /\ quit' = "flushed"
  /\ UNCHANGED <<player, session, sending, answers, heard, dropped>>

\* After five seconds
GiveUp ==
  /\ quit \in {"asked", "flushing"}
  /\ quit' = "gave up"
  /\ UNCHANGED <<player, session, queue, sending, answers, heard, dropped>>

-----------------------------------------------------------------------------

Running == quit \notin {"flushed", "gave up"}

\* The user interface's loop stops when the application shuts down.
UiStep ==
  /\ quit = "no"
  /\ \/ Play \/ Loaded \/ Quit
     \/ \E at \in Positions : Finish(at) \/ \E paused \in BOOLEAN : Observe(at, paused)
     \/ \E s \in Plays : Check(s) \/ TimePasses(s)
     \/ \E a \in answers : See(a)

TaskStep ==
  /\ Running
  /\ (\E i \in NextUp : Take(i)) \/ Confirm \/ Reject \/ AskFlush \/ FlushDone \/ GiveUp

Next == UiStep \/ TaskStep

Spec == Init /\ [][Next]_vars

\* The player looks every 200 ms (and a video does not stay at its very start),
\* the clock runs, the task and the loop run, and the HTTP client answers or gives up.
Fairness ==
  /\ WF_vars(quit = "no" /\ \E at \in Positions, paused \in BOOLEAN : Observe(at, paused))
  /\ \A s \in Plays : WF_vars(quit = "no" /\ TimePasses(s))
  /\ WF_vars(Running /\ \E i \in NextUp : Take(i))
  /\ WF_vars(Running /\ (Confirm \/ Reject))
  /\ WF_vars(quit = "no" /\ \E a \in answers : See(a))

FairSpec == Spec /\ Fairness

-----------------------------------------------------------------------------
(* Properties *)

Report == [play: Plays, number: 1 .. MaxReports + 1, action: {"start", "pause", "stop"}]

Unsent(s) == {i \in DOMAIN queue : queue[i].play = s}

IsSending(s) == sending # None /\ sending.play = s

\* The badge says "Watching", "Paused synced" or "Watched synced" only while this
\* is what Trakt recorded last of the playback, whatever answers come in late.
BadgeConfirmed ==
  \A s \in Plays : session[s].status \in {"watching", "paused", "watched"} =>
    heard[s] = session[s].status

\* The last report of a playback is heard, once.  A playback that ended, and whose
\* last report found room and was confirmed, is not left as "watching" on Trakt;
\* and "at 95% Madari sends a watched scrobble once": no second one while the first
\* is under way or unanswered, and no report at all once it is confirmed.
EndsAreHeardOnce ==
  \A s \in Plays :
    LET x == session[s]
    IN /\ s \notin dropped /\ x.ended /\ x.connected /\ ~x.pending /\ ~x.failed
            => heard[s] # "watching"
       /\ Cardinality({i \in Unsent(s) : queue[i].action = "stop"})
            + Cardinality({a \in answers : a.play = s /\ a.action = "stop"})
            + (IF IsSending(s) /\ sending.action = "stop" THEN 1 ELSE 0) <= 1
       /\ x.watched => Unsent(s) = {} /\ ~IsSending(s)

\* "Failures retry after 30 seconds during playback", while the account is there.
Retried == \A s \in Plays :
  session[s].failed /\ ~session[s].pending ~>
    \/ session[s].pending \/ session[s].ended \/ quit # "no"
    \/ ~session[s].connected \/ Reports >= MaxReports

=============================================================================
