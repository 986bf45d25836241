--------------------------- MODULE ScrobbleProofs ---------------------------
(***************************************************************************)
(* Proofs about Scrobble, for any number of playbacks and reports and any   *)
(* capacity of the queue.                                                   *)
(***************************************************************************)
EXTENDS Scrobble, FiniteSetTheorems, TLAPS

Confirmed == {"watching", "paused", "watched"}

Heard == {"nothing"} \union Confirmed

SessionFields ==
  {"ready", "connected", "pending", "watched", "ended", "failed", "due", "number", "last", "status"}

SomeReport == [play : Plays, number : Nat \ {0}, action : {"start", "pause", "stop"}]

AnswerType == [play : Plays, number : Nat \ {0}, action : {"start", "pause", "stop"}, result : Results]

Sent(m) == m \in SomeReport /\ m.number <= session[m.play].number

ScrobbleOK ==
  /\ plays \in Nat /\ plays <= MaxPlays /\ (playing => plays \in Plays)
  /\ session = [s \in Plays |-> session[s]]
  /\ \A s \in Plays : DOMAIN session[s] = SessionFields /\ session[s].number \in Nat
  /\ queue \in Seq(SomeReport \union {Flush})
  /\ \A i \in DOMAIN queue : queue[i] # Flush => Sent(queue[i])
  /\ sending # None => Sent(sending)
  /\ answers \subseteq AnswerType
  /\ \A a \in answers : a.number <= session[a.play].number
  /\ heard \in [Plays -> Heard]

\* Reports of one playback are numbered in the order in which they leave.
InQueueOrder ==
  /\ \A i, j \in DOMAIN queue : i < j /\ queue[i].play = queue[j].play /\ queue[i] # Flush
       => queue[i].number < queue[j].number
  /\ sending # None => \A i \in DOMAIN queue :
       queue[i].play = sending.play => sending.number < queue[i].number
  /\ \A a \in answers :
       /\ sending # None /\ sending.play = a.play => a.number < sending.number
       /\ \A i \in DOMAIN queue : queue[i].play = a.play => a.number < queue[i].number

\* The answer to a playback's newest report says what Trakt recorded last,
NewestIsHeard ==
  \A a \in answers :
    a.number = session[a.play].number /\ a.result \in Confirmed => heard[a.play] = a.result

\* and a badge that shows it has no report behind it.
BadgeRests ==
  \A s \in Plays : session[s].status \in Confirmed =>
    /\ heard[s] = session[s].status
    /\ ~(sending # None /\ sending.play = s)
    /\ \A i \in DOMAIN queue : queue[i].play # s

BadgeInv == ScrobbleOK /\ InQueueOrder /\ NewestIsHeard /\ BadgeRests

-----------------------------------------------------------------------------
(* Queues *)

LEMMA AppendAt ==
  ASSUME NEW S, NEW q \in Seq(S), NEW x \in S
  PROVE  /\ Append(q, x) \in Seq(S)
         /\ Len(q) \in Nat /\ DOMAIN q = 1 .. Len(q) /\ DOMAIN Append(q, x) = 1 .. Len(q) + 1
         /\ \A i \in DOMAIN q : Append(q, x)[i] = q[i]
         /\ Append(q, x)[Len(q) + 1] = x
  OBVIOUS

LEMMA TailAt ==
  ASSUME NEW S, NEW q \in Seq(S), q # <<>>
  PROVE  /\ Tail(q) \in Seq(S)
         /\ Len(q) \in Nat /\ DOMAIN q = 1 .. Len(q) /\ 1 \in DOMAIN q
         /\ DOMAIN Tail(q) = 1 .. Len(q) - 1
         /\ \A i \in DOMAIN Tail(q) : i + 1 \in DOMAIN q /\ Tail(q)[i] = q[i + 1]
  OBVIOUS

\* Without its first element a queue is its tail.
LEMMA WithoutFirst ==
  ASSUME NEW S, NEW q \in Seq(S), q # <<>>
  PROVE  SubSeq(q, 1, 0) \o SubSeq(q, 2, Len(q)) = Tail(q)
  OBVIOUS

FlushIsNoReport == Flush \notin SomeReport /\ Flush.play \notin Plays

LEMMA FlushApart == FlushIsNoReport
  BY DEF FlushIsNoReport, Flush, SomeReport, Plays

LEMMA BadgeInitially == Init => BadgeInv
  <1> SUFFICES ASSUME Init PROVE BadgeInv
    OBVIOUS
  <1>1. queue \in Seq(SomeReport \union {Flush}) /\ DOMAIN queue = {}
    BY DEF Init
  <1>2. \A s \in Plays : DOMAIN session[s] = SessionFields /\ session[s].number = 0
                         /\ session[s].status = "hidden"
    BY DEF Init, NewSession, SessionFields
  <1>3. /\ plays = 0 /\ ~playing /\ sending = None /\ answers = {}
        /\ heard \in [Plays -> Heard]
    <2>1. heard = [s \in Plays |-> "nothing"]
      BY DEF Init
    <2> QED BY <2>1 DEF Init, Heard
  <1>5. session = [s \in Plays |-> session[s]]
    <2>1. session = [s \in Plays |-> NewSession]
      BY DEF Init
    <2> QED BY <2>1
  <1>4. ScrobbleOK
    BY <1>1, <1>2, <1>3, <1>5, ScrobbleAssumption DEF ScrobbleOK
  <1> QED BY <1>1, <1>2, <1>3, <1>4
             DEF BadgeInv, InQueueOrder, NewestIsHeard, BadgeRests, Confirmed

\* Steps that move no report and no badge.
LEMMA Still ==
  ASSUME BadgeInv, UNCHANGED <<queue, sending, answers, heard>>,
         plays' \in Nat, plays' <= MaxPlays, playing' => plays' \in Plays,
         session' = [s \in Plays |-> session'[s]],
         \A s \in Plays : /\ DOMAIN session'[s] = SessionFields
                          /\ session'[s].number = session[s].number
                          /\ session'[s].status = session[s].status \/ session'[s].status \notin Confirmed
  PROVE  BadgeInv'
  <1>1. ScrobbleOK'
    BY DEF BadgeInv, ScrobbleOK, Sent, SomeReport, AnswerType
  <1> QED BY <1>1 DEF BadgeInv, ScrobbleOK, InQueueOrder, NewestIsHeard, BadgeRests, AnswerType

\* A report at the end of the queue, with the highest number of its playback.
LEMMA QueuedKeeps ==
  ASSUME BadgeInv, NEW s \in Plays, NEW report \in SomeReport,
         report.play = s, report.number = session[s].number + 1,
         queue' = Append(queue, report), UNCHANGED <<sending, answers, heard>>,
         session' = [t \in Plays |-> session'[t]],
         DOMAIN session'[s] = SessionFields, session'[s].number = session[s].number + 1,
         session'[s].status = "syncing",
         \A t \in Plays \ {s} : session'[t] = session[t],
         plays' \in Nat, plays' <= MaxPlays, playing' => plays' \in Plays
  PROVE  BadgeInv'
  <1>4. /\ queue' \in Seq(SomeReport \union {Flush})
        /\ Len(queue) \in Nat /\ DOMAIN queue = 1 .. Len(queue) /\ DOMAIN queue' = 1 .. Len(queue) + 1
        /\ \A i \in DOMAIN queue : queue'[i] = queue[i]
        /\ queue'[Len(queue) + 1] = report
    BY AppendAt DEF BadgeInv, ScrobbleOK
  <1>5. report # Flush
    BY FlushApart DEF FlushIsNoReport
  <1>6. \A t \in Plays : session[t].number \in Nat /\ session'[t].number \in Nat
                         /\ session[t].number <= session'[t].number
    BY DEF BadgeInv, ScrobbleOK
  <1>7. ScrobbleOK'
    <2>1. \A m \in SomeReport : m.number <= session[m.play].number => m.number <= session'[m.play].number
      BY <1>6 DEF SomeReport
    <2>2. report \in SomeReport /\ report.number <= session'[report.play].number
      BY <1>6
    <2>3. \A i \in DOMAIN queue' : queue'[i] # Flush =>
            queue'[i] \in SomeReport /\ queue'[i].number <= session'[queue'[i].play].number
      <3> SUFFICES ASSUME NEW i \in DOMAIN queue', queue'[i] # Flush
                   PROVE  queue'[i] \in SomeReport /\ queue'[i].number <= session'[queue'[i].play].number
        OBVIOUS
      <3>1. CASE i \in DOMAIN queue
        <4>1. queue[i] \in SomeReport /\ queue[i].number <= session[queue[i].play].number
          BY <1>4, <3>1 DEF BadgeInv, ScrobbleOK, Sent
        <4> QED BY <1>4, <2>1, <3>1, <4>1
      <3>2. CASE i \notin DOMAIN queue
        <4>1. i = Len(queue) + 1
          BY <1>4, <3>2
        <4> QED BY <1>4, <2>2, <4>1
      <3> QED BY <3>1, <3>2
    <2>4. \A a \in answers' : a.number <= session'[a.play].number
      BY <1>6 DEF BadgeInv, ScrobbleOK, AnswerType
    <2>5. \A t \in Plays : DOMAIN session'[t] = SessionFields
      BY DEF BadgeInv, ScrobbleOK
    <2>6. sending # None =>
            sending \in SomeReport /\ sending.number <= session'[sending.play].number
      BY <2>1 DEF BadgeInv, ScrobbleOK, Sent
    <2>7. answers' \subseteq AnswerType /\ heard' \in [Plays -> Heard]
      BY DEF BadgeInv, ScrobbleOK
    <2> QED BY <1>4, <1>6, <2>3, <2>4, <2>5, <2>6, <2>7 DEF ScrobbleOK, Sent
  <1>8. /\ \A i \in DOMAIN queue : queue[i].play = s => queue[i].number < report.number
        /\ sending # None /\ sending.play = s => sending.number < report.number
        /\ \A a \in answers : a.play = s => a.number < report.number
    <2>1. \A m \in SomeReport : Sent(m) /\ m.play = s => m.number < report.number
      BY <1>6 DEF Sent, SomeReport
    <2>2. \A i \in DOMAIN queue : queue[i].play = s => Sent(queue[i]) /\ queue[i] \in SomeReport
      BY FlushApart DEF BadgeInv, ScrobbleOK, Sent, FlushIsNoReport
    <2>3. sending # None => Sent(sending) /\ sending \in SomeReport
      BY DEF BadgeInv, ScrobbleOK, Sent
    <2>4. \A a \in answers : a.play = s => a.number < report.number
      BY <1>6 DEF BadgeInv, ScrobbleOK, AnswerType
    <2> QED BY <2>1, <2>2, <2>3, <2>4
  <1>9. InQueueOrder'
    BY <1>4, <1>5, <1>8 DEF BadgeInv, InQueueOrder
  <1>10. NewestIsHeard'
    <2> SUFFICES ASSUME NEW a \in answers, a.number = session'[a.play].number, a.result \in Confirmed
                 PROVE  heard[a.play] = a.result
      BY DEF NewestIsHeard
    <2>1. a.play \in Plays /\ a.play # s
      BY <1>8 DEF BadgeInv, ScrobbleOK, AnswerType
    <2> QED BY <2>1 DEF BadgeInv, NewestIsHeard
  <1>11. BadgeRests'
    BY <1>4, <1>5 DEF BadgeInv, BadgeRests, Confirmed
  <1> QED BY <1>7, <1>9, <1>10, <1>11 DEF BadgeInv

\* A new report is the last in the queue and has the highest number.
LEMMA SendKeeps ==
  ASSUME BadgeInv, NEW s \in Plays, NEW new, NEW action \in {"start", "pause", "stop"},
         DOMAIN new = SessionFields, new.number = session[s].number,
         Send(s, new, action), UNCHANGED <<sending, answers, heard>>,
         plays' \in Nat, plays' <= MaxPlays, playing' => plays' \in Plays
  PROVE  BadgeInv'
  <1>1. CASE Full
    <2>1. /\ UNCHANGED queue
          /\ session' = [session EXCEPT ![s] =
               [new EXCEPT !.failed = TRUE, !.due = FALSE, !.status = "not synced"]]
      BY <1>1 DEF Send
    <2>2. /\ session' = [t \in Plays |-> session'[t]]
          /\ \A t \in Plays : /\ DOMAIN session'[t] = SessionFields
                              /\ session'[t].number = session[t].number
                              /\ session'[t].status = session[t].status \/ session'[t].status \notin Confirmed
      BY <2>1 DEF BadgeInv, ScrobbleOK, SessionFields, Confirmed
    <2> QED BY <2>1, <2>2, Still
  <1>2. CASE ~Full
    <2> DEFINE report == [play |-> s, number |-> session[s].number + 1, action |-> action]
    <2>1. /\ session' = [session EXCEPT ![s] =
               [new EXCEPT !.last = action, !.pending = TRUE, !.due = FALSE,
                           !.number = @ + 1, !.status = "syncing"]]
          /\ queue' = Append(queue, [play |-> s, number |-> session'[s].number, action |-> action])
      BY <1>2 DEF Send
    <2>2. /\ session' = [t \in Plays |-> session'[t]]
          /\ DOMAIN session'[s] = SessionFields /\ session'[s].number = session[s].number + 1
          /\ session'[s].status = "syncing"
          /\ \A t \in Plays \ {s} : session'[t] = session[t]
      BY <2>1 DEF BadgeInv, ScrobbleOK, SessionFields
    <2>3. queue' = Append(queue, report)
      BY <2>1, <2>2
    <2>4. /\ report \in SomeReport /\ report.play = s
          /\ report.number = session[s].number + 1
      BY DEF BadgeInv, ScrobbleOK, SomeReport
    <2> HIDE DEF report
    <2> QED BY <2>2, <2>3, <2>4, QueuedKeeps
  <1> QED BY <1>1, <1>2

LEMMA UiKeeps ==
  ASSUME BadgeInv, UiStep, \A a \in answers : ~See(a)
  PROVE  BadgeInv'
  <1>0. /\ plays \in Nat /\ plays <= MaxPlays /\ (playing => plays \in Plays)
        /\ session = [s \in Plays |-> session[s]]
        /\ \A s \in Plays : DOMAIN session[s] = SessionFields
    BY DEF BadgeInv, ScrobbleOK
  <1>1. CASE Play
    <2>1. plays' \in Nat /\ plays' <= MaxPlays /\ plays' \in Plays
      BY <1>0, <1>1, ScrobbleAssumption DEF Play, Plays
    <2> QED BY <1>0, <1>1, <2>1, Still DEF Play
  <1>2. CASE Loaded \/ Quit
    BY <1>0, <1>2, Still DEF Loaded, Quit, player
  <1>3. ASSUME NEW s \in Plays, Check(s) \/ TimePasses(s)
        PROVE  BadgeInv'
    <2>1. /\ session' = [t \in Plays |-> session'[t]]
          /\ \A t \in Plays : /\ DOMAIN session'[t] = SessionFields
                              /\ session'[t].number = session[t].number
                              /\ session'[t].status = session[t].status
      <3>1. CASE Check(s)
        <4>1. PICK has \in BOOLEAN :
                session' = [session EXCEPT ![s].ready = TRUE, ![s].connected = has]
          BY <3>1 DEF Check
        <4>2. /\ DOMAIN session'[s] = SessionFields /\ session'[s].number = session[s].number
              /\ session'[s].status = session[s].status
          BY <1>0, <4>1 DEF SessionFields
        <4>3. session' = [t \in Plays |-> session'[t]] /\ \A t \in Plays \ {s} : session'[t] = session[t]
          BY <1>0, <4>1
        <4> QED BY <1>0, <4>2, <4>3
      <3>2. CASE TimePasses(s)
        BY <1>0, <3>2 DEF TimePasses, SessionFields
      <3> QED BY <1>3, <3>1, <3>2
    <2>2. UNCHANGED <<plays, playing, queue, sending, answers, heard>>
      BY <1>3 DEF Check, TimePasses, player
    <2> QED BY <1>0, <2>1, <2>2, Still
  <1>4. ASSUME NEW at \in Positions, NEW paused \in BOOLEAN, Observe(at, paused)
        PROVE  BadgeInv'
    <2>1. Action(at, paused) \in {"start", "pause", "stop"}
      BY DEF Action
    <2>2. plays \in Plays /\ Send(plays, session[plays], Action(at, paused))
          /\ UNCHANGED <<plays, playing, sending, answers, heard>>
      BY <1>0, <1>4 DEF Observe, player
    <2> QED BY <1>0, <2>1, <2>2, SendKeeps
  <1>5. ASSUME NEW at \in Positions, Finish(at)
        PROVE  BadgeInv'
    <2> DEFINE ended == [session[plays] EXCEPT !.ended = TRUE]
    <2>1. /\ plays \in Plays /\ UNCHANGED <<plays, sending, answers, heard>>
          /\ \/ Send(plays, ended, Action(at, TRUE))
             \/ session' = [session EXCEPT ![plays] = ended] /\ UNCHANGED queue
      BY <1>0, <1>5 DEF Finish
    <2>2. /\ DOMAIN ended = SessionFields /\ ended.number = session[plays].number
          /\ ended.status = session[plays].status
      BY <1>0, <2>1 DEF SessionFields
    <2>3. Action(at, TRUE) \in {"start", "pause", "stop"}
      BY DEF Action
    <2> HIDE DEF ended
    <2>4. CASE Send(plays, ended, Action(at, TRUE))
      BY <1>0, <2>1, <2>2, <2>3, <2>4, SendKeeps
    <2>5. CASE session' = [session EXCEPT ![plays] = ended] /\ UNCHANGED queue
      BY <1>0, <2>1, <2>2, <2>5, Still
    <2> QED BY <2>1, <2>4, <2>5
  <1> QED BY <1>1, <1>2, <1>3, <1>4, <1>5 DEF UiStep

-----------------------------------------------------------------------------
(* The task that sends *)

\* What waits keeps its order when the first leaves.
LEMMA TailKeeps ==
  ASSUME BadgeInv, queue # <<>>, queue' = Tail(queue), UNCHANGED <<player, session, answers, heard>>,
         \/ sending' = sending
         \/ sending = None /\ sending' = queue[1] /\ queue[1] # Flush
  PROVE  BadgeInv'
  <1>1. /\ queue' \in Seq(SomeReport \union {Flush})
        /\ Len(queue) \in Nat /\ DOMAIN queue = 1 .. Len(queue) /\ 1 \in DOMAIN queue
        /\ DOMAIN queue' = 1 .. Len(queue) - 1
        /\ \A i \in DOMAIN queue' : i + 1 \in DOMAIN queue /\ queue'[i] = queue[i + 1]
    BY TailAt DEF BadgeInv, ScrobbleOK
  <1>2. \A i \in DOMAIN queue' : i \in Nat /\ i + 1 > 1
    BY <1>1
  <1>3. sending' # None => Sent(sending')
    BY <1>1 DEF BadgeInv, ScrobbleOK
  <1>4. ScrobbleOK'
    <2>1. \A m : Sent(m)' <=> Sent(m)
      BY DEF Sent
    <2>2. \A i \in DOMAIN queue' : queue'[i] # Flush => Sent(queue'[i])
      BY <1>1 DEF BadgeInv, ScrobbleOK
    <2> QED BY <1>1, <1>3, <2>1, <2>2 DEF BadgeInv, ScrobbleOK, player
  <1>5. InQueueOrder'
    <2>1. \A i, j \in DOMAIN queue' : i < j /\ queue'[i].play = queue'[j].play /\ queue'[i] # Flush
            => queue'[i].number < queue'[j].number
      <3> SUFFICES ASSUME NEW i \in DOMAIN queue', NEW j \in DOMAIN queue', i < j,
                          queue'[i].play = queue'[j].play, queue'[i] # Flush
                   PROVE  queue'[i].number < queue'[j].number
        OBVIOUS
      <3>1. /\ i + 1 \in DOMAIN queue /\ j + 1 \in DOMAIN queue /\ i + 1 < j + 1
            /\ queue'[i] = queue[i + 1] /\ queue'[j] = queue[j + 1]
        BY <1>1
      <3> QED BY <3>1 DEF BadgeInv, InQueueOrder
    <2>2. sending' # None => \A i \in DOMAIN queue' :
            queue'[i].play = sending'.play => sending'.number < queue'[i].number
      <3>1. CASE sending' = sending
        BY <1>1, <3>1 DEF BadgeInv, InQueueOrder
      <3>2. CASE sending' = queue[1] /\ queue[1] # Flush
        <4> SUFFICES ASSUME NEW i \in DOMAIN queue', queue'[i].play = queue[1].play
                     PROVE  queue[1].number < queue'[i].number
          BY <3>2
        <4>1. i + 1 \in DOMAIN queue /\ 1 < i + 1 /\ queue'[i] = queue[i + 1] /\ 1 \in DOMAIN queue
          BY <1>1, <1>2
        <4> QED BY <3>2, <4>1 DEF BadgeInv, InQueueOrder
      <3> QED BY <3>1, <3>2
    <2>3. \A a \in answers' :
            /\ sending' # None /\ sending'.play = a.play => a.number < sending'.number
            /\ \A i \in DOMAIN queue' : queue'[i].play = a.play => a.number < queue'[i].number
      BY <1>1 DEF BadgeInv, InQueueOrder
    <2> QED BY <2>1, <2>2, <2>3 DEF InQueueOrder
  <1>6. NewestIsHeard' /\ BadgeRests'
    BY <1>1 DEF BadgeInv, NewestIsHeard, BadgeRests
  <1> QED BY <1>4, <1>5, <1>6 DEF BadgeInv

\* An answer says what Trakt recorded, if it says anything.
LEMMA AnswerKeeps ==
  ASSUME BadgeInv, sending # None, NEW result \in Results, Answered(result),
         heard' \in [Plays -> Heard],
         \A s \in Plays : s # sending.play => heard'[s] = heard[s],
         result \in Confirmed => heard'[sending.play] = result
  PROVE  BadgeInv'
  <1> DEFINE b == [play |-> sending.play, number |-> sending.number, action |-> sending.action,
                   result |-> result]
  <1>1. /\ answers' = answers \union {b} /\ sending' = None
        /\ UNCHANGED <<plays, playing, session, queue>>
    BY DEF Answered, player
  <1>2. Sent(sending) /\ sending \in SomeReport
    BY DEF BadgeInv, ScrobbleOK, Sent
  <1>3. /\ b \in AnswerType /\ b.play = sending.play /\ b.number = sending.number
        /\ b.result = result
    BY <1>2 DEF SomeReport, AnswerType
  <1>4. answers' = answers \union {b}
    BY <1>1
  <1> HIDE DEF b
  <1>5. ScrobbleOK'
    <2>1. \A m : Sent(m)' <=> Sent(m)
      BY <1>1 DEF Sent
    <2>2. b.number <= session[b.play].number
      BY <1>2, <1>3 DEF Sent
    <2> QED BY <1>1, <1>3, <1>4, <2>1, <2>2 DEF BadgeInv, ScrobbleOK
  <1>6. InQueueOrder'
    BY <1>1, <1>3, <1>4 DEF BadgeInv, InQueueOrder
  <1>7. NewestIsHeard'
    <2> SUFFICES ASSUME NEW c \in answers', c.number = session[c.play].number, c.result \in Confirmed
                 PROVE  heard'[c.play] = c.result
      BY <1>1 DEF NewestIsHeard
    <2>1. CASE c = b
      BY <1>3, <2>1
    <2>2. CASE c # b
      <3>1. c \in answers /\ c.play \in Plays
        BY <1>4, <2>2 DEF BadgeInv, ScrobbleOK, AnswerType
      <3>2. c.play # sending.play
        BY <1>2, <3>1 DEF Sent, SomeReport, BadgeInv, ScrobbleOK, InQueueOrder
      <3> QED BY <3>1, <3>2 DEF BadgeInv, NewestIsHeard
    <2> QED BY <2>1, <2>2
  <1>8. BadgeRests'
    BY <1>1 DEF BadgeInv, BadgeRests
  <1> QED BY <1>5, <1>6, <1>7, <1>8 DEF BadgeInv

\* The badge follows the answer to the newest report, behind which there is none.
LEMMA SeeKeeps ==
  ASSUME BadgeInv, NEW a \in answers, See(a)
  PROVE  BadgeInv'
  <1>1. /\ answers' \subseteq answers /\ UNCHANGED <<plays, playing, queue, sending, heard>>
        /\ a \in AnswerType
    BY DEF See, player, BadgeInv, ScrobbleOK
  <1>2. /\ session' = [s \in Plays |-> session'[s]]
        /\ \A s \in Plays : /\ DOMAIN session'[s] = SessionFields
                            /\ session'[s].number = session[s].number
                            /\ \/ session'[s].status = session[s].status
                               \/ session'[s].status \notin Confirmed
                               \/ s = a.play /\ Current(a) /\ session'[s].status = a.result
    <2>1. CASE ~Current(a)
      BY <2>1 DEF See, BadgeInv, ScrobbleOK
    <2>2. CASE Current(a)
      <3> DEFINE x == session[a.play]
                 new == Settled(x, a.result)
      <3>1. DOMAIN x = SessionFields /\ a.play \in Plays
        BY <1>1 DEF AnswerType, BadgeInv, ScrobbleOK
      <3>2. /\ DOMAIN new = SessionFields /\ new.number = x.number
            /\ new.status \in {"not synced", "hidden", a.result}
        <4>1. CASE a.result = "error"
          BY <3>1, <4>1 DEF Settled, SessionFields
        <4>2. CASE a.result = "gone"
          BY <3>1, <4>2 DEF Settled, SessionFields
        <4>3. CASE a.result \notin {"error", "gone"}
          BY <3>1, <4>3 DEF Settled, SessionFields
        <4> QED BY <4>1, <4>2, <4>3
      <3>3. session' = [session EXCEPT ![a.play] = new]
        BY <2>2 DEF See
      <3> HIDE DEF new
      <3> QED BY <2>2, <3>1, <3>2, <3>3 DEF BadgeInv, ScrobbleOK, Confirmed
    <2> QED BY <2>1, <2>2
  <1>3. ScrobbleOK'
    <2>1. \A m : Sent(m)' <=> Sent(m)
      BY <1>2 DEF Sent, SomeReport
    <2> QED BY <1>1, <1>2, <2>1 DEF BadgeInv, ScrobbleOK, AnswerType
  <1>4. InQueueOrder' /\ NewestIsHeard'
    BY <1>1, <1>2 DEF BadgeInv, InQueueOrder, NewestIsHeard, ScrobbleOK, AnswerType
  <1>5. BadgeRests'
    <2> SUFFICES ASSUME NEW s \in Plays, session'[s].status \in Confirmed
                 PROVE  /\ heard[s] = session'[s].status
                        /\ ~(sending # None /\ sending.play = s)
                        /\ \A i \in DOMAIN queue : queue[i].play # s
      BY <1>1 DEF BadgeRests
    <2>1. CASE session'[s].status = session[s].status
      BY <2>1 DEF BadgeInv, BadgeRests
    <2>2. CASE s = a.play /\ Current(a) /\ session'[s].status = a.result
      <3>1. heard[s] = a.result
        BY <2>2 DEF Current, BadgeInv, NewestIsHeard
      <3>2. ~(sending # None /\ sending.play = s)
        BY <1>1, <2>2 DEF Current, BadgeInv, InQueueOrder, ScrobbleOK, Sent, SomeReport, AnswerType
      <3>3. \A i \in DOMAIN queue : queue[i].play # s
        BY <1>1, <2>2, FlushApart DEF Current, BadgeInv, InQueueOrder, ScrobbleOK, Sent, SomeReport,
           AnswerType, FlushIsNoReport
      <3> QED BY <2>2, <3>1, <3>2, <3>3
    <2> QED BY <1>2, <2>1, <2>2
  <1> QED BY <1>3, <1>4, <1>5 DEF BadgeInv

LEMMA AskFlushKeeps ==
  ASSUME BadgeInv, AskFlush
  PROVE  BadgeInv'
  <1>1. queue' = Append(queue, Flush) /\ UNCHANGED <<plays, playing, session, sending, answers, heard>>
    BY DEF AskFlush, FlushedQueue, player
  <1>2. /\ queue' \in Seq(SomeReport \union {Flush})
        /\ Len(queue) \in Nat /\ DOMAIN queue = 1 .. Len(queue) /\ DOMAIN queue' = 1 .. Len(queue) + 1
        /\ \A i \in DOMAIN queue : queue'[i] = queue[i]
        /\ queue'[Len(queue) + 1] = Flush
    BY <1>1, AppendAt DEF BadgeInv, ScrobbleOK
  <1>3. ScrobbleOK'
    <2>1. \A m : Sent(m)' <=> Sent(m)
      BY <1>1 DEF Sent
    <2>2. \A i \in DOMAIN queue' : queue'[i] # Flush => Sent(queue'[i])
      BY <1>2 DEF BadgeInv, ScrobbleOK
    <2> QED BY <1>1, <1>2, <2>1, <2>2 DEF BadgeInv, ScrobbleOK
  <1>4. InQueueOrder'
    <2>1. /\ sending # None => sending.play \in Plays
          /\ \A a \in answers : a.play \in Plays
          /\ \A i \in DOMAIN queue : queue[i] # Flush => queue[i].play \in Plays
      BY DEF BadgeInv, ScrobbleOK, Sent, SomeReport, AnswerType
    <2> QED BY <1>1, <1>2, <2>1, FlushApart DEF BadgeInv, InQueueOrder, FlushIsNoReport
  <1>5. NewestIsHeard' /\ BadgeRests'
    BY <1>1, <1>2, FlushApart DEF BadgeInv, NewestIsHeard, BadgeRests, FlushIsNoReport
  <1> QED BY <1>3, <1>4, <1>5 DEF BadgeInv

LEMMA TaskKeeps ==
  ASSUME BadgeInv, TaskStep
  PROVE  BadgeInv'
  <1>1. ASSUME NEW i \in NextUp, Take(i)
        PROVE  BadgeInv'
    <2>1. i = 1 /\ 1 \in DOMAIN queue /\ queue[1] # Flush
      BY DEF NextUp
    <2>2. queue # <<>> /\ queue \in Seq(SomeReport \union {Flush})
      BY <2>1 DEF BadgeInv, ScrobbleOK
    <2>3. queue' = Tail(queue)
      BY <1>1, <2>1, <2>2, WithoutFirst DEF Take
    <2> QED BY <1>1, <2>1, <2>2, <2>3, TailKeeps DEF Take
  <1>2. CASE Confirm
    <2>0. sending # None /\ sending.play \in Plays
      BY <1>2 DEF Confirm, BadgeInv, ScrobbleOK, Sent, SomeReport
    <2>1. PICK r \in Recorded(sending.action) :
            heard' = [heard EXCEPT ![sending.play] = r] /\ (Answered(r) \/ Answered("error"))
      BY <1>2 DEF Confirm
    <2>2. r \in Confirmed /\ r \in Results /\ "error" \in Results /\ "error" \notin Confirmed
          /\ r \in Heard
      <3>1. sending.action \in {"start", "pause", "stop"}
        BY <2>0 DEF BadgeInv, ScrobbleOK, Sent, SomeReport
      <3>2. r \in {"watching", "paused", "watched"}
        BY <2>1, <3>1 DEF Recorded
      <3> QED BY <3>2 DEF Confirmed, Results, Heard
    <2>3. /\ heard' \in [Plays -> Heard] /\ heard'[sending.play] = r
          /\ \A s \in Plays : s # sending.play => heard'[s] = heard[s]
      BY <2>0, <2>1, <2>2 DEF BadgeInv, ScrobbleOK
    <2> QED BY <2>0, <2>1, <2>2, <2>3, AnswerKeeps
  <1>3. CASE Reject
    <2>1. {"error", "gone"} \subseteq Results /\ "error" \notin Confirmed /\ "gone" \notin Confirmed
      BY DEF Results, Confirmed
    <2> QED BY <1>3, <2>1, AnswerKeeps DEF Reject, BadgeInv, ScrobbleOK
  <1>4. CASE AskFlush
    BY <1>4, AskFlushKeeps
  <1>5. CASE FlushDone
    BY <1>5, TailKeeps DEF FlushDone
  <1>6. CASE GiveUp
    BY <1>6, Still DEF GiveUp, player, BadgeInv, ScrobbleOK
  <1> QED BY <1>1, <1>2, <1>3, <1>4, <1>5, <1>6 DEF TaskStep

-----------------------------------------------------------------------------

LEMMA BadgeStep == BadgeInv /\ [Next]_vars => BadgeInv'
  <1>1. BadgeInv /\ UNCHANGED vars => BadgeInv'
    <2> SUFFICES ASSUME BadgeInv, UNCHANGED vars PROVE BadgeInv'
      OBVIOUS
    <2> QED BY Still DEF vars, player, BadgeInv, ScrobbleOK
  <1>2. BadgeInv /\ UiStep => BadgeInv'
    BY UiKeeps, SeeKeeps
  <1>3. BadgeInv /\ TaskStep => BadgeInv'
    BY TaskKeeps
  <1> QED BY <1>1, <1>2, <1>3 DEF Next

\* The badge of the Linux player says what Trakt recorded last of the playback, in
\* whatever order answers are seen (Session::update in playback/trakt.rs).
THEOREM BadgeAlwaysConfirmed == Spec => []BadgeConfirmed
  <1>1. BadgeInv => BadgeConfirmed
    BY DEF BadgeInv, BadgeRests, BadgeConfirmed, Confirmed
  <1> QED BY <1>1, BadgeInitially, BadgeStep, PTL DEF Spec

-----------------------------------------------------------------------------
(* The last report *)

\* A report of playback s that its session has not seen an answer to
OnItsWay(s, n, action) ==
  \/ \E i \in DOMAIN queue :
       queue[i].play = s /\ queue[i].number = n /\ queue[i].action = action
  \/ sending # None /\ sending.play = s /\ sending.number = n /\ sending.action = action
  \/ \E a \in answers : a.play = s /\ a.number = n /\ a.action = action

\* Only the newest report is on its way, and the one before it once the playback
\* has ended; and they do not both say that it was watched.
FlightOK(s) ==
  \A n, action : OnItsWay(s, n, action) =>
    \/ n = session[s].number /\ session[s].pending /\ action = session[s].last
    \/ /\ n + 1 = session[s].number /\ session[s].ended
       /\ action = "stop" => session[s].last # "stop"

\* What a session knows of Trakt
SessionOK(s) ==
  /\ session[s].connected => session[s].ready
  /\ ~session[s].ready => session[s].number = 0
  /\ s > plays \/ (s = plays /\ ~loaded) => session[s].number = 0
  /\ session[s].number = 0 => heard[s] = "nothing"
  /\ session[s].ended /\ session[s].connected /\ s \notin dropped =>
       session[s].watched \/ session[s].number = 0 \/ session[s].last \in {"pause", "stop"}
  /\ ~session[s].pending /\ ~session[s].failed /\ session[s].connected =>
       session[s].number = 0 \/ session[s].status \in Recorded(session[s].last)

WatchedOK(s) ==
  session[s].watched =>
    heard[s] = "watched" /\ ~IsSending(s) /\ \A i \in DOMAIN queue : queue[i].play # s

\* Each report has one answer, which says what Trakt makes of its action.
AnswersOK ==
  /\ \A a, b \in answers : a.play = b.play /\ a.number = b.number => a = b
  /\ \A a \in answers : a.result \in Confirmed => a.result \in Recorded(a.action)

EndInv ==
  /\ BadgeInv
  /\ \A s \in Plays : FlightOK(s) /\ SessionOK(s) /\ WatchedOK(s)
  /\ AnswersOK

LEMMA PlaysAreNumbers == Plays \subseteq Nat \ {0}
  BY ScrobbleAssumption DEF Plays

LEMMA EndInitially == Init => EndInv
  <1> SUFFICES ASSUME Init PROVE EndInv
    OBVIOUS
  <1>1. \A s \in Plays : session[s] = NewSession /\ heard[s] = "nothing"
    BY DEF Init
  <1>2. queue = <<>> /\ DOMAIN queue = {} /\ sending = None /\ answers = {} /\ AnswersOK
    BY DEF Init, AnswersOK
  <1>3. \A s \in Plays : FlightOK(s)
    BY <1>2 DEF FlightOK, OnItsWay
  <1>4. \A s \in Plays : SessionOK(s) /\ WatchedOK(s)
    BY <1>1 DEF SessionOK, WatchedOK, NewSession
  <1> QED BY <1>2, <1>3, <1>4, BadgeInitially DEF EndInv

\* Steps of a session that move no report, nor what it knows of the last one.
LEMMA EndStill ==
  ASSUME EndInv, BadgeInv', UNCHANGED <<queue, sending, answers, heard>>,
         \A s \in Plays : /\ session'[s].number = session[s].number
                          /\ session'[s].pending = session[s].pending
                          /\ session'[s].last = session[s].last
                          /\ session'[s].watched = session[s].watched
                          /\ session[s].ended => session'[s].ended,
         \A s \in Plays : SessionOK(s)'
  PROVE  EndInv'
  <1>1. \A s \in Plays : \A n, action : OnItsWay(s, n, action)' => OnItsWay(s, n, action)
    BY DEF OnItsWay
  <1>2. \A s \in Plays : FlightOK(s)'
    BY <1>1 DEF EndInv, FlightOK
  <1>3. \A s \in Plays : WatchedOK(s)'
    BY DEF EndInv, WatchedOK, IsSending
  <1>4. AnswersOK'
    BY DEF EndInv, AnswersOK
  <1> QED BY <1>2, <1>3, <1>4 DEF EndInv

\* A report joins the queue, when its session waits for nothing, or for the last time.
LEMMA EndSends ==
  ASSUME EndInv, BadgeInv', NEW s \in Plays, s = plays, NEW action \in {"start", "pause", "stop"},
         UNCHANGED <<plays, loaded, sending, answers, heard, dropped>>, loaded,
         queue' = Append(queue, [play |-> s, number |-> session[s].number + 1, action |-> action]),
         session'[s].number = session[s].number + 1, session'[s].pending, session'[s].last = action,
         session'[s].ready = session[s].ready, session'[s].connected, session[s].connected,
         ~session[s].ended, ~session[s].watched, ~session'[s].watched,
         \A t \in Plays \ {s} : session'[t] = session[t],
         \/ ~session'[s].ended /\ ~session[s].pending
         \/ /\ session'[s].ended /\ action \in {"pause", "stop"}
            /\ ~(action = "stop" /\ session[s].last = "stop" /\ session[s].pending)
  PROVE  EndInv'
  <1> DEFINE report == [play |-> s, number |-> session[s].number + 1, action |-> action]
  <1>1. /\ session[s].number \in Nat /\ queue \in Seq(SomeReport \union {Flush})
        /\ report \in SomeReport
    BY DEF EndInv, BadgeInv, ScrobbleOK, SomeReport
  <1>2. /\ DOMAIN queue' = DOMAIN queue \union {Len(queue) + 1}
        /\ \A i \in DOMAIN queue : queue'[i] = queue[i]
        /\ queue'[Len(queue) + 1] = report
    <2>1. queue' = Append(queue, report) /\ report \in SomeReport \union {Flush}
      BY <1>1
    <2> HIDE DEF report
    <2>2. /\ Len(queue) \in Nat /\ DOMAIN queue = 1 .. Len(queue) /\ DOMAIN queue' = 1 .. Len(queue) + 1
          /\ \A i \in DOMAIN queue : queue'[i] = queue[i]
          /\ queue'[Len(queue) + 1] = report
      BY <1>1, <2>1, AppendAt
    <2> QED BY <2>2
  <1>3. report.play = s /\ report.number = session[s].number + 1 /\ report.action = action
    OBVIOUS
  <1> HIDE DEF report
  <1>4. \A t \in Plays : \A n, act : OnItsWay(t, n, act)' =>
          OnItsWay(t, n, act) \/ (t = s /\ n = session[s].number + 1 /\ act = action)
    BY <1>2, <1>3 DEF OnItsWay
  <1>5. \A t \in Plays : FlightOK(t)'
    <2>1. \A t \in Plays \ {s} : FlightOK(t)'
      BY <1>4 DEF EndInv, FlightOK
    <2>2. FlightOK(s)'
      <3> SUFFICES ASSUME NEW n, NEW act, OnItsWay(s, n, act)'
                   PROVE  \/ n = session'[s].number /\ session'[s].pending /\ act = session'[s].last
                          \/ /\ n + 1 = session'[s].number /\ session'[s].ended
                             /\ act = "stop" => session'[s].last # "stop"
        BY DEF FlightOK
      <3>1. CASE n = session[s].number + 1 /\ act = action
        BY <3>1
      <3>2. CASE OnItsWay(s, n, act)
        <4>1. n = session[s].number /\ session[s].pending /\ act = session[s].last
          BY <3>2 DEF EndInv, FlightOK
        <4> QED BY <4>1
      <3> QED BY <1>4, <3>1, <3>2
    <2> QED BY <2>1, <2>2
  <1>6. \A t \in Plays : SessionOK(t)'
    <2>1. \A t \in Plays \ {s} : SessionOK(t)'
      BY DEF EndInv, SessionOK
    <2>2. SessionOK(s)'
      BY <1>1, PlaysAreNumbers DEF EndInv, SessionOK
    <2> QED BY <2>1, <2>2
  <1>7. \A t \in Plays : WatchedOK(t)'
    BY <1>2, <1>3 DEF EndInv, WatchedOK, IsSending
  <1>8. AnswersOK'
    BY DEF EndInv, AnswersOK
  <1> QED BY <1>5, <1>6, <1>7, <1>8 DEF EndInv

LEMMA EndObserves ==
  ASSUME EndInv, BadgeInv', NEW at \in Positions, NEW paused \in BOOLEAN, Observe(at, paused)
  PROVE  EndInv'
  <1> DEFINE s == plays
             x == session[plays]
             action == Action(at, paused)
  <1>1. /\ s \in Plays /\ loaded /\ x.ready /\ x.connected /\ ~x.ended /\ ~x.pending /\ ~x.watched
        /\ Send(s, x, action) /\ UNCHANGED <<plays, playing, loaded, sending, answers, heard, dropped>>
    BY DEF Observe, Idle, player, EndInv, BadgeInv, ScrobbleOK
  <1>2. action \in {"start", "pause", "stop"}
    BY DEF Action
  <1>3. /\ session = [t \in Plays |-> session[t]] /\ DOMAIN x = SessionFields
    BY <1>1 DEF EndInv, BadgeInv, ScrobbleOK
  <1> HIDE DEF action
  <1>4. CASE Full
    <2>1. /\ session' = [session EXCEPT ![s] =
               [x EXCEPT !.failed = TRUE, !.due = FALSE, !.status = "not synced"]]
          /\ UNCHANGED queue
      BY <1>1, <1>4 DEF Send
    <2>2. /\ session'[s].number = x.number /\ session'[s].pending = x.pending
          /\ session'[s].last = x.last /\ session'[s].watched = x.watched
          /\ session'[s].ended = x.ended /\ session'[s].failed = TRUE
          /\ session'[s].connected = x.connected /\ session'[s].ready = x.ready
          /\ \A t \in Plays \ {s} : session'[t] = session[t]
      BY <1>1, <1>3, <2>1 DEF SessionFields
    <2>3. \A t \in Plays : SessionOK(t)'
      BY <1>1, <2>2 DEF EndInv, SessionOK
    <2> QED BY <1>1, <2>1, <2>2, <2>3, EndStill
  <1>5. CASE ~Full
    <2>1. /\ session' = [session EXCEPT ![s] =
               [x EXCEPT !.last = action, !.pending = TRUE, !.due = FALSE,
                         !.number = @ + 1, !.status = "syncing"]]
          /\ queue' = Append(queue, [play |-> s, number |-> session'[s].number, action |-> action])
      BY <1>1, <1>5 DEF Send
    <2>2. /\ session'[s].number = x.number + 1 /\ session'[s].pending = TRUE
          /\ session'[s].last = action /\ session'[s].watched = x.watched
          /\ session'[s].ended = x.ended
          /\ session'[s].connected = x.connected /\ session'[s].ready = x.ready
          /\ \A t \in Plays \ {s} : session'[t] = session[t]
      BY <1>1, <1>3, <2>1 DEF SessionFields
    <2> QED BY <1>1, <1>2, <2>1, <2>2, EndSends
  <1> QED BY <1>4, <1>5

LEMMA EndFinishes ==
  ASSUME EndInv, BadgeInv', NEW at \in Positions, Finish(at)
  PROVE  EndInv'
  <1> DEFINE s == plays
             x == session[plays]
             ended == [x EXCEPT !.ended = TRUE]
             action == Action(at, TRUE)
  <1>1. /\ s \in Plays /\ UNCHANGED <<plays, loaded, sending, answers, heard>>
        /\ session = [t \in Plays |-> session[t]] /\ DOMAIN x = SessionFields
        /\ \A t \in Plays : SessionOK(t)
    BY DEF Finish, EndInv, BadgeInv, ScrobbleOK
  <1>2. /\ DOMAIN ended = SessionFields /\ ended.number = x.number /\ ended.pending = x.pending
        /\ ended.last = x.last /\ ended.watched = x.watched /\ ended.ended = TRUE
        /\ ended.failed = x.failed /\ ended.connected = x.connected /\ ended.ready = x.ready
        /\ ended.status = x.status
    BY <1>1 DEF SessionFields
  <1>3. /\ action = "stop" <=> at = "late"
        /\ action \in {"pause", "stop"}
    BY DEF Action
  <1>4. CASE ~LastReport(x, at)
    <2>1. session' = [session EXCEPT ![s] = ended] /\ UNCHANGED <<queue, dropped>>
      BY <1>4 DEF Finish
    <2>2. session'[s] = ended /\ \A t \in Plays \ {s} : session'[t] = session[t]
      BY <1>1, <2>1
    <2> HIDE DEF ended
    <2>3. \A t \in Plays \ {s} : SessionOK(t)'
      BY <1>1, <2>1, <2>2 DEF SessionOK
    <2>4. SessionOK(s)'
      <3>1. ~x.ended /\ x.connected => x.watched \/ x.number = 0 \/ x.last \in {"pause", "stop"}
        BY <1>1, <1>4 DEF LastReport, SessionOK
      <3> QED BY <1>1, <1>2, <2>1, <2>2, <3>1 DEF SessionOK
    <2> QED BY <1>1, <1>2, <2>1, <2>2, <2>3, <2>4, EndStill
  <1>5. CASE LastReport(x, at) /\ Full
    <2>1. /\ session' = [session EXCEPT ![s] =
               [ended EXCEPT !.failed = TRUE, !.due = FALSE, !.status = "not synced"]]
          /\ UNCHANGED queue /\ dropped' = dropped \union {s}
      BY <1>5 DEF Finish, Send
    <2> HIDE DEF ended
    <2>2. /\ session'[s].number = x.number /\ session'[s].pending = x.pending
          /\ session'[s].last = x.last /\ session'[s].watched = x.watched
          /\ session'[s].ended = TRUE /\ session'[s].failed = TRUE
          /\ session'[s].connected = x.connected /\ session'[s].ready = x.ready
          /\ \A t \in Plays \ {s} : session'[t] = session[t]
      BY <1>1, <1>2, <2>1 DEF SessionFields
    <2>3. \A t \in Plays : SessionOK(t)'
      BY <1>1, <2>1, <2>2 DEF SessionOK
    <2> QED BY <1>1, <2>1, <2>2, <2>3, EndStill
  <1>6. CASE LastReport(x, at) /\ ~Full
    <2>1. /\ session' = [session EXCEPT ![s] =
               [ended EXCEPT !.last = action, !.pending = TRUE, !.due = FALSE,
                             !.number = @ + 1, !.status = "syncing"]]
          /\ queue' = Append(queue, [play |-> s, number |-> session'[s].number, action |-> action])
          /\ UNCHANGED dropped
      BY <1>6 DEF Finish, Send
    <2> HIDE DEF ended, action
    <2>2. /\ session'[s].number = x.number + 1 /\ session'[s].pending = TRUE
          /\ session'[s].last = action /\ session'[s].watched = x.watched
          /\ session'[s].ended = TRUE
          /\ session'[s].connected = x.connected /\ session'[s].ready = x.ready
          /\ \A t \in Plays \ {s} : session'[t] = session[t]
      BY <1>1, <1>2, <2>1 DEF SessionFields
    <2>3. /\ loaded /\ x.connected /\ ~x.ended /\ ~x.watched
          /\ ~(action = "stop" /\ x.last = "stop" /\ x.pending)
      BY <1>3, <1>6 DEF LastReport
    <2> QED BY <1>1, <1>3, <2>1, <2>2, <2>3, EndSends
  <1> QED BY <1>4, <1>5, <1>6

\* After the answer to the newest report nothing newer is on its way.
LEMMA EndSees ==
  ASSUME EndInv, BadgeInv', NEW a \in answers, See(a)
  PROVE  EndInv'
  <1> DEFINE s == a.play
             x == session[s]
             new == Settled(x, a.result)
  <1>1. /\ answers' = answers \ {a} /\ UNCHANGED <<plays, playing, loaded, queue, sending, heard, dropped>>
        /\ a \in AnswerType /\ s \in Plays /\ DOMAIN x = SessionFields
        /\ session = [t \in Plays |-> session[t]]
    BY DEF See, player, EndInv, BadgeInv, ScrobbleOK, AnswerType
  <1>2. \A t \in Plays : \A n, action : OnItsWay(t, n, action)' => OnItsWay(t, n, action)
    BY <1>1 DEF OnItsWay
  <1>3. AnswersOK'
    BY <1>1 DEF EndInv, AnswersOK
  <1>4. CASE ~Current(a)
    <2>1. session' = session
      BY <1>4 DEF See
    <2>2. \A t \in Plays : FlightOK(t)'
      BY <1>2, <2>1 DEF EndInv, FlightOK
    <2>3. \A t \in Plays : SessionOK(t)' /\ WatchedOK(t)'
      BY <1>1, <2>1 DEF EndInv, SessionOK, WatchedOK, IsSending
    <2> QED BY <1>3, <2>2, <2>3 DEF EndInv
  <1>5. CASE Current(a)
    <2>1. session' = [session EXCEPT ![s] = new] /\ a.number = x.number
      BY <1>5 DEF See, Current
    <2>2. /\ DOMAIN new = SessionFields /\ new.number = x.number /\ new.pending = FALSE
          /\ new.last = x.last /\ new.ended = x.ended /\ new.ready = x.ready
          /\ \/ new.failed = TRUE /\ new.watched = x.watched /\ new.connected = x.connected
             \/ new.connected = FALSE /\ new.watched = x.watched /\ new.failed = x.failed
             \/ /\ a.result \in Confirmed /\ new.status = a.result /\ new.connected = x.connected
                /\ x.watched => new.watched
                /\ new.watched => x.watched \/ a.result = "watched"
      <3>1. CASE a.result = "error"
        BY <1>1, <3>1 DEF Settled, SessionFields
      <3>2. CASE a.result = "gone"
        BY <1>1, <3>2 DEF Settled, SessionFields
      <3>3. CASE a.result \notin {"error", "gone"}
        <4>1. a.result \in Confirmed
          BY <1>1, <3>3 DEF AnswerType, Results, Confirmed
        <4> QED BY <1>1, <3>3, <4>1 DEF Settled, SessionFields
      <3> QED BY <3>1, <3>2, <3>3
    <2> HIDE DEF new
    <2>3. session'[s] = new /\ \A t \in Plays \ {s} : session'[t] = session[t]
      BY <1>1, <2>1
    <2>4. \A t \in Plays \ {s} : FlightOK(t)' /\ SessionOK(t)' /\ WatchedOK(t)'
      BY <1>1, <1>2, <2>3 DEF EndInv, FlightOK, SessionOK, WatchedOK, IsSending
    <2>5. FlightOK(s)'
      <3>1. \A n, action : n = x.number => ~OnItsWay(s, n, action)'
        <4>1. \A i \in DOMAIN queue : queue[i].play = s => x.number < queue[i].number
          BY <2>1 DEF EndInv, BadgeInv, InQueueOrder
        <4>2. sending # None /\ sending.play = s => x.number < sending.number
          BY <2>1 DEF EndInv, BadgeInv, InQueueOrder
        <4>3. \A b \in answers' : ~(b.play = s /\ b.number = x.number)
          BY <1>1, <2>1 DEF EndInv, AnswersOK
        <4>4. x.number \in Nat
          BY <1>1 DEF EndInv, BadgeInv, ScrobbleOK
        <4> QED BY <1>1, <4>1, <4>2, <4>3, <4>4 DEF OnItsWay
      <3> QED BY <1>1, <1>2, <2>2, <2>3, <3>1 DEF EndInv, FlightOK
    <2>6. OnItsWay(s, x.number, a.action)
      BY <2>1 DEF OnItsWay
    <2>7. a.action = x.last
      BY <1>1, <2>6 DEF EndInv, FlightOK, BadgeInv, ScrobbleOK
    <2>8. /\ a.result \in Confirmed => a.result \in Recorded(x.last)
          /\ x.number # 0
      BY <1>1, <2>1, <2>7 DEF EndInv, AnswersOK, AnswerType
    <2>9. SessionOK(s)'
      BY <1>1, <2>2, <2>3, <2>8 DEF EndInv, SessionOK
    <2>10. WatchedOK(s)'
      <3>1. CASE x.watched
        BY <1>1, <3>1 DEF EndInv, WatchedOK, IsSending
      <3>2. CASE ~x.watched
        <4> SUFFICES ASSUME new.watched
                     PROVE  heard[s] = "watched" /\ ~IsSending(s) /\ \A i \in DOMAIN queue : queue[i].play # s
          BY <1>1, <2>3 DEF WatchedOK, IsSending
        <4>1. new.status = "watched"
          BY <2>2, <3>2
        <4> QED BY <1>1, <2>3, <4>1 DEF BadgeInv, BadgeRests, Confirmed, IsSending
      <3> QED BY <3>1, <3>2
    <2> QED BY <1>3, <2>4, <2>5, <2>9, <2>10 DEF EndInv
  <1> QED BY <1>4, <1>5


LEMMA EndUi ==
  ASSUME EndInv, BadgeInv', UiStep
  PROVE  EndInv'
  <1>0. /\ plays \in Nat /\ session = [s \in Plays |-> session[s]]
        /\ \A s \in Plays : DOMAIN session[s] = SessionFields /\ SessionOK(s) /\ s \in Nat
    BY PlaysAreNumbers DEF EndInv, BadgeInv, ScrobbleOK
  <1>1. CASE Play
    <2>1. /\ plays' = plays + 1 /\ loaded' = FALSE
          /\ UNCHANGED <<session, queue, sending, answers, heard, dropped>>
      BY <1>1 DEF Play
    <2>2. \A s \in Plays : SessionOK(s)'
      BY <1>0, <2>1 DEF SessionOK
    <2> QED BY <2>1, <2>2, EndStill
  <1>2. CASE Loaded \/ Quit
    <2>1. /\ plays' = plays /\ (loaded' = loaded \/ loaded')
          /\ UNCHANGED <<session, queue, sending, answers, heard, dropped>>
      BY <1>2 DEF Loaded, Quit, player
    <2>2. \A s \in Plays : SessionOK(s)'
      BY <1>0, <2>1 DEF SessionOK
    <2> QED BY <2>1, <2>2, EndStill
  <1>3. ASSUME NEW s \in Plays, Check(s)
        PROVE  EndInv'
    <2>1. PICK has \in BOOLEAN :
            session' = [session EXCEPT ![s].ready = TRUE, ![s].connected = has]
      BY <1>3 DEF Check
    <2>2. ~session[s].ready /\ UNCHANGED <<plays, loaded, queue, sending, answers, heard, dropped>>
      BY <1>3 DEF Check, player
    <2>3. /\ session'[s].number = session[s].number /\ session'[s].pending = session[s].pending
          /\ session'[s].last = session[s].last /\ session'[s].watched = session[s].watched
          /\ session'[s].ended = session[s].ended /\ session'[s].ready = TRUE
          /\ \A t \in Plays \ {s} : session'[t] = session[t]
      BY <1>0, <2>1 DEF SessionFields
    <2>4. session[s].number = 0
      BY <1>0, <2>2 DEF SessionOK
    <2>5. \A t \in Plays : SessionOK(t)'
      BY <1>0, <2>2, <2>3, <2>4 DEF SessionOK
    <2> QED BY <2>2, <2>3, <2>5, EndStill
  <1>4. ASSUME NEW s \in Plays, TimePasses(s)
        PROVE  EndInv'
    <2>1. session' = [session EXCEPT ![s].due = TRUE]
          /\ UNCHANGED <<plays, loaded, queue, sending, answers, heard, dropped>>
      BY <1>4 DEF TimePasses, player
    <2>2. /\ session'[s].number = session[s].number /\ session'[s].pending = session[s].pending
          /\ session'[s].last = session[s].last /\ session'[s].watched = session[s].watched
          /\ session'[s].ended = session[s].ended /\ session'[s].ready = session[s].ready
          /\ session'[s].connected = session[s].connected /\ session'[s].failed = session[s].failed
          /\ session'[s].status = session[s].status
          /\ \A t \in Plays \ {s} : session'[t] = session[t]
      BY <1>0, <2>1 DEF SessionFields
    <2>3. \A t \in Plays : SessionOK(t)'
      BY <1>0, <2>1, <2>2 DEF SessionOK
    <2> QED BY <2>1, <2>2, <2>3, EndStill
  <1> QED BY <1>1, <1>2, <1>3, <1>4, EndObserves, EndFinishes, EndSees DEF UiStep

\* What the task does moves no session.
LEMMA EndTask ==
  ASSUME EndInv, BadgeInv', UNCHANGED <<plays, loaded, session, dropped>>,
         \A s \in Plays : \A n, action : OnItsWay(s, n, action)' => OnItsWay(s, n, action),
         \A s \in Plays : heard'[s] = heard[s] \/ (~session[s].watched /\ session[s].number # 0),
         \A s \in Plays : session[s].watched =>
           ~IsSending(s)' /\ \A i \in DOMAIN queue' : queue'[i].play # s,
         AnswersOK'
  PROVE  EndInv'
  <1>1. \A s \in Plays : FlightOK(s)'
    BY DEF EndInv, FlightOK
  <1>2. \A s \in Plays : SessionOK(s)'
    BY DEF EndInv, SessionOK
  <1>3. \A s \in Plays : WatchedOK(s)'
    BY DEF EndInv, WatchedOK
  <1> QED BY <1>1, <1>2, <1>3 DEF EndInv

LEMMA EndTail ==
  ASSUME EndInv, BadgeInv', queue # <<>>, queue' = Tail(queue),
         UNCHANGED <<player, session, answers, heard, dropped>>,
         \/ sending' = sending
         \/ sending = None /\ sending' = queue[1]
  PROVE  EndInv'
  <1>1. /\ 1 \in DOMAIN queue
        /\ \A i \in DOMAIN queue' : i + 1 \in DOMAIN queue /\ queue'[i] = queue[i + 1]
    BY TailAt DEF EndInv, BadgeInv, ScrobbleOK
  <1>2. \A s \in Plays : \A n, action : OnItsWay(s, n, action)' => OnItsWay(s, n, action)
    BY <1>1 DEF OnItsWay
  <1>3. \A s \in Plays : session[s].watched =>
           ~IsSending(s)' /\ \A i \in DOMAIN queue' : queue'[i].play # s
    BY <1>1 DEF EndInv, WatchedOK, IsSending
  <1>4. AnswersOK'
    BY DEF EndInv, AnswersOK
  <1> QED BY <1>2, <1>3, <1>4, EndTask DEF player

LEMMA EndAnswered ==
  ASSUME EndInv, BadgeInv', sending # None, NEW result \in Results, Answered(result),
         result \in Confirmed => result \in Recorded(sending.action),
         \A s \in Plays : s # sending.play => heard'[s] = heard[s]
  PROVE  EndInv'
  <1> DEFINE b == [play |-> sending.play, number |-> sending.number, action |-> sending.action,
                   result |-> result]
  <1>1. /\ answers' = answers \union {b} /\ sending' = None
        /\ UNCHANGED <<plays, loaded, session, queue, dropped>>
    BY DEF Answered, player
  <1>2. b.play = sending.play /\ b.number = sending.number /\ b.action = sending.action
        /\ b.result = result
    OBVIOUS
  <1> HIDE DEF b
  <1>3. \A s \in Plays : \A n, action : OnItsWay(s, n, action)' => OnItsWay(s, n, action)
    BY <1>1, <1>2 DEF OnItsWay
  <1>4. /\ sending.play \in Plays /\ sending.number \in Nat \ {0}
        /\ sending.number <= session[sending.play].number /\ session[sending.play].number \in Nat
    BY DEF EndInv, BadgeInv, ScrobbleOK, Sent, SomeReport
  <1>5. ~session[sending.play].watched /\ session[sending.play].number # 0
    BY <1>4 DEF EndInv, WatchedOK, IsSending
  <1>6. AnswersOK'
    <2>1. \A a \in answers : a.play = sending.play => a.number # sending.number
      BY <1>4 DEF EndInv, BadgeInv, InQueueOrder, ScrobbleOK, AnswerType
    <2> QED BY <1>1, <1>2, <2>1 DEF EndInv, AnswersOK
  <1>7. \A s \in Plays : session[s].watched =>
           ~IsSending(s)' /\ \A i \in DOMAIN queue' : queue'[i].play # s
    BY <1>1 DEF EndInv, WatchedOK, IsSending
  <1> QED BY <1>1, <1>3, <1>5, <1>6, <1>7, EndTask

LEMMA EndTaskStep ==
  ASSUME EndInv, BadgeInv', TaskStep
  PROVE  EndInv'
  <1>1. ASSUME NEW i \in NextUp, Take(i)
        PROVE  EndInv'
    <2>1. i = 1 /\ 1 \in DOMAIN queue
      BY DEF NextUp
    <2>2. queue # <<>> /\ queue \in Seq(SomeReport \union {Flush})
      BY <2>1 DEF EndInv, BadgeInv, ScrobbleOK
    <2>3. queue' = Tail(queue)
      BY <1>1, <2>1, <2>2, WithoutFirst DEF Take
    <2> QED BY <1>1, <2>1, <2>2, <2>3, EndTail DEF Take
  <1>2. CASE Confirm
    <2>1. PICK r \in Recorded(sending.action) :
            heard' = [heard EXCEPT ![sending.play] = r] /\ (Answered(r) \/ Answered("error"))
      BY <1>2 DEF Confirm
    <2>2. sending # None /\ sending.action \in {"start", "pause", "stop"}
      BY <1>2 DEF Confirm, EndInv, BadgeInv, ScrobbleOK, Sent, SomeReport
    <2>3. r \in {"watching", "paused", "watched"}
      BY <2>1, <2>2 DEF Recorded
    <2>4. r \in Results /\ "error" \in Results /\ "error" \notin Confirmed
      BY <2>3 DEF Results, Confirmed
    <2>5. \A s \in Plays : s # sending.play => heard'[s] = heard[s]
      BY <2>1 DEF EndInv, BadgeInv, ScrobbleOK
    <2> QED BY <2>1, <2>2, <2>4, <2>5, EndAnswered
  <1>3. CASE Reject
    <2>1. {"error", "gone"} \subseteq Results /\ "error" \notin Confirmed /\ "gone" \notin Confirmed
      BY DEF Results, Confirmed
    <2> QED BY <1>3, <2>1, EndAnswered DEF Reject
  <1>4. CASE AskFlush
    <2>1. /\ queue' = Append(queue, Flush)
          /\ UNCHANGED <<plays, loaded, session, sending, answers, heard, dropped>>
      BY <1>4 DEF AskFlush, FlushedQueue, player
    <2>2. \A i \in DOMAIN queue' : queue'[i] = Flush \/ (i \in DOMAIN queue /\ queue'[i] = queue[i])
      BY <2>1, AppendAt DEF EndInv, BadgeInv, ScrobbleOK
    <2>3. \A s \in Plays : Flush.play # s
      BY FlushApart DEF FlushIsNoReport
    <2>4. \A s \in Plays : \A n, action : OnItsWay(s, n, action)' => OnItsWay(s, n, action)
      BY <2>1, <2>2, <2>3 DEF OnItsWay
    <2>5. \A s \in Plays : session[s].watched =>
             ~IsSending(s)' /\ \A i \in DOMAIN queue' : queue'[i].play # s
      BY <2>1, <2>2, <2>3 DEF EndInv, WatchedOK, IsSending
    <2>6. AnswersOK'
      BY <2>1 DEF EndInv, AnswersOK
    <2> QED BY <2>1, <2>4, <2>5, <2>6, EndTask
  <1>5. CASE FlushDone
    BY <1>5, EndTail DEF FlushDone
  <1>6. CASE GiveUp
    <2>1. UNCHANGED <<plays, loaded, session, queue, sending, answers, heard, dropped>>
      BY <1>6 DEF GiveUp, player
    <2>2. \A s \in Plays : SessionOK(s)'
      BY <2>1 DEF EndInv, SessionOK
    <2> QED BY <2>1, <2>2, EndStill
  <1> QED BY <1>1, <1>2, <1>3, <1>4, <1>5, <1>6 DEF TaskStep

LEMMA EndStep == EndInv /\ [Next]_vars => EndInv'
  <1> SUFFICES ASSUME EndInv, [Next]_vars PROVE EndInv'
    OBVIOUS
  <1>1. BadgeInv'
    BY BadgeStep DEF EndInv
  <1>2. CASE UNCHANGED vars
    <2>1. UNCHANGED <<plays, loaded, session, queue, sending, answers, heard, dropped>>
      BY <1>2 DEF vars, player
    <2>2. \A s \in Plays : SessionOK(s)'
      BY <2>1 DEF EndInv, SessionOK
    <2> QED BY <1>1, <2>1, <2>2, EndStill
  <1> QED BY <1>1, <1>2, EndUi, EndTaskStep DEF Next

LEMMA AtMostOne ==
  ASSUME NEW S, \A x, y \in S : x = y
  PROVE  S = {} \/ \E x : S = {x}
  OBVIOUS

LEMMA AtMostOneCounted ==
  ASSUME NEW S, \A x, y \in S : x = y
  PROVE  Cardinality(S) = (IF S = {} THEN 0 ELSE 1)
  <1>1. CASE S = {}
    <2>1. Cardinality({}) = 0
      BY FS_EmptySet
    <2> QED BY <1>1, <2>1
  <1>2. CASE S # {}
    <2>1. PICK x : S = {x}
      BY <1>2, AtMostOne
    <2>2. Cardinality({x}) = 1
      BY FS_Singleton
    <2> QED BY <1>2, <2>1, <2>2
  <1> QED BY <1>1, <1>2

LEMMA EndImplies == EndInv => EndsAreHeardOnce
  <1> SUFFICES ASSUME EndInv, NEW s \in Plays
               PROVE  LET x == session[s]
                      IN /\ s \notin dropped /\ x.ended /\ x.connected /\ ~x.pending /\ ~x.failed
                              => heard[s] # "watching"
                         /\ Cardinality({i \in Unsent(s) : queue[i].action = "stop"})
                              + Cardinality({a \in answers : a.play = s /\ a.action = "stop"})
                              + (IF IsSending(s) /\ sending.action = "stop" THEN 1 ELSE 0) <= 1
                         /\ x.watched => Unsent(s) = {} /\ ~IsSending(s)
    BY DEF EndsAreHeardOnce
  <1> DEFINE x == session[s]
             inQueue == {i \in Unsent(s) : queue[i].action = "stop"}
             answered == {a \in answers : a.play = s /\ a.action = "stop"}
             underWay == IsSending(s) /\ sending.action = "stop"
  <1>1. s \notin dropped /\ x.ended /\ x.connected /\ ~x.pending /\ ~x.failed => heard[s] # "watching"
    <2> SUFFICES ASSUME s \notin dropped, x.ended, x.connected, ~x.pending, ~x.failed
                 PROVE  heard[s] # "watching"
      OBVIOUS
    <2>1. CASE x.number = 0 \/ x.watched
      BY <2>1 DEF EndInv, SessionOK, WatchedOK
    <2>2. CASE x.number # 0 /\ ~x.watched
      <3>1. x.last \in {"pause", "stop"} /\ x.status \in Recorded(x.last)
        BY <2>2 DEF EndInv, SessionOK
      <3>2. x.status \in {"paused", "watched"}
        BY <3>1 DEF Recorded
      <3> QED BY <3>2 DEF EndInv, BadgeInv, BadgeRests, Confirmed
    <2> QED BY <2>1, <2>2
  <1>2. x.watched => Unsent(s) = {} /\ ~IsSending(s)
    BY DEF EndInv, WatchedOK, Unsent
  <1>3. \A n, m : OnItsWay(s, n, "stop") /\ OnItsWay(s, m, "stop") => n = m
    <2>1. \A n : OnItsWay(s, n, "stop") =>
            \/ n = x.number /\ x.last = "stop"
            \/ n + 1 = x.number /\ x.last # "stop"
      BY DEF EndInv, FlightOK
    <2>2. \A n : OnItsWay(s, n, "stop") => n \in Nat
      BY FlushApart DEF OnItsWay, EndInv, BadgeInv, ScrobbleOK, Sent, SomeReport, AnswerType, FlushIsNoReport
    <2>3. x.number \in Nat
      BY DEF EndInv, BadgeInv, ScrobbleOK
    <2> QED BY <2>1, <2>2, <2>3
  <1>4. /\ \A i \in inQueue : i \in DOMAIN queue /\ queue[i].play = s /\ OnItsWay(s, queue[i].number, "stop")
        /\ \A a \in answered : a \in answers /\ a.play = s /\ OnItsWay(s, a.number, "stop")
        /\ underWay => sending # None /\ sending.play = s /\ OnItsWay(s, sending.number, "stop")
    BY DEF Unsent, IsSending, OnItsWay
  <1>5. /\ \A i \in DOMAIN queue : queue[i].play = s => queue[i].number \in Nat /\ queue[i] # Flush
        /\ sending # None => sending.number \in Nat
        /\ DOMAIN queue \subseteq Nat
    BY FlushApart DEF EndInv, BadgeInv, ScrobbleOK, Sent, SomeReport, FlushIsNoReport
  <1> HIDE DEF inQueue, answered, underWay
  <1>6. \A i, j \in inQueue : i = j
    <2>1. \A i, j \in inQueue : ~(i < j)
      BY <1>3, <1>4, <1>5 DEF EndInv, BadgeInv, InQueueOrder
    <2> QED BY <1>4, <1>5, <2>1
  <1>7. \A a, b \in answered : a = b
    BY <1>3, <1>4 DEF EndInv, AnswersOK
  <1>8. /\ underWay => inQueue = {} /\ answered = {}
        /\ answered # {} => inQueue = {}
    BY <1>3, <1>4, <1>5 DEF EndInv, BadgeInv, InQueueOrder
  <1>9. Cardinality(inQueue) + Cardinality(answered) + (IF underWay THEN 1 ELSE 0) <= 1
    <2>1. /\ Cardinality(inQueue) = (IF inQueue = {} THEN 0 ELSE 1)
          /\ Cardinality(answered) = (IF answered = {} THEN 0 ELSE 1)
      BY <1>6, <1>7, AtMostOneCounted
    <2> QED BY <1>8, <2>1
  <1> QED BY <1>1, <1>2, <1>9 DEF inQueue, answered, underWay

\* "At 95% Madari sends a watched scrobble once", and the last report of a playback
\* decides, for whichever order of answers, failures, retries and ends (Session::finish
\* and Session::observe of playback/trakt.rs).
THEOREM EndsHeardOnce == Spec => []EndsAreHeardOnce
  BY EndImplies, EndInitially, EndStep, PTL DEF Spec


=============================================================================
