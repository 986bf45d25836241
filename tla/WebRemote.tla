----------------------------- MODULE WebRemote -----------------------------
(***************************************************************************)
(* The remote control of the LAN settings server: keys that browsers send   *)
(* to the TV, and the player's state that the TV sends to every open socket *)
(* (crates/madari-tv/src/web.rs, and Bridge::call of lib.rs).  A socket is  *)
(* authorized once, by module WebSettings' claims, and lives on when the    *)
(* server it came from is stopped.                                          *)
(*                                                                         *)
(* Keys are numbered as they are accepted, player states as they are made.  *)
(***************************************************************************)
EXTENDS Integers, Sequences, SequencesExt

CONSTANTS
  Sockets,
  QueueLimit,    \* the bound of queue(): 64
  UpdateBuffer,  \* UPDATE_BUFFER
  TvPolls,       \* whether the client polls web_status: the TV does, iOS does not
  MaxKeys, MaxStates, MaxServers  \* bounds

ASSUME RemoteAssumption == UpdateBuffer \in Nat \ {0}

VARIABLES
  server,     \* the running server, or 0
  servers,    \* servers started so far
  queue,      \* Bridge.web_commands
  keys,       \* keys accepted so far
  pressed,    \* the last key the TV was handed
  skipped,    \* keys that web_start and web_stop took out of the queue
  player,     \* Bridge.web_player
  states,     \* states made so far; 0 says that nothing plays
  reports,    \* player_state calls: "update" and "close", each [state, at]
  socket,     \* each socket: [server, at, inbox, shown], or Closed
  alone       \* history: the report sent last had no other one beside it

remoteVars == <<server, servers, queue, keys, pressed, skipped, player, states,
                reports, socket, alone>>

Closed == [server |-> 0, at |-> "closed", inbox |-> <<>>, shown |-> 0]

Idle == [state |-> 0, at |-> "idle"]

RemoteInit ==
  /\ server = 0 /\ servers = 0
  /\ queue = <<>> /\ keys = 0 /\ pressed = 0 /\ skipped = {}
  /\ player = 0 /\ states = 0
  /\ reports = [p \in {"update", "close"} |-> Idle]
  /\ socket = [s \in Sockets |-> Closed]
  /\ alone = TRUE

-----------------------------------------------------------------------------
(* Keys *)

Push == keys < MaxKeys /\ keys' = keys + 1 /\ queue' = Append(queue, keys')

\* /api/remote: any REMOTE_COMMANDS of a paired browser is queued.
Remote ==
  /\ server # 0
  /\ Push
  /\ UNCHANGED <<server, servers, pressed, skipped, player, states, reports, socket, alone>>

Accepts == Len(queue) < QueueLimit

\* A key or player action that arrives on a socket; one that finds no room is
\* dropped, though the browser is told nothing.
Accept(s) ==
  /\ socket[s].at = "open"
  /\ Accepts
  /\ Push
  /\ UNCHANGED <<server, servers, pressed, skipped, player, states, reports, socket, alone>>

\* Fault: the commands are read, not drained.
LeftRead == queue

Left == <<>>

\* The TV's poll takes the queue, and presses the keys in its order.
WebStatus ==
  /\ TvPolls /\ queue # <<>>
  /\ pressed' = Last(queue)
  /\ queue' = Left
  /\ UNCHANGED <<server, servers, keys, skipped, player, states, reports, socket, alone>>

-----------------------------------------------------------------------------
(* web_start and web_stop answer like web_status, but no client looks at the *)
(* commands in their answers.                                                *)

Drain == queue' = <<>> /\ skipped' = skipped \union ToSet(queue)

WebStart ==
  /\ server = 0 /\ servers < MaxServers
  /\ \/ servers' = servers + 1 /\ server' = servers' /\ Drain
     \/ \* the port cannot be bound
        UNCHANGED <<server, servers, queue, skipped>>
  /\ UNCHANGED <<keys, pressed, player, states, reports, socket, alone>>

WebStop ==
  /\ server # 0
  /\ server' = 0
  /\ Drain
  /\ UNCHANGED <<servers, keys, pressed, player, states, reports, socket, alone>>

-----------------------------------------------------------------------------
(* The player's state *)

\* player_state stores the state; publishPlayerState makes one such call at a time,
\* closePlayer one of its own.
PlayerState(p) ==
  /\ reports[p].at = "idle"
  /\ p = "close" => states > 0
  /\ p = "update" => states < MaxStates
  /\ states' = IF p = "update" THEN states + 1 ELSE states
  /\ reports' = [reports EXCEPT ![p] =
       [state |-> IF p = "close" THEN 0 ELSE states', at |-> "made"]]
  /\ UNCHANGED <<server, servers, queue, keys, pressed, skipped, player, socket, alone>>

Stores(p) ==
  /\ reports[p].at = "made"
  /\ player' = reports[p].state
  /\ reports' = [reports EXCEPT ![p].at = "stored"]
  /\ alone' = \A q \in DOMAIN reports \ {p} : reports[q].at # "stored"
  /\ UNCHANGED <<server, servers, queue, keys, pressed, skipped, states, socket>>

\* Fault: a full inbox keeps what it has.
InboxOldest(x, state) == IF Len(x) = UpdateBuffer THEN x ELSE Append(x, state)

\* A broadcast receives the newest UpdateBuffer states; the older ones are skipped.
Inbox(x, state) ==
  IF Len(x) = UpdateBuffer THEN Append(Tail(x), state) ELSE Append(x, state)

Publish(p) ==
  /\ reports[p].at = "stored"
  /\ reports' = [reports EXCEPT ![p] = Idle]
  /\ socket' = [s \in Sockets |->
       IF server # 0 /\ socket[s].server = server /\ socket[s].at \in {"subscribed", "open"}
       THEN [socket[s] EXCEPT !.inbox = Inbox(@, reports[p].state)]
       ELSE socket[s]]
  /\ UNCHANGED <<server, servers, queue, keys, pressed, skipped, player, states, alone>>

-----------------------------------------------------------------------------
(* Sockets *)

\* The upgrade of a request that guard let pass.
Socket(s) ==
  /\ socket[s] = Closed
  /\ server # 0
  /\ socket' = [socket EXCEPT ![s] = [Closed EXCEPT !.server = server, !.at = "connected"]]
  /\ UNCHANGED <<server, servers, queue, keys, pressed, skipped, player, states, reports, alone>>

\* authorize accepts the first frame's token, or the socket is closed.
Authorize(s) ==
  /\ socket[s].at = "connected"
  /\ socket' = [socket EXCEPT ![s].at = "subscribed"]
  /\ UNCHANGED <<server, servers, queue, keys, pressed, skipped, player, states, reports, alone>>

\* "A new socket starts from the current state rather than waiting for a change."
SendState(s) ==
  /\ socket[s].at = "subscribed"
  /\ socket' = [socket EXCEPT ![s].at = "open", ![s].shown = player]
  /\ UNCHANGED <<server, servers, queue, keys, pressed, skipped, player, states, reports, alone>>

Update(s) ==
  /\ socket[s].at = "open" /\ socket[s].inbox # <<>>
  /\ socket' = [socket EXCEPT ![s].inbox = Tail(@), ![s].shown = Head(socket[s].inbox)]
  /\ UNCHANGED <<server, servers, queue, keys, pressed, skipped, player, states, reports, alone>>

\* Not authorized, closed by the browser, or an error.
Close(s) ==
  /\ socket[s] # Closed
  /\ socket' = [socket EXCEPT ![s] = Closed]
  /\ UNCHANGED <<server, servers, queue, keys, pressed, skipped, player, states, reports, alone>>

RemoteNext ==
  \/ Remote \/ WebStatus \/ WebStart \/ WebStop
  \/ \E p \in {"update", "close"} : PlayerState(p) \/ Stores(p) \/ Publish(p)
  \/ \E s \in Sockets : Accept(s) \/ Socket(s) \/ Authorize(s) \/ SendState(s)
                        \/ Update(s) \/ Close(s)

RemoteSpec == RemoteInit /\ [][RemoteNext]_remoteVars

-----------------------------------------------------------------------------
(* Properties *)

\* The TV presses every accepted key once and in the order of acceptance, except
\* those that a start or stop of the server took with it.
KeysPressedOnce ==
  [][WebStatus =>
       /\ \A i \in 1 .. Len(queue) : queue[i] > pressed
       /\ (pressed + 1) .. pressed' \subseteq ToSet(queue) \union skipped]_remoteVars

\* A socket that has read everything shows the player's state, when the last two
\* reports of the TV did not overlap and the socket's server runs.
SocketsUpToDate ==
  \A s \in Sockets :
    /\ socket[s].at = "open" /\ socket[s].inbox = <<>> /\ socket[s].server = server
    /\ alone /\ \A p \in DOMAIN reports : reports[p].at # "stored"
    => socket[s].shown = player

=============================================================================
