---------------------------- MODULE TraktAccount ----------------------------
(***************************************************************************)
(* The Trakt connection of each profile and the calls that use it:          *)
(* crates/madari-native/src/profiles/trakt.rs.                              *)
(*                                                                         *)
(* sync, scrobble, connect and disconnect run one at a time, under          *)
(* trakt_gate, and stop at every request to Trakt; sessions open and end,   *)
(* and profiles are deleted, in between.  Trakt's refresh tokens are single *)
(* use: whoever uses one must store the next before anything is lost.       *)
(***************************************************************************)
EXTENDS Integers

CONSTANTS
  Profiles,   \* profile ids
  Calls,      \* concurrent calls
  MaxConns,   \* bound: connections made
  MaxTokens,  \* bound: refresh tokens issued
  MaxWatched, \* bound: titles Trakt has as watched
  None

ASSUME TraktAssumption ==
  /\ MaxConns \in Nat /\ MaxTokens \in Nat /\ MaxWatched \in Nat
  /\ None \notin Profiles \union Calls

VARIABLES
  row,       \* profile_trakt.account: [conn, token], or None
  data,      \* profile_trakt.data: [conn, seen, fresh], or None
  gate,      \* the call that holds trakt_gate, or None
  call,      \* each call, or None when it is not running
  open,      \* the profile of the current session, or None
  editable,  \* its settings are unlocked
  deleted,   \* deleted profiles
  grants,    \* PlaybackGrants: <<profile, connection>>, for the reports of a playback
  live,      \* Trakt: the valid refresh token of each connection; 0: none
  watched,   \* Trakt: how many titles the connection's reports marked as watched
  made,      \* connections made so far
  issued,    \* tokens issued so far
  lost,      \* history: connections whose next token did not reach the database
  unmarked,  \* history: those whose cache could not be marked as stale
  gone       \* history: connections disconnected or replaced

tables == <<row, data>>
session == <<open, editable, deleted, grants>>
trakt == <<live, watched, issued>>
history == <<lost, unmarked, gone>>
vars == <<tables, gate, call, session, trakt, made, history>>

Conns == 1 .. MaxConns
Tokens == 0 .. MaxTokens

Init ==
  /\ row = [p \in Profiles |-> None]
  /\ data = [p \in Profiles |-> None]
  /\ gate = None
  /\ call = [c \in Calls |-> None]
  /\ open = None /\ editable = FALSE
  /\ deleted = {} /\ grants = {}
  /\ live = [k \in Conns |-> 0]
  /\ watched = [k \in Conns |-> 0]
  /\ made = 0 /\ issued = 0
  /\ lost = {} /\ unmarked = {} /\ gone = {}

-----------------------------------------------------------------------------
(* Calls: [kind, at, profile, valid, conn, token, next, again].             *)
(* valid: the session it was made with is the current one; conn, token: the *)
(* account it works with; next: the token a refresh returned; again: it has *)
(* refreshed after a refusal.                                               *)

At(c, place) == call[c] # None /\ call[c].at = place

Kind(c, kind) == call[c] # None /\ call[c].kind = kind

\* authorized(db, session, editing)
Authorized(c, editing) == call[c].valid /\ (editing => editable)

Go(c, place) == call' = [call EXCEPT ![c].at = place] /\ UNCHANGED gate

\* The call returns, and its guard frees the gate.
Return(c) ==
  /\ call' = [call EXCEPT ![c] = None]
  /\ gate' = IF gate = c THEN None ELSE gate

Start(c, kind, p, conn) ==
  call' = [call EXCEPT ![c] =
    [kind |-> kind, at |-> "gate", profile |-> p, valid |-> TRUE,
     conn |-> conn, token |-> 0, next |-> 0, again |-> FALSE]]

\* sync, connect and disconnect are made with the current session.
Ask(c, kind) ==
  /\ call[c] = None
  /\ open # None
  /\ Start(c, kind, open, 0)
  /\ UNCHANGED <<tables, gate, session, trakt, made, history>>

\* trakt_playback, when playback begins.
Grant ==
  /\ open # None /\ row[open] # None
  /\ grants' = grants \union {<<open, row[open].conn>>}
  /\ UNCHANGED <<tables, gate, call, open, editable, deleted, trakt, made, history>>

\* A report may come much later, in another session and after another login.
Report(c, g) ==
  /\ call[c] = None
  /\ g \in grants
  /\ Start(c, "scrobble", g[1], g[2])
  /\ UNCHANGED <<tables, gate, session, trakt, made, history>>

\* Fault: nobody waits.
GateFreeAlways == TRUE

GateFree == gate = None

Enter(c) ==
  /\ At(c, "gate")
  /\ GateFree
  /\ gate' = c
  /\ call' = [call EXCEPT ![c].at = "load"]
  /\ UNCHANGED <<tables, session, trakt, made, history>>

-----------------------------------------------------------------------------
(* Sync and scrobble *)

\* A sync that is only wanted if the import is stale.
FreshEnough(c) ==
  /\ At(c, "load") /\ Kind(c, "sync")
  /\ Authorized(c, FALSE)
  /\ data[call[c].profile] # None /\ data[call[c].profile].fresh
  /\ Return(c)
  /\ UNCHANGED <<tables, session, trakt, made, history>>

\* Fault: the report of a replaced connection goes to the one there is now.
UsableAny(c) == row[call[c].profile] # None

\* A sync needs its session, a report the connection it was granted.
Usable(c) ==
  LET found == row[call[c].profile]
  IN  /\ found # None
      /\ IF Kind(c, "sync") THEN Authorized(c, FALSE) ELSE found.conn = call[c].conn

Load(c) ==
  /\ At(c, "load")
  /\ Kind(c, "sync") \/ Kind(c, "scrobble")
  /\ Usable(c)
  /\ \E place \in {"refresh", "request"} :  \* expires_soon, or not
       call' = [call EXCEPT ![c].at = place,
                            ![c].conn = row[call[c].profile].conn,
                            ![c].token = row[call[c].profile].token]
  /\ UNCHANGED <<tables, gate, session, trakt, made, history>>

\* The call ends with nothing done: there is no account for it, the session
\* does not allow it, the database fails, or Trakt refuses or is not reached.
Fails(c) ==
  /\ \E place \in {"load", "refresh", "request", "save", "revoke"} : At(c, place)
  /\ Return(c)
  /\ UNCHANGED <<tables, session, trakt, made, history>>

\* Client::refresh.  Trakt spends the token; its answer may not arrive.
Refresh(c) ==
  LET k == call[c].conn
  IN  /\ At(c, "refresh")
      /\ live[k] = call[c].token /\ live[k] # 0
      /\ issued < MaxTokens
      /\ issued' = issued + 1
      /\ live' = [live EXCEPT ![k] = issued']
      /\ \/ /\ call' = [call EXCEPT ![c].at = "rotate", ![c].next = issued']
            /\ UNCHANGED <<gate, lost>>
         \/ Return(c) /\ lost' = lost \union {k}
      /\ UNCHANGED <<tables, session, watched, made, unmarked, gone>>

\* Fault: a rotation needs the session the call was made with.
RotatesInSession(c) ==
  LET found == row[call[c].profile]
  IN  /\ call[c].valid
      /\ found # None /\ found.conn = call[c].conn /\ found.token = call[c].token

\* rotate_account compares the account with the one it was computed from.
Rotates(c) ==
  LET found == row[call[c].profile]
  IN  found # None /\ found.conn = call[c].conn /\ found.token = call[c].token

Rotate(c) ==
  LET next == [conn |-> call[c].conn, token |-> call[c].next]
  IN  /\ At(c, "rotate")
      /\ IF Rotates(c)
         THEN /\ row' = [row EXCEPT ![call[c].profile] = next]
              /\ call' = [call EXCEPT ![c].at = "request", ![c].token = next.token]
              /\ UNCHANGED gate
         ELSE Return(c) /\ UNCHANGED row
      /\ UNCHANGED <<data, session, trakt, made, history>>

\* The database fails under the rotation.
RotateFails(c) ==
  /\ At(c, "rotate")
  /\ Return(c)
  /\ lost' = lost \union {call[c].conn}
  /\ UNCHANGED <<tables, session, trakt, made, unmarked, gone>>

\* Trakt refuses the access token: once, the call refreshes and tries again.
Refused(c) ==
  /\ At(c, "request") /\ ~call[c].again
  /\ call' = [call EXCEPT ![c].at = "refresh", ![c].again = TRUE]
  /\ UNCHANGED <<tables, gate, session, trakt, made, history>>

\* Client::pull
Pull(c) ==
  /\ At(c, "request") /\ Kind(c, "sync")
  /\ Go(c, "save")
  /\ UNCHANGED <<tables, session, trakt, made, history>>

\* Trakt confirms a report that marks nothing as watched.
Confirmed(c) ==
  /\ At(c, "request") /\ Kind(c, "scrobble")
  /\ Return(c)
  /\ UNCHANGED <<tables, session, trakt, made, history>>

\* Trakt marks the title as watched, and says so, unless its answer is lost.
Watch(c) ==
  LET k == call[c].conn
  IN  /\ At(c, "request") /\ Kind(c, "scrobble")
      /\ watched[k] < MaxWatched
      /\ watched' = [watched EXCEPT ![k] = @ + 1]
      /\ \/ Go(c, "mark") /\ UNCHANGED unmarked
         \/ Return(c) /\ unmarked' = unmarked \union {k}
      /\ UNCHANGED <<tables, session, live, issued, made, lost, gone>>

\* Fault: the cache stays as fresh as it was.
StaleKept(d) == d

Stale(d) == IF d = None THEN None ELSE [d EXCEPT !.fresh = FALSE]

\* synced_at = 0: the next sync imports again.  A failed write is ignored.
MarkStale(c) ==
  /\ At(c, "mark")
  /\ Return(c)
  /\ \/ /\ data' = [data EXCEPT ![call[c].profile] = Stale(@)]
        /\ UNCHANGED unmarked
     \/ /\ unmarked' = unmarked \union {call[c].conn}
        /\ UNCHANGED data
  /\ UNCHANGED <<row, session, trakt, made, lost, gone>>

SaveData(c) ==
  LET p == call[c].profile
      k == call[c].conn
  IN  /\ At(c, "save")
      /\ Authorized(c, FALSE) /\ row[p] # None
      /\ data' = [data EXCEPT ![p] = [conn |-> k, seen |-> watched[k], fresh |-> TRUE]]
      /\ Return(c)
      /\ UNCHANGED <<row, session, trakt, made, history>>

-----------------------------------------------------------------------------
(* Connect and disconnect *)

\* Fault: the new account keeps the import of the old one.
CacheAfterConnectKept(p) == data[p]

CacheAfterConnect(p) == None

Replaced(p) == IF row[p] = None THEN {} ELSE {row[p].conn}

\* connect_trakt, with the tokens of a new login.
Connect(c) ==
  LET p == call[c].profile
  IN  /\ At(c, "load") /\ Kind(c, "connect")
      /\ Authorized(c, TRUE)
      /\ made < MaxConns /\ issued < MaxTokens
      /\ made' = made + 1
      /\ issued' = issued + 1
      /\ live' = [live EXCEPT ![made'] = issued']
      /\ row' = [row EXCEPT ![p] = [conn |-> made', token |-> issued']]
      /\ data' = [data EXCEPT ![p] = CacheAfterConnect(p)]
      /\ gone' = gone \union Replaced(p)
      /\ Return(c)
      /\ UNCHANGED <<session, watched, lost, unmarked>>

\* The local row goes first, so it works offline too.
Disconnect(c) ==
  LET p == call[c].profile
  IN  /\ At(c, "load") /\ Kind(c, "disconnect")
      /\ Authorized(c, TRUE) /\ row[p] # None
      /\ row' = [row EXCEPT ![p] = None]
      /\ data' = [data EXCEPT ![p] = None]
      /\ gone' = gone \union Replaced(p)
      /\ call' = [call EXCEPT ![c].at = "revoke", ![c].conn = row[p].conn]
      /\ UNCHANGED <<gate, session, trakt, made, lost, unmarked>>

Revoke(c) ==
  /\ At(c, "revoke")
  /\ live' = [live EXCEPT ![call[c].conn] = 0]
  /\ Return(c)
  /\ UNCHANGED <<tables, session, watched, issued, made, history>>

-----------------------------------------------------------------------------
(* What happens around the calls *)

Unbound(cs) == [c \in Calls |-> IF cs[c] = None THEN None ELSE [cs[c] EXCEPT !.valid = FALSE]]

Open(p) ==
  /\ p \notin deleted
  /\ open' = p /\ editable' \in BOOLEAN
  /\ call' = Unbound(call)
  /\ UNCHANGED <<tables, gate, deleted, grants, trakt, made, history>>

Leave ==
  /\ open # None
  /\ open' = None /\ editable' = FALSE
  /\ call' = Unbound(call)
  /\ UNCHANGED <<tables, gate, deleted, grants, trakt, made, history>>

ToggleSettings ==
  /\ open # None
  /\ editable' = ~editable
  /\ UNCHANGED <<tables, gate, call, open, deleted, grants, trakt, made, history>>

\* Profiles::delete; the row goes by ON DELETE CASCADE, whoever holds the gate.
DeleteProfile ==
  /\ open # None /\ editable
  /\ row' = [row EXCEPT ![open] = None]
  /\ data' = [data EXCEPT ![open] = None]
  /\ deleted' = deleted \union {open}
  /\ open' = None /\ editable' = FALSE
  /\ call' = Unbound(call)
  /\ UNCHANGED <<gate, grants, trakt, made, history>>

\* Fifteen minutes pass.
Age(p) ==
  /\ data[p] # None /\ data[p].fresh
  /\ data' = [data EXCEPT ![p].fresh = FALSE]
  /\ UNCHANGED <<row, gate, call, session, trakt, made, history>>

\* The user removes the application on Trakt's site, or the login expires there.
RevokedOnTrakt(k) ==
  /\ live[k] # 0
  /\ live' = [live EXCEPT ![k] = 0]
  /\ lost' = lost \union {k}
  /\ UNCHANGED <<tables, gate, call, session, watched, issued, made, unmarked, gone>>

\* The application ends and starts again.
Restart ==
  /\ lost' = lost \union {call[c].conn : c \in {x \in Calls : At(x, "rotate")}}
  /\ unmarked' = unmarked \union {call[c].conn : c \in {x \in Calls : At(x, "mark")}}
  /\ call' = [c \in Calls |-> None]
  /\ gate' = None
  /\ open' = None /\ editable' = FALSE
  /\ grants' = {}
  /\ UNCHANGED <<tables, deleted, trakt, made, gone>>

CallStep(c) ==
  \/ Enter(c) \/ FreshEnough(c) \/ Load(c) \/ Fails(c)
  \/ Refresh(c) \/ Rotate(c) \/ RotateFails(c)
  \/ Refused(c) \/ Pull(c) \/ Confirmed(c) \/ Watch(c) \/ MarkStale(c) \/ SaveData(c)
  \/ Connect(c) \/ Disconnect(c) \/ Revoke(c)

Next ==
  \/ \E c \in Calls :
       \/ \E kind \in {"sync", "connect", "disconnect"} : Ask(c, kind)
       \/ \E g \in grants : Report(c, g)
       \/ CallStep(c)
  \/ \E p \in Profiles : Open(p) \/ Age(p)
  \/ Leave \/ Grant \/ ToggleSettings \/ DeleteProfile \/ Restart
  \/ \E k \in Conns : RevokedOnTrakt(k)

Spec == Init /\ [][Next]_vars

-----------------------------------------------------------------------------
(* Properties *)

Account == [conn: Conns, token: Tokens]
Import == [conn: Conns, seen: 0 .. MaxWatched, fresh: BOOLEAN]
Call == [kind: {"sync", "scrobble", "connect", "disconnect"},
         at: {"gate", "load", "refresh", "rotate", "request", "save", "mark", "revoke"},
         profile: Profiles, valid: BOOLEAN, conn: 0 .. MaxConns, token: Tokens,
         next: Tokens, again: BOOLEAN]

ASSUME NoneAssumption == None \notin Account /\ None \notin Import /\ None \notin Call

\* Every variable has its type.
TypeOK ==
  /\ row \in [Profiles -> Account \union {None}]
  /\ data \in [Profiles -> Import \union {None}]
  /\ gate \in Calls \union {None}
  /\ call \in [Calls -> Call \union {None}]
  /\ open \in Profiles \union {None} /\ editable \in BOOLEAN
  /\ deleted \subseteq Profiles /\ grants \subseteq Profiles \X Conns
  /\ live \in [Conns -> Tokens]
  /\ watched \in [Conns -> 0 .. MaxWatched]
  /\ made \in 0 .. MaxConns /\ issued \in Tokens
  /\ lost \subseteq Conns /\ unmarked \subseteq 0 .. MaxConns /\ gone \subseteq Conns

\* The stored refresh token is the one Trakt accepts, unless an answer, a write
\* or the login itself was lost, or a call is about to store its successor.
StoredTokenWorks ==
  \A p \in Profiles : row[p] # None =>
    \/ live[row[p].conn] = row[p].token
    \/ row[p].conn \in lost
    \/ \E c \in Calls : At(c, "rotate") /\ call[c].conn = row[p].conn

\* A refresh is only refused if the login is lost: no two calls use one token.
RefreshesAreFirst ==
  \A c \in Calls :
    At(c, "refresh") /\ call[c].conn \notin lost => live[call[c].conn] = call[c].token

\* An import is never shown under another account than it was made with.
ImportOfAccount ==
  \A p \in Profiles : data[p] # None => row[p] # None /\ row[p].conn = data[p].conn

\* A fresh import has every title this device reported as watched.
FreshIsComplete ==
  \A p \in Profiles : data[p] # None /\ data[p].fresh =>
    \/ data[p].seen = watched[data[p].conn]
    \/ data[p].conn \in unmarked
    \/ \E c \in Calls : At(c, "mark") /\ call[c].conn = data[p].conn

\* Once a connection was ended by a disconnect or a new login, nothing is sent
\* for it but its revocation.
NothingAfterDisconnect ==
  \A c \in Calls :
    At(c, "request") \/ At(c, "refresh") => call[c].conn \notin gone

\* A report reaches the connection its playback was granted and no other, though
\* the profile was left or has a new login since.
ReportsStayBound ==
  [][\A c \in Calls : Kind(c, "scrobble") /\ call'[c] # None
       => call'[c].conn = call[c].conn]_vars

=============================================================================
