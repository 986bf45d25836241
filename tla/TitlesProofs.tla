----------------------------- MODULE TitlesProofs -----------------------------
(***************************************************************************)
(* Theorems about what a profile knows of its titles: the Trakt account and*)
(* the calls that use it (TraktAccount), the details of a title and their  *)
(* cache (Metadata), and which episode is next (Continuation); for any     *)
(* number of profiles, calls, requests and episodes.                       *)
(***************************************************************************)
EXTENDS TraktAccount, Metadata, Continuation,
        ListsProofs, FiniteSetTheorems, FunctionTheorems, SequenceTheorems

-----------------------------------------------------------------------------
(* The Trakt account *)

\* A call that has read the account it works with.
Working(c) ==
  call[c] # None /\ call[c].at \in {"refresh", "rotate", "request", "save", "mark"}

\* A call past the gate holds it, so there is one of them.
GateHeld == \A c \in Calls : call[c] # None /\ call[c].at # "gate" => gate = c

\* Accounts name connections that were made and not ended, no two profiles the
\* same one; so do the calls that work with one.
RowsMade ==
  /\ \A p \in Profiles : row[p] # None => row[p].conn <= made /\ row[p].conn \notin gone
  /\ \A p, q \in Profiles :
       row[p] # None /\ row[q] # None /\ row[p].conn = row[q].conn => p = q
  /\ \A k \in gone : k <= made

CallsMade ==
  \A c \in Calls : Working(c) \/ At(c, "revoke") => call[c].conn \in 1 .. made

ConnsMade == RowsMade /\ CallsMade

\* While a call works with an account, its profile has this account or none, and
\* no other profile has it; nor has one whose connection is being revoked.
AccountHeldBy(c) ==
  \A q \in Profiles : row[q] # None =>
    /\ Working(c) =>
         /\ q = call[c].profile <=> row[q].conn = call[c].conn
         /\ q = call[c].profile /\ call[c].at \in {"refresh", "rotate", "request"}
              => row[q].token = call[c].token
    /\ At(c, "revoke") => row[q].conn # call[c].conn

AccountHeld == \A c \in Calls : AccountHeldBy(c)

\* The token a call has in hand is the one Trakt accepts, or the login is lost.
TokenInHand ==
  \A c \in Calls :
    /\ At(c, "refresh") \/ At(c, "request") =>
         live[call[c].conn] = call[c].token \/ call[c].conn \in lost
    /\ At(c, "rotate") =>
         live[call[c].conn] = call[c].next \/ call[c].conn \in lost

CallsOK == call \in [Calls -> Call \union {None}]

TablesOK ==
  /\ row \in [Profiles -> Account \union {None}]
  /\ data \in [Profiles -> Import \union {None}]
  /\ open \in Profiles \union {None} /\ editable \in BOOLEAN
  /\ deleted \subseteq Profiles /\ grants \subseteq Profiles \X Conns

CountersOK ==
  /\ gate \in Calls \union {None}
  /\ live \in [Conns -> Tokens]
  /\ watched \in [Conns -> 0 .. MaxWatched]
  /\ made \in 0 .. MaxConns /\ issued \in Tokens
  /\ lost \subseteq Conns /\ unmarked \subseteq 0 .. MaxConns /\ gone \subseteq Conns

Typed == CallsOK /\ TablesOK /\ CountersOK

Held == Typed /\ GateHeld /\ ConnsMade /\ AccountHeld

TokensHeld == TokenInHand /\ StoredTokenWorks

ImportsHeld == ImportOfAccount /\ FreshIsComplete

Inv == Held /\ TokensHeld /\ ImportsHeld /\ NothingAfterDisconnect

-----------------------------------------------------------------------------
(* Types *)

LEMMA CallFields ==
  ASSUME Typed, NEW c \in Calls, call[c] # None
  PROVE  /\ call[c] \in Call
         /\ call[c].profile \in Profiles
         /\ call[c].conn \in 0 .. MaxConns
         /\ call[c].token \in Tokens /\ call[c].next \in Tokens
  BY DEF Typed, CallsOK, Call

LEMMA RowFields ==
  ASSUME Typed, NEW p \in Profiles, row[p] # None
  PROVE  row[p] \in Account /\ row[p].conn \in Conns /\ row[p].token \in Tokens
  BY DEF Typed, TablesOK, Account

LEMMA ConnOfCall ==
  ASSUME Typed, ConnsMade, NEW c \in Calls, Working(c) \/ At(c, "revoke")
  PROVE  call[c].conn \in Conns
  BY TraktAssumption DEF Typed, CountersOK, ConnsMade, CallsMade, Conns

\* What a step may put in place of a call or an account.
LEMMA CallReplaced ==
  ASSUME Typed, NEW c \in Calls, NEW x \in Call \union {None},
         call' = [call EXCEPT ![c] = x]
  PROVE  CallsOK'
  BY DEF Typed, CallsOK

LEMMA CallMoved ==
  ASSUME Typed, NEW c \in Calls, call[c] # None,
         NEW place \in {"refresh", "request", "revoke"}, NEW k \in 0 .. MaxConns, NEW t \in Tokens,
         call' = [call EXCEPT ![c].at = place, ![c].conn = k, ![c].token = t]
  PROVE  CallsOK'
<1>1. [call[c] EXCEPT !.at = place, !.conn = k, !.token = t] \in Call
  BY CallFields DEF Call
<1> QED
  BY <1>1 DEF Typed, CallsOK

LEMMA RowReplaced ==
  ASSUME Typed, NEW p \in Profiles, NEW x \in Account \union {None},
         row' = [row EXCEPT ![p] = x]
  PROVE  row' \in [Profiles -> Account \union {None}]
  BY DEF Typed, TablesOK

LEMMA DataReplaced ==
  ASSUME Typed, NEW p \in Profiles, NEW x \in Import \union {None},
         data' = [data EXCEPT ![p] = x]
  PROVE  data' \in [Profiles -> Import \union {None}]
  BY DEF Typed, TablesOK

LEMMA CallsTyped ==
  ASSUME Typed, ConnsMade, [Next]_vars
  PROVE  CallsOK'
<1> USE TraktAssumption
<1>1. ASSUME NEW c \in Calls, call[c] # None
      PROVE  call[c] \in Call
  BY <1>1 DEF Typed, CallsOK
<1>2. ASSUME NEW c \in Calls, NEW kind \in {"sync", "connect", "disconnect"}, Ask(c, kind)
      PROVE  CallsOK'
  BY <1>2, <1>1 DEF Typed, CallsOK, TablesOK, Ask, Start, Call, Tokens
<1>3. ASSUME NEW c \in Calls, NEW g \in grants, Report(c, g)
      PROVE  CallsOK'
  BY <1>3, <1>1 DEF Typed, CallsOK, TablesOK, Report, Start, Call, Conns, Tokens
<1>4. ASSUME NEW c \in Calls, Enter(c)
      PROVE  CallsOK'
  BY <1>4, <1>1 DEF Typed, CallsOK, Enter, At, Call
<1>5. ASSUME NEW c \in Calls, FreshEnough(c) \/ Fails(c) \/ Confirmed(c)
      PROVE  CallsOK'
  BY <1>5, <1>1 DEF Typed, CallsOK, FreshEnough, Fails, Confirmed, Return
<1>6. ASSUME NEW c \in Calls, Load(c)
      PROVE  CallsOK'
  <2>1. call[c] # None /\ row[call[c].profile] # None
    BY <1>6 DEF Load, At, Usable
  <2>2. call[c].profile \in Profiles
    BY <2>1, CallFields
  <2>3. /\ row[call[c].profile].conn \in 0 .. MaxConns
        /\ row[call[c].profile].token \in Tokens
    BY <2>1, <2>2, RowFields DEF Conns
  <2>4. PICK place \in {"refresh", "request"} :
          call' = [call EXCEPT ![c].at = place,
                               ![c].conn = row[call[c].profile].conn,
                               ![c].token = row[call[c].profile].token]
    BY <1>6 DEF Load
  <2> QED
    BY <2>1, <2>3, <2>4, CallMoved
<1>7. ASSUME NEW c \in Calls, Refresh(c)
      PROVE  CallsOK'
  BY <1>7, <1>1 DEF Typed, CallsOK, CountersOK, Refresh, Return, At, Call, Tokens
<1>8. ASSUME NEW c \in Calls, Rotate(c)
      PROVE  CallsOK'
  BY <1>8, <1>1 DEF Typed, CallsOK, Rotate, Return, At, Call
<1>9. ASSUME NEW c \in Calls, RotateFails(c) \/ Revoke(c)
      PROVE  CallsOK'
  BY <1>9, <1>1 DEF Typed, CallsOK, RotateFails, Revoke, Return
<1>10. ASSUME NEW c \in Calls, Refused(c)
      PROVE  CallsOK'
  BY <1>10, <1>1 DEF Typed, CallsOK, Refused, At, Call
<1>11. ASSUME NEW c \in Calls, Pull(c)
      PROVE  CallsOK'
  BY <1>11, <1>1 DEF Typed, CallsOK, Pull, Go, At, Call
<1>12. ASSUME NEW c \in Calls, Watch(c)
      PROVE  CallsOK'
  BY <1>12, <1>1 DEF Typed, CallsOK, Watch, Go, Return, At, Call
<1>13. ASSUME NEW c \in Calls, MarkStale(c) \/ SaveData(c) \/ Connect(c)
      PROVE  CallsOK'
  BY <1>13, <1>1 DEF Typed, CallsOK, MarkStale, SaveData, Connect, Return
<1>14. ASSUME NEW c \in Calls, Disconnect(c)
      PROVE  CallsOK'
  <2>1. call[c] # None /\ row[call[c].profile] # None
    BY <1>14 DEF Disconnect, At
  <2>2. row[call[c].profile].conn \in 0 .. MaxConns
    BY <2>1, CallFields, RowFields DEF Conns
  <2>3. call' = [call EXCEPT ![c].at = "revoke", ![c].conn = row[call[c].profile].conn]
    BY <1>14 DEF Disconnect
  <2>4. [call[c] EXCEPT !.at = "revoke", !.conn = row[call[c].profile].conn] \in Call
    BY <2>1, <2>2, CallFields DEF Call
  <2> QED
    BY <2>3, <2>4 DEF Typed, CallsOK
<1>15. ASSUME NEW p \in Profiles, Open(p)
      PROVE  CallsOK'
  BY <1>15, <1>1 DEF Typed, CallsOK, Open, Unbound, Call
<1>16. ASSUME Leave \/ DeleteProfile
      PROVE  CallsOK'
  <2>1. call' = Unbound(call)
    BY <1>16 DEF Leave, DeleteProfile
  <2> QED
    BY <2>1, <1>1 DEF Typed, CallsOK, Unbound, Call
<1>17. ASSUME ToggleSettings \/ Grant
      PROVE  CallsOK'
  BY <1>17, <1>1 DEF Typed, CallsOK, ToggleSettings, Grant
<1>18. ASSUME Restart
      PROVE  CallsOK'
  BY <1>18, <1>1 DEF Typed, CallsOK, Restart
<1>19. ASSUME NEW p \in Profiles, Age(p)
      PROVE  CallsOK'
  BY <1>19, <1>1 DEF Typed, CallsOK, Age
<1>20. ASSUME NEW k \in Conns, RevokedOnTrakt(k)
      PROVE  CallsOK'
  BY <1>20, <1>1 DEF Typed, CallsOK, RevokedOnTrakt
<1>21. CASE UNCHANGED vars
  BY <1>21 DEF Typed, CallsOK, vars, tables, session, trakt, history
<1> QED
  BY <1>2, <1>3, <1>4, <1>5, <1>6, <1>7, <1>8, <1>9, <1>10, <1>11, <1>12, <1>13, <1>14, <1>15,
     <1>16, <1>17, <1>18, <1>19, <1>20, <1>21
     DEF Next, CallStep

LEMMA TablesTyped ==
  ASSUME Typed, ConnsMade, [Next]_vars
  PROVE  TablesOK'
<1> USE TraktAssumption
<1>1. ASSUME NEW c \in Calls, call[c] # None
      PROVE  call[c] \in Call
  BY <1>1 DEF Typed, CallsOK
<1>2. ASSUME NEW c \in Calls, NEW kind \in {"sync", "connect", "disconnect"}, Ask(c, kind)
      PROVE  TablesOK'
  BY <1>2, <1>1 DEF Typed, TablesOK, Ask, tables, session
<1>3. ASSUME NEW c \in Calls, NEW g \in grants, Report(c, g)
      PROVE  TablesOK'
  BY <1>3, <1>1 DEF Typed, TablesOK, Report, tables, session
<1>4. ASSUME NEW c \in Calls, Enter(c) \/ FreshEnough(c) \/ Load(c) \/ Fails(c)
      PROVE  TablesOK'
  BY <1>4, <1>1 DEF Typed, TablesOK, Enter, FreshEnough, Load, Fails, tables, session
<1>5. ASSUME NEW c \in Calls, Refresh(c) \/ RotateFails(c) \/ Refused(c) \/ Pull(c)
      PROVE  TablesOK'
  BY <1>5, <1>1 DEF Typed, TablesOK, Refresh, RotateFails, Refused, Pull, tables, session
<1>6. ASSUME NEW c \in Calls, Confirmed(c) \/ Watch(c) \/ Revoke(c)
      PROVE  TablesOK'
  BY <1>6, <1>1 DEF Typed, TablesOK, Confirmed, Watch, Revoke, tables, session
<1>7. ASSUME NEW c \in Calls, Rotate(c)
      PROVE  TablesOK'
  <2>1. call[c].profile \in Profiles /\ call[c].next \in Tokens /\ call[c].conn \in Conns
    BY <1>7, CallFields, ConnOfCall DEF Rotate, At, Working
  <2>2. [conn |-> call[c].conn, token |-> call[c].next] \in Account
    BY <2>1 DEF Account
  <2>3. row' \in [Profiles -> Account \union {None}]
    BY <1>7, <2>1, <2>2, RowReplaced DEF Rotate, Typed, TablesOK
  <2> QED
    BY <1>7, <2>3 DEF Rotate, Typed, TablesOK, session
<1>8. ASSUME NEW c \in Calls, MarkStale(c)
      PROVE  TablesOK'
  <2>1. call[c].profile \in Profiles
    BY <1>8, CallFields DEF MarkStale, At
  <2>2. Stale(data[call[c].profile]) \in Import \union {None}
    BY <2>1 DEF Stale, Typed, TablesOK, Import
  <2>3. data' \in [Profiles -> Import \union {None}]
    BY <1>8, <2>1, <2>2, DataReplaced DEF MarkStale, Typed, TablesOK
  <2> QED
    BY <1>8, <2>3 DEF MarkStale, Typed, TablesOK, session
<1>9. ASSUME NEW c \in Calls, SaveData(c)
      PROVE  TablesOK'
  BY <1>9, <1>1
     DEF Typed, TablesOK, CountersOK, ConnsMade, CallsMade, Working, SaveData, At, Call, Import,
         Conns, session
<1>10. ASSUME NEW c \in Calls, Connect(c)
      PROVE  TablesOK'
  <2>1. call[c].profile \in Profiles
    BY <1>10, CallFields DEF Connect, At
  <2>2. [conn |-> made', token |-> issued'] \in Account
    BY <1>10 DEF Connect, Typed, CountersOK, Account, Conns, Tokens
  <2>3. row' \in [Profiles -> Account \union {None}]
    BY <1>10, <2>1, <2>2, RowReplaced DEF Connect
  <2>4. data' \in [Profiles -> Import \union {None}]
    BY <1>10, <2>1, DataReplaced DEF Connect, CacheAfterConnect
  <2> QED
    BY <1>10, <2>3, <2>4 DEF Connect, Typed, TablesOK, session
<1>11. ASSUME NEW c \in Calls, Disconnect(c)
      PROVE  TablesOK'
  BY <1>11, <1>1 DEF Typed, TablesOK, Disconnect, session
<1>12. ASSUME NEW p \in Profiles, Open(p)
      PROVE  TablesOK'
  BY <1>12 DEF Typed, TablesOK, Open, tables
<1>13. ASSUME Leave \/ DeleteProfile
      PROVE  TablesOK'
  BY <1>13 DEF Typed, TablesOK, Leave, DeleteProfile, tables
<1>14. ASSUME ToggleSettings
      PROVE  TablesOK'
  BY <1>14 DEF Typed, TablesOK, ToggleSettings, tables
<1>15. ASSUME Grant
      PROVE  TablesOK'
  BY <1>15 DEF Typed, TablesOK, Grant, Account, tables
<1>16. ASSUME Restart
      PROVE  TablesOK'
  BY <1>16 DEF Typed, TablesOK, Restart, tables
<1>17. ASSUME NEW p \in Profiles, Age(p)
      PROVE  TablesOK'
  BY <1>17 DEF Typed, TablesOK, Age, Import, session
<1>18. ASSUME NEW k \in Conns, RevokedOnTrakt(k)
      PROVE  TablesOK'
  BY <1>18 DEF Typed, TablesOK, RevokedOnTrakt, tables, session
<1>19. CASE UNCHANGED vars
  BY <1>19 DEF Typed, TablesOK, vars, tables, session, trakt, history
<1> QED
  BY <1>2, <1>3, <1>4, <1>5, <1>6, <1>7, <1>8, <1>9, <1>10, <1>11, <1>12, <1>13, <1>14, <1>15,
     <1>16, <1>17, <1>18, <1>19
     DEF Next, CallStep

LEMMA CountersTyped ==
  ASSUME Typed, ConnsMade, [Next]_vars
  PROVE  CountersOK'
<1> USE TraktAssumption
<1>1. ASSUME NEW c \in Calls, call[c] # None
      PROVE  call[c] \in Call
  BY <1>1 DEF Typed, CallsOK
<1>2. ASSUME NEW c \in Calls, NEW kind \in {"sync", "connect", "disconnect"}, Ask(c, kind)
      PROVE  CountersOK'
  BY <1>2, <1>1 DEF Typed, CountersOK, Ask, trakt, history
<1>3. ASSUME NEW c \in Calls, NEW g \in grants, Report(c, g)
      PROVE  CountersOK'
  BY <1>3, <1>1 DEF Typed, CountersOK, Report, trakt, history
<1>4. ASSUME NEW c \in Calls, Enter(c) \/ Load(c) \/ Refused(c) \/ Pull(c)
      PROVE  CountersOK'
  BY <1>4, <1>1 DEF Typed, CountersOK, Enter, Load, Refused, Pull, Go, trakt, history
<1>5. ASSUME NEW c \in Calls, FreshEnough(c) \/ Fails(c) \/ Confirmed(c)
      PROVE  CountersOK'
  BY <1>5, <1>1 DEF Typed, CountersOK, FreshEnough, Fails, Confirmed, Return, trakt, history
<1>6. ASSUME NEW c \in Calls, Refresh(c)
      PROVE  CountersOK'
  <2>1. call[c].conn \in Conns
    BY <1>6, ConnOfCall DEF Refresh, At, Working
  <2>2. issued' \in Tokens
    BY <1>6 DEF Refresh, Typed, CountersOK, Tokens
  <2> QED
    BY <1>6, <2>1, <2>2 DEF Typed, CountersOK, Refresh, Return
<1>7. ASSUME NEW c \in Calls, Rotate(c)
      PROVE  CountersOK'
  BY <1>7, <1>1 DEF Typed, CountersOK, Rotate, Return, trakt, history
<1>8. ASSUME NEW c \in Calls, RotateFails(c)
      PROVE  CountersOK'
  <2>1. call[c].conn \in Conns
    BY <1>8, ConnOfCall DEF RotateFails, At, Working
  <2> QED
    BY <1>8, <2>1 DEF Typed, CountersOK, RotateFails, Return, trakt
<1>9. ASSUME NEW c \in Calls, Watch(c)
      PROVE  CountersOK'
  <2>1. call[c].conn \in 0 .. MaxConns
    BY <1>9, CallFields DEF Watch, At
  <2>2. \A k \in Conns : watched[k] < MaxWatched => watched[k] + 1 \in 0 .. MaxWatched
    BY DEF Typed, CountersOK
  <2>3. watched' \in [Conns -> 0 .. MaxWatched]
    BY <1>9, <2>2 DEF Typed, CountersOK, Watch
  <2> QED
    BY <1>9, <2>1, <2>3 DEF Typed, CountersOK, Watch, Go, Return
<1>10. ASSUME NEW c \in Calls, MarkStale(c)
      PROVE  CountersOK'
  BY <1>10, <1>1 DEF Typed, CountersOK, MarkStale, Return, At, Call, trakt
<1>11. ASSUME NEW c \in Calls, SaveData(c)
      PROVE  CountersOK'
  BY <1>11, <1>1 DEF Typed, CountersOK, SaveData, Return, trakt, history
<1>12. ASSUME NEW c \in Calls, Connect(c)
      PROVE  CountersOK'
  <2>1. made' \in 0 .. MaxConns /\ issued' \in Tokens
    BY <1>12 DEF Connect, Typed, CountersOK, Tokens
  <2>2. Replaced(call[c].profile) \subseteq Conns
    BY <1>12, CallFields, RowFields DEF Connect, At, Replaced
  <2> QED
    BY <1>12, <2>1, <2>2 DEF Typed, CountersOK, Connect, Return
<1>13. ASSUME NEW c \in Calls, Disconnect(c)
      PROVE  CountersOK'
  BY <1>13, <1>1 DEF Typed, CountersOK, TablesOK, Disconnect, Replaced, At, Call, Account, trakt
<1>14. ASSUME NEW c \in Calls, Revoke(c)
      PROVE  CountersOK'
  <2>1. 0 \in Tokens
    BY DEF Tokens
  <2> QED
    BY <1>14, <2>1 DEF Typed, CountersOK, Revoke, Return, history
<1>15. ASSUME NEW p \in Profiles, Open(p) \/ Age(p)
      PROVE  CountersOK'
  BY <1>15 DEF Typed, CountersOK, Open, Age, trakt, history
<1>16. ASSUME Leave \/ DeleteProfile \/ ToggleSettings \/ Grant
      PROVE  CountersOK'
  BY <1>16 DEF Typed, CountersOK, Leave, DeleteProfile, ToggleSettings, Grant, trakt, history
<1>17. ASSUME Restart
      PROVE  CountersOK'
  <2>1. {call[c].conn : c \in {x \in Calls : At(x, "rotate")}} \subseteq Conns
    BY ConnOfCall DEF At, Working
  <2>2. {call[c].conn : c \in {x \in Calls : At(x, "mark")}} \subseteq 0 .. MaxConns
    BY CallFields DEF At
  <2> QED
    BY <1>17, <2>1, <2>2 DEF Typed, CountersOK, Restart, trakt
<1>18. ASSUME NEW k \in Conns, RevokedOnTrakt(k)
      PROVE  CountersOK'
  BY <1>18 DEF Typed, CountersOK, RevokedOnTrakt, Tokens
<1>19. CASE UNCHANGED vars
  BY <1>19 DEF Typed, CountersOK, vars, tables, session, trakt, history
<1> QED
  BY <1>2, <1>3, <1>4, <1>5, <1>6, <1>7, <1>8, <1>9, <1>10, <1>11, <1>12, <1>13, <1>14, <1>15,
     <1>16, <1>17, <1>18, <1>19
     DEF Next, CallStep

-----------------------------------------------------------------------------
(* The gate *)

\* A session that opens or ends changes nothing else of the calls.
Alike(c) ==
  /\ call'[c] = None <=> call[c] = None
  /\ call[c] # None =>
       /\ call'[c].at = call[c].at /\ call'[c].kind = call[c].kind
       /\ call'[c].profile = call[c].profile /\ call'[c].conn = call[c].conn
       /\ call'[c].token = call[c].token /\ call'[c].next = call[c].next

LEMMA UnboundAlike ==
  ASSUME Typed, call' = Unbound(call)
  PROVE  \A c \in Calls : Alike(c)
<1> SUFFICES ASSUME NEW c \in Calls PROVE Alike(c)
  OBVIOUS
<1>1. CASE call[c] = None
  BY <1>1 DEF Unbound, Alike
<1>2. CASE call[c] # None
  <2>1. call'[c] = [call[c] EXCEPT !.valid = FALSE]
    BY <1>2 DEF Unbound
  <2>2. call[c] \in Call
    BY <1>2, CallFields
  <2>3. call'[c] \in Call
    BY <2>1, <2>2 DEF Call
  <2> QED
    BY <1>2, <2>1, <2>2, <2>3, NoneAssumption DEF Alike, Call
<1> QED
  BY <1>1, <1>2

LEMMA GateStep ==
  ASSUME Typed, GateHeld, [Next]_vars
  PROVE  GateHeld'
<1> USE TraktAssumption
<1>1. ASSUME NEW c \in Calls, NEW kind \in {"sync", "connect", "disconnect"}, Ask(c, kind)
      PROVE  GateHeld'
  BY <1>1 DEF Typed, CallsOK, GateHeld, Ask, Start
<1>2. ASSUME NEW c \in Calls, NEW g \in grants, Report(c, g)
      PROVE  GateHeld'
  BY <1>2 DEF Typed, CallsOK, GateHeld, Report, Start
<1>3. ASSUME NEW c \in Calls, Enter(c)
      PROVE  GateHeld'
  BY <1>3 DEF Typed, CallsOK, GateHeld, CountersOK, Enter, GateFree
<1>4. ASSUME NEW c \in Calls, FreshEnough(c) \/ Fails(c) \/ Confirmed(c)
      PROVE  GateHeld'
  BY <1>4 DEF Typed, CallsOK, GateHeld, FreshEnough, Fails, Confirmed, Return, At
<1>5. ASSUME NEW c \in Calls, Load(c)
      PROVE  GateHeld'
  BY <1>5 DEF Typed, CallsOK, GateHeld, Load, At
<1>6. ASSUME NEW c \in Calls, Refresh(c)
      PROVE  GateHeld'
  BY <1>6 DEF Typed, CallsOK, GateHeld, Refresh, Return, At
<1>7. ASSUME NEW c \in Calls, Rotate(c)
      PROVE  GateHeld'
  BY <1>7 DEF Typed, CallsOK, GateHeld, Rotate, Return, At
<1>8. ASSUME NEW c \in Calls, RotateFails(c) \/ Revoke(c)
      PROVE  GateHeld'
  BY <1>8 DEF Typed, CallsOK, GateHeld, RotateFails, Revoke, Return, At
<1>9. ASSUME NEW c \in Calls, Refused(c) \/ Pull(c)
      PROVE  GateHeld'
  BY <1>9 DEF Typed, CallsOK, GateHeld, Refused, Pull, Go, At
<1>10. ASSUME NEW c \in Calls, Watch(c)
      PROVE  GateHeld'
  BY <1>10 DEF Typed, CallsOK, GateHeld, Watch, Go, Return, At
<1>11. ASSUME NEW c \in Calls, MarkStale(c) \/ SaveData(c) \/ Connect(c)
      PROVE  GateHeld'
  BY <1>11 DEF Typed, CallsOK, GateHeld, MarkStale, SaveData, Connect, Return, At
<1>12. ASSUME NEW c \in Calls, Disconnect(c)
      PROVE  GateHeld'
  BY <1>12 DEF Typed, CallsOK, GateHeld, Disconnect, At
<1>13. ASSUME NEW p \in Profiles, Open(p)
      PROVE  GateHeld'
  BY <1>13, UnboundAlike DEF GateHeld, Open, Alike
<1>14. ASSUME Leave \/ DeleteProfile
      PROVE  GateHeld'
  BY <1>14, UnboundAlike DEF GateHeld, Leave, DeleteProfile, Alike
<1>15. ASSUME ToggleSettings \/ Grant
      PROVE  GateHeld'
  BY <1>15 DEF Typed, CallsOK, GateHeld, ToggleSettings, Grant
<1>16. ASSUME Restart
      PROVE  GateHeld'
  BY <1>16 DEF Typed, CallsOK, GateHeld, Restart
<1>17. ASSUME NEW p \in Profiles, Age(p)
      PROVE  GateHeld'
  BY <1>17 DEF Typed, CallsOK, GateHeld, Age
<1>18. ASSUME NEW k \in Conns, RevokedOnTrakt(k)
      PROVE  GateHeld'
  BY <1>18 DEF Typed, CallsOK, GateHeld, RevokedOnTrakt
<1>19. CASE UNCHANGED vars
  BY <1>19 DEF GateHeld, vars, tables, session, trakt, history
<1> QED
  BY <1>1, <1>2, <1>3, <1>4, <1>5, <1>6, <1>7, <1>8, <1>9, <1>10, <1>11, <1>12, <1>13, <1>14,
     <1>15, <1>16, <1>17, <1>18, <1>19
     DEF Next, CallStep

LEMMA OneHolder ==
  ASSUME GateHeld, NEW c \in Calls, call[c] # None, call[c].at # "gate"
  PROVE  \A d \in Calls : call[d] # None /\ call[d].at # "gate" => d = c
  BY DEF GateHeld

LEMMA OthersStay ==
  ASSUME Typed, NEW c \in Calls, CallStep(c)
  PROVE  \A d \in Calls : d # c => call'[d] = call[d]
  BY DEF Typed, CallsOK, CallStep, Enter, FreshEnough, Load, Fails, Refresh, Rotate, RotateFails,
         Refused, Pull, Confirmed, Watch, MarkStale, SaveData, Connect, Disconnect, Revoke,
         Return, Go

\* What a step leaves of a call that goes on.
Same(c) ==
  /\ call[c] # None
  /\ call'[c].profile = call[c].profile /\ call'[c].conn = call[c].conn
  /\ call'[c].kind = call[c].kind

LEMMA AfterRefresh ==
  ASSUME Typed, NEW c \in Calls, Refresh(c), call'[c] # None
  PROVE  /\ Same(c) /\ call'[c].at = "rotate" /\ call'[c].next = issued'
         /\ call'[c].token = call[c].token
<1>1. call' = [call EXCEPT ![c].at = "rotate", ![c].next = issued']
  BY DEF Refresh, Return, Typed, CallsOK
<1>2. call[c] \in Call /\ call[c] # None
  BY CallFields DEF Refresh, At
<1> QED
  BY <1>1, <1>2 DEF Same, Call, Typed, CallsOK

LEMMA AfterRotate ==
  ASSUME Typed, NEW c \in Calls, Rotate(c), call'[c] # None
  PROVE  Rotates(c) /\ Same(c) /\ call'[c].at = "request" /\ call'[c].token = call[c].next
<1>1. Rotates(c) /\ call' = [call EXCEPT ![c].at = "request", ![c].token = call[c].next]
  BY DEF Rotate, Return, Typed, CallsOK
<1>2. call[c] \in Call /\ call[c] # None
  BY CallFields DEF Rotate, At
<1> QED
  BY <1>1, <1>2 DEF Same, Call, Typed, CallsOK

LEMMA AfterRefused ==
  ASSUME Typed, NEW c \in Calls, Refused(c)
  PROVE  Same(c) /\ call'[c].at = "refresh" /\ call'[c].token = call[c].token
<1>1. call[c] \in Call /\ call[c] # None
  BY CallFields DEF Refused, At
<1> QED
  BY <1>1 DEF Refused, Same, Call, Typed, CallsOK

LEMMA AfterPull ==
  ASSUME Typed, NEW c \in Calls, Pull(c)
  PROVE  Same(c) /\ call'[c].at = "save"
<1>1. call[c] \in Call /\ call[c] # None
  BY CallFields DEF Pull, At
<1> QED
  BY <1>1 DEF Pull, Go, Same, Call, Typed, CallsOK

LEMMA AfterWatch ==
  ASSUME Typed, NEW c \in Calls, Watch(c), call'[c] # None
  PROVE  Same(c) /\ call'[c].at = "mark"
<1>1. call[c] \in Call /\ call[c] # None
  BY CallFields DEF Watch, At
<1>2. call' = [call EXCEPT ![c].at = "mark"]
  BY DEF Watch, Go, Return, Typed, CallsOK
<1> QED
  BY <1>1, <1>2 DEF Same, Call, Typed, CallsOK

LEMMA AfterLoad ==
  ASSUME Typed, NEW c \in Calls, Load(c)
  PROVE  /\ call[c] # None /\ call'[c].profile = call[c].profile /\ call'[c].kind = call[c].kind
         /\ row[call[c].profile] # None
         /\ call'[c].conn = row[call[c].profile].conn
         /\ call'[c].token = row[call[c].profile].token
         /\ call'[c].at \in {"refresh", "request"}
<1>1. call[c] \in Call /\ call[c] # None /\ row[call[c].profile] # None
  BY CallFields DEF Load, Usable, At
<1> QED
  BY <1>1 DEF Load, Call, Typed, CallsOK

LEMMA AfterDisconnect ==
  ASSUME Typed, NEW c \in Calls, Disconnect(c)
  PROVE  /\ call[c] # None /\ row[call[c].profile] # None
         /\ call'[c].conn = row[call[c].profile].conn
         /\ call'[c].at = "revoke" /\ call'[c].kind = call[c].kind
<1>1. call[c] \in Call /\ call[c] # None
  BY CallFields DEF Disconnect, At
<1> QED
  BY <1>1 DEF Disconnect, Call, Typed, CallsOK

LEMMA AfterReturn ==
  ASSUME Typed, NEW c \in Calls, Return(c)
  PROVE  call'[c] = None
  BY DEF Return, Typed, CallsOK

\* The steps after which a call is over, or has only just passed the gate.
Rests(c) ==
  \/ Enter(c) \/ FreshEnough(c) \/ Fails(c) \/ Confirmed(c) \/ RotateFails(c)
  \/ MarkStale(c) \/ SaveData(c) \/ Connect(c) \/ Revoke(c)

LEMMA AfterRest ==
  ASSUME Typed, NEW c \in Calls, Rests(c)
  PROVE  call'[c] = None \/ call'[c].at = "load"
<1>1. CASE Enter(c)
  <2>1. call[c] # None /\ call[c] \in Call
    BY <1>1, CallFields DEF Enter, At
  <2> QED
    BY <1>1, <2>1 DEF Enter, Call, Typed, CallsOK
<1>2. CASE ~Enter(c)
  BY <1>2, AfterReturn DEF Rests, FreshEnough, Fails, Confirmed, RotateFails, MarkStale, SaveData,
     Connect, Revoke
<1> QED
  BY <1>1, <1>2

LEMMA RowsStep ==
  ASSUME Typed, RowsMade, [Next]_vars
  PROVE  RowsMade'
<1> USE TraktAssumption
<1>1. ASSUME NEW c \in Calls, NEW kind \in {"sync", "connect", "disconnect"}, Ask(c, kind)
      PROVE  RowsMade'
  BY <1>1 DEF RowsMade, Ask, Start, tables, trakt, history
<1>2. ASSUME NEW c \in Calls, NEW g \in grants, Report(c, g)
      PROVE  RowsMade'
  BY <1>2 DEF RowsMade, Report, Start, tables, trakt, history
<1>3. ASSUME NEW c \in Calls, Enter(c)
      PROVE  RowsMade'
  BY <1>3 DEF RowsMade, Enter, At, tables, trakt, history
<1>4. ASSUME NEW c \in Calls, FreshEnough(c) \/ Fails(c) \/ Confirmed(c)
      PROVE  RowsMade'
  BY <1>4 DEF RowsMade, FreshEnough, Fails, Confirmed, Return, At, tables, trakt, history
<1>5. ASSUME NEW c \in Calls, Load(c)
      PROVE  RowsMade'
  BY <1>5 DEF RowsMade, Load, Usable, At, tables, trakt, history
<1>6. ASSUME NEW c \in Calls, Refresh(c)
      PROVE  RowsMade'
  BY <1>6 DEF RowsMade, Refresh, Return, At, tables
<1>7. ASSUME NEW c \in Calls, Rotate(c)
      PROVE  RowsMade'
  <2>1. call[c].profile \in Profiles
    BY <1>7, CallFields DEF Rotate, At
  <2>2. \A p \in Profiles : row'[p] # None => row[p] # None /\ row'[p].conn = row[p].conn
    BY <1>7, <2>1 DEF Rotate, Rotates, Typed, TablesOK
  <2> QED
    BY <1>7, <2>2 DEF RowsMade, Rotate, trakt, history
<1>8. ASSUME NEW c \in Calls, RotateFails(c)
      PROVE  RowsMade'
  BY <1>8 DEF RowsMade, RotateFails, Return, At, tables, trakt
<1>9. ASSUME NEW c \in Calls, Refused(c) \/ Pull(c)
      PROVE  RowsMade'
  BY <1>9 DEF RowsMade, Refused, Pull, Go, At, tables, trakt, history
<1>10. ASSUME NEW c \in Calls, Watch(c)
      PROVE  RowsMade'
  BY <1>10 DEF RowsMade, Watch, Go, Return, At, tables
<1>11. ASSUME NEW c \in Calls, MarkStale(c)
      PROVE  RowsMade'
  BY <1>11 DEF RowsMade, MarkStale, Return, At, trakt
<1>12. ASSUME NEW c \in Calls, SaveData(c)
      PROVE  RowsMade'
  BY <1>12 DEF RowsMade, SaveData, Return, At, trakt, history
<1>13. ASSUME NEW c \in Calls, Connect(c)
      PROVE  RowsMade'
  <2>1. call[c].profile \in Profiles
    BY <1>13, CallFields DEF Connect, At
  <2>2. \A q \in Profiles : row'[q] =
          IF q = call[c].profile THEN [conn |-> made', token |-> issued'] ELSE row[q]
    BY <1>13, <2>1 DEF Connect, Typed, TablesOK
  <2>3. made \in Nat /\ made' = made + 1
    BY <1>13 DEF Connect, Typed, CountersOK
  <2>4. \A q \in Profiles : row[q] # None => row[q].conn \in Nat
    BY RowFields DEF Conns
  <2>5. \A k \in gone' :
          k \in gone \/ (row[call[c].profile] # None /\ k = row[call[c].profile].conn)
    BY <1>13 DEF Connect, Replaced
  <2>6. gone \subseteq Nat
    BY DEF Typed, CountersOK, Conns
  <2>7. \A q \in Profiles : row'[q] # None => row'[q].conn <= made' /\ row'[q].conn \notin gone'
    BY <2>1, <2>2, <2>3, <2>4, <2>5, <2>6 DEF RowsMade
  <2>8. \A k \in gone' : k \in Nat /\ k <= made
    BY <2>1, <2>4, <2>5, <2>6 DEF RowsMade
  <2>9. \A q \in Profiles : row[q] # None => row[q].conn # made'
    BY <2>3, <2>4 DEF RowsMade
  <2> QED
    BY <2>1, <2>2, <2>3, <2>7, <2>8, <2>9 DEF RowsMade
<1>14. ASSUME NEW c \in Calls, Disconnect(c)
      PROVE  RowsMade'
  <2>1. call[c].profile \in Profiles
    BY <1>14, CallFields DEF Disconnect, At
  <2>2. \A q \in Profiles : row'[q] = IF q = call[c].profile THEN None ELSE row[q]
    BY <1>14, <2>1 DEF Disconnect, Typed, TablesOK
  <2>3. \A k \in gone' : k \in gone \/ k = row[call[c].profile].conn
    BY <1>14 DEF Disconnect, Replaced
  <2>4. row[call[c].profile] # None /\ made' = made
    BY <1>14 DEF Disconnect
  <2> QED
    BY <2>1, <2>2, <2>3, <2>4 DEF RowsMade
<1>15. ASSUME NEW c \in Calls, Revoke(c)
      PROVE  RowsMade'
  BY <1>15 DEF RowsMade, Revoke, Return, At, tables, history
<1>16. ASSUME NEW p \in Profiles, Open(p)
      PROVE  RowsMade'
  BY <1>16, UnboundAlike DEF Typed, RowsMade, Open, Alike, At, tables, trakt, history
<1>17. ASSUME Leave
      PROVE  RowsMade'
  BY <1>17, UnboundAlike DEF Typed, RowsMade, Leave, Alike, At, tables, trakt, history
<1>18. ASSUME DeleteProfile
      PROVE  RowsMade'
  BY <1>18, UnboundAlike DEF Typed, TablesOK, RowsMade, DeleteProfile, Alike, At, trakt, history
<1>19. ASSUME ToggleSettings \/ Grant
      PROVE  RowsMade'
  BY <1>19 DEF RowsMade, ToggleSettings, Grant, At, tables, trakt, history
<1>20. ASSUME Restart
      PROVE  RowsMade'
  BY <1>20 DEF RowsMade, Restart, At, tables, trakt
<1>21. ASSUME NEW p \in Profiles, Age(p)
      PROVE  RowsMade'
  BY <1>21 DEF Typed, TablesOK, RowsMade, Age, At, trakt, history
<1>22. ASSUME NEW k \in Conns, RevokedOnTrakt(k)
      PROVE  RowsMade'
  BY <1>22 DEF Typed, RowsMade, RevokedOnTrakt, At, tables
<1>23. CASE UNCHANGED vars
  BY <1>23 DEF RowsMade, vars, tables, session, trakt, history
<1> QED
  BY <1>1, <1>2, <1>3, <1>4, <1>5, <1>6, <1>7, <1>8, <1>9, <1>10, <1>11, <1>12, <1>13, <1>14,
     <1>15, <1>16, <1>17, <1>18, <1>19, <1>20, <1>21, <1>22, <1>23
     DEF Next, CallStep

LEMMA CallsMadeBy ==
  ASSUME Typed, CallsMade, NEW c \in Calls, CallStep(c), made' \in Nat, made <= made',
         call'[c] # None /\ call'[c].at \notin {"gate", "load"} => call'[c].conn \in 1 .. made'
  PROVE  CallsMade'
<1>1. made \in Nat
  BY DEF Typed, CountersOK
<1> QED
  BY <1>1, OthersStay DEF CallsMade, Working, At

LEMMA CallsMadeStep ==
  ASSUME Typed, RowsMade, CallsMade, [Next]_vars
  PROVE  CallsMade'
<1> USE TraktAssumption
<1>1. ASSUME NEW c \in Calls, NEW kind \in {"sync", "connect", "disconnect"}, Ask(c, kind)
      PROVE  CallsMade'
  <2>1. call'[c].at = "gate"
    BY <1>1 DEF Ask, Start, Typed, CallsOK
  <2>2. \A d \in Calls : d # c => call'[d] = call[d]
    BY <1>1 DEF Ask, Start, Typed, CallsOK
  <2>3. made' = made
    BY <1>1 DEF Ask, trakt
  <2> QED
    BY <2>1, <2>2, <2>3 DEF CallsMade, Working, At
<1>2. ASSUME NEW c \in Calls, NEW g \in grants, Report(c, g)
      PROVE  CallsMade'
  <2>1. call'[c].at = "gate"
    BY <1>2 DEF Report, Start, Typed, CallsOK
  <2>2. \A d \in Calls : d # c => call'[d] = call[d]
    BY <1>2 DEF Report, Start, Typed, CallsOK
  <2>3. made' = made
    BY <1>2 DEF Report, trakt
  <2> QED
    BY <2>1, <2>2, <2>3 DEF CallsMade, Working, At
<1>3. ASSUME NEW c \in Calls, Enter(c) \/ FreshEnough(c) \/ Fails(c) \/ Confirmed(c) \/ Connect(c)
      PROVE  CallsMade'
  <2>1. made \in Nat
    BY DEF Typed, CountersOK
  <2>2. made' \in {made, made + 1}
    BY <1>3 DEF Enter, FreshEnough, Fails, Confirmed, Connect, trakt
  <2>3. call'[c] = None \/ call'[c].at = "load"
    BY <1>3, AfterRest DEF Rests
  <2> QED
    BY <1>3, <2>1, <2>2, <2>3, CallsMadeBy DEF CallStep
<1>4. ASSUME NEW c \in Calls, Load(c)
      PROVE  CallsMade'
  <2>1. made' \in Nat /\ made <= made'
    BY <1>4 DEF Load, Typed, CountersOK, trakt
  <2>2. call[c] # None /\ row[call[c].profile] # None /\ made' = made
    BY <1>4 DEF Load, At, Usable, trakt
  <2>3. row[call[c].profile].conn \in 1 .. made
    BY <2>2, CallFields, RowFields DEF RowsMade, Conns, Typed, CountersOK
  <2>4. call'[c].conn = row[call[c].profile].conn
    BY <1>4 DEF Load, Typed, CallsOK
  <2> QED
    BY <1>4, <2>1, <2>2, <2>3, <2>4, CallsMadeBy DEF CallStep
<1>5. ASSUME NEW c \in Calls, Refresh(c)
      PROVE  CallsMade'
  <2>1. made' = made
    BY <1>5 DEF Refresh, trakt
  <2>2. made \in Nat
    BY DEF Typed, CountersOK
  <2>3. call'[c] # None => call'[c].conn = call[c].conn
    BY <1>5, AfterRefresh, AfterRotate, AfterRefused, AfterPull, AfterWatch, AfterReturn
       DEF Refresh, Same
  <2>4. Working(c) \/ At(c, "revoke")
    BY <1>5 DEF Refresh, Working, At
  <2> QED
    BY <1>5, <2>1, <2>2, <2>3, <2>4, CallsMadeBy DEF CallStep, CallsMade
<1>6. ASSUME NEW c \in Calls, Rotate(c)
      PROVE  CallsMade'
  <2>1. made' = made
    BY <1>6 DEF Rotate, trakt
  <2>2. made \in Nat
    BY DEF Typed, CountersOK
  <2>3. call'[c] # None => call'[c].conn = call[c].conn
    BY <1>6, AfterRefresh, AfterRotate, AfterRefused, AfterPull, AfterWatch, AfterReturn
       DEF Rotate, Same
  <2>4. Working(c) \/ At(c, "revoke")
    BY <1>6 DEF Rotate, Working, At
  <2> QED
    BY <1>6, <2>1, <2>2, <2>3, <2>4, CallsMadeBy DEF CallStep, CallsMade
<1>7. ASSUME NEW c \in Calls, RotateFails(c)
      PROVE  CallsMade'
  <2>1. made' = made
    BY <1>7 DEF RotateFails, trakt
  <2>2. made \in Nat
    BY DEF Typed, CountersOK
  <2>3. call'[c] # None => call'[c].conn = call[c].conn
    BY <1>7, AfterRefresh, AfterRotate, AfterRefused, AfterPull, AfterWatch, AfterReturn
       DEF RotateFails, Same
  <2>4. Working(c) \/ At(c, "revoke")
    BY <1>7 DEF RotateFails, Working, At
  <2> QED
    BY <1>7, <2>1, <2>2, <2>3, <2>4, CallsMadeBy DEF CallStep, CallsMade
<1>8. ASSUME NEW c \in Calls, Refused(c) \/ Pull(c)
      PROVE  CallsMade'
  <2>1. made' = made
    BY <1>8 DEF Refused, Pull, trakt
  <2>2. made \in Nat
    BY DEF Typed, CountersOK
  <2>3. call'[c] # None => call'[c].conn = call[c].conn
    BY <1>8, AfterRefresh, AfterRotate, AfterRefused, AfterPull, AfterWatch, AfterReturn
       DEF Refused, Pull, Same
  <2>4. Working(c) \/ At(c, "revoke")
    BY <1>8 DEF Refused, Pull, Working, At
  <2> QED
    BY <1>8, <2>1, <2>2, <2>3, <2>4, CallsMadeBy DEF CallStep, CallsMade
<1>9. ASSUME NEW c \in Calls, Watch(c)
      PROVE  CallsMade'
  <2>1. made' = made
    BY <1>9 DEF Watch, trakt
  <2>2. made \in Nat
    BY DEF Typed, CountersOK
  <2>3. call'[c] # None => call'[c].conn = call[c].conn
    BY <1>9, AfterRefresh, AfterRotate, AfterRefused, AfterPull, AfterWatch, AfterReturn
       DEF Watch, Same
  <2>4. Working(c) \/ At(c, "revoke")
    BY <1>9 DEF Watch, Working, At
  <2> QED
    BY <1>9, <2>1, <2>2, <2>3, <2>4, CallsMadeBy DEF CallStep, CallsMade
<1>10. ASSUME NEW c \in Calls, MarkStale(c)
      PROVE  CallsMade'
  <2>1. made' = made
    BY <1>10 DEF MarkStale, trakt
  <2>2. made \in Nat
    BY DEF Typed, CountersOK
  <2>3. call'[c] # None => call'[c].conn = call[c].conn
    BY <1>10, AfterRefresh, AfterRotate, AfterRefused, AfterPull, AfterWatch, AfterReturn
       DEF MarkStale, Same
  <2>4. Working(c) \/ At(c, "revoke")
    BY <1>10 DEF MarkStale, Working, At
  <2> QED
    BY <1>10, <2>1, <2>2, <2>3, <2>4, CallsMadeBy DEF CallStep, CallsMade
<1>11. ASSUME NEW c \in Calls, SaveData(c)
      PROVE  CallsMade'
  <2>1. made' = made
    BY <1>11 DEF SaveData, trakt
  <2>2. made \in Nat
    BY DEF Typed, CountersOK
  <2>3. call'[c] # None => call'[c].conn = call[c].conn
    BY <1>11, AfterRefresh, AfterRotate, AfterRefused, AfterPull, AfterWatch, AfterReturn
       DEF SaveData, Same
  <2>4. Working(c) \/ At(c, "revoke")
    BY <1>11 DEF SaveData, Working, At
  <2> QED
    BY <1>11, <2>1, <2>2, <2>3, <2>4, CallsMadeBy DEF CallStep, CallsMade
<1>12. ASSUME NEW c \in Calls, Disconnect(c)
      PROVE  CallsMade'
  <2>1. made' \in Nat /\ made <= made'
    BY <1>12 DEF Disconnect, Typed, CountersOK, trakt
  <2>2. call[c] # None /\ row[call[c].profile] # None /\ made' = made
    BY <1>12 DEF Disconnect, At, Usable, trakt
  <2>3. row[call[c].profile].conn \in 1 .. made
    BY <2>2, CallFields, RowFields DEF RowsMade, Conns, Typed, CountersOK
  <2>4. call'[c].conn = row[call[c].profile].conn
    BY <1>12 DEF Disconnect, Typed, CallsOK
  <2> QED
    BY <1>12, <2>1, <2>2, <2>3, <2>4, CallsMadeBy DEF CallStep
<1>13. ASSUME NEW c \in Calls, Revoke(c)
      PROVE  CallsMade'
  <2>1. made' = made
    BY <1>13 DEF Revoke, trakt
  <2>2. made \in Nat
    BY DEF Typed, CountersOK
  <2>3. call'[c] # None => call'[c].conn = call[c].conn
    BY <1>13, AfterRefresh, AfterRotate, AfterRefused, AfterPull, AfterWatch, AfterReturn
       DEF Revoke, Same
  <2>4. Working(c) \/ At(c, "revoke")
    BY <1>13 DEF Revoke, Working, At
  <2> QED
    BY <1>13, <2>1, <2>2, <2>3, <2>4, CallsMadeBy DEF CallStep, CallsMade
<1>14. ASSUME NEW p \in Profiles, Open(p)
      PROVE  CallsMade'
  BY <1>14, UnboundAlike DEF Typed, CallsMade, Working, At, Open, Alike, tables, trakt, history
<1>15. ASSUME Leave
      PROVE  CallsMade'
  BY <1>15, UnboundAlike DEF Typed, CallsMade, Working, At, Leave, Alike, tables, trakt, history
<1>16. ASSUME DeleteProfile
      PROVE  CallsMade'
  BY <1>16, UnboundAlike
     DEF Typed, TablesOK, CallsMade, Working, At, DeleteProfile, Alike, trakt, history
<1>17. ASSUME ToggleSettings \/ Grant
      PROVE  CallsMade'
  BY <1>17 DEF CallsMade, Working, At, ToggleSettings, Grant, tables, trakt, history
<1>18. ASSUME Restart
      PROVE  CallsMade'
  BY <1>18 DEF Typed, CallsOK, CallsMade, Working, At, Restart, tables, trakt
<1>19. ASSUME NEW p \in Profiles, Age(p)
      PROVE  CallsMade'
  BY <1>19 DEF Typed, TablesOK, CallsMade, Working, At, Age, trakt, history
<1>20. ASSUME NEW k \in Conns, RevokedOnTrakt(k)
      PROVE  CallsMade'
  BY <1>20 DEF Typed, CallsMade, Working, At, RevokedOnTrakt, tables
<1>21. CASE UNCHANGED vars
  BY <1>21 DEF CallsMade, Working, At, vars, tables, session, trakt, history
<1> QED
  BY <1>1, <1>2, <1>3, <1>4, <1>5, <1>6, <1>7, <1>8, <1>9, <1>10, <1>11, <1>12, <1>13, <1>14,
     <1>15, <1>16, <1>17, <1>18, <1>19, <1>20, <1>21
     DEF Next, CallStep

\* The calls that wait are the others: a step past the gate has it to itself.
Idle(c) == call[c] = None \/ call[c].at = "gate"

LEMMA OthersIdle ==
  ASSUME Typed, GateHeld, NEW c \in Calls, CallStep(c)
  PROVE  \A d \in Calls : d # c => call'[d] = call[d] /\ Idle(d)
<1>1. \/ Enter(c) /\ gate = None
      \/ call[c] # None /\ call[c].at # "gate"
  BY
     DEF CallStep, Enter, GateFree, FreshEnough, Load, Fails, Refresh, Rotate, RotateFails,
         Refused,
         Pull, Confirmed, Watch, MarkStale, SaveData, Connect, Disconnect, Revoke, At
<1>2. CASE Enter(c) /\ gate = None
  BY <1>2, OthersStay, TraktAssumption DEF Idle, GateHeld
<1>3. CASE call[c] # None /\ call[c].at # "gate"
  BY <1>3, OthersStay, OneHolder DEF Idle
<1> QED
  BY <1>1, <1>2, <1>3

-----------------------------------------------------------------------------
(* The account a call works with *)

LEMMA HeldByHolder ==
  ASSUME Typed, GateHeld, NEW c \in Calls, CallStep(c),
         call'[c] = None \/ call'[c].at = "load" \/ AccountHeldBy(c)'
  PROVE  AccountHeld'
  BY OthersIdle DEF AccountHeld, AccountHeldBy, Working, At, Idle

LEMMA AccountStep ==
  ASSUME Typed, GateHeld, ConnsMade, AccountHeld, [Next]_vars
  PROVE  AccountHeld'
<1> USE TraktAssumption
<1>1. ASSUME NEW c \in Calls, NEW kind \in {"sync", "connect", "disconnect"}, Ask(c, kind)
      PROVE  AccountHeld'
  <2>1. call'[c].at = "gate" /\ \A d \in Calls : d # c => call'[d] = call[d]
    BY <1>1 DEF Ask, Start, Typed, CallsOK
  <2>2. row' = row
    BY <1>1 DEF Ask, tables
  <2> QED
    BY <2>1, <2>2 DEF AccountHeld, AccountHeldBy, Working, At
<1>2. ASSUME NEW c \in Calls, NEW g \in grants, Report(c, g)
      PROVE  AccountHeld'
  <2>1. call'[c].at = "gate" /\ \A d \in Calls : d # c => call'[d] = call[d]
    BY <1>2 DEF Report, Start, Typed, CallsOK
  <2>2. row' = row
    BY <1>2 DEF Report, tables
  <2> QED
    BY <2>1, <2>2 DEF AccountHeld, AccountHeldBy, Working, At
<1>3. ASSUME NEW c \in Calls, Enter(c) \/ FreshEnough(c) \/ Fails(c) \/ Confirmed(c) \/
             RotateFails(c) \/ MarkStale(c) \/ SaveData(c) \/ Connect(c) \/ Revoke(c)
      PROVE  AccountHeld'
  <2>1. call'[c] = None \/ call'[c].at = "load"
    BY <1>3, AfterRest DEF Rests
  <2> QED
    BY <1>3, <2>1, HeldByHolder DEF CallStep
<1>4. ASSUME NEW c \in Calls, Load(c)
      PROVE  AccountHeld'
  <2>1. row' = row
    BY <1>4 DEF Load, tables
  <2>2. call[c].profile \in Profiles
    BY <1>4, CallFields, AfterLoad
  <2>3. AccountHeldBy(c)'
    BY <1>4, <2>1, <2>2, AfterLoad DEF AccountHeldBy, Working, At, ConnsMade, RowsMade
  <2> QED
    BY <1>4, <2>3, HeldByHolder DEF CallStep
<1>5. ASSUME NEW c \in Calls, Refresh(c)
      PROVE  AccountHeld'
  <2>1. call'[c] # None => Same(c) /\ call'[c].at = "rotate" /\ call'[c].token = call[c].token
    BY <1>5, AfterRefresh
  <2>2. row' = row
    BY <1>5 DEF Refresh, tables
  <2>3. call[c] # None /\ call[c].at = "refresh"
    BY <1>5 DEF Refresh, At
  <2>4. ASSUME call'[c] # None
        PROVE  AccountHeldBy(c)'
    BY <2>1, <2>2, <2>3, <2>4 DEF AccountHeld, AccountHeldBy, Working, At, Same
  <2> QED
    BY <1>5, <2>4, HeldByHolder DEF CallStep
<1>6. ASSUME NEW c \in Calls, Rotate(c)
      PROVE  AccountHeld'
  <2> SUFFICES ASSUME call'[c] # None
             PROVE  AccountHeldBy(c)'
    BY <1>6, HeldByHolder DEF CallStep
  <2>1. Same(c) /\ call'[c].at = "request" /\ call'[c].token = call[c].next
    BY <1>6, AfterRotate
  <2>2. Working(c) /\ call[c].profile \in Profiles
    BY <1>6, CallFields DEF Rotate, At, Working
  <2>3. \A q \in Profiles : row'[q] =
          IF q = call[c].profile THEN [conn |-> call[c].conn, token |-> call[c].next] ELSE row[q]
    BY <1>6, <2>2, AfterRotate DEF Rotate, Typed, TablesOK
  <2> QED
    BY <2>1, <2>2, <2>3 DEF AccountHeld, AccountHeldBy, Working, At, Same
<1>7. ASSUME NEW c \in Calls, Refused(c) \/ Pull(c)
      PROVE  AccountHeld'
  <2>1. row' = row /\ call[c] # None /\ call[c].at = "request"
    BY <1>7 DEF Refused, Pull, tables, At
  <2>2. \/ Same(c) /\ call'[c].at = "refresh" /\ call'[c].token = call[c].token
        \/ Same(c) /\ call'[c].at = "save"
    BY <1>7, AfterRefused, AfterPull
  <2>3. AccountHeldBy(c)'
    BY <2>1, <2>2 DEF AccountHeld, AccountHeldBy, Working, At, Same
  <2> QED
    BY <1>7, <2>3, HeldByHolder DEF CallStep
<1>8. ASSUME NEW c \in Calls, Watch(c)
      PROVE  AccountHeld'
  <2>1. call'[c] # None => Same(c) /\ call'[c].at = "mark"
    BY <1>8, AfterWatch
  <2>2. row' = row
    BY <1>8 DEF Watch, tables
  <2>3. call[c] # None /\ call[c].at = "request"
    BY <1>8 DEF Watch, At
  <2>4. ASSUME call'[c] # None
        PROVE  AccountHeldBy(c)'
    BY <2>1, <2>2, <2>3, <2>4 DEF AccountHeld, AccountHeldBy, Working, At, Same
  <2> QED
    BY <1>8, <2>4, HeldByHolder DEF CallStep
<1>9. ASSUME NEW c \in Calls, Disconnect(c)
      PROVE  AccountHeld'
  <2>1. call[c].profile \in Profiles
    BY <1>9, CallFields, AfterDisconnect
  <2>2. \A q \in Profiles : row'[q] = IF q = call[c].profile THEN None ELSE row[q]
    BY <1>9, <2>1 DEF Disconnect, Typed, TablesOK
  <2>3. AccountHeldBy(c)'
    BY <1>9, <2>1, <2>2, AfterDisconnect DEF AccountHeldBy, Working, At, ConnsMade, RowsMade
  <2> QED
    BY <1>9, <2>3, HeldByHolder DEF CallStep
<1>10. ASSUME NEW p \in Profiles, Open(p)
      PROVE  AccountHeld'
  BY <1>10, UnboundAlike
     DEF Typed, AccountHeld, AccountHeldBy, Working, At, Open, Alike, tables, trakt, history
<1>11. ASSUME Leave
      PROVE  AccountHeld'
  BY <1>11, UnboundAlike
     DEF Typed, AccountHeld, AccountHeldBy, Working, At, Leave, Alike, tables, trakt, history
<1>12. ASSUME DeleteProfile
      PROVE  AccountHeld'
  <2>1. \A q \in Profiles : row'[q] # None => row'[q] = row[q]
    BY <1>12 DEF DeleteProfile, Typed, TablesOK
  <2>2. \A d \in Calls : Alike(d)
    BY <1>12, UnboundAlike DEF DeleteProfile
  <2> QED
    BY <2>1, <2>2 DEF AccountHeld, AccountHeldBy, Working, At, Alike
<1>13. ASSUME ToggleSettings \/ Grant
      PROVE  AccountHeld'
  BY <1>13
     DEF AccountHeld, AccountHeldBy, Working, At, ToggleSettings, Grant, tables, trakt, history
<1>14. ASSUME Restart
      PROVE  AccountHeld'
  BY <1>14 DEF Typed, CallsOK, AccountHeld, AccountHeldBy, Working, At, Restart, tables, trakt
<1>15. ASSUME NEW p \in Profiles, Age(p)
      PROVE  AccountHeld'
  BY <1>15 DEF Typed, TablesOK, AccountHeld, AccountHeldBy, Working, At, Age, trakt, history
<1>16. ASSUME NEW k \in Conns, RevokedOnTrakt(k)
      PROVE  AccountHeld'
  BY <1>16 DEF Typed, AccountHeld, AccountHeldBy, Working, At, RevokedOnTrakt, tables
<1>17. CASE UNCHANGED vars
  BY <1>17 DEF AccountHeld, AccountHeldBy, Working, At, vars, tables, session, trakt, history
<1> QED
  BY <1>1, <1>2, <1>3, <1>4, <1>5, <1>6, <1>7, <1>8, <1>9, <1>10, <1>11, <1>12, <1>13, <1>14,
     <1>15, <1>16, <1>17
     DEF Next, CallStep

-----------------------------------------------------------------------------
(* The refresh tokens *)

\* A step whose call has no new token in hand afterwards, and finds the tables
\* as they were: what is left is the token that was about to be stored.
LEMMA TokensFrame ==
  ASSUME Held, TokensHeld, NEW c \in Calls, CallStep(c), row' = row, live' = live,
         lost \subseteq lost',
         At(c, "rotate") => call[c].conn \in lost',
         call'[c] = None \/ ~(call'[c].at \in {"refresh", "request", "rotate"})
           \/ ( /\ call'[c].at \in {"refresh", "request"}
                /\ live[call'[c].conn] = call'[c].token \/ call'[c].conn \in lost )
  PROVE  TokensHeld'
<1>1. \A d \in Calls : d # c => call'[d] = call[d] /\ Idle(d)
  BY OthersIdle DEF Held
<1>2. TokenInHand'
  BY <1>1 DEF TokenInHand, At, Idle
<1>3. StoredTokenWorks'
  BY <1>1 DEF TokensHeld, StoredTokenWorks, At, Idle
<1> QED
  BY <1>2, <1>3 DEF TokensHeld

LEMMA TokensStep ==
  ASSUME Held, TokensHeld, [Next]_vars
  PROVE  TokensHeld'
<1>1. ASSUME NEW c \in Calls, NEW kind \in {"sync", "connect", "disconnect"}, Ask(c, kind)
      PROVE  TokensHeld'
  <2>1. call'[c].at = "gate" /\ call[c] = None /\ \A d \in Calls : d # c => call'[d] = call[d]
    BY <1>1 DEF Ask, Start, Held, Typed, CallsOK
  <2>2. row' = row /\ live' = live /\ lost' = lost
    BY <1>1 DEF Ask, tables, trakt, history
  <2>3. TokenInHand'
    BY <2>1, <2>2 DEF TokensHeld, TokenInHand, At
  <2>4. \A d \in Calls : At(d, "rotate") => d # c
    BY <2>1 DEF At
  <2>5. StoredTokenWorks'
    BY <2>1, <2>2, <2>4 DEF TokensHeld, StoredTokenWorks, At
  <2> QED
    BY <2>3, <2>5 DEF TokensHeld
<1>2. ASSUME NEW c \in Calls, NEW g \in grants, Report(c, g)
      PROVE  TokensHeld'
  <2>1. call'[c].at = "gate" /\ call[c] = None /\ \A d \in Calls : d # c => call'[d] = call[d]
    BY <1>2 DEF Report, Start, Held, Typed, CallsOK
  <2>2. row' = row /\ live' = live /\ lost' = lost
    BY <1>2 DEF Report, tables, trakt, history
  <2>3. TokenInHand'
    BY <2>1, <2>2 DEF TokensHeld, TokenInHand, At
  <2>4. \A d \in Calls : At(d, "rotate") => d # c
    BY <2>1 DEF At
  <2>5. StoredTokenWorks'
    BY <2>1, <2>2, <2>4 DEF TokensHeld, StoredTokenWorks, At
  <2> QED
    BY <2>3, <2>5 DEF TokensHeld
<1>3. ASSUME NEW c \in Calls, Enter(c) \/ FreshEnough(c) \/ Fails(c) \/ Confirmed(c) \/
             MarkStale(c) \/ SaveData(c)
      PROVE  TokensHeld'
  <2>1. row' = row /\ live' = live /\ lost' = lost /\ ~At(c, "rotate")
    BY <1>3
       DEF Enter, FreshEnough, Fails, Confirmed, MarkStale, SaveData, At, tables, trakt, history
  <2>2. call'[c] = None \/ call'[c].at = "load"
    BY <1>3, AfterRest DEF Rests, Held
  <2> QED
    BY <1>3, <2>1, <2>2, TokensFrame DEF CallStep
<1>4. ASSUME NEW c \in Calls, Load(c)
      PROVE  TokensHeld'
  <2>1. row' = row /\ live' = live /\ lost' = lost /\ At(c, "load") /\ ~At(c, "rotate")
    BY <1>4 DEF Load, At, tables, trakt, history
  <2>2. \A d \in Calls : d # c => Idle(d)
    BY <1>4, OthersIdle DEF CallStep, Held
  <2>3. call[c].profile \in Profiles
    BY <2>1, CallFields DEF At, Held
  <2>4. /\ row[call[c].profile] # None
        /\ call'[c].conn = row[call[c].profile].conn /\ call'[c].token = row[call[c].profile].token
        /\ call'[c].at \in {"refresh", "request"}
    BY <1>4, AfterLoad DEF Held
  <2>5. \A d \in Calls : ~At(d, "rotate")
    BY <2>1, <2>2 DEF At, Idle
  <2>6. live[call'[c].conn] = call'[c].token \/ call'[c].conn \in lost
    BY <2>3, <2>4, <2>5 DEF TokensHeld, StoredTokenWorks
  <2> QED
    BY <1>4, <2>1, <2>4, <2>6, TokensFrame DEF CallStep
<1>5. ASSUME NEW c \in Calls, Refresh(c)
      PROVE  TokensHeld'
  <2>1. \A d \in Calls : d # c => call'[d] = call[d] /\ Idle(d)
    BY <1>5, OthersIdle DEF CallStep, Held
  <2>2. row' = row /\ lost \subseteq lost' /\ At(c, "refresh")
    BY <1>5 DEF Refresh, tables
  <2>3. call[c].conn \in Conns
    BY <2>2, ConnOfCall DEF Working, At, Held
  <2>4. \A k \in Conns : live'[k] = IF k = call[c].conn THEN issued' ELSE live[k]
    BY <1>5, <2>3 DEF Refresh, Held, Typed, CountersOK
  <2>5. call'[c] # None =>
          /\ Same(c) /\ call'[c].at = "rotate" /\ call'[c].next = issued'
    BY <1>5, AfterRefresh DEF Held
  <2>6. call'[c] = None => call[c].conn \in lost'
    <3>1. CASE Return(c) /\ lost' = lost \union {call[c].conn}
      BY <3>1
    <3>2. CASE call' = [call EXCEPT ![c].at = "rotate", ![c].next = issued']
      <4>1. call[c] \in Call
        BY <2>2, CallFields DEF At, Held
      <4>2. issued' \in Tokens
        BY <1>5, TraktAssumption DEF Refresh, Held, Typed, CountersOK, Tokens
      <4>3. call'[c] \in Call
        BY <3>2, <4>1, <4>2 DEF Call, Held, Typed, CallsOK
      <4> QED
        BY <4>3, NoneAssumption
    <3> QED
      BY <1>5, <3>1, <3>2 DEF Refresh
  <2>7. TokenInHand'
    BY <2>1, <2>3, <2>4, <2>5 DEF TokenInHand, At, Idle, Same
  <2>8. ASSUME NEW q \in Profiles, row'[q] # None
        PROVE  \/ live'[row'[q].conn] = row'[q].token
               \/ row'[q].conn \in lost'
               \/ \E d \in Calls : At(d, "rotate")' /\ call'[d].conn = row'[q].conn
    <3>1. row[q] # None /\ row[q].conn \in Conns
      BY <2>2, <2>8, RowFields DEF Held
    <3>2. CASE row[q].conn = call[c].conn
      BY <2>2, <2>5, <2>6, <3>2 DEF At, Same
    <3>3. CASE row[q].conn # call[c].conn
      <4>1. \A d \in Calls : ~(At(d, "rotate") /\ call[d].conn = row[q].conn)
        BY <2>1, <2>2 DEF At, Idle
      <4> QED
        BY <2>2, <2>4, <3>1, <3>3, <4>1 DEF TokensHeld, StoredTokenWorks
    <3> QED
      BY <3>2, <3>3
  <2>9. StoredTokenWorks'
    BY <2>8 DEF StoredTokenWorks
  <2> QED
    BY <2>7, <2>9 DEF TokensHeld
<1>6. ASSUME NEW c \in Calls, Rotate(c)
      PROVE  TokensHeld'
  <2>1. \A d \in Calls : d # c => call'[d] = call[d] /\ Idle(d)
    BY <1>6, OthersIdle DEF CallStep, Held
  <2>2. live' = live /\ lost' = lost /\ At(c, "rotate")
    BY <1>6 DEF Rotate, trakt, history
  <2>3. Working(c) /\ call[c].profile \in Profiles
    BY <2>2, CallFields DEF Working, At, Held
  <2>4. live[call[c].conn] = call[c].next \/ call[c].conn \in lost
    BY <2>2 DEF TokensHeld, TokenInHand
  <2>5. \A q \in Profiles : row[q] # None /\ q # call[c].profile =>
          live[row[q].conn] = row[q].token \/ row[q].conn \in lost
    BY <2>1, <2>3 DEF TokensHeld, StoredTokenWorks, Held, AccountHeld, AccountHeldBy, At, Idle
  <2>6. CASE Rotates(c)
    <3>1. \A q \in Profiles : row'[q] =
            IF q = call[c].profile THEN [conn |-> call[c].conn, token |-> call[c].next] ELSE row[q]
      BY <1>6, <2>3, <2>6 DEF Rotate, Held, Typed, TablesOK
    <3>2. call' = [call EXCEPT ![c].at = "request", ![c].token = call[c].next]
      BY <1>6, <2>6 DEF Rotate
    <3>3. call[c] \in Call
      BY <2>2, CallFields DEF At, Held
    <3>4. call'[c].at = "request" /\ call'[c].conn = call[c].conn /\ call'[c].token = call[c].next
      BY <3>2, <3>3 DEF Call, Held, Typed, CallsOK
    <3>5. TokenInHand'
      BY <2>1, <2>2, <2>4, <3>4 DEF TokenInHand, At, Idle
    <3>6. StoredTokenWorks'
      BY <2>2, <2>4, <2>5, <3>1 DEF StoredTokenWorks
    <3> QED
      BY <3>5, <3>6 DEF TokensHeld
  <2>7. CASE ~Rotates(c)
    <3>1. row' = row /\ call'[c] = None
      BY <1>6, <2>7, AfterReturn DEF Rotate, Held
    <3>2. row[call[c].profile] = None
      BY <2>2, <2>3, <2>7 DEF Held, AccountHeld, AccountHeldBy, Rotates, At
    <3>3. TokenInHand'
      BY <2>1, <3>1 DEF TokenInHand, At, Idle
    <3>4. StoredTokenWorks'
      BY <2>2, <2>5, <3>1, <3>2 DEF StoredTokenWorks
    <3> QED
      BY <3>3, <3>4 DEF TokensHeld
  <2> QED
    BY <2>6, <2>7
<1>7. ASSUME NEW c \in Calls, RotateFails(c)
      PROVE  TokensHeld'
  <2>1. row' = row /\ live' = live /\ lost' = lost \union {call[c].conn}
    BY <1>7 DEF RotateFails, tables, trakt
  <2>2. call'[c] = None
    BY <1>7, AfterReturn DEF RotateFails, Held
  <2> QED
    BY <1>7, <2>1, <2>2, TokensFrame DEF CallStep
<1>8. ASSUME NEW c \in Calls, Refused(c) \/ Pull(c)
      PROVE  TokensHeld'
  <2>1. row' = row /\ live' = live /\ lost' = lost /\ At(c, "request")
    BY <1>8 DEF Refused, Pull, At, tables, trakt, history
  <2>2. live[call[c].conn] = call[c].token \/ call[c].conn \in lost
    BY <2>1 DEF TokensHeld, TokenInHand
  <2>3. \/ Same(c) /\ call'[c].at = "refresh" /\ call'[c].token = call[c].token
        \/ call'[c].at = "save"
    BY <1>8, AfterRefused, AfterPull DEF Held
  <2>4. ~At(c, "rotate")
    BY <2>1 DEF At
  <2> QED
    BY <1>8, <2>1, <2>2, <2>3, <2>4, TokensFrame DEF CallStep, Same
<1>9. ASSUME NEW c \in Calls, Watch(c)
      PROVE  TokensHeld'
  <2>1. row' = row /\ live' = live /\ lost' = lost /\ ~At(c, "rotate")
    BY <1>9 DEF Watch, At, tables
  <2>2. call'[c] = None \/ call'[c].at = "mark"
    BY <1>9, AfterWatch DEF Held
  <2> QED
    BY <1>9, <2>1, <2>2, TokensFrame DEF CallStep
<1>10. ASSUME NEW c \in Calls, Connect(c)
      PROVE  TokensHeld'
  <2>1. \A d \in Calls : d # c => call'[d] = call[d] /\ Idle(d)
    BY <1>10, OthersIdle DEF CallStep, Held
  <2>2. call'[c] = None /\ lost' = lost /\ At(c, "load")
    BY <1>10, AfterReturn DEF Connect, Held
  <2>3. made' = made + 1 /\ made \in Nat /\ made' \in Conns
    BY <1>10, TraktAssumption DEF Connect, Held, Typed, CountersOK, Conns
  <2>4. call[c].profile \in Profiles
    BY <2>2, CallFields DEF At, Held
  <2>5. \A q \in Profiles : row'[q] =
          IF q = call[c].profile THEN [conn |-> made', token |-> issued'] ELSE row[q]
    BY <1>10, <2>4 DEF Connect, Held, Typed, TablesOK
  <2>6. \A k \in Conns : live'[k] = IF k = made' THEN issued' ELSE live[k]
    BY <1>10 DEF Connect, Held, Typed, CountersOK
  <2>7. \A q \in Profiles : row[q] # None =>
          /\ row[q].conn \in Conns /\ row[q].conn \in Nat /\ row[q].conn <= made
    BY RowFields DEF Held, ConnsMade, RowsMade, Conns
  <2>8. \A q \in Profiles : row[q] # None =>
          live[row[q].conn] = row[q].token \/ row[q].conn \in lost
    BY <2>1, <2>2 DEF TokensHeld, StoredTokenWorks, At, Idle
  <2>9. TokenInHand'
    BY <2>1, <2>2 DEF TokenInHand, At, Idle
  <2>10. \A q \in Profiles : row[q] # None => row[q].conn # made'
    BY <2>3, <2>7
  <2>11. StoredTokenWorks'
    BY <2>2, <2>3, <2>5, <2>6, <2>7, <2>8, <2>10 DEF StoredTokenWorks
  <2> QED
    BY <2>9, <2>11 DEF TokensHeld
<1>11. ASSUME NEW c \in Calls, Disconnect(c)
      PROVE  TokensHeld'
  <2>1. \A d \in Calls : d # c => call'[d] = call[d] /\ Idle(d)
    BY <1>11, OthersIdle DEF CallStep, Held
  <2>2. live' = live /\ lost' = lost /\ At(c, "load")
    BY <1>11 DEF Disconnect, trakt
  <2>3. call[c].profile \in Profiles /\ call'[c].at = "revoke"
    BY <1>11, <2>2, CallFields, AfterDisconnect DEF At, Held
  <2>4. \A q \in Profiles : row'[q] = IF q = call[c].profile THEN None ELSE row[q]
    BY <1>11, <2>3 DEF Disconnect, Held, Typed, TablesOK
  <2>5. \A d \in Calls : ~At(d, "rotate")
    BY <2>1, <2>2 DEF At, Idle
  <2>6. TokenInHand'
    BY <2>1, <2>3 DEF TokenInHand, At, Idle
  <2>7. StoredTokenWorks'
    BY <2>2, <2>4, <2>5 DEF TokensHeld, StoredTokenWorks
  <2> QED
    BY <2>6, <2>7 DEF TokensHeld
<1>12. ASSUME NEW c \in Calls, Revoke(c)
      PROVE  TokensHeld'
  <2>1. \A d \in Calls : d # c => call'[d] = call[d] /\ Idle(d)
    BY <1>12, OthersIdle DEF CallStep, Held
  <2>2. call'[c] = None /\ row' = row /\ lost' = lost /\ At(c, "revoke")
    BY <1>12, AfterReturn DEF Revoke, tables, history, Held
  <2>3. \A q \in Profiles : row[q] # None => row[q].conn \in Conns /\ row[q].conn # call[c].conn
    BY <2>2, RowFields DEF Held, AccountHeld, AccountHeldBy
  <2>4. \A k \in Conns : k # call[c].conn => live'[k] = live[k]
    BY <1>12 DEF Revoke, Held, Typed, CountersOK
  <2>5. \A d \in Calls : ~At(d, "rotate")
    BY <2>1, <2>2 DEF At, Idle
  <2>6. TokenInHand'
    BY <2>1, <2>2 DEF TokenInHand, At, Idle
  <2>7. StoredTokenWorks'
    BY <2>2, <2>3, <2>4, <2>5 DEF TokensHeld, StoredTokenWorks
  <2> QED
    BY <2>6, <2>7 DEF TokensHeld
<1>13. ASSUME NEW p \in Profiles, Open(p)
      PROVE  TokensHeld'
  <2>1. \A q \in Profiles : row'[q] # None => row'[q] = row[q]
    BY <1>13 DEF Open, tables, Held, Typed, TablesOK
  <2>2. \A d \in Calls : Alike(d)
    BY <1>13, UnboundAlike DEF Open, Held
  <2>3. live' = live /\ lost' = lost
    BY <1>13 DEF Open, trakt, history
  <2>4. \A d \in Calls : /\ At(d, "rotate")' <=> At(d, "rotate")
                         /\ At(d, "refresh")' <=> At(d, "refresh")
                         /\ At(d, "request")' <=> At(d, "request")
    BY <2>2 DEF At, Alike
  <2>5. TokenInHand'
    BY <2>2, <2>3, <2>4 DEF TokensHeld, TokenInHand, Alike, At
  <2>6. StoredTokenWorks'
    BY <2>1, <2>2, <2>3, <2>4 DEF TokensHeld, StoredTokenWorks, Alike, At
  <2> QED
    BY <2>5, <2>6 DEF TokensHeld
<1>14. ASSUME Leave \/ DeleteProfile
      PROVE  TokensHeld'
  <2>1. \A q \in Profiles : row'[q] # None => row'[q] = row[q]
    BY <1>14 DEF Leave, DeleteProfile, tables, Held, Typed, TablesOK
  <2>2. \A d \in Calls : Alike(d)
    BY <1>14, UnboundAlike DEF Leave, DeleteProfile, Held
  <2>3. live' = live /\ lost' = lost
    BY <1>14 DEF Leave, DeleteProfile, trakt, history
  <2>4. \A d \in Calls : /\ At(d, "rotate")' <=> At(d, "rotate")
                         /\ At(d, "refresh")' <=> At(d, "refresh")
                         /\ At(d, "request")' <=> At(d, "request")
    BY <2>2 DEF At, Alike
  <2>5. TokenInHand'
    BY <2>2, <2>3, <2>4 DEF TokensHeld, TokenInHand, Alike, At
  <2>6. StoredTokenWorks'
    BY <2>1, <2>2, <2>3, <2>4 DEF TokensHeld, StoredTokenWorks, Alike, At
  <2> QED
    BY <2>5, <2>6 DEF TokensHeld
<1>15. ASSUME ToggleSettings \/ Grant
      PROVE  TokensHeld'
  BY <1>15
     DEF TokensHeld, TokenInHand, StoredTokenWorks, At, ToggleSettings, Grant, tables, trakt,
         history
<1>16. ASSUME Restart
      PROVE  TokensHeld'
  <2>1. row' = row /\ live' = live /\ \A d \in Calls : call'[d] = None
    BY <1>16 DEF Restart, tables, trakt
  <2>2. lost \subseteq lost' /\ \A d \in Calls : At(d, "rotate") => call[d].conn \in lost'
    BY <1>16 DEF Restart
  <2>3. TokenInHand'
    BY <2>1 DEF TokenInHand, At
  <2>4. StoredTokenWorks'
    BY <2>1, <2>2 DEF TokensHeld, StoredTokenWorks
  <2> QED
    BY <2>3, <2>4 DEF TokensHeld
<1>17. ASSUME NEW p \in Profiles, Age(p)
      PROVE  TokensHeld'
  BY <1>17 DEF Typed, TablesOK, TokensHeld, TokenInHand, StoredTokenWorks, At, Age, trakt, history
<1>18. ASSUME NEW k \in Conns, RevokedOnTrakt(k)
      PROVE  TokensHeld'
  <2>1. row' = row /\ call' = call /\ lost' = lost \union {k}
    BY <1>18 DEF RevokedOnTrakt, tables
  <2>2. \A i : i # k => live'[i] = live[i]
    BY <1>18 DEF RevokedOnTrakt, Held, Typed, CountersOK
  <2>3. TokenInHand'
    BY <2>1, <2>2 DEF TokensHeld, TokenInHand, At
  <2>4. StoredTokenWorks'
    BY <2>1, <2>2 DEF TokensHeld, StoredTokenWorks, At
  <2> QED
    BY <2>3, <2>4 DEF TokensHeld
<1>19. CASE UNCHANGED vars
  BY <1>19
     DEF TokensHeld, TokenInHand, StoredTokenWorks, At, vars, tables, session, trakt, history
<1> QED
  BY <1>1, <1>2, <1>3, <1>4, <1>5, <1>6, <1>7, <1>8, <1>9, <1>10, <1>11, <1>12, <1>13, <1>14,
     <1>15, <1>16, <1>17, <1>18, <1>19
     DEF Next, CallStep

-----------------------------------------------------------------------------
(* The imports *)

\* A step that leaves the accounts, the imports and what Trakt has as they were,
\* and whose call was not about to mark the import.
LEMMA ImportsFrame ==
  ASSUME ImportsHeld, Held, NEW c \in Calls, CallStep(c), ~At(c, "mark"), data' = data,
         \A q \in Profiles : row[q] # None => row'[q] # None /\ row'[q].conn = row[q].conn,
         watched' = watched, unmarked \subseteq unmarked'
  PROVE  ImportsHeld'
<1>1. \A d \in Calls : At(d, "mark") => call'[d] = call[d]
  BY OthersIdle DEF Held
<1>2. ImportOfAccount'
  BY DEF ImportsHeld, ImportOfAccount
<1>3. FreshIsComplete'
  BY <1>1 DEF ImportsHeld, FreshIsComplete, At
<1> QED
  BY <1>2, <1>3 DEF ImportsHeld

\* A call that works with a profile's account is the only one to touch it.
LEMMA ImportOfCall ==
  ASSUME Held, ImportsHeld, NEW c \in Calls, Working(c), NEW q \in Profiles, data[q] # None
  PROVE  data[q].conn \in Conns /\ (q = call[c].profile <=> data[q].conn = call[c].conn)
  BY DEF ImportsHeld, ImportOfAccount, Held, AccountHeld, AccountHeldBy, Typed, TablesOK, Import

LEMMA ImportsStep ==
  ASSUME Held, ImportsHeld, [Next]_vars
  PROVE  ImportsHeld'
<1>1. ASSUME NEW c \in Calls, NEW kind \in {"sync", "connect", "disconnect"}, Ask(c, kind)
      PROVE  ImportsHeld'
  <2>1. data' = data /\ row' = row /\ watched' = watched /\ unmarked' = unmarked
    BY <1>1 DEF Ask, tables, trakt, history
  <2>2. \A d \in Calls : At(d, "mark") => call'[d] = call[d]
    BY <1>1 DEF Ask, Start, At, Held, Typed, CallsOK
  <2>3. ImportOfAccount'
    BY <2>1 DEF ImportsHeld, ImportOfAccount
  <2>4. FreshIsComplete'
    BY <2>1, <2>2 DEF ImportsHeld, FreshIsComplete, At
  <2> QED
    BY <2>3, <2>4 DEF ImportsHeld
<1>2. ASSUME NEW c \in Calls, NEW g \in grants, Report(c, g)
      PROVE  ImportsHeld'
  <2>1. data' = data /\ row' = row /\ watched' = watched /\ unmarked' = unmarked
    BY <1>2 DEF Report, tables, trakt, history
  <2>2. \A d \in Calls : At(d, "mark") => call'[d] = call[d]
    BY <1>2 DEF Report, Start, At, Held, Typed, CallsOK
  <2>3. ImportOfAccount'
    BY <2>1 DEF ImportsHeld, ImportOfAccount
  <2>4. FreshIsComplete'
    BY <2>1, <2>2 DEF ImportsHeld, FreshIsComplete, At
  <2> QED
    BY <2>3, <2>4 DEF ImportsHeld
<1>3. ASSUME NEW c \in Calls, Enter(c) \/ FreshEnough(c) \/ Fails(c) \/ Confirmed(c) \/
             Load(c) \/ Refresh(c) \/ RotateFails(c) \/ Refused(c) \/ Pull(c) \/ Revoke(c)
      PROVE  ImportsHeld'
  <2>1. data' = data /\ row' = row /\ watched' = watched /\ unmarked' = unmarked /\ ~At(c, "mark")
    BY <1>3
       DEF Enter, FreshEnough, Fails, Confirmed, Load, Refresh, RotateFails, Refused, Pull,
           Revoke, At, tables, trakt, history
  <2> QED
    BY <1>3, <2>1, ImportsFrame DEF CallStep
<1>4. ASSUME NEW c \in Calls, Rotate(c)
      PROVE  ImportsHeld'
  <2>1. data' = data /\ watched' = watched /\ unmarked' = unmarked /\ ~At(c, "mark")
    BY <1>4 DEF Rotate, At, trakt, history
  <2>2. call[c].profile \in Profiles
    BY <1>4, CallFields DEF Rotate, At, Held
  <2>3. \A q \in Profiles : row[q] # None => row'[q] # None /\ row'[q].conn = row[q].conn
    <3>1. CASE Rotates(c)
      <4>1. \A q \in Profiles : row'[q] = IF q = call[c].profile
              THEN [conn |-> call[c].conn, token |-> call[c].next] ELSE row[q]
        BY <1>4, <2>2, <3>1 DEF Rotate, Held, Typed, TablesOK
      <4>2. [conn |-> call[c].conn, token |-> call[c].next] # None
        BY <1>4, CallFields, ConnOfCall, NoneAssumption DEF Rotate, At, Working, Held, Account
      <4> QED
        BY <2>2, <3>1, <4>1, <4>2 DEF Rotates
    <3>2. CASE ~Rotates(c)
      BY <1>4, <3>2 DEF Rotate
    <3> QED
      BY <3>1, <3>2
  <2> QED
    BY <1>4, <2>1, <2>3, ImportsFrame DEF CallStep
<1>5. ASSUME NEW c \in Calls, Watch(c)
      PROVE  ImportsHeld'
  <2>1. data' = data /\ row' = row /\ unmarked \subseteq unmarked'
    BY <1>5 DEF Watch, tables
  <2>2. Working(c) /\ call[c].conn \in Conns
    BY <1>5, ConnOfCall DEF Watch, At, Working, Held
  <2>3. \A k \in Conns : k # call[c].conn => watched'[k] = watched[k]
    BY <1>5, <2>2 DEF Watch, Held, Typed, CountersOK
  <2>4. \A d \in Calls : At(d, "mark") => call'[d] = call[d]
    BY <1>5, OthersIdle DEF Watch, At, Idle, CallStep, Held
  <2>5. call[c].conn \in unmarked' \/ (At(c, "mark")' /\ call'[c].conn = call[c].conn)
    <3>1. CASE Return(c) /\ unmarked' = unmarked \union {call[c].conn}
      BY <3>1
    <3>2. CASE call' = [call EXCEPT ![c].at = "mark"]
      <4>1. call[c] \in Call
        BY <2>2, CallFields DEF Working, Held
      <4>2. call'[c] \in Call /\ call'[c].at = "mark" /\ call'[c].conn = call[c].conn
        BY <3>2, <4>1 DEF Call, Held, Typed, CallsOK
      <4> QED
        BY <4>2, NoneAssumption DEF At
    <3> QED
      BY <1>5, <3>1, <3>2 DEF Watch, Go
  <2>6. ImportOfAccount'
    BY <2>1 DEF ImportsHeld, ImportOfAccount
  <2>7. \A q \in Profiles : data[q] # None => data[q].conn \in Conns
    BY DEF Held, Typed, TablesOK, Import
  <2>8. FreshIsComplete'
    BY <2>1, <2>3, <2>4, <2>5, <2>7 DEF ImportsHeld, FreshIsComplete, At
  <2> QED
    BY <2>6, <2>8 DEF ImportsHeld
<1>6. ASSUME NEW c \in Calls, MarkStale(c)
      PROVE  ImportsHeld'
  <2>1. row' = row /\ watched' = watched /\ unmarked \subseteq unmarked'
    BY <1>6 DEF MarkStale, trakt
  <2>2. Working(c) /\ call[c].profile \in Profiles
    BY <1>6, CallFields DEF MarkStale, At, Working, Held
  <2>3. \A d \in Calls : d # c => call'[d] = call[d]
    BY <1>6, OthersIdle DEF CallStep, Held
  <2>4. \A q \in Profiles : q # call[c].profile => data'[q] = data[q]
    BY <1>6, <2>2 DEF MarkStale, Held, Typed, TablesOK
  <2>5. \/ data'[call[c].profile] = Stale(data[call[c].profile])
        \/ data' = data /\ call[c].conn \in unmarked'
    BY <1>6, <2>2 DEF MarkStale, Held, Typed, TablesOK
  <2>6. ASSUME NEW q \in Profiles, data'[q] # None
        PROVE  /\ data[q] # None /\ data'[q].conn = data[q].conn /\ data'[q].seen = data[q].seen
               /\ data'[q].fresh => data[q].fresh /\ data'[q] = data[q]
    <3>1. CASE data'[q] = data[q]
      BY <2>6, <3>1
    <3>2. CASE data'[q] = Stale(data[q])
      <4>1. data[q] # None /\ data'[q] = [data[q] EXCEPT !.fresh = FALSE]
        BY <2>6, <3>2 DEF Stale
      <4>2. data[q] \in Import
        BY <4>1 DEF Held, Typed, TablesOK
      <4> QED
        BY <4>1, <4>2 DEF Import
    <3> QED
      BY <2>4, <2>5, <3>1, <3>2
  <2>7. ASSUME NEW q \in Profiles, data'[q] # None, data'[q].fresh,
               data'[q].conn = call[c].conn
        PROVE  call[c].conn \in unmarked'
    <3>1. q = call[c].profile
      BY <2>2, <2>6, <2>7, ImportOfCall
    <3>2. CASE data'[q] = Stale(data[q])
      <4>1. data[q] # None /\ data'[q] = [data[q] EXCEPT !.fresh = FALSE]
        BY <2>7, <3>2 DEF Stale
      <4>2. data[q] \in Import
        BY <4>1 DEF Held, Typed, TablesOK
      <4> QED
        BY <2>7, <4>1, <4>2 DEF Import
    <3> QED
      BY <2>5, <3>1, <3>2
  <2>8. ImportOfAccount'
    BY <2>1, <2>6 DEF ImportsHeld, ImportOfAccount
  <2>9. FreshIsComplete'
    BY <2>1, <2>3, <2>6, <2>7 DEF ImportsHeld, FreshIsComplete, At
  <2> QED
    BY <2>8, <2>9 DEF ImportsHeld
<1>7. ASSUME NEW c \in Calls, SaveData(c)
      PROVE  ImportsHeld'
  <2>1. row' = row /\ watched' = watched /\ unmarked' = unmarked /\ row[call[c].profile] # None
    BY <1>7 DEF SaveData, trakt, history
  <2>2. Working(c) /\ call[c].profile \in Profiles
    BY <1>7, CallFields DEF SaveData, At, Working, Held
  <2>3. \A d \in Calls : At(d, "mark") => call'[d] = call[d]
    BY <1>7, OthersIdle DEF SaveData, At, CallStep, Held
  <2>4. \A q \in Profiles : data'[q] = IF q = call[c].profile
          THEN [conn |-> call[c].conn, seen |-> watched[call[c].conn], fresh |-> TRUE] ELSE data[q]
    BY <1>7, <2>2 DEF SaveData, Held, Typed, TablesOK
  <2>5. row[call[c].profile].conn = call[c].conn
    BY <2>1, <2>2 DEF Held, AccountHeld, AccountHeldBy
  <2>6. ImportOfAccount'
    BY <2>1, <2>4, <2>5 DEF ImportsHeld, ImportOfAccount
  <2>7. FreshIsComplete'
    BY <2>1, <2>3, <2>4 DEF ImportsHeld, FreshIsComplete, At
  <2> QED
    BY <2>6, <2>7 DEF ImportsHeld
<1>8. ASSUME NEW c \in Calls, Connect(c)
      PROVE  ImportsHeld'
  <2>1. call[c].profile \in Profiles
    BY <1>8, CallFields DEF Connect, At, Held
  <2>2. \A d \in Calls : At(d, "mark") => call'[d] = call[d]
    BY <1>8, OthersIdle DEF Connect, At, CallStep, Held
  <2>3. data'[call[c].profile] = None
    BY <1>8, <2>1 DEF Connect, CacheAfterConnect, Held, Typed, TablesOK
  <2>4. \A q \in Profiles : q # call[c].profile => data'[q] = data[q] /\ row'[q] = row[q]
    BY <1>8, <2>1 DEF Connect, Held, Typed, TablesOK
  <2>5. watched' = watched /\ unmarked' = unmarked
    BY <1>8 DEF Connect, trakt
  <2>6. ImportOfAccount'
    BY <2>3, <2>4 DEF ImportsHeld, ImportOfAccount
  <2>7. FreshIsComplete'
    BY <2>2, <2>3, <2>4, <2>5 DEF ImportsHeld, FreshIsComplete, At
  <2> QED
    BY <2>6, <2>7 DEF ImportsHeld
<1>9. ASSUME NEW c \in Calls, Disconnect(c)
      PROVE  ImportsHeld'
  <2>1. call[c].profile \in Profiles
    BY <1>9, CallFields DEF Disconnect, At, Held
  <2>2. \A d \in Calls : At(d, "mark") => call'[d] = call[d]
    BY <1>9, OthersIdle DEF Disconnect, At, CallStep, Held
  <2>3. data'[call[c].profile] = None
    BY <1>9, <2>1 DEF Disconnect, CacheAfterConnect, Held, Typed, TablesOK
  <2>4. \A q \in Profiles : q # call[c].profile => data'[q] = data[q] /\ row'[q] = row[q]
    BY <1>9, <2>1 DEF Disconnect, Held, Typed, TablesOK
  <2>5. watched' = watched /\ unmarked' = unmarked
    BY <1>9 DEF Disconnect, trakt
  <2>6. ImportOfAccount'
    BY <2>3, <2>4 DEF ImportsHeld, ImportOfAccount
  <2>7. FreshIsComplete'
    BY <2>2, <2>3, <2>4, <2>5 DEF ImportsHeld, FreshIsComplete, At
  <2> QED
    BY <2>6, <2>7 DEF ImportsHeld
<1>10. ASSUME NEW p \in Profiles, Open(p)
      PROVE  ImportsHeld'
  <2>1. data' = data /\ row' = row /\ watched' = watched /\ unmarked' = unmarked
    BY <1>10 DEF Open, tables, trakt, history
  <2>2. \A d \in Calls : Alike(d)
    BY <1>10, UnboundAlike DEF Open, Held
  <2>3. ImportOfAccount'
    BY <2>1 DEF ImportsHeld, ImportOfAccount
  <2>4. FreshIsComplete'
    BY <2>1, <2>2 DEF ImportsHeld, FreshIsComplete, At, Alike
  <2> QED
    BY <2>3, <2>4 DEF ImportsHeld
<1>11. ASSUME Leave
      PROVE  ImportsHeld'
  <2>1. data' = data /\ row' = row /\ watched' = watched /\ unmarked' = unmarked
    BY <1>11 DEF Leave, tables, trakt, history
  <2>2. \A d \in Calls : Alike(d)
    BY <1>11, UnboundAlike DEF Leave, Held
  <2>3. ImportOfAccount'
    BY <2>1 DEF ImportsHeld, ImportOfAccount
  <2>4. FreshIsComplete'
    BY <2>1, <2>2 DEF ImportsHeld, FreshIsComplete, At, Alike
  <2> QED
    BY <2>3, <2>4 DEF ImportsHeld
<1>12. ASSUME DeleteProfile
      PROVE  ImportsHeld'
  <2>1. open \in Profiles
    BY <1>12 DEF DeleteProfile, Held, Typed, TablesOK
  <2>2. \A d \in Calls : Alike(d)
    BY <1>12, UnboundAlike DEF DeleteProfile, Held
  <2>3. data'[open] = None
    BY <1>12, <2>1 DEF DeleteProfile, Held, Typed, TablesOK
  <2>4. \A q \in Profiles : q # open => data'[q] = data[q] /\ row'[q] = row[q]
    BY <1>12 DEF DeleteProfile, Held, Typed, TablesOK
  <2>5. watched' = watched /\ unmarked' = unmarked
    BY <1>12 DEF DeleteProfile, trakt, history
  <2>6. ImportOfAccount'
    BY <2>3, <2>4 DEF ImportsHeld, ImportOfAccount
  <2>7. FreshIsComplete'
    BY <2>2, <2>3, <2>4, <2>5 DEF ImportsHeld, FreshIsComplete, At, Alike
  <2> QED
    BY <2>6, <2>7 DEF ImportsHeld
<1>13. ASSUME ToggleSettings \/ Grant
      PROVE  ImportsHeld'
  <2>1. data' = data /\ row' = row /\ watched' = watched /\ unmarked' = unmarked /\ call' = call
    BY <1>13 DEF ToggleSettings, Grant, tables, trakt, history
  <2> QED
    BY <2>1 DEF ImportsHeld, ImportOfAccount, FreshIsComplete, At
<1>14. ASSUME Restart
      PROVE  ImportsHeld'
  <2>1. data' = data /\ row' = row /\ watched' = watched /\ unmarked \subseteq unmarked'
    BY <1>14 DEF Restart, tables, trakt
  <2>2. \A d \in Calls : At(d, "mark") => call[d].conn \in unmarked'
    BY <1>14 DEF Restart
  <2>3. ImportOfAccount'
    BY <2>1 DEF ImportsHeld, ImportOfAccount
  <2>4. FreshIsComplete'
    BY <2>1, <2>2 DEF ImportsHeld, FreshIsComplete
  <2> QED
    BY <2>3, <2>4 DEF ImportsHeld
<1>15. ASSUME NEW p \in Profiles, Age(p)
      PROVE  ImportsHeld'
  <2>1. row' = row /\ call' = call /\ watched' = watched /\ unmarked' = unmarked
    BY <1>15 DEF Age, trakt, history
  <2>2. \A q \in Profiles : q # p => data'[q] = data[q]
    BY <1>15 DEF Age, Held, Typed, TablesOK
  <2>3. data[p] \in Import /\ data'[p] = [data[p] EXCEPT !.fresh = FALSE]
    BY <1>15 DEF Age, Held, Typed, TablesOK
  <2>4. data'[p].conn = data[p].conn /\ ~data'[p].fresh
    BY <2>3 DEF Import
  <2>5. data[p] # None
    BY <1>15 DEF Age
  <2>6. ImportOfAccount'
    BY <2>1, <2>2, <2>4, <2>5 DEF ImportsHeld, ImportOfAccount
  <2>7. FreshIsComplete'
    BY <2>1, <2>2, <2>4 DEF ImportsHeld, FreshIsComplete, At
  <2> QED
    BY <2>6, <2>7 DEF ImportsHeld
<1>16. ASSUME NEW k \in Conns, RevokedOnTrakt(k)
      PROVE  ImportsHeld'
  <2>1. data' = data /\ row' = row /\ watched' = watched /\ unmarked' = unmarked /\ call' = call
    BY <1>16 DEF RevokedOnTrakt, tables, trakt, history
  <2> QED
    BY <2>1 DEF ImportsHeld, ImportOfAccount, FreshIsComplete, At
<1>17. CASE UNCHANGED vars
  BY <1>17
     DEF ImportsHeld, ImportOfAccount, FreshIsComplete, At, vars, tables, session, trakt, history
<1> QED
  BY <1>1, <1>2, <1>3, <1>4, <1>5, <1>6, <1>7, <1>8, <1>9, <1>10, <1>11, <1>12, <1>13, <1>14,
     <1>15, <1>16, <1>17
     DEF Next, CallStep

-----------------------------------------------------------------------------
(* After a disconnect *)

LEMMA NothingAfterFrame ==
  ASSUME Held, NothingAfterDisconnect, NEW c \in Calls, CallStep(c),
         At(c, "request")' \/ At(c, "refresh")' => call'[c].conn \notin gone'
  PROVE  NothingAfterDisconnect'
<1>1. \A d \in Calls : d # c => call'[d] = call[d] /\ Idle(d)
  BY OthersIdle DEF Held
<1> QED
  BY <1>1 DEF NothingAfterDisconnect, At, Idle

LEMMA NothingAfterStep ==
  ASSUME Held, NothingAfterDisconnect, [Next]_vars
  PROVE  NothingAfterDisconnect'
<1>1. ASSUME NEW c \in Calls, NEW kind \in {"sync", "connect", "disconnect"}, Ask(c, kind)
      PROVE  NothingAfterDisconnect'
  <2>1. call'[c].at = "gate" /\ \A d \in Calls : d # c => call'[d] = call[d]
    BY <1>1 DEF Ask, Start, Held, Typed, CallsOK
  <2>2. gone' = gone
    BY <1>1 DEF Ask, history
  <2> QED
    BY <2>1, <2>2 DEF NothingAfterDisconnect, At
<1>2. ASSUME NEW c \in Calls, NEW g \in grants, Report(c, g)
      PROVE  NothingAfterDisconnect'
  <2>1. call'[c].at = "gate" /\ \A d \in Calls : d # c => call'[d] = call[d]
    BY <1>2 DEF Report, Start, Held, Typed, CallsOK
  <2>2. gone' = gone
    BY <1>2 DEF Report, history
  <2> QED
    BY <2>1, <2>2 DEF NothingAfterDisconnect, At
<1>3. ASSUME NEW c \in Calls, Enter(c) \/ FreshEnough(c) \/ Fails(c) \/ Confirmed(c) \/
             RotateFails(c) \/ MarkStale(c) \/ SaveData(c) \/ Connect(c) \/ Revoke(c)
      PROVE  NothingAfterDisconnect'
  <2>1. ~At(c, "request")' /\ ~At(c, "refresh")'
    BY <1>3, AfterRest DEF Rests, At, Held
  <2> QED
    BY <1>3, <2>1, NothingAfterFrame DEF CallStep
<1>4. ASSUME NEW c \in Calls, Load(c)
      PROVE  NothingAfterDisconnect'
  <2>1. gone' = gone
    BY <1>4 DEF Load, history
  <2>2. call[c].profile \in Profiles
    BY <1>4, CallFields, AfterLoad DEF Held
  <2>3. call'[c].conn \notin gone
    BY <1>4, <2>2, AfterLoad DEF Held, ConnsMade, RowsMade
  <2> QED
    BY <1>4, <2>1, <2>3, NothingAfterFrame DEF CallStep
<1>5. ASSUME NEW c \in Calls, Refresh(c)
      PROVE  NothingAfterDisconnect'
  <2>1. ~At(c, "request")' /\ ~At(c, "refresh")'
    BY <1>5, AfterRefresh DEF At, Held
  <2> QED
    BY <1>5, <2>1, NothingAfterFrame DEF CallStep
<1>6. ASSUME NEW c \in Calls, Rotate(c)
      PROVE  NothingAfterDisconnect'
  <2>1. gone' = gone
    BY <1>6 DEF Rotate, history
  <2>2. call[c].profile \in Profiles
    BY <1>6, CallFields DEF Rotate, At, Held
  <2>3. call'[c] # None => call'[c].conn \notin gone
    BY <1>6, <2>2, AfterRotate DEF Rotates, Same, Held, ConnsMade, RowsMade
  <2> QED
    BY <1>6, <2>1, <2>3, NothingAfterFrame DEF CallStep, At
<1>7. ASSUME NEW c \in Calls, Refused(c) \/ Pull(c)
      PROVE  NothingAfterDisconnect'
  <2>1. gone' = gone /\ At(c, "request")
    BY <1>7 DEF Refused, Pull, At, history
  <2>2. call[c].conn \notin gone
    BY <2>1 DEF NothingAfterDisconnect
  <2>3. call'[c].conn = call[c].conn
    BY <1>7, AfterRefused, AfterPull DEF Same, Held
  <2> QED
    BY <1>7, <2>1, <2>2, <2>3, NothingAfterFrame DEF CallStep
<1>8. ASSUME NEW c \in Calls, Watch(c)
      PROVE  NothingAfterDisconnect'
  <2>1. ~At(c, "request")' /\ ~At(c, "refresh")'
    BY <1>8, AfterWatch DEF At, Held
  <2> QED
    BY <1>8, <2>1, NothingAfterFrame DEF CallStep
<1>9. ASSUME NEW c \in Calls, Disconnect(c)
      PROVE  NothingAfterDisconnect'
  <2>1. ~At(c, "request")' /\ ~At(c, "refresh")'
    BY <1>9, AfterDisconnect DEF At, Held
  <2> QED
    BY <1>9, <2>1, NothingAfterFrame DEF CallStep
<1>10. ASSUME NEW p \in Profiles, Open(p)
      PROVE  NothingAfterDisconnect'
  <2>1. \A d \in Calls : Alike(d)
    BY <1>10, UnboundAlike DEF Open, Held
  <2>2. gone' = gone
    BY <1>10 DEF Open, history
  <2> QED
    BY <2>1, <2>2 DEF NothingAfterDisconnect, At, Alike
<1>11. ASSUME Leave \/ DeleteProfile
      PROVE  NothingAfterDisconnect'
  <2>1. \A d \in Calls : Alike(d)
    BY <1>11, UnboundAlike DEF Leave, DeleteProfile, Held
  <2>2. gone' = gone
    BY <1>11 DEF Leave, DeleteProfile, history
  <2> QED
    BY <2>1, <2>2 DEF NothingAfterDisconnect, At, Alike
<1>12. ASSUME ToggleSettings \/ Grant
      PROVE  NothingAfterDisconnect'
  BY <1>12 DEF NothingAfterDisconnect, At, ToggleSettings, Grant, tables, trakt, history
<1>13. ASSUME Restart
      PROVE  NothingAfterDisconnect'
  BY <1>13 DEF Typed, CallsOK, NothingAfterDisconnect, At, Restart, tables, trakt
<1>14. ASSUME NEW p \in Profiles, Age(p)
      PROVE  NothingAfterDisconnect'
  BY <1>14 DEF Typed, TablesOK, NothingAfterDisconnect, At, Age, trakt, history
<1>15. ASSUME NEW k \in Conns, RevokedOnTrakt(k)
      PROVE  NothingAfterDisconnect'
  BY <1>15 DEF Typed, NothingAfterDisconnect, At, RevokedOnTrakt, tables
<1>16. CASE UNCHANGED vars
  BY <1>16 DEF NothingAfterDisconnect, At, vars, tables, session, trakt, history
<1> QED
  BY <1>1, <1>2, <1>3, <1>4, <1>5, <1>6, <1>7, <1>8, <1>9, <1>10, <1>11, <1>12, <1>13, <1>14,
     <1>15, <1>16
     DEF Next, CallStep

-----------------------------------------------------------------------------
(* The invariant, and the theorems *)

LEMMA InvInit == Init => Inv
<1> SUFFICES ASSUME Init PROVE Inv
  OBVIOUS
<1>1. Typed
  <2>1. CallsOK
    BY DEF Init, CallsOK
  <2>2. TablesOK
    BY DEF Init, TablesOK
  <2>3. 0 \in Tokens /\ 0 \in 0 .. MaxConns /\ 0 \in 0 .. MaxWatched
    BY TraktAssumption DEF Tokens
  <2>4. CountersOK
    BY <2>3 DEF Init, CountersOK
  <2> QED
    BY <2>1, <2>2, <2>4 DEF Typed
<1>2. \A p \in Profiles : row[p] = None /\ data[p] = None
  BY DEF Init
<1>3. \A c \in Calls : call[c] = None
  BY DEF Init
<1>4. gone = {}
  BY DEF Init
<1>5. Held
  BY <1>1, <1>2, <1>3, <1>4 DEF Held, GateHeld, ConnsMade, RowsMade, CallsMade, AccountHeld,
     AccountHeldBy, Working, At
<1>6. TokensHeld /\ ImportsHeld /\ NothingAfterDisconnect
  BY <1>2, <1>3 DEF TokensHeld, TokenInHand, StoredTokenWorks, ImportsHeld, ImportOfAccount,
     FreshIsComplete, NothingAfterDisconnect, At
<1> QED
  BY <1>5, <1>6 DEF Inv

LEMMA InvStep == Inv /\ [Next]_vars => Inv'
<1> SUFFICES ASSUME Inv, [Next]_vars PROVE Inv'
  OBVIOUS
<1>1. Typed' /\ GateHeld'
  BY CallsTyped, TablesTyped, CountersTyped, GateStep DEF Inv, Held, Typed
<1>2. ConnsMade'
  BY RowsStep, CallsMadeStep DEF Inv, Held, ConnsMade
<1>3. AccountHeld'
  BY AccountStep DEF Inv, Held
<1>4. Held'
  BY <1>1, <1>2, <1>3 DEF Held
<1>5. TokensHeld' /\ ImportsHeld' /\ NothingAfterDisconnect'
  BY TokensStep, ImportsStep, NothingAfterStep DEF Inv
<1> QED
  BY <1>4, <1>5 DEF Inv

THEOREM InvHolds == Spec => []Inv
  BY InvInit, InvStep, PTL DEF Spec

\* Every variable has its type, however many calls run and whatever ends them:
\* what Trakt and the history keep is about connections, within the counters.
THEOREM TypeCorrect == Spec => []TypeOK
<1>1. Inv => TypeOK
  BY DEF Inv, Held, Typed, CallsOK, TablesOK, CountersOK, TypeOK
<1> QED
  BY <1>1, InvHolds, PTL

\* The refresh token in the database is the one Trakt accepts, unless an answer,
\* a write or the login itself was lost, or the call that holds trakt_gate is
\* about to store its successor (authorized_request and rotate_account).
THEOREM StoredTokensWork == Spec => []StoredTokenWorks
<1>1. Inv => StoredTokenWorks
  BY DEF Inv, TokensHeld
<1> QED
  BY <1>1, InvHolds, PTL

\* No refresh is refused because another call used its token first: the calls
\* that trakt_gate puts in order never present the same refresh token.
THEOREM RefreshesFirst == Spec => []RefreshesAreFirst
<1>1. Inv => RefreshesAreFirst
  BY DEF Inv, TokensHeld, TokenInHand, RefreshesAreFirst
<1> QED
  BY <1>1, InvHolds, PTL

\* What a profile shows as imported was imported from the account it is connected
\* to, through every disconnect, new login and late save (save_data, connect).
THEOREM ImportsOfAccounts == Spec => []ImportOfAccount
<1>1. Inv => ImportOfAccount
  BY DEF Inv, ImportsHeld
<1> QED
  BY <1>1, InvHolds, PTL

\* An import that counts as fresh has every title this device reported as
\* watched, unless the write that marks it as stale failed (scrobble).
THEOREM FreshImportsComplete == Spec => []FreshIsComplete
<1>1. Inv => FreshIsComplete
  BY DEF Inv, ImportsHeld
<1> QED
  BY <1>1, InvHolds, PTL

\* After a disconnect or a new login nothing but the revocation is sent for the
\* connection there was, though reports of it still wait (disconnect, connect).
THEOREM NothingAfter == Spec => []NothingAfterDisconnect
<1>1. Inv => NothingAfterDisconnect
  BY DEF Inv
<1> QED
  BY <1>1, InvHolds, PTL

-----------------------------------------------------------------------------
(* Reports *)

LEMMA ReportKeepsConn ==
  ASSUME Typed, GateHeld, Next, NEW c \in Calls, Kind(c, "scrobble"), call'[c] # None
  PROVE  call'[c].conn = call[c].conn
<1>1. CASE CallStep(c)
  <2>1. call[c] # None /\ call[c].kind = "scrobble"
    BY DEF Kind
  <2>2. ASSUME Enter(c)
        PROVE  call'[c].conn = call[c].conn
    <3>1. call[c] \in Call
      BY <2>1, CallFields
    <3> QED
      BY <2>2, <3>1 DEF Enter, Call, Typed, CallsOK
  <2>3. ASSUME Load(c)
        PROVE  call'[c].conn = call[c].conn
    <3>1. row[call[c].profile].conn = call[c].conn
      BY <2>1, <2>3 DEF Load, Usable, Kind
    <3> QED
      BY <2>3, <3>1, AfterLoad
  <2>4. ~Connect(c) /\ ~Disconnect(c)
    BY <2>1 DEF Connect, Disconnect, Kind
  <2> QED
    BY <1>1, <2>2, <2>3, <2>4, AfterRefresh, AfterRotate, AfterRefused, AfterPull, AfterWatch,
       AfterReturn
       DEF CallStep, Same, FreshEnough, Fails, RotateFails, Confirmed, MarkStale, SaveData, Revoke
<1>2. ASSUME NEW d \in Calls, d # c, CallStep(d)
      PROVE  call'[c].conn = call[c].conn
  BY <1>2, OthersStay
<1>3. ASSUME NEW d \in Calls, NEW kind \in {"sync", "connect", "disconnect"}, Ask(d, kind)
      PROVE  call'[c].conn = call[c].conn
  BY <1>3 DEF Ask, Start, Kind, Typed, CallsOK
<1>4. ASSUME NEW d \in Calls, NEW g \in grants, Report(d, g)
      PROVE  call'[c].conn = call[c].conn
  BY <1>4 DEF Report, Start, Kind, Typed, CallsOK
<1>5. ASSUME call' = Unbound(call)
      PROVE  call'[c].conn = call[c].conn
  BY <1>5, UnboundAlike DEF Alike, Kind
<1>6. CASE Restart
  BY <1>6 DEF Restart
<1>7. CASE UNCHANGED call
  BY <1>7
<1> QED
  BY <1>1, <1>2, <1>3, <1>4, <1>5, <1>6, <1>7
     DEF Next, Open, Leave, DeleteProfile, Grant, ToggleSettings, Age, RevokedOnTrakt

\* A report of a playback reaches the connection it was granted or none, however
\* late it comes: another profile's session and a new login in between change
\* nothing of it (scrobble checks the account's id).
THEOREM ReportsBound == Spec => ReportsStayBound
<1>1. Inv /\ [Next]_vars =>
        [\A c \in Calls : Kind(c, "scrobble") /\ call'[c] # None
           => call'[c].conn = call[c].conn]_vars
  BY ReportKeepsConn DEF Inv, Held
<1> QED
  BY <1>1, InvHolds, PTL DEF Spec, ReportsStayBound

-----------------------------------------------------------------------------
(* The details of a title *)

\* Details name, for each populated field, the addon whose configuration they are from.
Attributed(details) == \A f \in NotBlank(details) : details[f].provider = details[f].from[1]

\* What a request that asks the addons has in its hands.
AsksWell(req) ==
  /\ DOMAIN req.config = Addons
  /\ req.op \in {"resolve", "continue"}
  /\ req.op = "continue" => Attributed(req.cached)

\* A field is from the originating addon, where it goes first, or else from the earliest
\* installation of those that said something of it; from the preview if nobody else did.
Ranked(op, field, S) ==
  IF S = {Preview} THEN field.from = <<Origin, 0>>
  ELSE IF op = "resolve" /\ Origin \in S THEN field.provider = Origin
  ELSE field.provider \in S /\ \A b \in S \ {Preview} : field.provider <= b

\* What a request that is about to write has resolved, of whatever kind it is.
ResolvedWell(req) ==
  /\ req.had \subseteq DOMAIN req.data
  /\ req.op = "resolve" => req.had \subseteq NotBlank(req.data)
  /\ Attributed(req.data)
  /\ \A f \in Fields : req.full[f] # {} =>
       f \in NotBlank(req.data) /\ Ranked(req.op, req.data[f], req.full[f])

RequestWell(req) ==
  /\ req.at = "query" => AsksWell(req)
  /\ req.at = "write" => ResolvedWell(req)

\* The inductive invariant: what came from the cache is attributed, as what is
\* written to it is, so a request finds nothing else there when it fills its answer.
MetadataInv ==
  /\ DOMAIN addons = Addons
  /\ request = [r \in Requests |-> request[r]]
  /\ \A r \in Requests : RequestWell(request[r])
  /\ entry # NoEntry => "data" \in DOMAIN entry /\ Attributed(entry.data)

-----------------------------------------------------------------------------
(* The order of the addons *)

\* The foremost of a set is one of the set, and an addon if there is any; nobody was
\* installed before it, unless it is the originating addon, first in resolve_metadata.
LEMMA ForemostIsFirst ==
  ASSUME NEW S \in SUBSET (Addons \cup {Preview}), S # {}, NEW op
  PROVE  /\ Foremost(op, S) \in S
         /\ IF S = {Preview} THEN Foremost(op, S) = Preview
            ELSE /\ Foremost(op, S) # Preview
                 /\ IF op = "resolve" /\ Origin \in S THEN Foremost(op, S) = Origin
                    ELSE \A a \in S \ {Preview} : Foremost(op, S) <= a
<1>1. Addons \subseteq Nat \ {0} /\ Origin \in Addons /\ Preview = 0
  BY AddonsAssumption DEF Preview
<1>2. CASE S = {Preview}
  <2>1. Origin \notin S
    BY <1>1, <1>2
  <2> QED
    BY <1>2, <2>1 DEF Foremost
<1>3. CASE S # {Preview}
  <2>1. S \ {Preview} \in SUBSET Nat /\ S \ {Preview} # {}
    BY <1>1, <1>3
  <2>2. PICK first \in S \ {Preview} : \A a \in S \ {Preview} : first <= a
    BY <2>1, LeastNumber
  <2>3. ~(S \subseteq {Preview}) /\ Origin # Preview
    BY <1>1, <2>1
  <2> QED
    BY <1>3, <2>2, <2>3 DEF Foremost
<1> QED
  BY <1>2, <1>3

-----------------------------------------------------------------------------
(* What is merged *)

\* The answers are merged by their rank, and each field names its addon.
LEMMA MergedByRank ==
  ASSUME NEW op, NEW config, NEW answers, DOMAIN answers \subseteq Addons \cup {Preview}
  PROVE  /\ Attributed(Merged(op, config, answers))
         /\ \A f \in Fields : Populated(answers)[f] # {} =>
              /\ f \in NotBlank(Merged(op, config, answers))
              /\ Ranked(op, Merged(op, config, answers)[f], Populated(answers)[f])
<1> DEFINE full == Populated(answers)
           first == Foremost(op, DOMAIN answers)
           from(f) == Foremost(op, IF full[f] = {} THEN DOMAIN answers ELSE full[f])
           D == {f \in Fields : full[f] # {} \/ answers[first][f] = "blank"}
           M == [f \in D |->
                   [from |-> <<Provider(from(f)), IF from(f) = Preview THEN 0 ELSE config[from(f)]>>,
                    blank |-> full[f] = {}, provider |-> Provider(from(f))]]
<1>1. Merged(op, config, answers) = M
  BY DEF Merged
<1>2. \A f \in D : /\ M[f].provider = Provider(from(f))
                   /\ M[f].from = <<Provider(from(f)), IF from(f) = Preview THEN 0 ELSE config[from(f)]>>
                   /\ M[f].blank = (full[f] = {})
  OBVIOUS
<1>3. \A f \in Fields : full[f] \in SUBSET (Addons \cup {Preview})
  BY DEF Populated
<1>4. Addons \subseteq Nat \ {0} /\ Origin \in Addons /\ Preview = 0
  BY AddonsAssumption DEF Preview
<1>5. DOMAIN M = D /\ D \subseteq Fields
  OBVIOUS
<1>6. \A f \in Fields : full[f] # {} => f \in D /\ from(f) = Foremost(op, full[f])
  OBVIOUS
<1>7. \A f \in D : M[f].provider = M[f].from[1]
  BY <1>2
<1> HIDE DEF M, D, from, full
<1>8. Attributed(M)
  BY <1>5, <1>7 DEF Attributed, NotBlank
<1>9. ASSUME NEW f \in Fields, full[f] # {}
      PROVE  f \in NotBlank(M) /\ Ranked(op, M[f], full[f])
  <2>1. f \in D /\ from(f) = Foremost(op, full[f])
    BY <1>6, <1>9
  <2>2. f \in NotBlank(M)
    BY <1>2, <1>5, <1>9, <2>1 DEF NotBlank
  <2>3. CASE full[f] = {Preview}
    <3>1. from(f) = Preview
      BY <1>3, <1>9, <2>1, <2>3, ForemostIsFirst
    <3>2. M[f].from = <<Origin, 0>>
      BY <1>2, <2>1, <3>1 DEF Provider
    <3> QED
      BY <2>2, <2>3, <3>2 DEF Ranked
  <2>4. CASE full[f] # {Preview}
    <3>1. /\ from(f) \in full[f] /\ from(f) # Preview
          /\ IF op = "resolve" /\ Origin \in full[f] THEN from(f) = Origin
             ELSE \A a \in full[f] \ {Preview} : from(f) <= a
      BY <1>3, <1>9, <2>1, <2>4, ForemostIsFirst
    <3>2. M[f].provider = from(f)
      BY <1>2, <2>1, <3>1 DEF Provider
    <3> QED
      BY <2>2, <2>4, <3>1, <3>2 DEF Ranked
  <2> QED
    BY <2>3, <2>4
<1> QED
  BY <1>1, <1>8, <1>9 DEF full

\* The cache fills what is missing or blank, and what it fills stays attributed. (What
\* stays blank may be filed under the cache's provider, and is not attributed.)
LEMMA FilledWell ==
  ASSUME NEW details, NEW cached, Attributed(details), Attributed(cached)
  PROVE  /\ Attributed(Filled(details, cached))
         /\ NotBlank(cached) \subseteq NotBlank(Filled(details, cached))
         /\ NotBlank(details) \subseteq NotBlank(Filled(details, cached))
         /\ \A f \in NotBlank(details) : Filled(details, cached)[f] = details[f]
<1> DEFINE F == Filled(details, cached)
           D == DOMAIN details \cup NotBlank(cached)
<1>1. /\ DOMAIN F = D
      /\ \A f \in D :
           F[f] = IF f \in NotBlank(cached) \ NotBlank(details) THEN cached[f]
                  ELSE IF f \in DOMAIN cached \ NotBlank(details)
                  THEN [from |-> details[f].from, blank |-> TRUE, provider |-> cached[f].provider]
                  ELSE details[f]
  BY DEF Filled
<1>2. NotBlank(cached) \subseteq DOMAIN cached /\ NotBlank(details) \subseteq DOMAIN details
  BY DEF NotBlank
<1> HIDE DEF F
<1>3. \A f \in NotBlank(details) : F[f] = details[f] /\ f \in NotBlank(F)
  <2>1. \A f \in NotBlank(details) : F[f] = details[f] /\ f \in DOMAIN F
    BY <1>1, <1>2
  <2> QED
    BY <2>1 DEF NotBlank
<1>4. \A f \in NotBlank(cached) \ NotBlank(details) : F[f] = cached[f] /\ f \in NotBlank(F)
  <2>1. \A f \in NotBlank(cached) \ NotBlank(details) : F[f] = cached[f] /\ f \in DOMAIN F
    BY <1>1
  <2> QED
    BY <2>1 DEF NotBlank
<1>5. ASSUME NEW f \in NotBlank(F) PROVE F[f].provider = F[f].from[1]
  <2>1. f \in D /\ ~F[f].blank
    BY <1>1 DEF NotBlank
  <2>2. CASE f \in NotBlank(details)
    BY <1>3, <2>2 DEF Attributed
  <2>3. CASE f \in NotBlank(cached) \ NotBlank(details)
    BY <1>4, <2>3 DEF Attributed
  <2>4. CASE f \notin NotBlank(details) /\ f \notin NotBlank(cached)
    <3>1. f \in DOMAIN details /\ details[f].blank
      BY <2>1, <2>4 DEF NotBlank
    <3>2. F[f] = details[f] \/ F[f] = [from |-> details[f].from, blank |-> TRUE, provider |-> cached[f].provider]
      BY <1>1, <2>1, <2>4
    <3> QED
      BY <2>1, <3>1, <3>2
  <2> QED
    BY <2>2, <2>3, <2>4
<1> QED
  BY <1>3, <1>4, <1>5 DEF F, Attributed

\* merge_cached adds the fields that were not answered at all.
LEMMA MergedCachedWell ==
  ASSUME NEW details, NEW cached, Attributed(details), Attributed(cached)
  PROVE  /\ Attributed(MergedCached(details, cached))
         /\ NotBlank(cached) \subseteq DOMAIN MergedCached(details, cached)
         /\ NotBlank(details) \subseteq NotBlank(MergedCached(details, cached))
         /\ \A f \in NotBlank(details) : MergedCached(details, cached)[f] = details[f]
<1> DEFINE F == MergedCached(details, cached)
           D == DOMAIN details \cup DOMAIN cached
<1>1. DOMAIN F = D
  BY DEF MergedCached
<1>2. \A f \in D : F[f] = IF f \in DOMAIN details THEN details[f] ELSE cached[f]
  BY DEF MergedCached
<1>3. NotBlank(cached) \subseteq DOMAIN cached /\ NotBlank(details) \subseteq DOMAIN details
  BY DEF NotBlank
<1> HIDE DEF F
<1>4. Attributed(F)
  BY <1>1, <1>2 DEF Attributed, NotBlank
<1>5. \A f \in NotBlank(details) : F[f] = details[f] /\ f \in NotBlank(F)
  <2>1. \A f \in NotBlank(details) : F[f] = details[f] /\ f \in DOMAIN F
    BY <1>1, <1>2, <1>3
  <2> QED
    BY <2>1 DEF NotBlank
<1> QED
  BY <1>1, <1>3, <1>4, <1>5 DEF F

\* What the cache holds of an addons' configuration is attributed.
LEMMA CachedAttributed ==
  ASSUME MetadataInv, NEW config
  PROVE  Attributed(Cached(config))
<1>1. Attributed(<<>>)
  <2>1. DOMAIN <<>> = {}
    OBVIOUS
  <2> QED
    BY <2>1 DEF Attributed, NotBlank
<1> QED
  BY <1>1 DEF MetadataInv, Cached

\* Whoever answers is enabled, and installed, or the preview.
LEMMA AnswersAreInstalled ==
  ASSUME NEW config, DOMAIN config = Addons,
         NEW answers, answers \in Answers(Enabled(config)) \/ answers \in Answers(Enabled(config) \cup {Preview})
  PROVE  DOMAIN answers \subseteq Addons \cup {Preview}
<1>1. PICK who \in SUBSET (Enabled(config) \cup {Preview}) : answers \in [who -> [Fields -> {"absent", "blank", "full"}]]
  BY DEF Answers
<1> QED
  BY <1>1 DEF Enabled

-----------------------------------------------------------------------------
(* The steps *)

LEMMA MetadataInitInv == MetadataInit => MetadataInv
<1> SUFFICES ASSUME MetadataInit PROVE MetadataInv
  OBVIOUS
<1>1. \A r \in Requests : request[r].at = "idle"
  BY DEF MetadataInit, NoRequest
<1> QED
  BY <1>1 DEF MetadataInit, MetadataInv, RequestWell

\* A step of one request leaves the others as they are.
LEMMA TurnsWell ==
  ASSUME MetadataInv, NEW r \in Requests, NEW req, Turns(r, req), Unchanged, RequestWell(req)
  PROVE  MetadataInv'
<1>1. /\ request' = [q \in Requests |-> request'[q]]
      /\ \A q \in Requests : request'[q] = IF q = r THEN req ELSE request[q]
  BY DEF MetadataInv, Turns
<1>2. \A q \in Requests : RequestWell(request'[q])
  BY <1>1 DEF MetadataInv
<1> QED
  BY <1>1, <1>2 DEF MetadataInv, Unchanged, RequestWell, AsksWell, ResolvedWell, Ranked, Attributed, NotBlank

LEMMA BeginWell ==
  ASSUME MetadataInv, NEW r \in Requests, BeginResolve(r) \/ BeginContinue(r)
  PROVE  MetadataInv'
<1>1. CASE BeginResolve(r)
  <2> DEFINE req == [at |-> "query", op |-> "resolve", config |-> addons]
  <2>1. RequestWell(req)
    BY DEF MetadataInv, RequestWell, AsksWell
  <2>2. Turns(r, req) /\ Unchanged
    BY <1>1 DEF BeginResolve
  <2> QED
    BY <2>1, <2>2, TurnsWell
<1>2. CASE BeginContinue(r)
  <2> DEFINE req == [at |-> "query", op |-> "continue", config |-> addons, cached |-> Cached(addons)]
  <2>1. RequestWell(req)
    BY CachedAttributed DEF MetadataInv, RequestWell, AsksWell
  <2>2. Turns(r, req) /\ Unchanged
    BY <1>2 DEF BeginContinue
  <2> QED
    BY <2>1, <2>2, TurnsWell
<1> QED
  BY <1>1, <1>2

\* The end of a request, answered or not.
LEMMA EndsWell ==
  ASSUME MetadataInv, NEW r \in Requests, Turns(r, NoRequest), Unchanged
  PROVE  MetadataInv'
<1>1. RequestWell(NoRequest)
  BY DEF RequestWell, NoRequest
<1> QED
  BY <1>1, TurnsWell

\* resolve_metadata_inner: the merged answers, filled from the cache as it is by then.
LEMMA ResolveReadsWell ==
  ASSUME MetadataInv, NEW r \in Requests, ResolveReads(r)
  PROVE  MetadataInv'
<1> DEFINE config == request[r].config
           cached == Cached(addons)
<1>1. PICK answers \in Answers(Enabled(config) \cup {Preview}) :
        IF answers = <<>> THEN Turns(r, NoRequest)
        ELSE Turns(r,
               [at |-> "write", op |-> "resolve", full |-> Populated(answers), sources |-> Sources(addons),
                had |-> NotBlank(cached), data |-> Filled(Merged("resolve", config, answers), cached)])
  BY DEF ResolveReads
<1>2. Unchanged
  BY DEF ResolveReads
<1>3. CASE answers = <<>>
  BY <1>1, <1>2, <1>3, EndsWell
<1>4. CASE answers # <<>>
  <2> DEFINE merged == Merged("resolve", config, answers)
             details == Filled(merged, cached)
             req == [at |-> "write", op |-> "resolve", full |-> Populated(answers),
                      sources |-> Sources(addons), had |-> NotBlank(cached), data |-> details]
  <2>1. DOMAIN config = Addons
    BY DEF MetadataInv, RequestWell, AsksWell, ResolveReads
  <2>2. DOMAIN answers \subseteq Addons \cup {Preview}
    BY <1>1, <2>1, AnswersAreInstalled
  <2>3. Attributed(cached)
    BY CachedAttributed
  <2>4. /\ Attributed(merged)
        /\ \A f \in Fields : Populated(answers)[f] # {} =>
             f \in NotBlank(merged) /\ Ranked("resolve", merged[f], Populated(answers)[f])
    BY <2>2, MergedByRank
  <2>5. /\ Attributed(details)
        /\ NotBlank(cached) \subseteq NotBlank(details)
        /\ NotBlank(merged) \subseteq NotBlank(details)
        /\ \A f \in NotBlank(merged) : details[f] = merged[f]
    <3> HIDE DEF merged, cached
    <3> QED
      BY <2>3, <2>4, FilledWell
  <2>6. Turns(r, req)
    BY <1>1, <1>4
  <2>7. req.at = "write" /\ req.op = "resolve" /\ req.had = NotBlank(cached) /\ req.full = Populated(answers) /\ req.data = details
    OBVIOUS
  <2>8. RequestWell(req)
    <3> HIDE DEF req, details, merged, cached
    <3>1. NotBlank(details) \subseteq DOMAIN details
      BY DEF NotBlank
    <3>2. ResolvedWell(req)
      BY <2>4, <2>5, <2>7, <3>1 DEF ResolvedWell
    <3> QED
      BY <2>7, <3>2 DEF RequestWell
  <2> HIDE DEF req
  <2> QED
    BY <1>2, <2>6, <2>8, TurnsWell
<1> QED
  BY <1>3, <1>4

\* continue_metadata: the merged answers, with the fields of the entry it has read before.
LEMMA ContinueAnswersWell ==
  ASSUME MetadataInv, NEW r \in Requests, ContinueAnswers(r)
  PROVE  MetadataInv'
<1> DEFINE config == request[r].config
           cached == request[r].cached
<1>1. PICK answers \in Answers(Enabled(config)) :
        IF answers = <<>> THEN Turns(r, NoRequest)
        ELSE Turns(r,
               [at |-> "write", op |-> "continue", full |-> Populated(answers), sources |-> Sources(config),
                had |-> NotBlank(cached), data |-> MergedCached(Merged("continue", config, answers), cached)])
  BY DEF ContinueAnswers
<1>2. Unchanged
  BY DEF ContinueAnswers
<1>3. CASE answers = <<>>
  BY <1>1, <1>2, <1>3, EndsWell
<1>4. CASE answers # <<>>
  <2> DEFINE merged == Merged("continue", config, answers)
             details == MergedCached(merged, cached)
             req == [at |-> "write", op |-> "continue", full |-> Populated(answers),
                      sources |-> Sources(config), had |-> NotBlank(cached), data |-> details]
  <2>1. DOMAIN config = Addons /\ Attributed(cached)
    BY DEF MetadataInv, RequestWell, AsksWell, ContinueAnswers
  <2>2. DOMAIN answers \subseteq Addons \cup {Preview}
    BY <1>1, <2>1, AnswersAreInstalled
  <2>3. /\ Attributed(merged)
        /\ \A f \in Fields : Populated(answers)[f] # {} =>
             f \in NotBlank(merged) /\ Ranked("continue", merged[f], Populated(answers)[f])
    BY <2>2, MergedByRank
  <2>4. /\ Attributed(details)
        /\ NotBlank(cached) \subseteq DOMAIN details
        /\ NotBlank(merged) \subseteq NotBlank(details)
        /\ \A f \in NotBlank(merged) : details[f] = merged[f]
    <3> HIDE DEF merged, cached
    <3> QED
      BY <2>1, <2>3, MergedCachedWell
  <2>5. Turns(r, req)
    BY <1>1, <1>4
  <2>6. req.at = "write" /\ req.op = "continue" /\ req.had = NotBlank(cached) /\ req.full = Populated(answers) /\ req.data = details
    OBVIOUS
  <2>7. RequestWell(req)
    <3> HIDE DEF req, details, merged, cached
    <3>1. ResolvedWell(req)
      BY <2>3, <2>4, <2>6 DEF ResolvedWell
    <3> QED
      BY <2>6, <3>1 DEF RequestWell
  <2> HIDE DEF req
  <2> QED
    BY <1>2, <2>5, <2>7, TurnsWell
<1> QED
  BY <1>3, <1>4

\* cache_metadata: what a request has resolved, or the entry that was there.
LEMMA CacheMetadataWell ==
  ASSUME MetadataInv, NEW r \in Requests, CacheMetadata(r)
  PROVE  MetadataInv'
<1>1. Turns(r, NoRequest) /\ UNCHANGED <<addons, changes>>
  BY DEF CacheMetadata
<1>2. Attributed(request[r].data)
  BY DEF CacheMetadata, MetadataInv, RequestWell, ResolvedWell
<1>3. entry' = entry \/ ("data" \in DOMAIN entry' /\ entry'.data = request[r].data)
  BY DEF CacheMetadata
<1>4. (entry # NoEntry => "data" \in DOMAIN entry /\ Attributed(entry.data))'
  BY <1>2, <1>3 DEF MetadataInv, Attributed
<1>5. /\ request' = [q \in Requests |-> request'[q]]
      /\ \A q \in Requests : request'[q] = IF q = r THEN NoRequest ELSE request[q]
  BY <1>1 DEF MetadataInv, Turns
<1>6. RequestWell(NoRequest)
  BY DEF RequestWell, NoRequest
<1>7. \A q \in Requests : RequestWell(request'[q])
  BY <1>5, <1>6 DEF MetadataInv
<1> QED
  BY <1>1, <1>4, <1>5, <1>7
     DEF MetadataInv, RequestWell, AsksWell, ResolvedWell, Ranked, Attributed, NotBlank

\* An entry that ages keeps its details; a change of the addons leaves the cache alone.
LEMMA AgesAndChangesWell ==
  ASSUME MetadataInv, EntryAges \/ (\E a \in Addons : ChangeAddon(a))
  PROVE  MetadataInv'
<1>1. request' = request
  BY DEF EntryAges, ChangeAddon
<1>2. (\A r \in Requests : RequestWell(request[r]))'
  BY <1>1 DEF MetadataInv, RequestWell, AsksWell, ResolvedWell, Ranked, Attributed, NotBlank
<1>3. CASE EntryAges
  <2>1. entry' = NoEntry \/ ("data" \in DOMAIN entry' /\ entry'.data = entry.data)
    BY <1>3 DEF EntryAges, MetadataInv
  <2>2. (entry # NoEntry => "data" \in DOMAIN entry /\ Attributed(entry.data))'
    BY <1>3, <2>1 DEF EntryAges, MetadataInv, Attributed
  <2> QED
    BY <1>1, <1>2, <1>3, <2>2 DEF MetadataInv, EntryAges
<1>4. CASE \E a \in Addons : ChangeAddon(a)
  <2>1. entry' = entry /\ DOMAIN addons' = Addons
    BY <1>4 DEF ChangeAddon, MetadataInv
  <2> QED
    BY <1>1, <1>2, <2>1 DEF MetadataInv, Attributed
<1> QED
  BY <1>3, <1>4

LEMMA MetadataStep == MetadataInv /\ [MetadataNext]_metadataVars => MetadataInv'
<1> SUFFICES ASSUME MetadataInv, [MetadataNext]_metadataVars PROVE MetadataInv'
  OBVIOUS
<1>1. CASE UNCHANGED metadataVars
  BY <1>1 DEF metadataVars, MetadataInv, RequestWell, AsksWell, ResolvedWell, Ranked, Attributed, NotBlank
<1>2. ASSUME NEW r \in Requests, BeginResolve(r) \/ BeginContinue(r) PROVE MetadataInv'
  BY <1>2, BeginWell
<1>3. ASSUME NEW r \in Requests, ResolveReads(r) PROVE MetadataInv'
  BY <1>3, ResolveReadsWell
<1>4. ASSUME NEW r \in Requests, ContinueAnswers(r) PROVE MetadataInv'
  BY <1>4, ContinueAnswersWell
<1>5. ASSUME NEW r \in Requests, CacheMetadata(r) PROVE MetadataInv'
  BY <1>5, CacheMetadataWell
<1>6. ASSUME NEW r \in Requests, DropRequest(r) PROVE MetadataInv'
  BY <1>6, EndsWell DEF DropRequest
<1>7. CASE EntryAges \/ (\E a \in Addons : ChangeAddon(a))
  BY <1>7, AgesAndChangesWell
<1> QED
  BY <1>1, <1>2, <1>3, <1>4, <1>5, <1>6, <1>7 DEF MetadataNext

LEMMA ResolvedByRankHolds == MetadataInv => ResolvedByRank
<1> SUFFICES ASSUME MetadataInv, NEW r \in Requests, request[r].at = "write"
             PROVE  ResolvedWell(request[r])
  BY DEF ResolvedByRank, ResolvedWell, Ranked, Attributed
<1> QED
  BY DEF MetadataInv, RequestWell

\* Whatever the addons answer, fail to answer, and are changed into meanwhile, and
\* however often a field went through the cache: the details a request writes are the
\* originating addon's first, then in the order of installation; they keep what the cache
\* had, and each field names the addon it came from (resolve_metadata_inner, continue_metadata).
THEOREM TitlesResolvedByRank == MetadataSpec => []ResolvedByRank
<1>1. MetadataSpec => []MetadataInv
  BY MetadataInitInv, MetadataStep, PTL DEF MetadataSpec
<1> QED
  BY <1>1, ResolvedByRankHolds, PTL

-----------------------------------------------------------------------------
(* The next episode *)

-----------------------------------------------------------------------------
(* The order of the episodes *)

View == [episode : Episodes, completed : BOOLEAN]
EpisodeOf == [p \in View |-> p.episode]

\* What an episode is like stays as it is; what was viewed are its views, one of each.
EpisodesTyped ==
  /\ number \in [Episodes -> Nat]
  /\ viewed \in Seq(View)
  /\ traktHistory \in Seq(Numbers)

\* Of some numbered episodes, one has the least number.
LEMMA EarliestExists ==
  ASSUME EpisodesTyped, NEW eps \in SUBSET Episodes, eps # {},
         \A u, v \in eps : number[u] = number[v] => u = v
  PROVE  \E v \in Earliest(eps) : \A u \in eps : number[v] <= number[u]
<1> DEFINE N == {number[v] : v \in eps}
<1>1. N \subseteq Nat /\ N # {}
  BY DEF EpisodesTyped
<1>2. PICK m \in N : \A y \in N : m <= y
  BY <1>1, LeastNumber
<1>4. PICK v \in eps : number[v] = m
  OBVIOUS
<1>5. \A u \in eps : number[v] <= number[u] /\ number[u] \in Nat /\ number[v] \in Nat
  BY <1>1, <1>2, <1>4
<1>6. v \in Nat
  BY ContinuationAssumption
<1> HIDE DEF N
<1>7. \A u \in eps : number[v] < number[u] \/ (number[u] = number[v] /\ v <= u)
  BY <1>5, <1>6
<1> QED BY <1>5, <1>7 DEF Earliest

LEMMA EarliestIsLeast ==
  ASSUME EpisodesTyped, NEW eps \in SUBSET Episodes, NEW v \in Earliest(eps)
  PROVE  v \in eps /\ \A u \in eps : number[v] <= number[u]
BY DEF Earliest, EpisodesTyped

LEMMA RegularOnes ==
  /\ Regular \subseteq Episodes
  /\ \A v \in Regular : number[v] # Unnumbered /\ ~Special(v) /\ Available(v)
BY DEF Regular

\* Under numbers of their own, an episode's next one has it as its previous one.
LEMMA NextAndPrevious ==
  ASSUME EpisodesTyped, WellNumbered, NEW v \in Regular, NEW u \in NextEpisode(v)
  PROVE  PreviousEpisode(u) = {v}
<1> DEFINE after == {w \in Regular : number[v] # Unnumbered /\ number[v] < number[w]}
           before == {w \in Regular : number[u] # Unnumbered /\ number[w] < number[u]}
<1>1. after \subseteq Regular /\ Regular \subseteq Episodes
  BY RegularOnes
<1>2. u \in after /\ \A w \in after : number[u] <= number[w]
  BY <1>1, EarliestIsLeast DEF NextEpisode
<1>3. \A w \in Regular : number[w] \in Nat
  BY <1>1 DEF EpisodesTyped
<1>4. v \in before
  BY <1>2, <1>3 DEF Unnumbered
<1>5. \A w \in before : number[w] <= number[v]
  <2> TAKE w \in before
  <2>1. w \in after => number[u] <= number[w]
    BY <1>2
  <2>2. w \in Regular /\ u \in Regular /\ number[w] < number[u] /\ number[v] # Unnumbered
    BY <1>2
  <2>3. ~(number[v] < number[w])
    <3>1. number[v] < number[w] => w \in after
      BY <2>2
    <3> HIDE DEF after, before
    <3> QED BY <1>2, <1>3, <2>1, <2>2, <3>1
  <2> QED BY <1>3, <2>2, <2>3
<1>6. \A w \in before : number[w] = number[v] => w = v
  BY <1>1 DEF WellNumbered
<1>7. v \in Nat /\ \A w \in before : w \in Nat
  BY <1>1, ContinuationAssumption
<1>8. PreviousEpisode(u) = Last(before)
  BY DEF PreviousEpisode
<1>9. \A w \in before : number[w] \in Nat /\ number[v] \in Nat
  BY <1>3
<1> HIDE DEF before
<1>10. v \in Last(before)
  BY <1>4, <1>5, <1>6, <1>7, <1>9 DEF Last
<1>11. ASSUME NEW w \in Last(before) PROVE w = v
  <2>1. w \in before /\ (number[v] < number[w] \/ number[v] = number[w])
    BY <1>4, <1>11 DEF Last
  <2> QED BY <2>1, <1>5, <1>6, <1>9
<1> QED BY <1>8, <1>10, <1>11

\* Only what is out is offered.
LEMMA OfferedIsOut ==
  ASSUME NEW v \in ContinueEpisode
  PROVE  Available(v)
<1> DEFINE last == viewed[Len(viewed)]
<1>1. \A u \in FirstEpisode : Available(u)
  BY DEF FirstEpisode, Earliest
<1>2. \A u \in NextEpisode(last.episode) : Available(u)
  BY DEF NextEpisode, Earliest, Regular
<1> HIDE DEF last
<1> QED BY <1>1, <1>2 DEF ContinueEpisode, last

-----------------------------------------------------------------------------
(* What was viewed *)

LastOf(q) == q[Len(q)]

LEMMA SomeOrNone ==
  ASSUME NEW T, NEW q \in Seq(T)
  PROVE  /\ q = << >> <=> Len(q) = 0
         /\ q # << >> => Len(q) \in DOMAIN q /\ LastOf(q) \in T /\ LastOf(q) \in Elements(q)
<1>1. q = << >> <=> Len(q) = 0
  OBVIOUS
<1>2. Len(q) # 0 => Len(q) \in DOMAIN q
  OBVIOUS
<1>3. \A i \in DOMAIN q : q[i] \in T
  OBVIOUS
<1> QED BY <1>1, <1>2, <1>3 DEF LastOf, Elements

LEMMA OnceNext ==
  ASSUME NEW q, viewed' = q, Once(q, EpisodeOf)
  PROVE  Once(viewed, EpisodeOf)'
BY DEF Once

LEMMA LastView ==
  ASSUME EpisodesTyped, viewed # << >>
  PROVE  LastOf(viewed).episode \in Episodes /\ LastOf(viewed).completed \in BOOLEAN
<1>1. LastOf(viewed) \in View
  BY SomeOrNone DEF EpisodesTyped
<1> QED BY <1>1 DEF View

LEMMA ViewsOf ==
  ASSUME NEW p \in View, NEW v
  PROVE  p \in Views(v) <=> p.episode = v
<1>1. p = [episode |-> p.episode, completed |-> p.completed] /\ p.completed \in BOOLEAN
  BY DEF View
<1>2. p \in Views(v) => p.episode = v
  BY DEF Views
<1> QED BY <1>1, <1>2 DEF Views

\* A report leaves one view of the episode, as the last.
LEMMA ReportedKeeps ==
  ASSUME EpisodesTyped, Once(viewed, EpisodeOf), NEW v \in Episodes, NEW completed \in BOOLEAN
  PROVE  LET q == Reported(v, completed)
             p == [episode |-> v, completed |-> completed]
         IN /\ q \in Seq(View) /\ Once(q, EpisodeOf)
            /\ q # << >> /\ LastOf(q) = p
            /\ Elements(q) = (Elements(viewed) \ Views(v)) \cup {p}
<1> DEFINE p == [episode |-> v, completed |-> completed]
           rest == Without(viewed, Views(v))
           q == Append(rest, p)
<1>1. p \in View /\ EpisodeOf[p] = v
  BY DEF View, EpisodeOf
<1>2. viewed \in Seq(View)
  BY DEF EpisodesTyped
<1>3. rest \in Seq(View) /\ Once(rest, EpisodeOf) /\ Elements(rest) = Elements(viewed) \ Views(v)
  BY <1>2, WithoutEmbeds, OnceWithout, WithoutElements
<1> HIDE DEF p, rest
<1>4. \A y \in Elements(rest) : EpisodeOf[y] # EpisodeOf[p]
  <2> TAKE y \in Elements(rest)
  <2>1. y \in View /\ y \notin Views(v)
    BY <1>3 DEF Elements
  <2>2. EpisodeOf[y] = y.episode
    BY <2>1 DEF EpisodeOf
  <2> QED BY <1>1, <2>1, <2>2, ViewsOf
<1>5. Once(q, EpisodeOf)
  <2> HIDE DEF q
  <2>1. q = Append(rest, p)
    BY DEF q
  <2> QED BY <1>1, <1>3, <1>4, <2>1, OnceAppend
<1>6. /\ q \in Seq(View) /\ DOMAIN q = 1 .. Len(rest) + 1 /\ q[Len(rest) + 1] = p
      /\ DOMAIN rest = 1 .. Len(rest) /\ Len(rest) \in Nat
      /\ \A i \in DOMAIN rest : q[i] = rest[i]
      /\ \A i \in DOMAIN q : i \in DOMAIN rest \/ i = Len(rest) + 1
  BY <1>1, <1>3, AppendAt
<1> HIDE DEF q
<1>7. Len(q) = Len(rest) + 1 /\ q # << >>
  BY <1>6
<1>8. Elements(q) = Elements(rest) \cup {p}
  <2>1. ASSUME NEW x \in Elements(q) PROVE x \in Elements(rest) \cup {p}
    <3>1. PICK i \in DOMAIN q : q[i] = x
      BY DEF Elements
    <3> QED BY <1>6, <3>1 DEF Elements
  <2>2. ASSUME NEW x \in Elements(rest) PROVE x \in Elements(q)
    <3>1. PICK i \in DOMAIN rest : rest[i] = x
      BY DEF Elements
    <3>2. i \in DOMAIN q
      BY <1>6
    <3> QED BY <1>6, <3>1, <3>2 DEF Elements
  <2>3. p \in Elements(q)
    <3>1. Len(rest) + 1 \in DOMAIN q
      BY <1>6
    <3> QED BY <1>6, <3>1 DEF Elements
  <2> QED BY <2>1, <2>2, <2>3
<1> QED BY <1>3, <1>5, <1>6, <1>7, <1>8 DEF q, p, rest, Reported, LastOf

\* The episodes that were watched to their end.
LEMMA CompletedIs ==
  ASSUME NEW q \in Seq(View), NEW v
  PROVE  (\E i \in DOMAIN q : q[i].episode = v /\ q[i].completed)
         <=> [episode |-> v, completed |-> TRUE] \in Elements(q)
<1>1. \A p \in View : p.episode = v /\ p.completed <=> p = [episode |-> v, completed |-> TRUE]
  BY DEF View
<1>2. \A i \in DOMAIN q : q[i] \in View
  OBVIOUS
<1> QED BY <1>1, <1>2 DEF Elements

\* One view of each episode: as many views as episodes that were viewed.
LEMMA OnceCounts ==
  ASSUME NEW q \in Seq(View), Once(q, EpisodeOf)
  PROVE  Cardinality({q[i].episode : i \in DOMAIN q}) = Len(q)
<1> DEFINE S == 1 .. Len(q)
           T == {q[i].episode : i \in DOMAIN q}
           f == [i \in S |-> q[i].episode]
<1>1. Len(q) \in Nat /\ DOMAIN q = S
  OBVIOUS
<1>2. \A i \in DOMAIN q : q[i] \in View /\ EpisodeOf[q[i]] = q[i].episode
  BY DEF EpisodeOf
<1>3. \A i, j \in DOMAIN q : q[i].episode = q[j].episode => i = j
  BY <1>2, OnceEach
<1>4. IsFiniteSet(S) /\ Cardinality(S) = Len(q)
  BY <1>1, FS_Interval
<1>5. f \in Bijection(S, T)
  <2>1. f \in [S -> T]
    BY <1>1
  <2>2. \A i, j \in S : f[i] = f[j] => i = j
    BY <1>1, <1>3
  <2>3. \A x \in T : \E i \in S : f[i] = x
    BY <1>1
  <2> HIDE DEF f, T, S
  <2> QED BY <2>1, <2>2, <2>3, Fun_IsBij
<1> HIDE DEF f, S, T
<1>6. Cardinality(T) = Cardinality(S)
  BY <1>4, <1>5, FS_Bijection DEF ExistsBijection
<1> QED BY <1>4, <1>6 DEF T

-----------------------------------------------------------------------------
(* What is imported *)

LEMMA EarliestIsOne ==
  ASSUME EpisodesTyped, NEW eps \in SUBSET Episodes, NEW u \in Earliest(eps), NEW v \in Earliest(eps)
  PROVE  u = v
<1>1. u \in eps /\ v \in eps /\ u \in Nat /\ v \in Nat
  BY ContinuationAssumption DEF Earliest
<1>2. number[u] \in Nat /\ number[v] \in Nat
  BY <1>1 DEF EpisodesTyped
<1>3. /\ number[u] < number[v] \/ (number[v] = number[u] /\ u <= v)
      /\ number[v] < number[u] \/ (number[u] = number[v] /\ v <= u)
  BY <1>1 DEF Earliest
<1> QED BY <1>1, <1>2, <1>3

Knows(q, v) == \E i \in DOMAIN q : q[i].episode = v

\* What is imported of the i oldest numbers of the history, given what is of fewer.
Imports(g, i) ==
  IF i = 0 THEN << >>
  ELSE LET found == Numbered(traktHistory[Len(traktHistory) + 1 - i])
       IN IF \E v \in found : ~Knows(viewed, v) /\ ~Knows(g[i - 1], v)
          THEN Append(g[i - 1], [episode |-> CHOOSE v \in found : TRUE, completed |-> TRUE])
          ELSE g[i - 1]

LEMMA ImportsExist ==
  ASSUME NEW len \in Nat
  PROVE  \E g : g = [i \in 0 .. len |-> Imports(g, i)]
<1> DEFINE Has(m) == \E g : g = [i \in 0 .. m |-> Imports(g, i)]
           S == {m \in Nat : Has(m)}
<1>1. Has(0)
  <2> DEFINE g == [i \in 0 .. 0 |-> << >>]
  <2>1. g = [i \in 0 .. 0 |-> Imports(g, i)]
    BY DEF Imports
  <2> QED BY <2>1
<1>2. ASSUME NEW m \in Nat, Has(m) PROVE Has(m + 1)
  <2>1. PICK g : g = [i \in 0 .. m |-> Imports(g, i)]
    BY <1>2
  <2> DEFINE h == [i \in 0 .. m + 1 |-> IF i = m + 1 THEN Imports(g, i) ELSE g[i]]
  <2>2. \A i \in 0 .. m : h[i] = g[i]
    OBVIOUS
  <2>3. \A i \in 0 .. m + 1 : Imports(h, i) = Imports(g, i)
    <3> TAKE i \in 0 .. m + 1
    <3>1. i # 0 => i - 1 \in 0 .. m
      OBVIOUS
    <3> HIDE DEF h
    <3>2. i # 0 => h[i - 1] = g[i - 1]
      BY <2>2, <3>1
    <3> QED BY <3>2 DEF Imports
  <2>4. \A i \in 0 .. m : g[i] = Imports(g, i)
    BY <2>1
  <2>5. \A i \in 0 .. m + 1 : h[i] = Imports(g, i)
    BY <2>4
  <2>6. h = [i \in 0 .. m + 1 |-> h[i]]
    OBVIOUS
  <2>7. h = [i \in 0 .. m + 1 |-> Imports(h, i)]
    <3> HIDE DEF h
    <3> QED BY <2>3, <2>5, <2>6
  <2> HIDE DEF h
  <2> QED BY <2>7
<1> HIDE DEF Has
<1>3. 0 \in S /\ \A m \in S : m + 1 \in S
  BY <1>1, <1>2
<1> HIDE DEF S
<1>4. S = Nat
  BY <1>3, NatInd DEF S
<1> QED BY <1>4 DEF Has, S

\* Views of episodes that were not viewed here, one of each.
Importable(q) ==
  /\ q \in Seq(View) /\ Once(q, EpisodeOf)
  /\ \A p \in Elements(q), w \in Elements(viewed) : EpisodeOf[p] # EpisodeOf[w]

\* One more number is that of an episode known by now, or is imported.
LEMMA ImportOne ==
  ASSUME EpisodesTyped, NEW g, NEW i \in Nat \ {0}, Importable(g[i - 1])
  PROVE  Importable(Imports(g, i))
<1> DEFINE q == g[i - 1]
           eps == {v \in Episodes : number[v] = traktHistory[Len(traktHistory) + 1 - i]}
           found == Earliest(eps)
           u == CHOOSE v \in found : TRUE
           p == [episode |-> u, completed |-> TRUE]
           new == \E v \in found : ~Knows(viewed, v) /\ ~Knows(q, v)
<1>1. Imports(g, i) = IF new THEN Append(q, p) ELSE q
  BY DEF Imports, Numbered
<1> HIDE DEF q
<1>2. CASE ~new
  BY <1>1, <1>2 DEF q
<1>3. CASE new
  <2>1. PICK v \in found : ~Knows(viewed, v) /\ ~Knows(q, v)
    BY <1>3
  <2>2. v = u /\ u \in Episodes
    <3>1. u \in found /\ found \subseteq Episodes
      BY <2>1 DEF Earliest
    <3> HIDE DEF u
    <3> QED BY <2>1, <3>1, EarliestIsOne
  <2> HIDE DEF u, new, found
  <2>3. p \in View /\ EpisodeOf[p] = u
    BY <2>2 DEF View, EpisodeOf
  <2> HIDE DEF p
  <2>4. q \in Seq(View) /\ Once(q, EpisodeOf) /\ viewed \in Seq(View)
    BY DEF EpisodesTyped, Importable, q
  <2>5. \A y \in Elements(q) \cup Elements(viewed) : EpisodeOf[y] # EpisodeOf[p]
    <3>1. ASSUME NEW r \in {q, viewed}, NEW y \in Elements(r) PROVE EpisodeOf[y] # u
      <4>1. r \in Seq(View) /\ ~Knows(r, u)
        BY <2>1, <2>2, <2>4
      <4>2. PICK j \in DOMAIN r : r[j] = y
        BY DEF Elements
      <4>3. y \in View /\ y.episode # u
        BY <4>1, <4>2 DEF Knows
      <4> QED BY <4>3 DEF EpisodeOf
    <3> QED BY <2>3, <3>1
  <2>6. Once(Append(q, p), EpisodeOf)
    BY <2>3, <2>4, <2>5, OnceAppend
  <2>7. /\ Append(q, p) \in Seq(View)
        /\ \A y \in Elements(Append(q, p)) : y \in Elements(q) \/ y = p
    <3>1. /\ Append(q, p) \in Seq(View) /\ Append(q, p)[Len(q) + 1] = p
          /\ \A j \in DOMAIN q : Append(q, p)[j] = q[j]
          /\ \A j \in DOMAIN Append(q, p) : j \in DOMAIN q \/ j = Len(q) + 1
      BY <2>3, <2>4, AppendAt
    <3> QED BY <3>1 DEF Elements
  <2>8. Importable(q)
    BY DEF q
  <2> QED BY <1>1, <1>3, <2>5, <2>6, <2>7, <2>8 DEF Importable
<1> QED BY <1>2, <1>3

LEMMA CompletedProgressIsNew ==
  ASSUME EpisodesTyped
  PROVE  Importable(CompletedProgress)
<1> DEFINE len == Len(traktHistory)
           g == CHOOSE g : g = [i \in 0 .. len |-> Imports(g, i)]
           S == {i \in Nat : i <= len => Importable(g[i])}
<1>1. len \in Nat
  BY DEF EpisodesTyped
<1>2. CompletedProgress = g[len]
  BY DEF CompletedProgress, Imports, Knows
<1>3. g = [i \in 0 .. len |-> Imports(g, i)]
  BY <1>1, ImportsExist
<1>4. \A i \in 0 .. len : g[i] = Imports(g, i)
  BY <1>3
<1> HIDE DEF g
<1>5. 0 \in S
  <2>1. g[0] = << >>
    <3>1. g[0] = Imports(g, 0)
      BY <1>1, <1>4
    <3>2. Imports(g, 0) = << >>
      BY DEF Imports
    <3> QED BY <3>1, <3>2
  <2>2. << >> \in Seq(View) /\ Elements(<< >>) = {} /\ Once(<< >>, EpisodeOf)
    BY DEF Elements, Once
  <2> QED BY <2>1, <2>2 DEF Importable
<1>6. ASSUME NEW i \in S PROVE i + 1 \in S
  <2>1. i + 1 \in Nat \ {0} /\ (i + 1) - 1 = i
    OBVIOUS
  <2>2. i + 1 <= len => i + 1 \in 0 .. len /\ Importable(g[i])
    BY <1>1
  <2>3. i + 1 <= len => Importable(Imports(g, i + 1))
    BY <2>1, <2>2, ImportOne
  <2> QED BY <1>4, <2>1, <2>2, <2>3
<1> HIDE DEF S
<1>7. S = Nat
  BY <1>5, <1>6, NatInd DEF S
<1> QED BY <1>1, <1>2, <1>7 DEF S

\* What is put before a list keeps its last entry, and its entries single.
LEMMA ImportedKeeps ==
  ASSUME EpisodesTyped, Once(viewed, EpisodeOf), NEW q, Importable(q)
  PROVE  /\ q \o viewed \in Seq(View) /\ Once(q \o viewed, EpisodeOf)
         /\ viewed # << >> => q \o viewed # << >> /\ LastOf(q \o viewed) = LastOf(viewed)
<1> DEFINE s == q \o viewed
<1>1. q \in Seq(View) /\ viewed \in Seq(View) /\ Len(q) \in Nat /\ Len(viewed) \in Nat
  BY DEF EpisodesTyped, Importable
<1>2. /\ s \in Seq(View) /\ Len(s) = Len(q) + Len(viewed)
      /\ \A i \in 1 .. Len(q) + Len(viewed) :
           s[i] = IF i <= Len(q) THEN q[i] ELSE viewed[i - Len(q)]
  BY <1>1, ConcatProperties
<1> HIDE DEF s
<1>3. DOMAIN s = 1 .. Len(q) + Len(viewed) /\ DOMAIN q = 1 .. Len(q) /\ DOMAIN viewed = 1 .. Len(viewed)
  BY <1>1, <1>2
<1>4. ASSUME NEW i \in DOMAIN s, NEW j \in DOMAIN s, i < j
      PROVE  EpisodeOf[s[i]] # EpisodeOf[s[j]]
  <2>1. CASE j <= Len(q)
    <3>1. i \in DOMAIN q /\ j \in DOMAIN q /\ s[i] = q[i] /\ s[j] = q[j]
      BY <1>1, <1>2, <1>3, <1>4, <2>1
    <3> QED BY <1>4, <3>1 DEF Importable, Once
  <2>2. CASE i <= Len(q) /\ ~(j <= Len(q))
    <3>1. i \in DOMAIN q /\ j - Len(q) \in DOMAIN viewed /\ s[i] = q[i] /\ s[j] = viewed[j - Len(q)]
      BY <1>1, <1>2, <1>3, <1>4, <2>2
    <3>2. s[i] \in Elements(q) /\ s[j] \in Elements(viewed)
      BY <3>1 DEF Elements
    <3> QED BY <3>2 DEF Importable
  <2>3. CASE ~(i <= Len(q))
    <3>1. /\ i - Len(q) \in DOMAIN viewed /\ j - Len(q) \in DOMAIN viewed
          /\ s[i] = viewed[i - Len(q)] /\ s[j] = viewed[j - Len(q)]
          /\ i - Len(q) < j - Len(q)
      BY <1>1, <1>2, <1>3, <1>4, <2>3
    <3> QED BY <3>1 DEF Once
  <2> QED BY <2>1, <2>2, <2>3
<1>5. ASSUME viewed # << >> PROVE s # << >> /\ LastOf(s) = LastOf(viewed)
  <2>1. Len(viewed) # 0
    BY <1>1, <1>5, SomeOrNone
  <2>2. Len(s) \in DOMAIN s /\ ~(Len(s) <= Len(q)) /\ Len(s) - Len(q) = Len(viewed) /\ Len(s) # 0
    BY <1>1, <1>2, <1>3, <2>1
  <2>3. s # << >>
    BY <1>2, <2>2, SomeOrNone
  <2> QED BY <1>2, <1>3, <2>2, <2>3 DEF LastOf
<1>6. Once(s, EpisodeOf)
  BY <1>4 DEF Once
<1> QED BY <1>2, <1>5, <1>6 DEF s

-----------------------------------------------------------------------------
(* What is offered *)

\* The regular episodes up to the last one were watched, as long as the order is kept.
WatchedInOrder ==
  viewed # << >> =>
    LET last == LastOf(viewed)
    IN /\ last.episode \in Regular
       /\ \A v \in Regular :
            Completed(v) <=> \/ number[v] < number[last.episode]
                             \/ v = last.episode /\ last.completed

\* What is offered is the first regular episode that was not watched.
LEMMA OfferedInOrder ==
  ASSUME EpisodesTyped, WellNumbered, WatchedInOrder
  PROVE  /\ ContinueEpisode \subseteq Regular
         /\ \A u, v \in ContinueEpisode : u = v
         /\ \A v \in Regular : Completed(v) <=> \A u \in ContinueEpisode : number[v] < number[u]
<1>1. Regular \subseteq Episodes /\ \A v \in Regular : number[v] \in Nat
  BY RegularOnes DEF EpisodesTyped
<1>2. \A u, v \in Regular : number[u] = number[v] => u = v
  BY <1>1 DEF WellNumbered
<1>3. CASE viewed = << >>
  <2> DEFINE first == {v \in Episodes : ~Special(v) /\ Available(v)}
  <2>1. first = Regular
    BY DEF WellNumbered, Regular
  <2>2. ContinueEpisode = Earliest(Regular)
    BY <1>3, <2>1 DEF ContinueEpisode, FirstEpisode
  <2>3. \A v \in Regular : ~Completed(v)
    <3>1. DOMAIN viewed = {}
      BY <1>3
    <3> QED BY <3>1 DEF Completed
  <2>4. \A u \in Earliest(Regular) : u \in Regular
    BY DEF Earliest
  <2>5. \A u, v \in Earliest(Regular) : u = v
    BY <1>1, EarliestIsOne
  <2>6. ASSUME NEW v \in Regular PROVE \E u \in Earliest(Regular) : number[u] <= number[v]
    BY <1>1, <1>2, <2>6, EarliestExists
  <2>7. \A v \in Regular : ~(\A u \in Earliest(Regular) : number[v] < number[u])
    BY <1>1, <2>4, <2>6
  <2> QED BY <2>2, <2>3, <2>4, <2>5, <2>7
<1>4. CASE viewed # << >>
  <2> DEFINE last == LastOf(viewed)
             e == last.episode
             after == {u \in Regular : number[e] # Unnumbered /\ number[e] < number[u]}
  <2>1. e \in Regular /\ last.completed \in BOOLEAN
    BY <1>4, LastView DEF WatchedInOrder
  <2>2. \A v \in Regular : Completed(v) <=> (number[v] < number[e] \/ (v = e /\ last.completed))
    BY <1>4 DEF WatchedInOrder
  <2>3. Available(e) /\ number[e] # Unnumbered
    BY <2>1, RegularOnes
  <2>4. ContinueEpisode = IF last.completed THEN Earliest(after) ELSE {e}
    BY <1>4, <2>3 DEF ContinueEpisode, NextEpisode, LastOf
  <2> HIDE DEF last, e
  <2>5. CASE ~last.completed
    BY <1>1, <2>1, <2>2, <2>4, <2>5
  <2>6. CASE last.completed
    <3>1. after \subseteq Regular /\ after \subseteq Episodes
      BY <1>1
    <3>2. \A v \in Regular : v \in after <=> number[e] < number[v]
      BY <2>3
    <3> HIDE DEF after
    <3>3. \A u \in Earliest(after) : u \in after /\ \A v \in after : number[u] <= number[v]
      BY <3>1, EarliestIsLeast
    <3>4. \A u, v \in Earliest(after) : u = v
      BY <3>1, EarliestIsOne
    <3>5. \A v \in Regular : Completed(v) <=> number[v] <= number[e]
      BY <1>1, <1>2, <2>1, <2>2, <2>6
    <3>6. ASSUME NEW v \in Regular, Completed(v), NEW u \in Earliest(after)
          PROVE  number[v] < number[u]
      BY <1>1, <2>1, <3>1, <3>2, <3>3, <3>5, <3>6
    <3>7. ASSUME NEW v \in Regular, ~Completed(v)
          PROVE  \E u \in Earliest(after) : ~(number[v] < number[u])
      <4>1. v \in after
        BY <1>1, <2>1, <3>2, <3>5, <3>7
      <4>2. PICK u \in Earliest(after) : \A w \in after : number[u] <= number[w]
        BY <1>2, <3>1, <4>1, EarliestExists
      <4>3. number[u] <= number[v] /\ u \in Regular
        BY <3>1, <3>3, <4>1, <4>2
      <4> QED BY <1>1, <4>3
    <3> QED BY <2>4, <2>6, <3>1, <3>3, <3>4, <3>6, <3>7
  <2> QED BY <2>5, <2>6
<1> QED BY <1>3, <1>4

ContinuationInv ==
  /\ EpisodesTyped /\ Once(viewed, EpisodeOf)
  /\ latest # NoEpisode => viewed # << >> /\ LastOf(viewed).episode = latest
  /\ WellNumbered /\ inOrder => WatchedInOrder

LEMMA ContinuesWell == ContinuationInv => ContinuesWhereLeft
<1> SUFFICES ASSUME ContinuationInv PROVE ContinuesWhereLeft
  OBVIOUS
<1>1. latest # NoEpisode => viewed[Len(viewed)].episode = latest
  BY DEF ContinuationInv, LastOf
<1>2. Cardinality({viewed[i].episode : i \in DOMAIN viewed}) = Len(viewed)
  BY OnceCounts DEF ContinuationInv, EpisodesTyped
<1>3. \A v \in ContinueEpisode : Available(v)
  BY OfferedIsOut
<1>4. ASSUME WellNumbered, inOrder
      PROVE  \A v \in Regular : Completed(v) <=> \A u \in ContinueEpisode : number[v] < number[u]
  BY <1>4, OfferedInOrder DEF ContinuationInv
<1>5. ASSUME WellNumbered
      PROVE  \A v \in Regular : \A u \in NextEpisode(v) : PreviousEpisode(u) = {v}
  BY <1>5, NextAndPrevious DEF ContinuationInv
<1> QED BY <1>1, <1>2, <1>3, <1>4, <1>5 DEF ContinuesWhereLeft

-----------------------------------------------------------------------------
(* The steps *)

LEMMA ContinuationInitially == ContinuationInit => ContinuationInv
<1> SUFFICES ASSUME ContinuationInit PROVE ContinuationInv
  OBVIOUS
<1>1. number \in [Episodes -> Nat]
  <2>1. number \in [Episodes -> Numbers \cup {0}] /\ Numbers \cup {0} \subseteq Nat
    BY ContinuationAssumption DEF ContinuationInit, Unnumbered
  <2> QED BY <2>1
<1>2. viewed \in Seq(View) /\ traktHistory \in Seq(Numbers)
  BY DEF ContinuationInit
<1>3. Once(viewed, EpisodeOf)
  BY DEF ContinuationInit, Once
<1> QED BY <1>1, <1>2, <1>3 DEF ContinuationInit, ContinuationInv, EpisodesTyped, WatchedInOrder

\* A report of an episode makes it the last.
LEMMA ReportLast ==
  ASSUME ContinuationInv, NEW v \in Episodes, NEW completed \in BOOLEAN,
         viewed' = Reported(v, completed), latest' = v, UNCHANGED <<number, traktHistory>>
  PROVE  /\ EpisodesTyped' /\ Once(viewed, EpisodeOf)'
         /\ viewed' # << >> /\ LastOf(viewed').episode = latest'
<1> DEFINE q == Reported(v, completed)
<1>1. /\ q \in Seq(View) /\ Once(q, EpisodeOf) /\ q # << >>
      /\ LastOf(q) = [episode |-> v, completed |-> completed]
  BY ReportedKeeps DEF ContinuationInv
<1> HIDE DEF q
<1>2. viewed' = q
  BY DEF q
<1>3. Once(viewed, EpisodeOf)'
  BY <1>1, <1>2, OnceNext
<1> QED BY <1>1, <1>2, <1>3 DEF ContinuationInv, EpisodesTyped, View

LEMMA PickWell ==
  ASSUME ContinuationInv, NEW v \in Episodes, NEW completed \in BOOLEAN, Pick(v, completed)
  PROVE  ContinuationInv'
BY ReportLast DEF Pick, ContinuationInv, LastOf

\* Whoever goes on with what is offered has watched up to it.
LEMMA ContinueWell ==
  ASSUME ContinuationInv, NEW completed \in BOOLEAN, Continue(completed)
  PROVE  ContinuationInv'
<1>1. PICK v \in ContinueEpisode : viewed' = Reported(v, completed) /\ latest' = v
  BY DEF Continue
<1>2. UNCHANGED <<number, released, today, traktHistory, inOrder>>
  BY DEF Continue
<1>3. v \in Episodes
  <2>1. FirstEpisode \subseteq Episodes /\ \A u : NextEpisode(u) \subseteq Episodes
    BY DEF FirstEpisode, NextEpisode, Earliest, Regular
  <2>2. viewed # << >> => LastOf(viewed).episode \in Episodes
    BY LastView DEF ContinuationInv
  <2> QED BY <2>1, <2>2 DEF ContinueEpisode, LastOf
<1>4. /\ EpisodesTyped' /\ Once(viewed, EpisodeOf)'
      /\ viewed' # << >> /\ LastOf(viewed').episode = latest'
  BY <1>1, <1>2, <1>3, ReportLast
<1>5. ASSUME WellNumbered', inOrder' PROVE WatchedInOrder'
  <2>1. WellNumbered /\ inOrder /\ WatchedInOrder
    BY <1>2, <1>5 DEF WellNumbered, ContinuationInv
  <2>2. /\ ContinueEpisode \subseteq Regular
        /\ \A u \in ContinueEpisode : u = v
        /\ \A w \in Regular : Completed(w) <=> \A u \in ContinueEpisode : number[w] < number[u]
    BY <1>1, <2>1, OfferedInOrder DEF ContinuationInv
  <2>3. v \in Regular /\ \A w \in Regular : Completed(w) <=> number[w] < number[v]
    BY <1>1, <2>2
  <2>4. Regular' = Regular
    BY <1>2 DEF Regular, Special, Available
  <2> DEFINE p == [episode |-> v, completed |-> completed]
             q == Reported(v, completed)
  <2>5. q \in Seq(View) /\ LastOf(q) = p /\ Elements(q) = (Elements(viewed) \ Views(v)) \cup {p}
    BY <1>3, ReportedKeeps DEF ContinuationInv
  <2>6. viewed' = q
    BY <1>1
  <2> HIDE DEF q
  <2>7. \A w : Completed(w)' <=> [episode |-> w, completed |-> TRUE] \in Elements(q)
    BY <2>5, <2>6, CompletedIs DEF Completed
  <2>8. \A w : Completed(w) <=> [episode |-> w, completed |-> TRUE] \in Elements(viewed)
    BY CompletedIs DEF Completed, ContinuationInv, EpisodesTyped
  <2>9. ASSUME NEW w \in Regular
        PROVE  Completed(w)' <=> (number[w] < number[v] \/ (w = v /\ completed))
    <3> DEFINE d == [episode |-> w, completed |-> TRUE]
    <3>1. d \in View /\ d.episode = w
      BY RegularOnes DEF View
    <3>2. d = p <=> w = v /\ completed
      OBVIOUS
    <3>3. d \in Views(v) <=> w = v
      BY <3>1, ViewsOf
    <3> HIDE DEF d, p
    <3>4. Completed(w)' <=> d \in (Elements(viewed) \ Views(v)) \cup {p}
      BY <2>5, <2>7 DEF d
    <3>5. d \in Elements(viewed) <=> number[w] < number[v]
      BY <2>3, <2>8 DEF d
    <3>6. ~(number[v] < number[v])
      BY <1>3 DEF ContinuationInv, EpisodesTyped
    <3> QED BY <3>2, <3>3, <3>4, <3>5, <3>6
  <2>10. LastOf(viewed').episode = v /\ LastOf(viewed').completed = completed
    BY <2>5, <2>6
  <2> QED BY <1>2, <2>3, <2>4, <2>9, <2>10 DEF WatchedInOrder
<1> QED BY <1>4, <1>5 DEF ContinuationInv

\* What Trakt knows comes before what was viewed here.
LEMMA ApplyWell ==
  ASSUME ContinuationInv, ApplyTraktHistory
  PROVE  ContinuationInv'
<1> DEFINE q == CompletedProgress
<1>1. viewed' = q \o viewed /\ ~inOrder' /\ UNCHANGED <<number, traktHistory, latest>>
  BY DEF ApplyTraktHistory, Imported
<1>2. Importable(q)
  BY CompletedProgressIsNew DEF ContinuationInv
<1> HIDE DEF q
<1> DEFINE s == q \o viewed
<1>3. /\ s \in Seq(View) /\ Once(s, EpisodeOf)
      /\ viewed # << >> => s # << >> /\ LastOf(s) = LastOf(viewed)
  BY <1>2, ImportedKeeps DEF ContinuationInv
<1> HIDE DEF s
<1>4. viewed' = s
  BY <1>1 DEF s
<1>5. Once(viewed, EpisodeOf)'
  BY <1>3, <1>4, OnceNext
<1>6. EpisodesTyped'
  BY <1>1, <1>3, <1>4 DEF ContinuationInv, EpisodesTyped, View
<1>7. latest' # NoEpisode => viewed' # << >> /\ LastOf(viewed').episode = latest'
  BY <1>1, <1>3, <1>4 DEF ContinuationInv
<1> QED BY <1>1, <1>5, <1>6, <1>7 DEF ContinuationInv, LastOf

\* Another device's report, and a day that passes.
LEMMA ElsewhereWell ==
  ASSUME ContinuationInv, (\E n \in Numbers : WatchElsewhere(n)) \/ DayPasses
  PROVE  ContinuationInv'
<1>1. UNCHANGED <<number, released, viewed, latest>>
  BY DEF WatchElsewhere, DayPasses
<1>2. traktHistory' \in Seq(Numbers)
  <2>1. ASSUME NEW n \in Numbers, WatchElsewhere(n) PROVE traktHistory' \in Seq(Numbers)
    <3> DEFINE rest == Without(traktHistory, {n})
    <3>1. rest \in Seq(Numbers) /\ <<n>> \in Seq(Numbers)
      BY WithoutEmbeds DEF ContinuationInv, EpisodesTyped
    <3>2. traktHistory' = <<n>> \o rest
      BY <2>1 DEF WatchElsewhere
    <3> HIDE DEF rest
    <3> QED BY <3>1, <3>2, ConcatProperties
  <2>2. CASE DayPasses
    BY <2>2 DEF DayPasses, ContinuationInv, EpisodesTyped
  <2> QED BY <2>1, <2>2
<1>3. inOrder' => inOrder /\ today' = today
  BY DEF WatchElsewhere, DayPasses
<1>4. Once(viewed, EpisodeOf)'
  BY <1>1, OnceNext DEF ContinuationInv
<1>5. WellNumbered' /\ inOrder' => WatchedInOrder'
  BY <1>1, <1>3 DEF ContinuationInv, WellNumbered, WatchedInOrder, LastOf, Completed, Regular, Special, Available
<1> QED BY <1>1, <1>2, <1>4, <1>5 DEF ContinuationInv, EpisodesTyped, View, LastOf

LEMMA ContinuationStep == ContinuationInv /\ [ContinuationNext]_continuationVars => ContinuationInv'
<1> SUFFICES ASSUME ContinuationInv, [ContinuationNext]_continuationVars PROVE ContinuationInv'
  OBVIOUS
<1>1. CASE UNCHANGED continuationVars
  <2>1. UNCHANGED <<number, released, today, viewed, traktHistory, latest, inOrder>>
    BY <1>1 DEF continuationVars
  <2>2. EpisodesTyped' /\ Once(viewed, EpisodeOf)'
    BY <2>1, OnceNext DEF ContinuationInv, EpisodesTyped, View
  <2>3. WellNumbered' /\ inOrder' => WatchedInOrder'
    BY <2>1 DEF ContinuationInv, WellNumbered, WatchedInOrder, LastOf, Completed, Regular, Special, Available
  <2> QED BY <2>1, <2>2, <2>3 DEF ContinuationInv, LastOf
<1>2. ASSUME NEW completed \in BOOLEAN, Continue(completed) PROVE ContinuationInv'
  BY <1>2, ContinueWell
<1>3. ASSUME NEW completed \in BOOLEAN, NEW v \in Episodes, Pick(v, completed) PROVE ContinuationInv'
  BY <1>3, PickWell
<1>4. CASE (\E n \in Numbers : WatchElsewhere(n)) \/ DayPasses
  BY <1>4, ElsewhereWell
<1>5. CASE ApplyTraktHistory
  BY <1>5, ApplyWell
<1> QED BY <1>1, <1>2, <1>3, <1>4, <1>5 DEF ContinuationNext

\* Of whatever series, with whatever episodes, numbers and days, imports and other devices:
\* the device goes on with what it played last, has one entry of each episode, offers only
\* what is out, and whoever follows it sees every regular episode in order, once
\* (next_episode, continue_episode, record_progress, apply_trakt_history).
THEOREM SeriesContinue == ContinuationSpec => []ContinuesWhereLeft
<1>1. ContinuationSpec => []ContinuationInv
  BY ContinuationInitially, ContinuationStep, PTL DEF ContinuationSpec
<1> QED BY <1>1, ContinuesWell, PTL

=============================================================================
