----------------------------- MODULE TraktLogin -----------------------------
(***************************************************************************)
(* The Trakt device login of the TV and iOS clients: trakt_connect_start    *)
(* and trakt_connect_poll of Bridge::call (crates/madari-tv/src/lib.rs),    *)
(* driven by a polling task of the client (AppModel.swift, TvViewModel.kt). *)
(*                                                                         *)
(* The bridge keeps one pending login for all profiles.  A poll takes it    *)
(* for as long as it asks Trakt and puts it back; cancelling the client's   *)
(* task does not stop a poll that is under way.                             *)
(***************************************************************************)
EXTENDS Integers

CONSTANTS
  Profiles,  \* profile ids
  Polls,     \* polls under way at a time
  MaxCodes,  \* bound: device codes requested
  None

VARIABLES
  pending,    \* Bridge.trakt_pending: a code, or 0
  poll,       \* each poll: [code, profile, valid, awaited], or None
  starting,   \* trakt_connect_start: "no", "asked", or "stored" but not yet shown
  shown,      \* the code on the screen, which the polling task waits for, or 0
  codes,      \* codes requested so far
  approved,   \* codes the user approved on Trakt
  exchanged,  \* codes whose tokens Trakt gave out: it does so once
  owner,      \* history: the profile that asked for each code
  open,       \* the profile of the session, or None
  editable,   \* its settings are unlocked
  connected   \* the code whose login each profile has stored, or 0

client == <<starting, shown>>
trakt == <<approved, exchanged>>
session == <<open, editable>>
loginVars == <<pending, poll, client, codes, trakt, owner, session, connected>>

Codes == 1 .. MaxCodes

LoginInit ==
  /\ pending = 0
  /\ poll = [q \in Polls |-> None]
  /\ starting = "no" /\ shown = 0
  /\ codes = 0
  /\ approved = {} /\ exchanged = {}
  /\ owner = [k \in Codes |-> None]
  /\ open = None /\ editable = FALSE
  /\ connected = [p \in Profiles |-> 0]

\* The running polls, changed by f; None stays None.
Each(f(_)) == [q \in Polls |-> IF poll[q] = None THEN None ELSE f(poll[q])]

Unawaited == Each(LAMBDA x : [x EXCEPT !.awaited = FALSE])

Unbound == Each(LAMBDA x : [x EXCEPT !.valid = FALSE])

-----------------------------------------------------------------------------
(* Starting a login *)

Start ==
  /\ open # None /\ starting = "no" /\ shown = 0
  /\ codes < MaxCodes
  /\ starting' = "asked"
  /\ UNCHANGED <<pending, poll, shown, codes, trakt, owner, session, connected>>

\* client.device_code() answers, and the bridge keeps the code, whatever it had.
CodeArrives ==
  /\ starting = "asked"
  /\ codes' = codes + 1
  /\ pending' = codes'
  /\ owner' = [owner EXCEPT ![codes'] = open]
  /\ starting' = "stored"
  /\ UNCHANGED <<poll, shown, trakt, session, connected>>

StartFails ==
  /\ starting = "asked"
  /\ starting' = "no"
  /\ UNCHANGED <<pending, poll, shown, codes, trakt, owner, session, connected>>

\* The client shows the code; its new polling task replaces the old one.
ShowCode ==
  /\ starting = "stored"
  /\ starting' = "no"
  /\ shown' = codes
  /\ poll' = Unawaited
  /\ UNCHANGED <<pending, codes, trakt, owner, session, connected>>

\* traktCancel, and the code's expiry
Cancel ==
  /\ shown # 0
  /\ shown' = 0
  /\ poll' = Unawaited
  /\ UNCHANGED <<pending, starting, codes, trakt, owner, session, connected>>

\* On Trakt's site, with the code the user sees.
Approve ==
  /\ shown # 0
  /\ approved' = approved \union {shown}
  /\ UNCHANGED <<pending, poll, client, codes, exchanged, owner, session, connected>>

-----------------------------------------------------------------------------
(* Polling *)

Awaited == {q \in Polls : poll[q] # None /\ poll[q].awaited}

\* trakt_pending.take()
Taken == 0

\* The task's next poll, with the session there is now.
Poll(q) ==
  /\ shown # 0 /\ Awaited = {}
  /\ poll[q] = None
  /\ open # None /\ pending # 0
  /\ poll' = [poll EXCEPT ![q] =
       [code |-> pending, profile |-> open, valid |-> TRUE, awaited |-> TRUE]]
  /\ pending' = Taken
  /\ UNCHANGED <<client, codes, trakt, owner, session, connected>>

\* Fault: the task tries again.
ShownAfterRefusalKept == shown

ShownAfterRefusal == 0

\* "Select a profile first", "Start Trakt setup first": the task gives up.
PollRefused ==
  /\ shown # 0 /\ Awaited = {}
  /\ open = None \/ pending = 0
  /\ shown' = ShownAfterRefusal
  /\ UNCHANGED <<pending, poll, starting, codes, trakt, owner, session, connected>>

Done(q) == poll' = [poll EXCEPT ![q] = None]

\* What the task shows after its poll failed, or connected.
ShownAfter(q) == IF poll[q].awaited THEN 0 ELSE shown

\* Pending or SlowDown: the login goes back.
PollPending(q) ==
  /\ poll[q] # None
  /\ poll[q].code \notin approved
  /\ pending' = poll[q].code
  /\ Done(q)
  /\ UNCHANGED <<client, codes, trakt, owner, session, connected>>

\* Trakt is not reached, or says the code is no longer valid: the login is dropped.
PollFails(q) ==
  /\ poll[q] # None
  /\ shown' = ShownAfter(q)
  /\ Done(q)
  /\ UNCHANGED <<pending, starting, codes, trakt, owner, session, connected>>

\* connect_trakt: authorized(db, &session, true)
MayConnect(q) == poll[q].valid /\ editable

\* Authorized(tokens): they are stored for the profile of the poll's session.
PollAuthorized(q) ==
  /\ poll[q] # None
  /\ poll[q].code \in approved \ exchanged
  /\ exchanged' = exchanged \union {poll[q].code}
  /\ connected' = IF MayConnect(q)
                  THEN [connected EXCEPT ![poll[q].profile] = poll[q].code]
                  ELSE connected
  /\ shown' = ShownAfter(q)
  /\ Done(q)
  /\ UNCHANGED <<pending, starting, codes, approved, owner, session>>

-----------------------------------------------------------------------------
(* Sessions; the client runs one such operation at a time. *)

Open(p) ==
  /\ starting = "no"
  /\ open' = p /\ editable' \in BOOLEAN
  /\ poll' = Unbound
  /\ UNCHANGED <<pending, client, codes, trakt, owner, connected>>

Leave ==
  /\ starting = "no" /\ open # None
  /\ open' = None /\ editable' = FALSE
  /\ poll' = Unbound
  /\ UNCHANGED <<pending, client, codes, trakt, owner, connected>>

LockSettings ==
  /\ starting = "no" /\ editable
  /\ editable' = FALSE
  /\ UNCHANGED <<pending, poll, client, codes, trakt, owner, open, connected>>

PollReturns(q) == PollPending(q) \/ PollFails(q) \/ PollAuthorized(q)

TaskPolls == PollRefused \/ \E q \in Polls : Poll(q)

LoginNext ==
  \/ Start \/ CodeArrives \/ StartFails \/ ShowCode \/ Cancel \/ Approve
  \/ TaskPolls
  \/ \E q \in Polls : PollReturns(q)
  \/ \E p \in Profiles : Open(p)
  \/ Leave \/ LockSettings

LoginSpec == LoginInit /\ [][LoginNext]_loginVars

\* The polling task wakes after each interval; a poll ends with Trakt's answer or
\* after the HTTP client's 30 seconds.
LoginFairness == WF_loginVars(TaskPolls) /\ \A q \in Polls : WF_loginVars(PollReturns(q))

FairLoginSpec == LoginSpec /\ LoginFairness

-----------------------------------------------------------------------------
(* Properties *)

\* The login of a profile is the one that profile asked for.
LoginStaysWithProfile ==
  [][\A p \in Profiles : connected'[p] # connected[p] => owner[connected'[p]] = p]_loginVars

\* A code the user approves is exchanged, or the client stops showing it, unless a
\* poll of an earlier code puts that login back over it.
ApprovalEnds == \A k \in Codes :
  shown = k /\ k \in approved ~> k \in exchanged \/ shown # k \/ pending \notin {0, k}

=============================================================================
