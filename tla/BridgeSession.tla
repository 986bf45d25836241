---------------------------- MODULE BridgeSession ----------------------------
(***************************************************************************)
(* The session that the native bridge keeps for the TV application, beside  *)
(* the one its profile handle has: crates/madari-tv/src/lib.rs.             *)
(*                                                                         *)
(* A call clones the bridge's session first, does its work, and only then   *)
(* puts the outcome in the bridge's state: the lock is not held meanwhile.  *)
(* One call at a time changes the session, as TvViewModel.run sees to       *)
(* (TvScreen says when it does not); those of the screens finish beside it. *)
(***************************************************************************)
EXTENDS Integers, FiniteSets

CONSTANTS
  BridgeCalls,    \* bound: calls at a time
  BridgeTokens,   \* session tokens (UUIDs: a token in use is not issued again)
  NoToken, NoBridgeCall

VARIABLES
  bridgeSession,  \* State::session: its token, or NoToken
  handleActive,   \* the handle's current session: its token, or NoToken
  bridgeCall      \* each call: [op, session, done], or NoBridgeCall

bridgeVars == <<bridgeSession, handleActive, bridgeCall>>

BridgeInit ==
  /\ bridgeSession = NoToken
  /\ handleActive = NoToken
  /\ bridgeCall = [c \in BridgeCalls |-> NoBridgeCall]

Changing == {"unlock", "leave", "delete"}

MaybeTokens == BridgeTokens \union {NoToken}

BridgeRecord == [op : Changing \union {"other"}, session : MaybeTokens, done : MaybeTokens]

ASSUME BridgeAssumption == NoToken \notin BridgeTokens /\ NoBridgeCall \notin BridgeRecord

ChangesSession(c) == bridgeCall[c] # NoBridgeCall /\ bridgeCall[c].op \in Changing

\* The call clones the session; without one, all but unlock are refused at once.
BridgeCalled(c, op) ==
  /\ bridgeCall[c] = NoBridgeCall
  /\ op = "unlock" \/ bridgeSession # NoToken
  /\ bridgeCall' = [bridgeCall EXCEPT ![c] =
       [op |-> op, session |-> bridgeSession, done |-> NoToken]]
  /\ UNCHANGED <<bridgeSession, handleActive>>

BridgeBegins(c, op) ==
  /\ op \in Changing => \A d \in BridgeCalls : ~ChangesSession(d)
  /\ BridgeCalled(c, op)

BridgeEnds(c) == bridgeCall' = [bridgeCall EXCEPT ![c] = NoBridgeCall]

\* Profiles refuses: a wrong PIN, a stale session, kids mode, no such profile.
BridgeRefused(c) ==
  /\ bridgeCall[c] # NoBridgeCall /\ bridgeCall[c].done = NoToken
  /\ BridgeEnds(c)
  /\ UNCHANGED <<bridgeSession, handleActive>>

HeldTokens == {bridgeSession, handleActive} \union
  UNION {{bridgeCall[c].session, bridgeCall[c].done} : c \in {d \in BridgeCalls :
           bridgeCall[d] # NoBridgeCall}}

\* unlock: the handle has a new session,
UnlockInHandle(c) ==
  /\ ChangesSession(c) /\ bridgeCall[c].op = "unlock" /\ bridgeCall[c].done = NoToken
  /\ \E t \in BridgeTokens \ HeldTokens :
       /\ handleActive' = t
       /\ bridgeCall' = [bridgeCall EXCEPT ![c].done = t]
  /\ UNCHANGED bridgeSession

\* leave and delete_profile: the handle's session ends if it is the cloned one.
LeaveInHandle(c) ==
  /\ ChangesSession(c) /\ bridgeCall[c].op # "unlock" /\ bridgeCall[c].done = NoToken
  /\ bridgeCall[c].session = handleActive
  /\ handleActive' = NoToken
  /\ bridgeCall' = [bridgeCall EXCEPT ![c].done = handleActive]
  /\ UNCHANGED bridgeSession

\* Fault: the session the call began with is put back.
AfterClone(c) == IF bridgeCall[c].op = "unlock" THEN bridgeCall[c].done
                 ELSE bridgeCall[c].session

After(c) == IF bridgeCall[c].op = "unlock" THEN bridgeCall[c].done ELSE NoToken

\* Then the bridge follows.
BridgeFollows(c) ==
  /\ ChangesSession(c) /\ bridgeCall[c].done # NoToken
  /\ bridgeSession' = After(c)
  /\ BridgeEnds(c)
  /\ UNCHANGED handleActive

\* Every other operation works with the cloned session, and leaves it alone.
OtherReturns(c) ==
  /\ bridgeCall[c] # NoBridgeCall /\ bridgeCall[c].op = "other"
  /\ bridgeCall[c].session = handleActive
  /\ BridgeEnds(c)
  /\ UNCHANGED <<bridgeSession, handleActive>>

BridgeNext ==
  \E c \in BridgeCalls :
    \/ \E op \in Changing \union {"other"} : BridgeBegins(c, op)
    \/ BridgeRefused(c) \/ UnlockInHandle(c) \/ LeaveInHandle(c)
    \/ BridgeFollows(c) \/ OtherReturns(c)

BridgeSpec == BridgeInit /\ [][BridgeNext]_bridgeVars

-----------------------------------------------------------------------------
(* Properties *)

\* Between the calls that change it, the bridge's session is the handle's: neither
\* does the bridge hold a session that every call is refused for, nor the handle one
\* that the bridge knows nothing of.  (The iOS application overlaps these calls, and
\* can lose the agreement.)
SessionsAgree ==
  (\A c \in BridgeCalls : ~ChangesSession(c)) => bridgeSession = handleActive

=============================================================================
