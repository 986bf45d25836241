------------------------------ MODULE TvScreen ------------------------------
(***************************************************************************)
(* What the TV's screen shows of the bridge's session: the operations of    *)
(* TvViewModel.kt that open, leave and manage profiles, each a sequence of   *)
(* calls of the bridge (BridgeSession).                                     *)
(*                                                                         *)
(* run starts no operation while another one runs, except to replace it.    *)
(* The native call of a replaced operation goes on, and its answer is       *)
(* dropped.                                                                 *)
(***************************************************************************)
EXTENDS BridgeSession

CONSTANT NoOperation

VARIABLES
  screen,     \* TvState.profile: the token of its session, or NoToken at the picker
  operation,  \* TvViewModel.operation: [at, call, kids, right], or NoOperation
  stranded,   \* history: an operation that left the profile on the screen was replaced
  kept        \* history: the open session that refused to be left behind the picker

screenVars == <<screen, operation, stranded, kept>>
tvVars == <<bridgeVars, screenVars>>

TvInit ==
  /\ BridgeInit
  /\ screen = NoToken /\ operation = NoOperation /\ stranded = FALSE /\ kept = NoToken

AtRest == operation = NoOperation

\* `kids`: the operation is about a kids profile; `right`: its PIN is the right one.
Operation(at, kids, right) == [at |-> at, call |-> NoBridgeCall, kids |-> kids, right |-> right]

Starts(at) ==
  /\ \E kids, right \in BOOLEAN : operation' = Operation(at, kids, right)
  /\ UNCHANGED <<bridgeVars, screen, kept>>

\* At the picker: choose a profile, or add, change or delete one (addProfile,
\* updateProfile and deleteProfile), which needs a profile opened for that.
UsePicker ==
  /\ AtRest /\ screen = NoToken
  /\ Starts("unlock") \/ Starts("opening")
  /\ UNCHANGED stranded

SwitchProfileOnTv == AtRest /\ screen # NoToken /\ Starts("leave") /\ UNCHANGED stranded

\* Another tab, a title, a search, or Back: run(replace = true).
Browse ==
  /\ screen # NoToken
  /\ Starts("browse")
  /\ stranded' = (stranded \/ (~AtRest /\ operation.at = "leave"))

\* The calls of an operation.
CallsOf(at) ==
  CASE at \in {"unlock", "opening"} -> {"unlock"}
    [] at \in {"leave", "closing"} -> {"leave"}
    [] at = "changing" -> {"other", "delete"}
    [] OTHER -> {"other"}

Waits == ~AtRest /\ operation.call # NoBridgeCall

Calls ==
  /\ ~AtRest /\ ~Waits
  /\ \E c \in BridgeCalls, op \in CallsOf(operation.at) :
       BridgeCalled(c, op) /\ operation' = [operation EXCEPT !.call = c]
  /\ UNCHANGED <<screen, stranded, kept>>

GoesTo(at) ==
  operation' = IF at = "done" THEN NoOperation ELSE [operation EXCEPT !.at = at, !.call = NoBridgeCall]

\* What follows a call that succeeded.
Following(at) ==
  CASE at = "opening" -> "authorizing"
    [] at = "authorizing" -> "changing"
    [] at = "changing" -> "closing"
    [] OTHER -> "done"

\* Fault: what an operation opened is left only when all went well.
LeftOnSuccess(at) == "done"

\* And one that failed: `finally` leaves what a managing operation has opened.
AfterFailure(at) == IF at \in {"opening", "authorizing", "changing"} THEN "closing" ELSE "done"

\* What the screen shows when the call c of an operation has returned.
Shown(at, c) ==
  CASE at = "unlock" -> After(c)
    [] at = "leave" -> NoToken
    [] OTHER -> screen

TvCallSucceeds ==
  /\ Waits
  /\ LET c == operation.call IN
       /\ BridgeFollows(c) \/ OtherReturns(c)
       /\ screen' = Shown(operation.at, c)
  /\ GoesTo(Following(operation.at))
  /\ kept' = IF operation.at \in {"unlock", "opening"} THEN NoToken ELSE kept
  /\ UNCHANGED stranded

\* Opening a kids profile needs no PIN, leaving it its guardian's; another profile
\* is the other way round.  The profile store does not fail.
MayRefuse ==
  \/ operation.at \in {"unlock", "leave", "changing", "browse"}
  \/ ~operation.right /\ (operation.at = "authorizing" \/ (operation.kids <=> operation.at = "closing"))

TvCallFails ==
  /\ Waits /\ MayRefuse
  /\ BridgeRefused(operation.call)
  /\ GoesTo(AfterFailure(operation.at))
  /\ kept' = IF operation.at = "closing" THEN bridgeSession ELSE kept
  /\ UNCHANGED <<screen, stranded>>

\* There is no session to call with.
TvCallRefused ==
  /\ ~AtRest /\ ~Waits /\ bridgeSession = NoToken /\ CallsOf(operation.at) # {"unlock"}
  /\ GoesTo(AfterFailure(operation.at))
  /\ UNCHANGED <<bridgeVars, screen, stranded, kept>>

\* The bridge works on a call, or finishes one that nobody waits for.
NativeStep ==
  /\ \E c \in BridgeCalls :
       \/ UnlockInHandle(c) \/ LeaveInHandle(c)
       \/ /\ ~(Waits /\ operation.call = c)
          /\ BridgeRefused(c) \/ BridgeFollows(c) \/ OtherReturns(c)
  /\ UNCHANGED screenVars

TvNext ==
  \/ UsePicker \/ SwitchProfileOnTv \/ Browse
  \/ Calls \/ TvCallSucceeds \/ TvCallFails \/ TvCallRefused
  \/ NativeStep

TvSpec == TvInit /\ [][TvNext]_tvVars

-----------------------------------------------------------------------------
(* Properties *)

\* A profile on the screen is open, so that its calls are not refused, until the
\* user leaves it; unless the user left it and went on browsing before the answer.
ShownProfileOpen ==
  screen # NoToken =>
    \/ handleActive = screen /\ bridgeSession = screen
    \/ ~AtRest /\ operation.at = "leave"
    \/ stranded

\* "Never leave the picker holding another profile's session": an operation that ends
\* at the picker leaves no profile open, whatever it opened, what failed and what else
\* was called; unless that profile refused to be left, as a kids profile does that was
\* to be changed with a wrong PIN.
EndsAtPicker == ~AtRest /\ AtRest' /\ screen' = NoToken

\* The TV shows the session it has: on the screen is a profile that is open, and behind
\* the picker there is none.
ShownIsOpen ==
  [][ShownProfileOpen' /\ (EndsAtPicker => bridgeSession' \in {NoToken, kept'})]_tvVars

=============================================================================
