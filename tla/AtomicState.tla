----------------------------- MODULE AtomicState -----------------------------
(***************************************************************************)
(* What the commands of madari-core promise their callers, with nothing     *)
(* about how: "Atomic revision-checked writes prevent concurrent clients    *)
(* from losing state" (crates/madari-core/src/lib.rs:43).  A command takes  *)
(* effect at one instant between its call and its return, on the snapshot   *)
(* of that instant, at most once; a call that reports a failure had no      *)
(* effect; a caller that goes away learns nothing, and its command takes    *)
(* effect at most once.  CoreState implements this specification.           *)
(***************************************************************************)
CONSTANTS
  Callers,         \* tasks that call the core
  Commands,        \* the commands they may send
  NoCommand,       \* the command of a task that is in no call
  EmptySnapshot,   \* the snapshot of a new store
  WellFormed(_),   \* commands that are not turned down unseen
  Accepts(_, _),   \* whether a command applies to a snapshot
  Successor(_, _), \* the snapshot a command makes of one it applies to
  Storable(_)      \* whether a snapshot may have a successor at all

VARIABLES
  stored,       \* the snapshot
  phase,        \* where each caller's command stands
  cmd,          \* the command of each caller
  outcome       \* what each caller's last call reported, until the next

atomicVars == <<stored, phase, cmd, outcome>>

Outcomes == {"none", "ok", "rejected", "failed", "unknown"}

AtomicInit ==
  /\ stored = EmptySnapshot
  /\ phase = [c \in Callers |-> "idle"]
  /\ cmd = [c \in Callers |-> NoCommand]
  /\ outcome = [c \in Callers |-> "none"]

\* The call of c is over and reports o.
Conclude(c, o) ==
  /\ phase' = [phase EXCEPT ![c] = "idle"]
  /\ cmd' = [cmd EXCEPT ![c] = NoCommand]
  /\ outcome' = [outcome EXCEPT ![c] = o]

Call(c, k) ==
  /\ phase[c] = "idle"
  /\ phase' = [phase EXCEPT ![c] = "open"]
  /\ cmd' = [cmd EXCEPT ![c] = k]
  /\ outcome' = [outcome EXCEPT ![c] = "none"]
  /\ UNCHANGED stored

\* A malformed command is turned down before it becomes a call.
TurnDown(c, k) ==
  /\ phase[c] = "idle"
  /\ ~WellFormed(k)
  /\ Conclude(c, "rejected")
  /\ UNCHANGED stored

Effect(c) ==
  /\ Accepts(cmd[c], stored)
  /\ Storable(stored)
  /\ stored' = Successor(cmd[c], stored)

TakeEffect(c) ==
  /\ phase[c] = "open"
  /\ Effect(c)
  /\ phase' = [phase EXCEPT ![c] = "done"]
  /\ UNCHANGED <<cmd, outcome>>

Refuse(c) ==
  /\ phase[c] = "open"
  /\ ~Accepts(cmd[c], stored)
  /\ Conclude(c, "rejected")
  /\ UNCHANGED stored

GiveUp(c) ==
  /\ phase[c] = "open"
  /\ Conclude(c, "failed")
  /\ UNCHANGED stored

Return(c) ==
  /\ phase[c] = "done"
  /\ Conclude(c, "ok")
  /\ UNCHANGED stored

Leave(c) ==
  /\ phase[c] \in {"open", "done"}
  /\ Conclude(c, "unknown")
  /\ UNCHANGED stored

LeaveBehind(c) ==
  /\ phase[c] = "open"
  /\ phase' = [phase EXCEPT ![c] = "orphaned"]
  /\ UNCHANGED <<stored, cmd, outcome>>

OrphanEnds(c) ==
  /\ phase[c] = "orphaned"
  /\ Effect(c) \/ UNCHANGED stored
  /\ Conclude(c, "unknown")

AtomicNext ==
  \E c \in Callers :
    \/ \E k \in Commands : Call(c, k) \/ TurnDown(c, k)
    \/ TakeEffect(c) \/ Refuse(c) \/ GiveUp(c) \/ Return(c)
    \/ Leave(c) \/ LeaveBehind(c) \/ OrphanEnds(c)

AtomicSpec == AtomicInit /\ [][AtomicNext]_atomicVars

=============================================================================
