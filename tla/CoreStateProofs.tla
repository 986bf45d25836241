--------------------------- MODULE CoreStateProofs ---------------------------
(***************************************************************************)
(* Theorems about CoreState, for every set of callers, streams and commands *)
(* and every bound.  First what needs no more of a closure than that it     *)
(* leaves a revision behind; then the contents of the snapshots.            *)
(***************************************************************************)
EXTENDS CoreState, ListsProofs

USE DEF Locations, Outcomes

\* A snapshot stays a record with a revision through every closure, and mutate
\* writes it under the next one.
HasRevision(s) == "revision" \in DOMAIN s /\ s.revision \in Nat

LEMMA SuccessorRevision ==
  ASSUME NEW s, HasRevision(s), NEW k \in Command
  PROVE  /\ HasRevision(Successor(k, s))
         /\ Successor(k, s).revision = s.revision + 1
<1>1. "revision" \in DOMAIN Change(k, s)
  <2>1. CASE k.op = "install"
    BY <2>1 DEF Change, Install, HasRevision
  <2>2. CASE k.op = "configure_addon"
    BY <2>2 DEF Change, ConfigureAddon, HasRevision
  <2>3. CASE k.op = "set_enabled"
    BY <2>3 DEF Change, SetEnabled, HasRevision
  <2>4. CASE k.op = "remove_addon"
    BY <2>4 DEF Change, RemoveAddon, HasRevision
  <2>5. CASE k.op = "reorder"
    BY <2>5 DEF Change, Reorder, HasRevision
  <2>6. CASE k.op = "save_item"
    BY <2>6 DEF Change, SaveItem, HasRevision
  <2>7. CASE k.op = "remove_item"
    BY <2>7 DEF Change, RemoveItem, HasRevision
  <2>8. CASE k.op = "set_continue_hidden"
    BY <2>8 DEF Change, SetContinueHidden, HasRevision
  <2>9. CASE k.op = "set_playback_preferences"
    BY <2>9 DEF Change, HasRevision
  <2>10. CASE k.op = "record_progress"
    BY <2>10 DEF Change, RecordProgress, HasRevision
  <2>11. CASE k.op = "mark_seeded"
    BY <2>11 DEF Change, HasRevision
  <2>12. k.op \in {"install", "configure_addon", "set_enabled", "remove_addon",
                   "reorder", "save_item", "remove_item", "set_continue_hidden",
                   "set_playback_preferences", "record_progress", "mark_seeded"}
    BY DEF Command
  <2> QED
    BY <2>1, <2>2, <2>3, <2>4, <2>5, <2>6, <2>7, <2>8, <2>9, <2>10, <2>11, <2>12
<1>2. Successor(k, s).revision = s.revision + 1
  BY <1>1 DEF Successor
<1> QED
  BY <1>1, <1>2 DEF Successor, HasRevision

-----------------------------------------------------------------------------
(* Types *)

\* The types of the callers' variables, in the form the steps preserve.
CallerShape ==
  /\ pc \in [Callers -> Locations]
  /\ cmd \in [Callers -> Commands \union {NoCommand}]
  /\ \A c \in Callers : pc[c] # "idle" => cmd[c] \in Commands
  /\ DOMAIN read = Callers
  /\ \A c \in Callers : HasRevision(read[c])
  /\ tries \in [Callers -> 0 .. MaxTries - 1]
  /\ outcome \in [Callers -> Outcomes]
  /\ since \in [Callers -> Nat]

StreamShape ==
  /\ stage \in [Streams -> {"off", "subscribed", "streaming"}]
  /\ linked \in [Streams -> BOOLEAN]
  /\ queue \in [Streams -> Seq(Nat)]
  /\ floor \in [Streams -> Nat]
  /\ seen \in [Streams -> SUBSET Nat]
  /\ silent \in SUBSET Nat

Shape == HasRevision(stored) /\ CallerShape /\ StreamShape

LEMMA ShapeIsControlTypeOK == Shape => ControlTypeOK
  BY DEF Shape, CallerShape, StreamShape, HasRevision, ControlTypeOK

LEMMA EmptyHasRevision == HasRevision(EmptySnapshot)
  BY DEF EmptySnapshot, HasRevision

LEMMA FinishShape ==
  ASSUME CallerShape, NEW c \in Callers, NEW o \in Outcomes, Finish(c, o)
  PROVE  CallerShape'
  BY EmptyHasRevision, BoundsAssumption DEF CallerShape, Finish, Goto, HasRevision

LEMMA CommitShape ==
  ASSUME Shape, NEW c \in Callers, pc[c] # "idle", Commit(c)
  PROVE  HasRevision(stored')
  BY SuccessorRevision, BoundsAssumption DEF Shape, CallerShape, Commit

\* The streams' variables keep their types whoever steps.
LEMMA StreamShapeStep ==
  ASSUME Shape, [Next]_vars
  PROVE  StreamShape'
<1>1. CASE UNCHANGED <<streamVars, silent>>
  BY <1>1 DEF Shape, StreamShape, streamVars
<1>2. ASSUME NEW c \in Callers, Notify(c)
      PROVE  StreamShape'
  BY <1>2 DEF Notify, Shape, StreamShape, CallerShape, HasRevision, StaysLinked, HasRoom
<1>3. ASSUME NEW c \in Callers, UNCHANGED streamVars,
             silent' = silent \/ silent' = silent \union {read[c].revision + 1}
      PROVE  StreamShape'
  <2>1. read[c].revision + 1 \in Nat
    BY DEF Shape, CallerShape, HasRevision
  <2>2. silent' \in SUBSET Nat
    BY <1>3, <2>1 DEF Shape, StreamShape
  <2> QED
    BY <1>3, <2>2 DEF Shape, StreamShape, streamVars
<1>4. ASSUME NEW s \in Streams, Subscribe(s)
      PROVE  StreamShape'
  BY <1>4 DEF Subscribe, Shape, StreamShape
<1>5. ASSUME NEW s \in Streams, InitialSnapshot(s)
      PROVE  StreamShape'
  BY <1>5 DEF InitialSnapshot, Shape, StreamShape, HasRevision
<1>6. ASSUME NEW s \in Streams, Deliver(s)
      PROVE  StreamShape'
  BY <1>6 DEF Deliver, Shape, StreamShape
<1>7. ASSUME NEW s \in Streams, CloseStream(s)
      PROVE  StreamShape'
  BY <1>7 DEF CloseStream, Shape, StreamShape
<1>8. ASSUME NEW c \in Callers,
             \/ \E k \in Commands : Begin(c, k)
             \/ Fetch(c) \/ Load(c) \/ Swap(c) \/ Conflict(c) \/ SwapFails(c)
      PROVE  StreamShape'
  BY <1>8, <1>1 DEF Begin, Fetch, Load, Swap, Conflict, SwapFails
<1>9. ASSUME NEW c \in Callers, Abandon(c) \/ Detached(c)
      PROVE  StreamShape'
  BY <1>9, <1>3 DEF Abandon, Detached
<1> QED
  BY <1>1, <1>2, <1>4, <1>5, <1>6, <1>7, <1>8, <1>9
     DEF Next, Step, Hangup, Overflowed, vars, Begin, Fetch, Load, Swap, Conflict, SwapFails

LEMMA CallerShapeStep ==
  ASSUME Shape, [Next]_vars
  PROVE  HasRevision(stored') /\ CallerShape'
<1> USE BoundsAssumption
<1>1. CASE UNCHANGED <<stored, callerVars>>
  BY <1>1 DEF Shape, CallerShape, callerVars
<1>2. ASSUME NEW c \in Callers, NEW k \in Commands, Begin(c, k)
      PROVE  HasRevision(stored') /\ CallerShape'
  <2>1. CASE WellFormed(k)
    BY <1>2, <2>1 DEF Begin, Goto, Shape, CallerShape, HasRevision
  <2>2. CASE ~WellFormed(k)
    BY <1>2, <2>2, FinishShape DEF Begin, Shape
  <2> QED
    BY <2>1, <2>2
<1>3. ASSUME NEW c \in Callers, Fetch(c)
      PROVE  HasRevision(stored') /\ CallerShape'
  <2>1. CASE Goto(c, "load") /\ UNCHANGED <<cmd, read, tries, outcome, since>>
    BY <1>3, <2>1 DEF Fetch, Goto, Shape, CallerShape, HasRevision
  <2> QED
    BY <1>3, <2>1, FinishShape DEF Fetch, Shape
<1>4. ASSUME NEW c \in Callers, Load(c)
      PROVE  HasRevision(stored') /\ CallerShape'
  <2>1. CASE /\ Goto(c, "swap")
             /\ read' = [read EXCEPT ![c] = stored]
             /\ UNCHANGED <<cmd, tries, outcome, since>>
    BY <1>4, <2>1 DEF Load, Goto, Shape, CallerShape, HasRevision
  <2> QED
    BY <1>4, <2>1, FinishShape DEF Load, Shape
<1>5. ASSUME NEW c \in Callers, Swap(c)
      PROVE  HasRevision(stored') /\ CallerShape'
  <2>1. HasRevision(stored')
    BY <1>5, CommitShape DEF Swap
  <2> QED
    BY <1>5, <2>1 DEF Swap, Goto, Shape, CallerShape, HasRevision
<1>6. ASSUME NEW c \in Callers, Conflict(c)
      PROVE  HasRevision(stored') /\ CallerShape'
  <2>1. CASE TriesLeft(c)
    <3>1. tries' \in [Callers -> 0 .. MaxTries - 1]
      BY <1>6, <2>1 DEF Conflict, TriesLeft, Shape, CallerShape
    <3> QED
      BY <1>6, <2>1, <3>1, EmptyHasRevision
         DEF Conflict, Goto, Shape, CallerShape, HasRevision
  <2> QED
    BY <1>6, <2>1, FinishShape DEF Conflict, Shape
<1>7. ASSUME NEW c \in Callers, SwapFails(c) \/ Notify(c)
      PROVE  HasRevision(stored') /\ CallerShape'
  BY <1>7, FinishShape DEF SwapFails, Notify, Shape
<1>8. ASSUME NEW c \in Callers, Abandon(c)
      PROVE  HasRevision(stored') /\ CallerShape'
  <2>1. CASE pc[c] = "swap"
    BY <1>8, <2>1 DEF Abandon, Goto, Shape, CallerShape, HasRevision
  <2> QED
    BY <1>8, <2>1, FinishShape DEF Abandon, Shape
<1>9. ASSUME NEW c \in Callers, Detached(c)
      PROVE  HasRevision(stored') /\ CallerShape'
  BY <1>9, CommitShape, FinishShape DEF Detached, Shape
<1>10. ASSUME NEW s \in Streams,
              \/ Subscribe(s) \/ InitialSnapshot(s) \/ Deliver(s)
              \/ Hangup(s) \/ Overflowed(s)
       PROVE  HasRevision(stored') /\ CallerShape'
  BY <1>10, <1>1
     DEF Subscribe, InitialSnapshot, Deliver, Hangup, Overflowed, CloseStream
<1> QED
  BY <1>1, <1>2, <1>3, <1>4, <1>5, <1>6, <1>7, <1>8, <1>9, <1>10 DEF Next, Step, vars

LEMMA ShapeInvariant == Spec => []Shape
<1>1. Init => Shape
  BY EmptyHasRevision, BoundsAssumption
     DEF Init, Shape, CallerShape, StreamShape
<1>2. Shape /\ [Next]_vars => Shape'
  BY StreamShapeStep, CallerShapeStep DEF Shape
<1> QED
  BY <1>1, <1>2, PTL DEF Spec

\* The control state and the counters keep their types.
THEOREM ControlTypeCorrect == Spec => []ControlTypeOK
  BY ShapeInvariant, ShapeIsControlTypeOK, PTL

-----------------------------------------------------------------------------
(* Reads and the store *)

\* Only a commit changes the store, and only to the next revision, so a loaded
\* snapshot whose revision is still the stored one is the stored one.
LEMMA ReadsStep ==
  ASSUME Shape, ReadsAreCurrentOrLose, [Next]_vars
  PROVE  ReadsAreCurrentOrLose'
<1> USE DEF ReadsAreCurrentOrLose
<1> DEFINE Current(c) == pc[c] \in {"swap", "detached"} =>
                           /\ Accepts(cmd[c], read[c])
                           /\ read[c].revision <= stored.revision
                           /\ read[c].revision = stored.revision => read[c] = stored
\* One caller moves to where nothing is claimed of it, the store unchanged.
<1>1. ASSUME NEW c \in Callers, NEW o \in Outcomes, Finish(c, o), UNCHANGED stored
      PROVE  ReadsAreCurrentOrLose'
  BY <1>1 DEF Finish, Goto, Shape, CallerShape
<1>2. CASE UNCHANGED <<stored, callerVars>>
  BY <1>2 DEF callerVars
<1>3. ASSUME NEW c \in Callers, NEW k \in Commands, Begin(c, k)
      PROVE  ReadsAreCurrentOrLose'
  BY <1>3, <1>1 DEF Begin, Goto, Shape, CallerShape
<1>4. ASSUME NEW c \in Callers, Fetch(c)
      PROVE  ReadsAreCurrentOrLose'
  BY <1>4, <1>1 DEF Fetch, Goto, Shape, CallerShape
<1>5. ASSUME NEW c \in Callers, Load(c)
      PROVE  ReadsAreCurrentOrLose'
  <2>1. CASE /\ Accepts(cmd[c], stored)
             /\ Goto(c, "swap")
             /\ read' = [read EXCEPT ![c] = stored]
             /\ UNCHANGED <<cmd, tries, outcome, since>>
    BY <1>5, <2>1 DEF Load, Goto, Shape, CallerShape, HasRevision
  <2> QED
    BY <1>5, <1>1, <2>1 DEF Load
\* A commit outdates every other loaded snapshot.
<1>6. ASSUME NEW c \in Callers, pc[c] \in {"swap", "detached"}, Commit(c),
             \A d \in Callers \ {c} : pc'[d] = pc[d] /\ cmd'[d] = cmd[d] /\ read'[d] = read[d],
             pc'[c] \notin {"swap", "detached"}
      PROVE  ReadsAreCurrentOrLose'
  <2>1. stored'.revision = stored.revision + 1 /\ HasRevision(stored)
    BY <1>6, SuccessorRevision, BoundsAssumption
       DEF Commit, Swappable, Shape, CallerShape
  <2>2. ASSUME NEW d \in Callers
        PROVE  Current(d)'
    BY <1>6, <2>1 DEF HasRevision, Shape, CallerShape
  <2> QED
    BY <2>2
<1>7. ASSUME NEW c \in Callers, Swap(c)
      PROVE  ReadsAreCurrentOrLose'
  BY <1>7, <1>6 DEF Swap, Goto, Shape, CallerShape
<1>8. ASSUME NEW c \in Callers, Conflict(c)
      PROVE  ReadsAreCurrentOrLose'
  <2>1. CASE TriesLeft(c)
    BY <1>8, <2>1 DEF Conflict, Goto, Shape, CallerShape
  <2> QED
    BY <1>8, <1>1, <2>1 DEF Conflict
<1>9. ASSUME NEW c \in Callers, SwapFails(c) \/ Notify(c)
      PROVE  ReadsAreCurrentOrLose'
  BY <1>9, <1>1 DEF SwapFails, Notify
<1>10. ASSUME NEW c \in Callers, Abandon(c)
       PROVE  ReadsAreCurrentOrLose'
  <2>1. CASE pc[c] = "swap"
    BY <1>10, <2>1 DEF Abandon, Goto, Shape, CallerShape
  <2> QED
    BY <1>10, <1>1, <2>1 DEF Abandon
<1>11. ASSUME NEW c \in Callers, Detached(c)
       PROVE  ReadsAreCurrentOrLose'
  <2>1. CASE UNCHANGED stored
    BY <1>11, <1>1, <2>1 DEF Detached
  <2>2. CASE Commit(c)
    BY <1>11, <1>6, <2>2 DEF Detached, Finish, Goto, Shape, CallerShape
  <2> QED
    BY <1>11, <2>1, <2>2 DEF Detached
<1>12. ASSUME NEW s \in Streams,
              \/ Subscribe(s) \/ InitialSnapshot(s) \/ Deliver(s)
              \/ Hangup(s) \/ Overflowed(s)
       PROVE  ReadsAreCurrentOrLose'
  BY <1>12, <1>2
     DEF Subscribe, InitialSnapshot, Deliver, Hangup, Overflowed, CloseStream
<1> QED
  BY <1>2, <1>3, <1>4, <1>5, <1>7, <1>8, <1>9, <1>10, <1>11, <1>12 DEF Next, Step, vars

\* A snapshot that can still be swapped in was computed from the stored one.
THEOREM ReadsCurrent == Spec => []ReadsAreCurrentOrLose
<1>1. Init => ReadsAreCurrentOrLose
  BY DEF Init, ReadsAreCurrentOrLose
<1> QED
  BY <1>1, ReadsStep, ShapeInvariant, PTL DEF Spec

-----------------------------------------------------------------------------
(* Refinement *)

\* A call that ends without effect, whatever it reports, ends the abstract call.
LEMMA FinishConcludes ==
  ASSUME Shape, NEW c \in Callers, NEW o \in Outcomes, Finish(c, o)
  PROVE  Atomic!Conclude(c, IF o \in {"contention", "storage", "network"}
                            THEN "failed" ELSE o)
  BY DEF Finish, Goto, Atomic!Conclude, phaseBar, outcomeBar, Shape, CallerShape

\* Moving between the locations of an open call is not visible.
LEMMA OpenStutters ==
  ASSUME Shape, NEW c \in Callers, pc[c] \in {"fetch", "load", "swap"},
         NEW to \in {"fetch", "load", "swap"}, Goto(c, to), UNCHANGED <<stored, cmd, outcome>>
  PROVE  UNCHANGED Atomic!atomicVars
  BY DEF Goto, Atomic!atomicVars, phaseBar, outcomeBar, Shape, CallerShape

\* The commit of a loaded snapshot is the command applied to the stored one.
LEMMA CommitIsEffect ==
  ASSUME Shape, ReadsAreCurrentOrLose, NEW c \in Callers,
         pc[c] \in {"swap", "detached"}, Commit(c)
  PROVE  Atomic!Effect(c)
  BY DEF Commit, Swappable, ReadsAreCurrentOrLose, Atomic!Effect

LEMMA StepSimulation ==
  ASSUME Shape, ReadsAreCurrentOrLose, [Next]_vars
  PROVE  [Atomic!AtomicNext]_(Atomic!atomicVars)
<1> USE DEF Atomic!AtomicNext
<1>1. CASE UNCHANGED <<stored, callerVars>>
  BY <1>1 DEF callerVars, Atomic!atomicVars, phaseBar, outcomeBar
<1>2. ASSUME NEW c \in Callers, NEW k \in Commands, Begin(c, k)
      PROVE  Atomic!AtomicNext
  <2>1. phaseBar[c] = "idle"
    BY <1>2 DEF Begin, phaseBar
  <2>2. CASE WellFormed(k)
    <3>1. PICK to \in {"fetch", "load"} : Goto(c, to)
      BY <1>2, <2>2 DEF Begin
    <3>2. phaseBar' = [phaseBar EXCEPT ![c] = "open"]
      BY <3>1 DEF Goto, phaseBar, Shape, CallerShape
    <3>3. outcomeBar' = [outcomeBar EXCEPT ![c] = "none"]
      BY <1>2, <2>2 DEF Begin, outcomeBar, Shape, CallerShape
    <3>4. Atomic!Call(c, k)
      BY <1>2, <2>1, <2>2, <3>2, <3>3 DEF Begin, Atomic!Call
    <3> QED
      BY <3>4
  <2>3. CASE ~WellFormed(k)
    <3>1. Atomic!TurnDown(c, k)
      BY <1>2, <2>1, <2>3, FinishConcludes DEF Begin, Atomic!TurnDown
    <3> QED
      BY <3>1
  <2> QED
    BY <2>2, <2>3
<1>3. ASSUME NEW c \in Callers, Fetch(c)
      PROVE  [Atomic!AtomicNext]_(Atomic!atomicVars)
  <2>1. CASE Finish(c, "network")
    <3>1. Atomic!GiveUp(c)
      BY <1>3, <2>1, FinishConcludes DEF Fetch, Atomic!GiveUp, phaseBar
    <3> QED
      BY <3>1
  <2> QED
    BY <1>3, <2>1, OpenStutters DEF Fetch
<1>4. ASSUME NEW c \in Callers, Load(c)
      PROVE  [Atomic!AtomicNext]_(Atomic!atomicVars)
  <2>1. phaseBar[c] = "open"
    BY <1>4 DEF Load, phaseBar
  <2>2. CASE ~Accepts(cmd[c], stored) /\ Finish(c, "rejected")
    <3>1. Atomic!Refuse(c)
      BY <1>4, <2>1, <2>2, FinishConcludes DEF Load, Atomic!Refuse
    <3> QED
      BY <3>1
  <2>3. CASE Finish(c, "storage")
    <3>1. Atomic!GiveUp(c)
      BY <1>4, <2>1, <2>3, FinishConcludes DEF Load, Atomic!GiveUp
    <3> QED
      BY <3>1
  <2> QED
    BY <1>4, <2>2, <2>3, OpenStutters DEF Load
<1>5. ASSUME NEW c \in Callers, Swap(c)
      PROVE  Atomic!AtomicNext
  <2>1. Atomic!Effect(c)
    BY <1>5, CommitIsEffect DEF Swap
  <2>2. Atomic!TakeEffect(c)
    BY <1>5, <2>1
       DEF Swap, Goto, Atomic!TakeEffect, phaseBar, outcomeBar, Shape, CallerShape
  <2> QED
    BY <2>2
<1>6. ASSUME NEW c \in Callers, Conflict(c)
      PROVE  [Atomic!AtomicNext]_(Atomic!atomicVars)
  <2>1. CASE Finish(c, "contention")
    <3>1. Atomic!GiveUp(c)
      BY <1>6, <2>1, FinishConcludes DEF Conflict, Atomic!GiveUp, phaseBar
    <3> QED
      BY <3>1
  <2> QED
    BY <1>6, <2>1, OpenStutters DEF Conflict
<1>7. ASSUME NEW c \in Callers, SwapFails(c)
      PROVE  Atomic!AtomicNext
  <2>1. Atomic!GiveUp(c)
    BY <1>7, FinishConcludes DEF SwapFails, Atomic!GiveUp, phaseBar
  <2> QED
    BY <2>1
<1>8. ASSUME NEW c \in Callers, Notify(c)
      PROVE  Atomic!AtomicNext
  <2>1. Atomic!Return(c)
    BY <1>8, FinishConcludes DEF Notify, Atomic!Return, phaseBar
  <2> QED
    BY <2>1
<1>9. ASSUME NEW c \in Callers, Abandon(c)
      PROVE  Atomic!AtomicNext
  <2>1. CASE pc[c] = "swap"
    <3>1. Goto(c, "detached") /\ UNCHANGED <<stored, cmd, outcome>>
      BY <1>9, <2>1 DEF Abandon
    <3>2. phaseBar' = [phaseBar EXCEPT ![c] = "orphaned"]
      BY <3>1 DEF Goto, phaseBar, Shape, CallerShape
    <3>3. outcomeBar' = outcomeBar
      BY <3>1 DEF outcomeBar
    <3>4. Atomic!LeaveBehind(c)
      BY <2>1, <3>1, <3>2, <3>3 DEF Atomic!LeaveBehind, phaseBar
    <3> QED
      BY <3>4
  <2>2. CASE pc[c] # "swap"
    <3>1. Atomic!Leave(c)
      BY <1>9, <2>2, FinishConcludes DEF Abandon, Atomic!Leave, phaseBar
    <3> QED
      BY <3>1
  <2> QED
    BY <2>1, <2>2
<1>10. ASSUME NEW c \in Callers, Detached(c)
       PROVE  Atomic!AtomicNext
  <2>1. phaseBar[c] = "orphaned" /\ Atomic!Conclude(c, "unknown")
    BY <1>10, FinishConcludes DEF Detached, phaseBar
  <2>2. Atomic!Effect(c) \/ UNCHANGED stored
    BY <1>10, CommitIsEffect DEF Detached
  <2>3. Atomic!OrphanEnds(c)
    BY <2>1, <2>2 DEF Atomic!OrphanEnds
  <2> QED
    BY <2>3
<1>11. ASSUME NEW s \in Streams,
              \/ Subscribe(s) \/ InitialSnapshot(s) \/ Deliver(s)
              \/ Hangup(s) \/ Overflowed(s)
       PROVE  [Atomic!AtomicNext]_(Atomic!atomicVars)
  BY <1>11, <1>1
     DEF Subscribe, InitialSnapshot, Deliver, Hangup, Overflowed, CloseStream
<1> QED
  BY <1>1, <1>2, <1>3, <1>4, <1>5, <1>6, <1>7, <1>8, <1>9, <1>10, <1>11
     DEF Next, Step, vars

\* The retrying compare and swap implements atomic commands: no interleaving of
\* callers, failures and abandoned calls loses, doubles or tears a command.
THEOREM Refinement == Spec => ImplementsAtomicState
<1>1. Init => Atomic!AtomicInit
  BY DEF Init, Atomic!AtomicInit, phaseBar, outcomeBar
<1> QED
  BY <1>1, StepSimulation, ShapeInvariant, ReadsCurrent, PTL
     DEF Spec, ImplementsAtomicState, Atomic!AtomicSpec

-----------------------------------------------------------------------------
(* Contention *)

\* Every attempt that lost was beaten by one more commit since the call began.
BeatenEachTry ==
  \A c \in Callers :
    /\ pc[c] = "idle" => since[c] = 0
    /\ pc[c] \in {"idle", "fetch"} => tries[c] = 0
    /\ since[c] <= stored.revision
    /\ pc[c] = "load" => since[c] + tries[c] <= stored.revision
    /\ pc[c] = "swap" => since[c] + tries[c] <= read[c].revision

LEMMA RevisionGrows ==
  ASSUME Shape, [Next]_vars
  PROVE  /\ stored.revision \in Nat /\ stored'.revision \in Nat
         /\ stored.revision <= stored'.revision
<1>1. ASSUME NEW c \in Callers, pc[c] # "idle", Commit(c)
      PROVE  stored'.revision = stored.revision + 1
  BY <1>1, SuccessorRevision, BoundsAssumption
     DEF Commit, Swappable, Shape, CallerShape
<1>2. \/ UNCHANGED stored
      \/ \E c \in Callers : pc[c] # "idle" /\ Commit(c)
  BY DEF Next, Step, vars, Begin, Fetch, Load, Swap, Conflict, SwapFails, Notify,
         Abandon, Detached, Subscribe, InitialSnapshot, Deliver, Hangup,
         Overflowed, CloseStream
<1>3. stored.revision \in Nat /\ stored'.revision \in Nat
  BY CallerShapeStep DEF Shape, HasRevision
<1> QED
  BY <1>1, <1>2, <1>3

\* A swap is lost to a commit made after the load.
LEMMA LostRace ==
  ASSUME Shape, ReadsAreCurrentOrLose, NEW c \in Callers, Conflict(c)
  PROVE  /\ read[c].revision \in Nat /\ stored.revision \in Nat
         /\ read[c].revision < stored.revision
  BY DEF Conflict, Swappable, ReadsAreCurrentOrLose, Shape, CallerShape, HasRevision

LEMMA BeatenStep ==
  ASSUME Shape, ReadsAreCurrentOrLose, BeatenEachTry, [Next]_vars
  PROVE  BeatenEachTry'
<1> USE RevisionGrows DEF BeatenEachTry
<1>1. ASSUME NEW c \in Callers, NEW o \in Outcomes, Finish(c, o)
      PROVE  BeatenEachTry'
  BY <1>1 DEF Finish, Goto, Shape, CallerShape
<1>2. CASE UNCHANGED callerVars
  BY <1>2 DEF callerVars, Shape, CallerShape, HasRevision
<1>3. ASSUME NEW c \in Callers, NEW k \in Commands, Begin(c, k)
      PROVE  BeatenEachTry'
  BY <1>3, <1>1 DEF Begin, Goto, Shape, CallerShape
<1>4. ASSUME NEW c \in Callers, Fetch(c)
      PROVE  BeatenEachTry'
  BY <1>4, <1>1 DEF Fetch, Goto, Shape, CallerShape
<1>5. ASSUME NEW c \in Callers, Load(c)
      PROVE  BeatenEachTry'
  BY <1>5, <1>1 DEF Load, Goto, Shape, CallerShape
<1>6. ASSUME NEW c \in Callers, Swap(c)
      PROVE  BeatenEachTry'
  BY <1>6 DEF Swap, Goto, Shape, CallerShape
<1>7. ASSUME NEW c \in Callers, Conflict(c)
      PROVE  BeatenEachTry'
  <2>1. CASE TriesLeft(c)
    <3>1. read[c].revision \in Nat /\ read[c].revision < stored.revision
      BY <1>7, LostRace
    <3> QED
      BY <1>7, <2>1, <3>1 DEF Conflict, Goto, Shape, CallerShape, HasRevision
  <2> QED
    BY <1>7, <1>1, <2>1 DEF Conflict
<1>8. ASSUME NEW c \in Callers, SwapFails(c) \/ Notify(c) \/ Detached(c)
      PROVE  BeatenEachTry'
  BY <1>8, <1>1 DEF SwapFails, Notify, Detached
<1>9. ASSUME NEW c \in Callers, Abandon(c)
      PROVE  BeatenEachTry'
  BY <1>9, <1>1 DEF Abandon, Goto, Shape, CallerShape
<1>10. ASSUME NEW s \in Streams,
              \/ Subscribe(s) \/ InitialSnapshot(s) \/ Deliver(s)
              \/ Hangup(s) \/ Overflowed(s)
       PROVE  BeatenEachTry'
  BY <1>10, <1>2
     DEF Subscribe, InitialSnapshot, Deliver, Hangup, Overflowed, CloseStream
<1> QED
  BY <1>2, <1>3, <1>4, <1>5, <1>6, <1>7, <1>8, <1>9, <1>10 DEF Next, Step, vars

\* Only mutate's last lost attempt reports contention.
LEMMA ContentionStep ==
  ASSUME Shape, ReadsAreCurrentOrLose, BeatenEachTry, [Next]_vars,
         NEW c \in Callers, pc[c] # "idle", pc'[c] = "idle", outcome'[c] = "contention"
  PROVE  stored.revision >= since[c] + MaxTries
<1>1. ASSUME NEW d \in Callers, NEW o \in Outcomes \ {"contention"}, Finish(d, o)
      PROVE  FALSE
  BY <1>1 DEF Finish, Goto, Shape, CallerShape
<1>2. ASSUME NEW d \in Callers, NEW to \in Locations \ {"idle"}, Goto(d, to)
      PROVE  FALSE
  BY <1>2 DEF Goto, Shape, CallerShape
<1>3. ~UNCHANGED pc
  BY DEF Shape, CallerShape
<1>4. ASSUME NEW d \in Callers, Conflict(d)
      PROVE  d = c /\ tries[c] + 1 >= MaxTries
  BY <1>4, <1>2, BoundsAssumption DEF Conflict, TriesLeft, Finish, Goto, Shape, CallerShape
<1>5. PICK d \in Callers : Conflict(d)
  BY <1>1, <1>2, <1>3
     DEF Next, Step, vars, callerVars, streamVars, Begin, Fetch, Load, Swap, SwapFails,
         Notify, Abandon, Detached, Subscribe, InitialSnapshot, Deliver, Hangup,
         Overflowed, CloseStream
<1>6. read[c].revision < stored.revision
  BY <1>4, <1>5, LostRace
<1> QED
  BY <1>4, <1>5, <1>6, BoundsAssumption
     DEF Conflict, BeatenEachTry, Shape, CallerShape, HasRevision

\* A caller told to retry lost to at least MaxTries commits of other callers.
THEOREM ContentionReal == Spec => ContentionIsReal
<1>1. Init => BeatenEachTry
  BY DEF Init, BeatenEachTry, EmptySnapshot
<1>2. Shape /\ ReadsAreCurrentOrLose /\ BeatenEachTry /\ [Next]_vars
        => [\A c \in Callers :
              (pc[c] # "idle" /\ pc'[c] = "idle" /\ outcome'[c] = "contention")
                => stored.revision >= since[c] + MaxTries]_vars
  BY ContentionStep
<1> QED
  BY <1>1, <1>2, BeatenStep, ShapeInvariant, ReadsCurrent, PTL
     DEF Spec, ContentionIsReal

-----------------------------------------------------------------------------
(* Event streams *)

\* The elements of a queue after a message joins, and after the first leaves.
LEMMA ElementsAppend ==
  ASSUME NEW S, NEW q \in Seq(S), NEW x \in S
  PROVE  Elements(Append(q, x)) = Elements(q) \union {x}
<1>1. DOMAIN q = 1 .. Len(q) /\ DOMAIN Append(q, x) = 1 .. Len(q) + 1 /\ Len(q) \in Nat
  OBVIOUS
<1>2. \A i \in 1 .. Len(q) : Append(q, x)[i] = q[i]
  OBVIOUS
<1>3. Append(q, x)[Len(q) + 1] = x
  OBVIOUS
<1>4. \A i \in 1 .. Len(q) + 1 : i \in 1 .. Len(q) \/ i = Len(q) + 1
  BY <1>1
<1>5. 1 .. Len(q) \subseteq 1 .. Len(q) + 1 /\ Len(q) + 1 \in 1 .. Len(q) + 1
  BY <1>1
<1> QED
  BY <1>1, <1>2, <1>3, <1>4, <1>5, Zenon DEF Elements

LEMMA ElementsTail ==
  ASSUME NEW S, NEW q \in Seq(S), q # << >>
  PROVE  Elements(q) = Elements(Tail(q)) \union {Head(q)}
<1>1. DOMAIN q = 1 .. Len(q) /\ DOMAIN Tail(q) = 1 .. Len(q) - 1 /\ Len(q) \in Nat /\ Len(q) # 0
  OBVIOUS
<1>2. \A i \in 1 .. Len(q) - 1 : Tail(q)[i] = q[i + 1]
  OBVIOUS
<1>3. Head(q) = q[1]
  OBVIOUS
<1>4. ASSUME NEW e \in Elements(q)
      PROVE  e \in Elements(Tail(q)) \union {Head(q)}
  <2>1. PICK i \in 1 .. Len(q) : e = q[i]
    BY <1>1 DEF Elements
  <2>2. CASE i = 1
    BY <2>1, <2>2, <1>3
  <2>3. CASE i # 1
    <3>1. i - 1 \in 1 .. Len(q) - 1 /\ (i - 1) + 1 = i
      BY <2>3, <1>1
    <3>2. e = Tail(q)[i - 1]
      BY <2>1, <3>1, <1>2
    <3> QED
      BY <3>1, <3>2, <1>1 DEF Elements
  <2> QED
    BY <2>2, <2>3
<1>5. ASSUME NEW e \in Elements(Tail(q))
      PROVE  e \in Elements(q)
  <2>1. PICK i \in 1 .. Len(q) - 1 : e = Tail(q)[i]
    BY <1>1 DEF Elements
  <2>2. i + 1 \in 1 .. Len(q) /\ e = q[i + 1]
    BY <2>1, <1>1, <1>2
  <2> QED
    BY <2>2, <1>1 DEF Elements
<1>6. Head(q) \in Elements(q)
  <2>1. 1 \in 1 .. Len(q)
    BY <1>1
  <2> QED
    BY <2>1, <1>1, <1>3 DEF Elements
<1> QED
  BY <1>4, <1>5, <1>6

LEMMA AboutStays ==
  ASSUME Shape, NEW c \in Callers,
         \A d \in Callers \ {c} : pc'[d] = pc[d] /\ read'[d] = read[d],
         pc[c] # "notify"
  PROVE  AboutToNotify \subseteq AboutToNotify'
  BY DEF AboutToNotify

\* A stream whose client relies on it, and what it knows or will be told.
Listens(s) == stage[s] = "streaming" /\ linked[s]

Covers(s, r) ==
  r \in seen[s] \union Elements(queue[s]) \union AboutToNotify \union silent

LEMMA GapKept ==
  ASSUME Shape, NoSilentGap, UNCHANGED <<stored, floor>>,
         \A s \in Streams : Listens(s)' => Listens(s),
         \A s \in Streams, r \in Nat :
           Listens(s)' /\ r > floor[s] /\ Covers(s, r) => Covers(s, r)'
  PROVE  NoSilentGap'
<1> SUFFICES ASSUME NEW s \in Streams, Listens(s)',
                    NEW r \in floor[s] + 1 .. stored.revision
             PROVE  Covers(s, r)'
  BY DEF NoSilentGap, Listens, Covers
<1>1. floor[s] \in Nat /\ stored.revision \in Nat
  BY DEF Shape, StreamShape, HasRevision
<1>2. r \in Nat /\ r > floor[s]
  BY <1>1
<1>3. Covers(s, r)
  BY DEF NoSilentGap, Listens, Covers
<1> QED
  BY <1>2, <1>3

LEMMA GapStep ==
  ASSUME Shape, NoSilentGap, [Next]_vars
  PROVE  NoSilentGap'
<1> USE DEF NoSilentGap
\* A step that leaves the store and the streams, and loses no revision.
<1>1. ASSUME UNCHANGED <<stored, streamVars>>,
             AboutToNotify \union silent \subseteq (AboutToNotify \union silent)'
      PROVE  NoSilentGap'
  BY <1>1 DEF streamVars
<1>2. ASSUME NEW c \in Callers, pc[c] # "notify", UNCHANGED <<stored, streamVars, silent>>,
             \A d \in Callers \ {c} : pc'[d] = pc[d] /\ read'[d] = read[d]
      PROVE  NoSilentGap'
  BY <1>1, <1>2, AboutStays
<1>3. CASE UNCHANGED <<stored, callerVars, streamVars, silent>>
  BY <1>3, <1>1 DEF AboutToNotify, callerVars
<1>4. ASSUME NEW c \in Callers,
             \/ \E k \in Commands : Begin(c, k)
             \/ Fetch(c) \/ Load(c) \/ Conflict(c) \/ SwapFails(c)
      PROVE  NoSilentGap'
  BY <1>4, <1>2
     DEF Begin, Fetch, Load, Conflict, SwapFails, Finish, Goto, Shape, CallerShape
\* A commit adds one revision, which is announced or silent.
<1>5. ASSUME NEW c \in Callers, pc[c] \in {"swap", "detached"}, Commit(c),
             UNCHANGED streamVars,
             \A d \in Callers \ {c} : pc'[d] = pc[d] /\ read'[d] = read[d],
             silent \subseteq silent',
             read[c].revision + 1 \in (AboutToNotify \union silent)'
      PROVE  NoSilentGap'
  <2>1. /\ stored'.revision = read[c].revision + 1
        /\ stored'.revision = stored.revision + 1
        /\ stored.revision \in Nat
    BY <1>5, SuccessorRevision, BoundsAssumption
       DEF Commit, Swappable, Shape, CallerShape, HasRevision
  <2>2. AboutToNotify \subseteq AboutToNotify'
    BY <1>5, AboutStays
  <2>3. ASSUME NEW s \in Streams, Listens(s)', NEW r \in floor'[s] + 1 .. stored'.revision
        PROVE  Covers(s, r)'
    <3>1. /\ Listens(s) /\ floor'[s] = floor[s] /\ floor[s] \in Nat
          /\ seen'[s] = seen[s] /\ queue'[s] = queue[s]
      BY <1>5, <2>3 DEF streamVars, Listens, Shape, StreamShape
    <3>2. CASE r = stored.revision + 1
      BY <1>5, <2>1, <3>2 DEF Covers
    <3>3. CASE r # stored.revision + 1
      <4>1. r \in floor[s] + 1 .. stored.revision
        BY <2>1, <2>3, <3>1, <3>3
      <4>2. Covers(s, r)
        BY <3>1, <4>1 DEF Listens, Covers
      <4> QED
        BY <1>5, <2>2, <3>1, <4>2 DEF Covers
    <3> QED
      BY <3>2, <3>3
  <2> QED
    BY <2>3 DEF Listens, Covers
<1>6. ASSUME NEW c \in Callers, Swap(c)
      PROVE  NoSilentGap'
  <2>1. read[c].revision + 1 \in AboutToNotify'
    BY <1>6 DEF Swap, Goto, AboutToNotify, Shape, CallerShape
  <2> QED
    BY <1>6, <1>5, <2>1 DEF Swap, Goto, Shape, CallerShape
<1>7. ASSUME NEW c \in Callers, Notify(c)
      PROVE  NoSilentGap'
  <2> DEFINE r == read[c].revision + 1
  <2>1. AboutToNotify \subseteq AboutToNotify' \union {r}
    BY <1>7 DEF Notify, Finish, Goto, AboutToNotify, Shape, CallerShape
  <2>2. ASSUME NEW s \in Streams, linked'[s]
        PROVE  linked[s] /\ queue'[s] = Append(queue[s], r)
    BY <1>7, <2>2 DEF Notify, StaysLinked, Shape, StreamShape
  <2>3. ASSUME NEW s \in Streams, linked'[s]
        PROVE  Elements(queue'[s]) = Elements(queue[s]) \union {r}
    <3>1. queue[s] \in Seq(Nat) /\ r \in Nat
      BY DEF Shape, StreamShape, CallerShape, HasRevision
    <3>2. queue'[s] = Append(queue[s], r)
      BY <2>2, <2>3
    <3>3. Elements(Append(queue[s], r)) = Elements(queue[s]) \union {r}
      BY <3>1, ElementsAppend
    <3> QED
      BY <3>2, <3>3
  <2>4. \A s \in Streams : Listens(s)' => Listens(s)
    BY <1>7, <2>2 DEF Notify, Listens
  <2>5. ASSUME NEW s \in Streams, Listens(s)', NEW x \in Nat, Covers(s, x)
        PROVE  Covers(s, x)'
    <3>1. seen'[s] = seen[s] /\ silent' = silent
      BY <1>7 DEF Notify
    <3>2. Elements(queue[s]) \union {r} = Elements(queue'[s])
      BY <2>3, <2>5 DEF Listens
    <3>3. x \in seen[s] \union Elements(queue[s]) \union AboutToNotify \union silent
      BY <2>5 DEF Covers
    <3>4. x \in seen'[s] \union Elements(queue'[s]) \union AboutToNotify' \union silent'
      BY <2>1, <3>1, <3>2, <3>3
    <3> QED
      BY <3>4 DEF Covers
  <2> QED
    BY <1>7, <2>4, <2>5, GapKept DEF Notify
<1>8. ASSUME NEW c \in Callers, Abandon(c)
      PROVE  NoSilentGap'
  <2>1. CASE pc[c] = "notify"
    <3>1. AboutToNotify \subseteq AboutToNotify' \union {read[c].revision + 1}
      BY <1>8, <2>1 DEF Abandon, Finish, Goto, AboutToNotify, Shape, CallerShape
    <3> QED
      BY <1>8, <1>1, <2>1, <3>1 DEF Abandon
  <2>2. CASE pc[c] # "notify"
    BY <1>8, <1>2, <2>2 DEF Abandon, Finish, Goto, Shape, CallerShape
  <2> QED
    BY <2>1, <2>2
<1>9. ASSUME NEW c \in Callers, Detached(c)
      PROVE  NoSilentGap'
  <2>1. CASE UNCHANGED <<stored, silent>>
    BY <1>9, <1>2, <2>1 DEF Detached, Finish, Goto, Shape, CallerShape
  <2>2. CASE Commit(c) /\ silent' = silent \union {read[c].revision + 1}
    BY <1>9, <1>5, <2>2 DEF Detached, Finish, Goto, Shape, CallerShape
  <2> QED
    BY <1>9, <2>1, <2>2 DEF Detached
<1>10. ASSUME NEW s \in Streams, Subscribe(s) \/ CloseStream(s)
       PROVE  NoSilentGap'
  <2>1. AboutToNotify' = AboutToNotify
    BY <1>10 DEF Subscribe, CloseStream, callerVars, AboutToNotify
  <2>2. stage'[s] # "streaming"
    BY <1>10 DEF Subscribe, CloseStream, Shape, StreamShape
  <2>3. \A t \in Streams \ {s} :
          /\ stage'[t] = stage[t] /\ linked'[t] = linked[t] /\ floor'[t] = floor[t]
          /\ seen'[t] = seen[t] /\ queue'[t] = queue[t]
    BY <1>10 DEF Subscribe, CloseStream, Shape, StreamShape
  <2>4. UNCHANGED <<stored, silent>>
    BY <1>10 DEF Subscribe, CloseStream
  <2> QED
    BY <2>1, <2>2, <2>3, <2>4
<1>11. ASSUME NEW s \in Streams, InitialSnapshot(s)
       PROVE  NoSilentGap'
  <2>1. AboutToNotify' = AboutToNotify
    BY <1>11 DEF InitialSnapshot, callerVars, AboutToNotify
  <2>2. floor'[s] + 1 .. stored'.revision = {}
    BY <1>11 DEF InitialSnapshot, Shape, StreamShape, HasRevision
  <2>3. \A t \in Streams \ {s} : stage'[t] = stage[t] /\ floor'[t] = floor[t]
    BY <1>11 DEF InitialSnapshot, Shape, StreamShape
  <2> QED
    BY <1>11, <2>1, <2>2, <2>3 DEF InitialSnapshot
<1>12. ASSUME NEW s \in Streams, Deliver(s)
       PROVE  NoSilentGap'
  <2>1. queue[s] \in Seq(Nat) /\ queue[s] # << >> /\ floor[s] \in Nat
    BY <1>12 DEF Deliver, Shape, StreamShape
  <2>2. Elements(queue[s]) = Elements(Tail(queue[s])) \union {Head(queue[s])}
    BY <2>1, ElementsTail
  <2>3. \A r \in Nat : r > floor[s] /\ r \in seen[s] \union Elements(queue[s])
          => r \in seen'[s] \union Elements(queue'[s])
    BY <1>12, <2>1, <2>2 DEF Deliver, Shape, StreamShape
  <2>4. \A t \in Streams \ {s} : seen'[t] = seen[t] /\ queue'[t] = queue[t]
    BY <1>12 DEF Deliver, Shape, StreamShape
  <2>5. AboutToNotify' = AboutToNotify
    BY <1>12 DEF Deliver, callerVars, AboutToNotify
  <2>6. \A t \in Streams, r \in Nat :
          Listens(t)' /\ r > floor[t] /\ Covers(t, r) => Covers(t, r)'
    BY <1>12, <2>3, <2>4, <2>5 DEF Deliver, Covers
  <2> QED
    BY <1>12, <2>6, GapKept DEF Deliver, Listens
<1> HIDE DEF NoSilentGap
<1> QED
  BY <1>3, <1>4, <1>6, <1>7, <1>8, <1>9, <1>10, <1>11, <1>12
     DEF Next, Step, vars, Hangup, Overflowed

\* A subscribed stream misses no announced revision.
THEOREM NoGap == Spec => []NoSilentGap
<1>1. Init => NoSilentGap
  BY DEF Init, NoSilentGap
<1> QED
  BY <1>1, GapStep, ShapeInvariant, PTL DEF Spec

-----------------------------------------------------------------------------
(* The contents of a snapshot *)

IdOf == [a \in Installation |-> a.id]
EntryKey == [e \in LibraryEntry |-> e.key]
ViewKey == [p \in Progress |-> <<p.key, p.video>>]
TitleKey == [k \in ItemKeys |-> k]

OneEach(s) ==
  /\ Once(s.addons, IdOf) /\ Once(s.library, EntryKey)
  /\ Once(s.progress, ViewKey) /\ Once(s.hidden, TitleKey)

\* Metadata that an entry has is its title's, and newer entries of the title have it.
MetadataKept(s) ==
  \A i, j \in DOMAIN s.progress :
    i <= j /\ s.progress[i].key = s.progress[j].key /\ s.progress[i].metadata # NoMetadata
      => s.progress[j].metadata = s.progress[j].key

LEMMA ElementsOf ==
  ASSUME NEW T, NEW seq \in Seq(T)
  PROVE  Elements(seq) \subseteq T
  BY DEF Elements

LEMMA InstalledElements ==
  ASSUME NEW s \in Snapshot
  PROVE  /\ Elements(s.addons) \subseteq Installation
         /\ \A a \in Elements(s.addons) : IdOf[a] = a.id /\ a.id \in InstalledIds(s)
  BY DEF Snapshot, Elements, IdOf, InstalledIds

\* A list with the same installations in the same places.
LEMMA SamePlaces ==
  ASSUME NEW s \in Snapshot, Once(s.addons, IdOf),
         NEW list \in [DOMAIN s.addons -> Installation],
         \A i \in DOMAIN list : list[i].id = s.addons[i].id
  PROVE  list \in Seq(Installation) /\ Once(list, IdOf)
<1>1. s.addons \in Seq(Installation) /\ DOMAIN s.addons = 1 .. Len(s.addons) /\ Len(s.addons) \in Nat
  BY DEF Snapshot
<1>2. list \in Seq(Installation)
  BY <1>1
<1>3. \A i \in DOMAIN list : IdOf[list[i]] = IdOf[s.addons[i]]
  BY <1>1 DEF IdOf
<1> QED BY <1>1, <1>2, <1>3 DEF Once

\* A permutation of the installed ids lists the installations themselves.
LEMMA ReorderKeeps ==
  ASSUME NEW s \in Snapshot, Once(s.addons, IdOf), NEW ids \in Seq(InstallationIds), IsOrderOf(ids, s)
  PROVE  /\ Reorder(s, ids).addons \in Seq(Installation)
         /\ Once(Reorder(s, ids).addons, IdOf)
         /\ Elements(Reorder(s, ids).addons) = Elements(s.addons)
<1> DEFINE list == [i \in DOMAIN ids |-> CHOOSE a \in Elements(s.addons) : a.id = ids[i]]
<1>1. Reorder(s, ids).addons = list
  BY DEF Reorder, Snapshot
<1>2. DOMAIN ids = 1 .. Len(ids) /\ Len(ids) \in Nat
  OBVIOUS
<1>3. \A i \in DOMAIN ids : list[i] \in Elements(s.addons) /\ list[i].id = ids[i]
  <2> TAKE i \in DOMAIN ids
  <2>1. ids[i] \in InstalledIds(s)
    BY DEF IsOrderOf, Elements
  <2>2. \E a \in Elements(s.addons) : a.id = ids[i]
    BY <2>1 DEF InstalledIds
  <2> QED BY <2>2
<1>4. DOMAIN list = DOMAIN ids
  OBVIOUS
<1>11. list = [i \in DOMAIN ids |-> list[i]]
  <2> DEFINE E == Elements(s.addons)
  <2> HIDE DEF E
  <2>1. \A f : f = [i \in DOMAIN ids |-> CHOOSE a \in E : a.id = ids[i]]
               => f = [i \in DOMAIN ids |-> f[i]]
    OBVIOUS
  <2> QED BY <2>1 DEF E
<1> HIDE DEF list
<1>5. \A i \in DOMAIN list : list[i] \in Installation /\ IdOf[list[i]] = ids[i]
  BY <1>3, <1>4, InstalledElements
<1>6. list \in Seq(Installation)
  <2>1. list = [i \in 1 .. Len(ids) |-> list[i]] /\ Len(ids) \in Nat
    BY <1>11, <1>2
  <2> QED BY <1>2, <1>4, <1>5, <2>1
<1>7. Once(list, IdOf)
  <2> SUFFICES ASSUME NEW i \in DOMAIN list, NEW j \in DOMAIN list, i < j
               PROVE  IdOf[list[i]] # IdOf[list[j]]
    BY DEF Once
  <2>1. ids[i] # ids[j]
    BY <1>2, <1>4 DEF IsOrderOf
  <2> QED BY <1>5, <2>1
<1>8. ASSUME NEW a \in Elements(s.addons) PROVE a \in Elements(list)
  <2>1. a.id \in Elements(ids)
    BY InstalledElements DEF IsOrderOf
  <2>2. PICK i \in DOMAIN ids : ids[i] = a.id
    BY <2>1 DEF Elements
  <2>3. PICK m \in DOMAIN s.addons : s.addons[m] = a
    BY DEF Elements
  <2>4. PICK n \in DOMAIN s.addons : s.addons[n] = list[i]
    BY <1>3 DEF Elements
  <2>5. IdOf[s.addons[m]] = IdOf[s.addons[n]]
    BY <2>2, <2>3, <2>4, <1>3, InstalledElements
  <2>6. m = n
    BY <2>5, OnceEach DEF Snapshot
  <2> QED BY <2>3, <2>4, <2>6, <1>4 DEF Elements
<1>9. Elements(list) \subseteq Elements(s.addons)
  BY <1>3, <1>4 DEF Elements
<1> QED BY <1>1, <1>6, <1>7, <1>8, <1>9

-----------------------------------------------------------------------------
(* What each closure makes of a collection *)

LEMMA InstallKeeps ==
  ASSUME NEW s \in Snapshot, Once(s.addons, IdOf), NEW id \in InstallationIds, NEW url \in ManifestUrls,
         id \notin InstalledIds(s)
  PROVE  LET new == Install(s, id, url).addons IN new \in Seq(Installation) /\ Once(new, IdOf)
<1> DEFINE x == [id |-> id, url |-> url, enabled |-> TRUE]
<1>1. x \in Installation /\ s.addons \in Seq(Installation)
  BY DEF Installation, Snapshot
<1>2. Install(s, id, url).addons = Append(s.addons, x)
  BY DEF Install, Snapshot
<1>3. IdOf[x] = id
  BY <1>1 DEF IdOf
<1> HIDE DEF x
<1>4. \A y \in Elements(s.addons) : IdOf[y] # IdOf[x]
  BY <1>3, InstalledElements
<1> QED BY <1>1, <1>2, <1>4, OnceAppend, AppendAt

LEMMA AdjustKeeps ==
  ASSUME NEW s \in Snapshot, Once(s.addons, IdOf), NEW id \in InstallationIds
  PROVE  /\ \A url \in ManifestUrls :
              LET new == ConfigureAddon(s, id, url).addons
              IN  new \in Seq(Installation) /\ Once(new, IdOf)
         /\ \A on \in BOOLEAN :
              LET new == SetEnabled(s, id, on).addons
              IN  new \in Seq(Installation) /\ Once(new, IdOf)
<1>1. s.addons \in Seq(Installation) /\ \A i \in DOMAIN s.addons : s.addons[i] \in Installation
  BY DEF Snapshot
<1>2. ASSUME NEW url \in ManifestUrls
      PROVE  ConfigureAddon(s, id, url).addons \in Seq(Installation)
               /\ Once(ConfigureAddon(s, id, url).addons, IdOf)
  <2> DEFINE list == [i \in DOMAIN s.addons |-> IF s.addons[i].id = id
                        THEN [s.addons[i] EXCEPT !.url = url] ELSE s.addons[i]]
  <2>1. ConfigureAddon(s, id, url).addons = list
    BY DEF ConfigureAddon, Snapshot
  <2>2. list \in [DOMAIN s.addons -> Installation] /\ \A i \in DOMAIN list : list[i].id = s.addons[i].id
    BY <1>1 DEF Installation
  <2> HIDE DEF list
  <2> QED BY <2>1, <2>2, SamePlaces
<1>3. ASSUME NEW on \in BOOLEAN
      PROVE  SetEnabled(s, id, on).addons \in Seq(Installation)
               /\ Once(SetEnabled(s, id, on).addons, IdOf)
  <2> DEFINE list == [i \in DOMAIN s.addons |-> IF s.addons[i].id = id
                        THEN [s.addons[i] EXCEPT !.enabled = on] ELSE s.addons[i]]
  <2>1. SetEnabled(s, id, on).addons = list
    BY DEF SetEnabled, Snapshot
  <2>2. list \in [DOMAIN s.addons -> Installation] /\ \A i \in DOMAIN list : list[i].id = s.addons[i].id
    BY <1>1 DEF Installation
  <2> HIDE DEF list
  <2> QED BY <2>1, <2>2, SamePlaces
<1> QED BY <1>2, <1>3

\* Checked metadata is the title's own or none.
LEMMA CheckedType ==
  ASSUME NEW metadata, NEW key \in ItemKeys
  PROVE  Checked(metadata, key) \in Metadata /\ Checked(metadata, key) \in {key, NoMetadata}
  BY DEF Checked, Metadata

LEMMA SaveItemKeeps ==
  ASSUME NEW s \in Snapshot, Once(s.library, EntryKey), NEW entry \in LibraryEntry
  PROVE  LET new == SaveItem(s, entry).library IN new \in Seq(LibraryEntry) /\ Once(new, EntryKey)
<1> DEFINE out == OfKey(s.library, entry.key)
           rest == Without(s.library, out)
           x == WithMetadata(entry, s.library, FALSE)
<1>1. s.library \in Seq(LibraryEntry) /\ entry.key \in ItemKeys
  BY DEF Snapshot, LibraryEntry
<1>2. x \in LibraryEntry /\ x.key = entry.key /\ EntryKey[x] = entry.key
  <2>1. x.metadata \in Metadata /\ x = [entry EXCEPT !.metadata = x.metadata]
    BY <1>1, CheckedType DEF WithMetadata, LibraryEntry
  <2> HIDE DEF x
  <2>2. x \in LibraryEntry /\ x.key = entry.key
    BY <2>1 DEF LibraryEntry
  <2> QED BY <2>2 DEF EntryKey
<1>3. SaveItem(s, entry).library = Append(rest, x)
  BY DEF SaveItem, Snapshot
<1>4. rest \in Seq(LibraryEntry) /\ Once(rest, EntryKey) /\ Elements(rest) = Elements(s.library) \ out
  BY <1>1, WithoutEmbeds, OnceWithout, WithoutElements
<1>5. \A y \in Elements(rest) : EntryKey[y] # EntryKey[x]
  <2> TAKE y \in Elements(rest)
  <2>0. y \in Elements(s.library) /\ y \in LibraryEntry /\ y \notin out
    BY <1>1, <1>4, ElementsOf
  <2>1. y.key # entry.key
    BY <2>0 DEF OfKey
  <2> QED BY <1>2, <2>0, <2>1 DEF EntryKey
<1> HIDE DEF rest, x
<1> QED BY <1>2, <1>3, <1>4, <1>5, OnceAppend, AppendAt

LEMMA SetContinueHiddenKeeps ==
  ASSUME NEW s \in Snapshot, Once(s.hidden, TitleKey), NEW key \in ItemKeys, NEW hidden \in BOOLEAN
  PROVE  LET new == SetContinueHidden(s, key, hidden).hidden IN new \in Seq(ItemKeys) /\ Once(new, TitleKey)
<1> DEFINE rest == Without(s.hidden, {key})
<1>1. s.hidden \in Seq(ItemKeys)
  BY DEF Snapshot
<1>2. SetContinueHidden(s, key, hidden).hidden = IF hidden THEN Append(rest, key) ELSE rest
  BY DEF SetContinueHidden, Snapshot
<1>3. rest \in Seq(ItemKeys) /\ Once(rest, TitleKey) /\ Elements(rest) = Elements(s.hidden) \ {key}
  BY <1>1, WithoutEmbeds, OnceWithout, WithoutElements
<1>4. \A y \in Elements(rest) : y \in ItemKeys /\ y # key
  BY <1>1, <1>3, ElementsOf
<1>5. \A y \in Elements(rest) : TitleKey[y] # TitleKey[key]
  BY <1>4 DEF TitleKey
<1> HIDE DEF rest
<1> QED BY <1>2, <1>3, <1>5, OnceAppend, AppendAt

\* The newest entry of a title answers for it.
LEMMA NewestKnown ==
  ASSUME NEW s \in Snapshot, MetadataKept(s), NEW i \in DOMAIN s.progress,
         s.progress[i].metadata # NoMetadata
  PROVE  KnownMetadata(s.progress, s.progress[i].key, TRUE) = s.progress[i].key
<1> DEFINE key == s.progress[i].key
           of == {m \in DOMAIN s.progress : s.progress[m].key = key}
           best == CHOOSE m \in of : \A j \in of : j <= m
<1>1. DOMAIN s.progress = 1 .. Len(s.progress) /\ Len(s.progress) \in Nat
  BY DEF Snapshot
<1>2. of \in SUBSET (1 .. Len(s.progress)) /\ i \in of
  BY <1>1
<1>3. \E m \in of : \A j \in of : j <= m
  BY <1>1, <1>2, GreatestExists
<1>4. best \in of /\ \A j \in of : j <= best
  BY <1>3
<1>5. KnownMetadata(s.progress, key, TRUE) = s.progress[best].metadata
  BY <1>2 DEF KnownMetadata
<1>6. i <= best /\ best \in DOMAIN s.progress /\ s.progress[best].key = key
  BY <1>2, <1>4
<1> HIDE DEF best
<1> QED BY <1>5, <1>6 DEF MetadataKept

\* A report of a title that brings metadata brings the title's own.
OwnMetadata(k) == k.op = "record_progress" => k.entry.metadata \in {k.entry.key, NoMetadata}

LEMMA RecordProgressKeeps ==
  ASSUME NEW s \in Snapshot, Once(s.progress, ViewKey), NEW entry \in Progress
  PROVE  LET t == RecordProgress(s, entry)
         IN  /\ t.progress \in Seq(Progress) /\ Once(t.progress, ViewKey)
             /\ MetadataKept(s) /\ entry.metadata \in {entry.key, NoMetadata} => MetadataKept(t)
<1> DEFINE P == s.progress
           out == {p \in OfKey(P, entry.key) : p.video = entry.video}
           rest == Without(P, out)
           x == WithMetadata(entry, P, TRUE)
           t == RecordProgress(s, entry)
<1>1. P \in Seq(Progress) /\ entry.key \in ItemKeys
  BY DEF Snapshot, Progress
<1>2. /\ x \in Progress /\ x.key = entry.key /\ x.video = entry.video
      /\ x.metadata \in {entry.key, NoMetadata}
      /\ x.metadata = Checked(IF entry.metadata = NoMetadata THEN KnownMetadata(P, entry.key, TRUE)
                              ELSE entry.metadata, entry.key)
  <2>1. x = [entry EXCEPT !.metadata = x.metadata]
    BY DEF WithMetadata, Progress
  <2>2. x.metadata = Checked(IF entry.metadata = NoMetadata THEN KnownMetadata(P, entry.key, TRUE)
                             ELSE entry.metadata, entry.key)
    BY DEF WithMetadata, Progress
  <2>3. x.metadata \in Metadata /\ x.metadata \in {entry.key, NoMetadata}
    BY <1>1, <2>2, CheckedType
  <2> HIDE DEF x
  <2> QED BY <2>1, <2>2, <2>3 DEF Progress
<1>3. t.progress = Append(rest, x)
  BY DEF RecordProgress, Snapshot
<1>4. rest \in Seq(Progress) /\ Once(rest, ViewKey) /\ Elements(rest) = Elements(P) \ out
  BY <1>1, WithoutEmbeds, OnceWithout, WithoutElements
<1>5. \A y \in Elements(rest) : ViewKey[y] # ViewKey[x]
  <2> TAKE y \in Elements(rest)
  <2>1. y \in Elements(P) /\ y \in Progress /\ y \notin out
    BY <1>1, <1>4, ElementsOf
  <2>2. y.key # entry.key \/ y.video # entry.video
    BY <2>1 DEF OfKey
  <2>3. ViewKey[y] = <<y.key, y.video>> /\ ViewKey[x] = <<entry.key, entry.video>>
    BY <1>2, <2>1 DEF ViewKey
  <2> HIDE DEF x
  <2> QED BY <2>2, <2>3
<1> HIDE DEF x
<1>6. t.progress \in Seq(Progress) /\ Once(t.progress, ViewKey)
  BY <1>2, <1>3, <1>4, <1>5, OnceAppend, AppendAt
<1>7. ASSUME MetadataKept(s), entry.metadata \in {entry.key, NoMetadata}
      PROVE  MetadataKept(t)
  <2> DEFINE Q == t.progress
  <2> HIDE DEF t
  <2>1. /\ DOMAIN Q = 1 .. Len(rest) + 1 /\ DOMAIN rest = 1 .. Len(rest) /\ Len(rest) \in Nat
        /\ \A i \in DOMAIN rest : Q[i] = rest[i]
        /\ Q[Len(rest) + 1] = x
        /\ \A i \in DOMAIN Q : i \in DOMAIN rest \/ i = Len(rest) + 1
    BY <1>2, <1>3, <1>4, AppendAt
  <2>2. \A i \in DOMAIN rest : \E a \in DOMAIN P : rest[i] = P[a]
    <3> TAKE i \in DOMAIN rest
    <3>1. rest[i] \in Elements(P)
      BY <1>4 DEF Elements
    <3> QED BY <3>1 DEF Elements
  <2>7. \A i, j \in DOMAIN rest :
          i < j => \E a, b \in DOMAIN P : a < b /\ rest[i] = P[a] /\ rest[j] = P[b]
    <3> HIDE DEF P, out
    <3> TAKE i, j \in DOMAIN rest
    <3> HAVE i < j
    <3> QED BY <1>1, WithoutPairs
  <2> HIDE DEF rest
  <2> SUFFICES ASSUME NEW i \in DOMAIN Q, NEW j \in DOMAIN Q, i <= j,
                      Q[i].key = Q[j].key, Q[i].metadata # NoMetadata
               PROVE  Q[j].metadata = Q[j].key
    BY DEF MetadataKept
  <2>3. CASE j \in DOMAIN rest /\ i = j
    <3>1. PICK a \in DOMAIN P : rest[i] = P[a]
      BY <2>2, <2>3
    <3>2. a <= a
      BY <1>1
    <3> QED BY <1>7, <2>1, <2>3, <3>1, <3>2 DEF MetadataKept
  <2>4. CASE j \in DOMAIN rest /\ i < j
    <3>1. i \in DOMAIN rest
      BY <2>1, <2>4
    <3>2. PICK a, b \in DOMAIN P : a < b /\ rest[i] = P[a] /\ rest[j] = P[b]
      BY <2>4, <2>7, <3>1
    <3>3. a <= b
      BY <1>1, <3>2
    <3> QED BY <1>7, <2>1, <2>4, <3>1, <3>2, <3>3 DEF MetadataKept
  <2>5. CASE i = Len(rest) + 1 /\ j = Len(rest) + 1
    BY <1>2, <2>1, <2>5
  <2>6. CASE i \in DOMAIN rest /\ j = Len(rest) + 1
    <3>1. PICK a \in DOMAIN P : rest[i] = P[a]
      BY <2>2, <2>6
    <3>2. P[a].key = entry.key /\ P[a].metadata # NoMetadata
      BY <1>2, <2>1, <2>6, <3>1
    <3>3. KnownMetadata(P, entry.key, TRUE) = entry.key
      BY <1>7, <3>2, NewestKnown
    <3>4. x.metadata = entry.key
      BY <1>2, <1>7, <3>3 DEF Checked
    <3> QED BY <1>2, <2>1, <2>6, <3>4
  <2> QED BY <2>1, <2>3, <2>4, <2>5, <2>6
<1> QED BY <1>6, <1>7

\* A command leaves a snapshot, with one entry of each key, and the metadata.
LEMMA ContentsKept ==
  ASSUME NEW s \in Snapshot, OneEach(s), NEW k \in Command, Accepts(k, s)
  PROVE  LET t == Successor(k, s)
         IN  /\ t \in Snapshot /\ OneEach(t)
             /\ MetadataKept(s) /\ OwnMetadata(k) => MetadataKept(t)
             /\ k.op = "reorder" => Elements(t.addons) = Elements(s.addons)
<1> DEFINE t == Successor(k, s)
           u == Change(k, s)
           Kept(v) == /\ v \in Snapshot /\ OneEach(v)
                      /\ MetadataKept(s) /\ OwnMetadata(k) => MetadataKept(v)
                      /\ k.op = "reorder" => Elements(v.addons) = Elements(s.addons)
<1>1. /\ s.addons \in Seq(Installation) /\ s.library \in Seq(LibraryEntry)
      /\ s.progress \in Seq(Progress) /\ s.hidden \in Seq(ItemKeys)
      /\ Once(s.addons, IdOf) /\ Once(s.library, EntryKey)
      /\ Once(s.progress, ViewKey) /\ Once(s.hidden, TitleKey)
  BY DEF Snapshot, OneEach
<1>2. ASSUME NEW list \in Seq(Installation), Once(list, IdOf), u = [s EXCEPT !.addons = list],
             k.op = "reorder" => Elements(list) = Elements(s.addons)
      PROVE  Kept(u)
  <2>1. u \in Snapshot /\ u.addons = list /\ u.library = s.library
          /\ u.progress = s.progress /\ u.hidden = s.hidden
    BY <1>2 DEF Snapshot
  <2> HIDE DEF u
  <2> QED BY <1>1, <1>2, <2>1 DEF OneEach, MetadataKept
<1>3. ASSUME NEW list \in Seq(LibraryEntry), Once(list, EntryKey), u = [s EXCEPT !.library = list],
             k.op # "reorder"
      PROVE  Kept(u)
  <2>1. u \in Snapshot /\ u.addons = s.addons /\ u.library = list
          /\ u.progress = s.progress /\ u.hidden = s.hidden
    BY <1>3 DEF Snapshot
  <2> HIDE DEF u
  <2> QED BY <1>1, <1>3, <2>1 DEF OneEach, MetadataKept
<1>4. ASSUME NEW list \in Seq(ItemKeys), Once(list, TitleKey), u = [s EXCEPT !.hidden = list],
             k.op # "reorder"
      PROVE  Kept(u)
  <2>1. u \in Snapshot /\ u.addons = s.addons /\ u.library = s.library
          /\ u.progress = s.progress /\ u.hidden = list
    BY <1>4 DEF Snapshot
  <2> HIDE DEF u
  <2> QED BY <1>1, <1>4, <2>1 DEF OneEach, MetadataKept
<1>5. Kept(u)
  <2>1. CASE k.op = "install"
    <3>1. k.id \in InstallationIds /\ k.url \in ManifestUrls /\ k.id \notin InstalledIds(s)
      BY <2>1 DEF Command, Accepts
    <3> DEFINE list == Install(s, k.id, k.url).addons
    <3>2. list \in Seq(Installation) /\ Once(list, IdOf)
      BY <1>1, <3>1, InstallKeeps
    <3>3. u = [s EXCEPT !.addons = list]
      BY <2>1 DEF Change, Install, Snapshot
    <3> HIDE DEF list, u
    <3> QED BY <1>2, <2>1, <3>2, <3>3
  <2>2. CASE k.op = "configure_addon"
    <3>1. k.id \in InstallationIds /\ k.url \in ManifestUrls
      BY <2>2 DEF Command
    <3> DEFINE list == ConfigureAddon(s, k.id, k.url).addons
    <3>2. list \in Seq(Installation) /\ Once(list, IdOf)
      BY <1>1, <3>1, AdjustKeeps
    <3>3. u = [s EXCEPT !.addons = list]
      BY <2>2 DEF Change, ConfigureAddon, Snapshot
    <3> HIDE DEF list, u
    <3> QED BY <1>2, <2>2, <3>2, <3>3
  <2>3. CASE k.op = "set_enabled"
    <3>1. k.id \in InstallationIds /\ k.enabled \in BOOLEAN
      BY <2>3 DEF Command
    <3> DEFINE list == SetEnabled(s, k.id, k.enabled).addons
    <3>2. list \in Seq(Installation) /\ Once(list, IdOf)
      BY <1>1, <3>1, AdjustKeeps
    <3>3. u = [s EXCEPT !.addons = list]
      BY <2>3 DEF Change, SetEnabled, Snapshot
    <3> HIDE DEF list, u
    <3> QED BY <1>2, <2>3, <3>2, <3>3
  <2>4. CASE k.op = "remove_addon"
    <3> DEFINE list == Without(s.addons, {a \in Elements(s.addons) : a.id = k.id})
    <3>2. list \in Seq(Installation) /\ Once(list, IdOf)
      BY <1>1, WithoutEmbeds, OnceWithout
    <3>3. u = [s EXCEPT !.addons = list]
      BY <2>4 DEF Change, RemoveAddon, Snapshot
    <3> HIDE DEF list, u
    <3> QED BY <1>2, <2>4, <3>2, <3>3
  <2>5. CASE k.op = "reorder"
    <3>1. k.ids \in Seq(InstallationIds) /\ IsOrderOf(k.ids, s)
      BY <2>5 DEF Command, Accepts
    <3> DEFINE list == Reorder(s, k.ids).addons
    <3>2. list \in Seq(Installation) /\ Once(list, IdOf) /\ Elements(list) = Elements(s.addons)
      BY <1>1, <3>1, ReorderKeeps
    <3>3. u = [s EXCEPT !.addons = list]
      BY <2>5 DEF Change, Reorder, Snapshot
    <3> HIDE DEF list, u
    <3> QED BY <1>2, <2>5, <3>2, <3>3
  <2>6. CASE k.op = "save_item"
    <3>1. k.entry \in LibraryEntry
      BY <2>6 DEF Command
    <3> DEFINE list == SaveItem(s, k.entry).library
    <3>2. list \in Seq(LibraryEntry) /\ Once(list, EntryKey)
      BY <1>1, <3>1, SaveItemKeeps
    <3>3. u = [s EXCEPT !.library = list]
      BY <2>6 DEF Change, SaveItem, Snapshot
    <3> HIDE DEF list, u
    <3> QED BY <1>3, <2>6, <3>2, <3>3
  <2>7. CASE k.op = "remove_item"
    <3> DEFINE list == Without(s.library, OfKey(s.library, k.key))
    <3>2. list \in Seq(LibraryEntry) /\ Once(list, EntryKey)
      BY <1>1, WithoutEmbeds, OnceWithout
    <3>3. u = [s EXCEPT !.library = list]
      BY <2>7 DEF Change, RemoveItem, Snapshot
    <3> HIDE DEF list, u
    <3> QED BY <1>3, <2>7, <3>2, <3>3
  <2>8. CASE k.op = "set_continue_hidden"
    <3>1. k.key \in ItemKeys /\ k.hidden \in BOOLEAN
      BY <2>8 DEF Command
    <3> DEFINE list == SetContinueHidden(s, k.key, k.hidden).hidden
    <3>2. list \in Seq(ItemKeys) /\ Once(list, TitleKey)
      BY <1>1, <3>1, SetContinueHiddenKeeps
    <3>3. u = [s EXCEPT !.hidden = list]
      BY <2>8 DEF Change, SetContinueHidden, Snapshot
    <3> HIDE DEF list, u
    <3> QED BY <1>4, <2>8, <3>2, <3>3
  <2>9. CASE k.op = "set_playback_preferences"
    <3>1. k.preferences \in Preferences
      BY <2>9 DEF Command
    <3>2. u = [s EXCEPT !.preferences = k.preferences]
      BY <2>9 DEF Change
    <3> HIDE DEF u
    <3>3. u \in Snapshot /\ u.addons = s.addons /\ u.library = s.library
            /\ u.progress = s.progress /\ u.hidden = s.hidden
      BY <3>1, <3>2 DEF Snapshot
    <3> QED BY <1>1, <2>9, <3>3 DEF OneEach, MetadataKept
  <2>10. CASE k.op = "record_progress"
    <3>1. k.entry \in Progress
      BY <2>10 DEF Command
    <3> DEFINE list == RecordProgress(s, k.entry).progress
    <3>2. u = RecordProgress(s, k.entry)
      BY <2>10 DEF Change
    <3>3. u = [s EXCEPT !.progress = list]
      BY <3>2 DEF RecordProgress, Snapshot
    <3>4. /\ u.progress = list /\ list \in Seq(Progress) /\ Once(list, ViewKey)
          /\ MetadataKept(s) /\ OwnMetadata(k) => MetadataKept(u)
      BY <1>1, <2>10, <3>1, <3>2, RecordProgressKeeps DEF OwnMetadata
    <3> HIDE DEF list, u
    <3>5. u \in Snapshot /\ u.addons = s.addons /\ u.library = s.library /\ u.hidden = s.hidden
      BY <3>3, <3>4 DEF Snapshot
    <3> QED BY <1>1, <2>10, <3>4, <3>5 DEF OneEach
  <2>11. CASE k.op = "mark_seeded"
    <3>2. u = [s EXCEPT !.seeded = TRUE]
      BY <2>11 DEF Change
    <3> HIDE DEF u
    <3>3. u \in Snapshot /\ u.addons = s.addons /\ u.library = s.library
            /\ u.progress = s.progress /\ u.hidden = s.hidden
      BY <3>2 DEF Snapshot
    <3> QED BY <1>1, <2>11, <3>3 DEF OneEach, MetadataKept
  <2>12. k.op \in {"install", "configure_addon", "set_enabled", "remove_addon",
                   "reorder", "save_item", "remove_item", "set_continue_hidden",
                   "set_playback_preferences", "record_progress", "mark_seeded"}
    BY DEF Command
  <2> HIDE DEF Kept
  <2> QED
    BY <2>1, <2>2, <2>3, <2>4, <2>5, <2>6, <2>7, <2>8, <2>9, <2>10, <2>11, <2>12
<1>6. t = [u EXCEPT !.revision = s.revision + 1] /\ s.revision + 1 \in Nat
  BY DEF Successor, Snapshot
<1> HIDE DEF t, u
<1>7. t \in Snapshot /\ t.addons = u.addons /\ t.library = u.library
        /\ t.progress = u.progress /\ t.hidden = u.hidden
  BY <1>5, <1>6 DEF Snapshot
<1> QED BY <1>5, <1>7 DEF OneEach, MetadataKept, t

-----------------------------------------------------------------------------
(* The contents of the stored snapshot *)

\* The stored snapshot changes by one command of one caller, which it accepts.
LEMMA StoredChange ==
  ASSUME Shape, ReadsAreCurrentOrLose, [Next]_vars, stored' # stored
  PROVE  \E c \in Callers :
           /\ cmd[c] \in Commands /\ Accepts(cmd[c], stored)
           /\ stored' = Successor(cmd[c], stored)
           /\ \A d \in Callers : pc'[d] # pc[d] => d = c
<1>1. ASSUME NEW c \in Callers, pc[c] \in {"swap", "detached"}, Commit(c), NEW to, Goto(c, to)
      PROVE  /\ cmd[c] \in Commands /\ Accepts(cmd[c], stored)
             /\ stored' = Successor(cmd[c], stored)
             /\ \A d \in Callers : pc'[d] # pc[d] => d = c
  BY <1>1 DEF Commit, Swappable, Goto, ReadsAreCurrentOrLose, Shape, CallerShape
<1>2. ASSUME NEW c \in Callers, Swap(c) \/ Detached(c) PROVE Commit(c) /\ pc[c] \in {"swap", "detached"}
  BY <1>2 DEF Swap, Detached
<1>3. \E c \in Callers : Swap(c) \/ Detached(c)
  BY DEF Next, Step, vars, streamVars, callerVars, Begin, Fetch, Load, Conflict, SwapFails, Notify,
         Abandon, Subscribe, InitialSnapshot, Deliver, Hangup, Overflowed, CloseStream
<1>4. PICK c \in Callers : Swap(c) \/ Detached(c)
  BY <1>3
<1> QED BY <1>1, <1>2, <1>4 DEF Swap, Detached, Finish

LEMMA EmptyContents == EmptySnapshot \in Snapshot /\ OneEach(EmptySnapshot) /\ MetadataKept(EmptySnapshot)
<1>1. DefaultPreferences \in Preferences
  BY PreferencesAssumption
<1>2. EmptySnapshot \in Snapshot
  BY <1>1 DEF EmptySnapshot, Snapshot
<1>3. DOMAIN EmptySnapshot.addons = {} /\ DOMAIN EmptySnapshot.library = {}
        /\ DOMAIN EmptySnapshot.progress = {} /\ DOMAIN EmptySnapshot.hidden = {}
  BY DEF EmptySnapshot
<1> QED BY <1>2, <1>3 DEF OneEach, Once, MetadataKept

Contents == stored \in Snapshot /\ OneEach(stored)

LEMMA ContentsStep ==
  ASSUME Shape, ReadsAreCurrentOrLose, Contents, [Next]_vars
  PROVE  Contents'
<1>1. CASE stored' = stored
  BY <1>1 DEF Contents
<1>2. CASE stored' # stored
  BY <1>2, StoredChange, ContentsKept, BoundsAssumption DEF Contents
<1> QED BY <1>1, <1>2

LEMMA ContentsInvariant == Spec => []Contents
<1>1. Init => Contents
  BY EmptyContents DEF Init, Contents
<1> QED BY <1>1, ContentsStep, ShapeInvariant, ReadsCurrent, PTL DEF Spec

ReadType == read \in [Callers -> Snapshot]

LEMMA ReadTypeStep ==
  ASSUME Shape, stored \in Snapshot, read \in [Callers -> Snapshot], [Next]_vars
  PROVE  read' \in [Callers -> Snapshot]
<1>1. ASSUME NEW c \in Callers, NEW o, Finish(c, o)
      PROVE  read' \in [Callers -> Snapshot]
  BY <1>1, EmptyContents DEF Finish
<1>2. ASSUME NEW c \in Callers, Load(c)
      PROVE  read' \in [Callers -> Snapshot]
  BY <1>1, <1>2 DEF Load
<1>3. ASSUME NEW c \in Callers, Conflict(c)
      PROVE  read' \in [Callers -> Snapshot]
  BY <1>1, <1>3, EmptyContents DEF Conflict
<1>4. ASSUME NEW c \in Callers,
             \/ \E k \in Commands : Begin(c, k)
             \/ Fetch(c) \/ Swap(c) \/ SwapFails(c) \/ Notify(c) \/ Abandon(c) \/ Detached(c)
      PROVE  read' \in [Callers -> Snapshot]
  BY <1>1, <1>4 DEF Begin, Fetch, Swap, SwapFails, Notify, Abandon, Detached
<1>5. ASSUME NEW s \in Streams,
             Subscribe(s) \/ InitialSnapshot(s) \/ Deliver(s) \/ Hangup(s) \/ Overflowed(s)
      PROVE  read' \in [Callers -> Snapshot]
  BY <1>5 DEF Subscribe, InitialSnapshot, Deliver, Hangup, Overflowed, CloseStream, callerVars
<1>6. CASE UNCHANGED vars
  BY <1>6 DEF vars, callerVars
<1> QED BY <1>2, <1>3, <1>4, <1>5, <1>6 DEF Next, Step

\* Every variable keeps its type, the contents of the snapshots included: no
\* closure leaves anything but a snapshot.
THEOREM TypeCorrect == Spec => []TypeOK
<1>1. Init => ReadType
  BY EmptyContents DEF Init, ReadType
<1>2. Shape /\ Contents /\ ReadType /\ [Next]_vars => ReadType'
  BY ReadTypeStep DEF Contents, ReadType
<1>3. Spec => []ReadType
  BY <1>1, <1>2, ShapeInvariant, ContentsInvariant, PTL DEF Spec
<1>4. ControlTypeOK /\ Contents /\ ReadType => TypeOK
  BY DEF TypeOK, Contents, ReadType
<1> QED BY <1>3, <1>4, ControlTypeCorrect, ContentsInvariant, PTL

LEMMA OneEachIsOneEntryEach == Contents => OneEntryEach
<1> SUFFICES ASSUME Contents PROVE OneEntryEach
  OBVIOUS
<1>1. /\ stored.addons \in Seq(Installation) /\ stored.library \in Seq(LibraryEntry)
      /\ stored.progress \in Seq(Progress) /\ stored.hidden \in Seq(ItemKeys)
      /\ Once(stored.addons, IdOf) /\ Once(stored.library, EntryKey)
      /\ Once(stored.progress, ViewKey) /\ Once(stored.hidden, TitleKey)
  BY DEF Contents, Snapshot, OneEach
<1>2. \A i, j \in DOMAIN stored.addons : stored.addons[i].id = stored.addons[j].id => i = j
  BY <1>1, OnceEach DEF IdOf
<1>3. \A i, j \in DOMAIN stored.library : stored.library[i].key = stored.library[j].key => i = j
  BY <1>1, OnceEach DEF EntryKey
<1>4. \A i, j \in DOMAIN stored.progress :
        stored.progress[i].key = stored.progress[j].key
          /\ stored.progress[i].video = stored.progress[j].video => i = j
  <2>1. \A i \in DOMAIN stored.progress :
          ViewKey[stored.progress[i]] = <<stored.progress[i].key, stored.progress[i].video>>
    BY <1>1 DEF ViewKey
  <2>2. \A i, j \in DOMAIN stored.progress :
          ViewKey[stored.progress[i]] = ViewKey[stored.progress[j]] => i = j
    <3> HIDE DEF ViewKey
    <3> QED BY <1>1, OnceEach
  <2> QED BY <2>1, <2>2
<1>5. \A i, j \in DOMAIN stored.hidden : stored.hidden[i] = stored.hidden[j] => i = j
  BY <1>1, OnceEach DEF TitleKey
<1> QED BY <1>2, <1>3, <1>4, <1>5 DEF OneEntryEach

\* An installation, a library item, an episode's progress, a hidden title: each
\* has one entry, whatever commands interleave.
THEOREM OneEntryOfEach == Spec => []OneEntryEach
  BY ContentsInvariant, OneEachIsOneEntryEach, PTL

\* When reports that bring metadata bring their own title's, a title keeps the
\* metadata that was reported once.  A report that brings another title's is
\* stored without any, and hides what an older entry of its title has.
THEOREM CollectionsStayConsistent ==
  ASSUME \A k \in Commands : OwnMetadata(k)
  PROVE  Spec => []CollectionsConsistent
<1>1. Init => MetadataKept(stored)
  BY EmptyContents DEF Init
<1>2. ASSUME Shape, ReadsAreCurrentOrLose, Contents, MetadataKept(stored), [Next]_vars
      PROVE  MetadataKept(stored')
  <2>1. CASE stored' = stored
    BY <1>2, <2>1 DEF MetadataKept
  <2>2. CASE stored' # stored
    BY <1>2, <2>2, StoredChange, ContentsKept, BoundsAssumption DEF Contents
  <2> QED BY <2>1, <2>2
<1>3. MetadataKept(stored)' <=> MetadataKept(stored')
  BY DEF MetadataKept
<1>4. Shape /\ ReadsAreCurrentOrLose /\ Contents /\ MetadataKept(stored) /\ [Next]_vars
        => MetadataKept(stored)'
  BY <1>2, <1>3
<1>5. Spec => []MetadataKept(stored)
  BY <1>1, <1>4, ShapeInvariant, ReadsCurrent, ContentsInvariant, PTL DEF Spec
<1>6. Contents /\ MetadataKept(stored) => CollectionsConsistent
  <2> SUFFICES ASSUME Contents, MetadataKept(stored), NEW i \in DOMAIN stored.progress,
                      stored.progress[i].metadata # NoMetadata
               PROVE  KnownMetadata(stored.progress, stored.progress[i].key, TRUE) # NoMetadata
    BY OneEachIsOneEntryEach DEF CollectionsConsistent
  <2>1. KnownMetadata(stored.progress, stored.progress[i].key, TRUE) = stored.progress[i].key
    BY NewestKnown DEF Contents
  <2>2. i <= i
    BY DEF Contents, Snapshot
  <2>3. stored.progress[i].metadata = stored.progress[i].key
    BY <2>2 DEF MetadataKept
  <2> QED BY <2>1, <2>3
<1> QED BY <1>5, <1>6, ContentsInvariant, PTL

\* A new order neither loses nor revives an installation.
THEOREM ReordersKeepAddons == Spec => ReorderKeepsAddons
<1>1. ASSUME Shape, ReadsAreCurrentOrLose, Contents, [Next]_vars, NEW c \in Callers,
             pc'[c] # pc[c], cmd[c].op = "reorder", stored' # stored
      PROVE  Elements(stored'.addons) = Elements(stored.addons)
  BY <1>1, StoredChange, ContentsKept, BoundsAssumption DEF Contents
<1>2. Shape /\ ReadsAreCurrentOrLose /\ Contents /\ [Next]_vars
        => [\A c \in Callers :
              (/\ pc[c] \in {"swap", "detached"} /\ pc'[c] # pc[c]
               /\ cmd[c].op = "reorder" /\ stored' # stored)
                => Elements(stored'.addons) = Elements(stored.addons)]_vars
  BY <1>1
<1> QED BY <1>2, ShapeInvariant, ReadsCurrent, ContentsInvariant, PTL DEF Spec, ReorderKeepsAddons

=============================================================================
