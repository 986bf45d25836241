------------------------------ MODULE CoreState ------------------------------
(***************************************************************************)
(* Core::mutate and Core::subscribe of crates/madari-core/src/lib.rs, over  *)
(* the SQLite store of crates/madari-native/src/lib.rs and the event stream *)
(* of apps/server/src/lib.rs.                                               *)
(*                                                                         *)
(* A caller runs one command at a time.  Every await of the code is a step  *)
(* boundary: fetching a manifest, loading the snapshot, the compare and     *)
(* swap.  The notification follows the swap outside any lock, so two        *)
(* callers may notify in the other order than they committed.  A caller     *)
(* whose future is dropped while the blocking write runs leaves that write  *)
(* behind ("detached"): it commits, or not, and nobody is notified.         *)
(***************************************************************************)
EXTENDS CoreCommands

CONSTANTS
  Callers,      \* tasks that call the core
  Streams,      \* event streams (GET /v1/events)
  Commands,     \* the commands callers may send
  NoCommand,    \* the command of a task that is in no call
  MaxRevision,  \* i64::MAX: the largest revision the store accepts
  MaxTries,     \* 8: the attempts of mutate
  Buffer        \* 32: the buffer of a subscriber's channel

ASSUME BoundsAssumption ==
  /\ Commands \subseteq Command
  /\ NoCommand \notin Commands
  /\ MaxRevision \in Nat
  /\ MaxTries \in Nat \ {0}
  /\ Buffer \in Nat

VARIABLES
  stored,    \* the row of core_state: the persisted snapshot
  pc,        \* where each caller is
  cmd,       \* the command of each caller
  read,      \* the snapshot its current attempt loaded
  tries,     \* the attempts that lost the race so far
  outcome,   \* what its last call returned, until the next one begins
  since,     \* history: the stored revision when its call began
  stage,     \* each stream: "off", "subscribed" or "streaming"
  linked,    \* its sender is in Core.subscribers
  queue,     \* the revisions in its channel
  floor,     \* the revision of its initial snapshot
  seen,      \* history: the revisions it has passed on
  silent     \* history: revisions committed by callers that were gone

callerVars == <<pc, cmd, read, tries, outcome, since>>
streamVars == <<stage, linked, queue, floor, seen>>
vars == <<stored, callerVars, streamVars, silent>>

Locations == {"idle", "fetch", "load", "swap", "notify", "detached"}

Outcomes == {"none", "ok", "rejected", "contention", "storage", "network", "unknown"}

Init ==
  /\ stored = EmptySnapshot
  /\ pc = [c \in Callers |-> "idle"]
  /\ cmd = [c \in Callers |-> NoCommand]
  /\ read = [c \in Callers |-> EmptySnapshot]
  /\ tries = [c \in Callers |-> 0]
  /\ outcome = [c \in Callers |-> "none"]
  /\ since = [c \in Callers |-> 0]
  /\ stage = [s \in Streams |-> "off"]
  /\ linked = [s \in Streams |-> FALSE]
  /\ queue = [s \in Streams |-> << >>]
  /\ floor = [s \in Streams |-> 0]
  /\ seen = [s \in Streams |-> {}]
  /\ silent = {}

-----------------------------------------------------------------------------
(* The store: one UPDATE ... WHERE revision = expected. *)

\* Fault: the UPDATE does not check the revision.
SwappableUnchecked(expected) == TRUE

Swappable(expected) == stored.revision = expected

Storable(s) == s.revision < MaxRevision

-----------------------------------------------------------------------------
(* Callers *)

Goto(c, to) == pc' = [pc EXCEPT ![c] = to]

\* The call of c returns o; its locals go.
Finish(c, o) ==
  /\ Goto(c, "idle")
  /\ cmd' = [cmd EXCEPT ![c] = NoCommand]
  /\ read' = [read EXCEPT ![c] = EmptySnapshot]
  /\ tries' = [tries EXCEPT ![c] = 0]
  /\ since' = [since EXCEPT ![c] = 0]
  /\ outcome' = [outcome EXCEPT ![c] = o]

Begin(c, k) ==
  /\ pc[c] = "idle"
  /\ IF WellFormed(k)
     THEN /\ Goto(c, IF NeedsManifest(k) THEN "fetch" ELSE "load")
          /\ cmd' = [cmd EXCEPT ![c] = k]
          /\ since' = [since EXCEPT ![c] = stored.revision]
          /\ outcome' = [outcome EXCEPT ![c] = "none"]
          /\ UNCHANGED <<read, tries>>
     ELSE Finish(c, "rejected")
  /\ UNCHANGED <<stored, streamVars, silent>>

\* Http::get_json and the manifest's validation.
Fetch(c) ==
  /\ pc[c] = "fetch"
  /\ \/ Goto(c, "load") /\ UNCHANGED <<cmd, read, tries, outcome, since>>
     \/ Finish(c, "network")
  /\ UNCHANGED <<stored, streamVars, silent>>

\* Storage::load, then the closure on the loaded copy.
Load(c) ==
  /\ pc[c] = "load"
  /\ \/ /\ Accepts(cmd[c], stored)
        /\ Goto(c, "swap")
        /\ read' = [read EXCEPT ![c] = stored]
        /\ UNCHANGED <<cmd, tries, outcome, since>>
     \/ ~Accepts(cmd[c], stored) /\ Finish(c, "rejected")
     \/ Finish(c, "storage")
  /\ UNCHANGED <<stored, streamVars, silent>>

\* Storage::compare_and_swap succeeds.
Commit(c) ==
  /\ Swappable(read[c].revision)
  /\ Storable(read[c])
  /\ stored' = Successor(cmd[c], read[c])

Swap(c) ==
  /\ pc[c] = "swap"
  /\ Commit(c)
  /\ Goto(c, "notify")
  /\ UNCHANGED <<cmd, read, tries, outcome, since, streamVars, silent>>

TriesLeft(c) == tries[c] + 1 < MaxTries

\* Fault: the attempt is repeated with the snapshot that lost.
ConflictKeepsSnapshot(c) ==
  /\ pc[c] = "swap"
  /\ Storable(read[c])
  /\ ~Swappable(read[c].revision)
  /\ IF TriesLeft(c)
     THEN /\ tries' = [tries EXCEPT ![c] = @ + 1]
          /\ UNCHANGED <<pc, read, cmd, outcome, since>>
     ELSE Finish(c, "contention")
  /\ UNCHANGED <<stored, streamVars, silent>>

\* Another write came first: load again, MaxTries attempts in all.
Conflict(c) ==
  /\ pc[c] = "swap"
  /\ Storable(read[c])
  /\ ~Swappable(read[c].revision)
  /\ IF TriesLeft(c)
     THEN /\ Goto(c, "load")
          /\ tries' = [tries EXCEPT ![c] = @ + 1]
          /\ read' = [read EXCEPT ![c] = EmptySnapshot]
          /\ UNCHANGED <<cmd, outcome, since>>
     ELSE Finish(c, "contention")
  /\ UNCHANGED <<stored, streamVars, silent>>

\* Any other error of the store, the end of the revisions included.
SwapFails(c) ==
  /\ pc[c] = "swap"
  /\ Finish(c, "storage")
  /\ UNCHANGED <<stored, streamVars, silent>>

\* A futures channel holds its buffer and one message of the sender.
HasRoom(s) == Len(queue[s]) < Buffer + 1

\* Fault: a subscriber that missed a message stays subscribed.
StaysLinkedAlways(s) == linked[s]

StaysLinked(s) == linked[s] /\ HasRoom(s)

\* try_send to every subscriber; one whose channel is full is dropped.
Notify(c) ==
  LET revision == read[c].revision + 1
  IN  /\ pc[c] = "notify"
      /\ queue' = [s \in Streams |-> IF linked[s] /\ HasRoom(s)
                                     THEN Append(queue[s], revision) ELSE queue[s]]
      /\ linked' = [s \in Streams |-> StaysLinked(s)]
      /\ Finish(c, "ok")
      /\ UNCHANGED <<stored, stage, floor, seen, silent>>

\* The caller's future is dropped (its client disconnected).  A write the
\* blocking pool already has goes on; a commit it has made stays unannounced.
Abandon(c) ==
  /\ \/ pc[c] \in {"fetch", "load"} /\ Finish(c, "unknown") /\ UNCHANGED silent
     \/ /\ pc[c] = "swap"
        /\ Goto(c, "detached")
        /\ UNCHANGED <<cmd, read, tries, outcome, since, silent>>
     \/ /\ pc[c] = "notify"
        /\ Finish(c, "unknown")
        /\ silent' = silent \union {read[c].revision + 1}
  /\ UNCHANGED <<stored, streamVars>>

\* The write left behind runs: it commits unannounced, or loses or fails.
Detached(c) ==
  /\ pc[c] = "detached"
  /\ \/ Commit(c) /\ silent' = silent \union {read[c].revision + 1}
     \/ UNCHANGED <<stored, silent>>
  /\ Finish(c, "unknown")
  /\ UNCHANGED streamVars

-----------------------------------------------------------------------------
(* Event streams: subscribe, snapshot, then the revisions after it. *)

Subscribe(s) ==
  /\ stage[s] = "off"
  /\ stage' = [stage EXCEPT ![s] = "subscribed"]
  /\ linked' = [linked EXCEPT ![s] = TRUE]
  /\ queue' = [queue EXCEPT ![s] = << >>]
  /\ seen' = [seen EXCEPT ![s] = {}]
  /\ UNCHANGED <<stored, callerVars, floor, silent>>

\* The stream is closed: the request failed, the client left, or the channel
\* of a dropped subscriber ran dry.
CloseStream(s) ==
  /\ stage' = [stage EXCEPT ![s] = "off"]
  /\ linked' = [linked EXCEPT ![s] = FALSE]
  /\ queue' = [queue EXCEPT ![s] = << >>]
  /\ seen' = [seen EXCEPT ![s] = {}]
  /\ floor' = [floor EXCEPT ![s] = 0]
  /\ UNCHANGED <<stored, callerVars, silent>>

InitialSnapshot(s) ==
  /\ stage[s] = "subscribed"
  /\ stage' = [stage EXCEPT ![s] = "streaming"]
  /\ floor' = [floor EXCEPT ![s] = stored.revision]
  /\ UNCHANGED <<stored, callerVars, linked, queue, seen, silent>>

\* Revisions the initial snapshot already shows are filtered out.
Deliver(s) ==
  /\ stage[s] = "streaming"
  /\ queue[s] # << >>
  /\ queue' = [queue EXCEPT ![s] = Tail(@)]
  /\ seen' = [seen EXCEPT ![s] = IF Head(queue[s]) > floor[s]
                                 THEN @ \union {Head(queue[s])} ELSE @]
  /\ UNCHANGED <<stored, callerVars, stage, linked, floor, silent>>

Hangup(s) == stage[s] # "off" /\ CloseStream(s)

\* Fault: the stream of a dropped subscriber stays open.
OverflowedUnnoticed(s) == FALSE /\ UNCHANGED vars

Overflowed(s) ==
  /\ stage[s] = "streaming"
  /\ ~linked[s]
  /\ queue[s] = << >>
  /\ CloseStream(s)

-----------------------------------------------------------------------------

Step(c) ==
  \/ Fetch(c) \/ Load(c) \/ Swap(c) \/ Conflict(c) \/ SwapFails(c)
  \/ Notify(c) \/ Detached(c)

Next ==
  \/ \E c \in Callers : (\E k \in Commands : Begin(c, k)) \/ Step(c) \/ Abandon(c)
  \/ \E s \in Streams : \/ Subscribe(s) \/ InitialSnapshot(s) \/ Deliver(s)
                        \/ Hangup(s) \/ Overflowed(s)

Spec == Init /\ [][Next]_vars

\* What a call in progress does of itself: a store that fails without cause
\* is not something to count on.
GoesOn(c) ==
  \/ Fetch(c) \/ Load(c) \/ Swap(c) \/ Conflict(c)
  \/ ~Storable(read[c]) /\ SwapFails(c)
  \/ Notify(c) \/ Detached(c)

\* The runtime polls every task it has woken: a call in progress goes on, a
\* stream takes what its channel holds and ends when its sender is gone.
Fairness ==
  /\ \A c \in Callers : WF_vars(GoesOn(c))
  /\ \A s \in Streams : WF_vars(InitialSnapshot(s)) /\ WF_vars(Deliver(s))
                        /\ WF_vars(Overflowed(s))

FairSpec == Spec /\ Fairness

-----------------------------------------------------------------------------
(* Properties *)

\* The control state and the counters.
ControlTypeOK ==
  /\ stored.revision \in Nat
  /\ pc \in [Callers -> Locations]
  /\ cmd \in [Callers -> Commands \union {NoCommand}]
  /\ \A c \in Callers : read[c].revision \in Nat
  /\ tries \in [Callers -> 0 .. MaxTries - 1]
  /\ outcome \in [Callers -> Outcomes]
  /\ since \in [Callers -> Nat]
  /\ stage \in [Streams -> {"off", "subscribed", "streaming"}]
  /\ linked \in [Streams -> BOOLEAN]
  /\ queue \in [Streams -> Seq(Nat)]
  /\ floor \in [Streams -> Nat]
  /\ seen \in [Streams -> SUBSET Nat]
  /\ silent \in SUBSET Nat

\* Every variable has its type, the contents of the snapshots included.
TypeOK ==
  /\ ControlTypeOK
  /\ stored \in Snapshot
  /\ read \in [Callers -> Snapshot]

\* Every call of mutate is one atomic command: it is applied to the snapshot of
\* one instant of the call, at most once, and not at all when it reports an
\* error.  No interleaving of loads, swaps and retries loses a write.
phaseBar ==
  [c \in Callers |-> CASE pc[c] = "idle" -> "idle"
                       [] pc[c] \in {"fetch", "load", "swap"} -> "open"
                       [] pc[c] = "notify" -> "done"
                       [] pc[c] = "detached" -> "orphaned"]

outcomeBar ==
  [c \in Callers |-> IF outcome[c] \in {"contention", "storage", "network"}
                     THEN "failed" ELSE outcome[c]]

Atomic == INSTANCE AtomicState WITH phase <- phaseBar, outcome <- outcomeBar

ImplementsAtomicState == Atomic!AtomicSpec

\* What makes it so: a snapshot that can still be swapped in was computed from
\* the stored one, by a command the stored one accepts.
ReadsAreCurrentOrLose ==
  \A c \in Callers : pc[c] \in {"swap", "detached"} =>
    /\ Accepts(cmd[c], read[c])
    /\ read[c].revision <= stored.revision
    /\ read[c].revision = stored.revision => read[c] = stored

\* "state changed; retry command" is only reported to a caller that lost to as
\* many commits of others as mutate makes attempts.
ContentionIsReal ==
  [][\A c \in Callers :
       (pc[c] # "idle" /\ pc'[c] = "idle" /\ outcome'[c] = "contention")
         => stored.revision >= since[c] + MaxTries]_vars

\* A stream misses nothing silently: while its sender is subscribed, every
\* revision after its initial snapshot has been passed on, waits in its
\* channel, is about to be notified, or was committed for a caller that is gone.
AboutToNotify == {read[c].revision + 1 : c \in {d \in Callers : pc[d] = "notify"}}

NoSilentGap ==
  \A s \in Streams : (stage[s] = "streaming" /\ linked[s]) =>
    \A r \in floor[s] + 1 .. stored.revision :
      r \in seen[s] \union Elements(queue[s]) \union AboutToNotify \union silent

\* An installation has one entry, and so has an item in the library, an episode
\* in the progress list, a title among the hidden ones.
OneEntryEach ==
  LET Distinct(seq, same(_, _)) ==
        \A i, j \in DOMAIN seq : same(seq[i], seq[j]) => i = j
  IN  /\ Distinct(stored.addons, LAMBDA a, b : a.id = b.id)
      /\ Distinct(stored.library, LAMBDA a, b : a.key = b.key)
      /\ Distinct(stored.progress, LAMBDA a, b : a.key = b.key /\ a.video = b.video)
      /\ Distinct(stored.hidden, LAMBDA a, b : a = b)

\* The collections hold one entry of each key, and a title whose metadata was
\* reported once keeps it on its newest progress entry, which is the one the
\* continue-watching row shows, though later reports, of other episodes and of
\* other players, leave it out; unless a report brings another title's, which
\* record_progress drops without looking for the title's own (clients send that
\* of the title they play).
CollectionsConsistent ==
  /\ OneEntryEach
  /\ \A i \in DOMAIN stored.progress :
       stored.progress[i].metadata # NoMetadata =>
         KnownMetadata(stored.progress, stored.progress[i].key, TRUE) # NoMetadata

\* A new order neither loses nor revives an installation, whatever was
\* installed or removed since the client read the list it reordered.
ReorderKeepsAddons ==
  [][\A c \in Callers :
       (/\ pc[c] \in {"swap", "detached"} /\ pc'[c] # pc[c]
        /\ cmd[c].op = "reorder" /\ stored' # stored)
         => Elements(stored'.addons) = Elements(stored.addons)]_vars

\* A stream learns of every announced revision, from an event of that revision
\* or of a later one, or it ends, and its client takes a fresh snapshot.
Heard(s, r) == floor[s] >= r \/ \E x \in seen[s] : x >= r

StreamsCatchUp ==
  \A s \in Streams, r \in 1 .. MaxRevision :
    (stage[s] = "streaming" /\ stored.revision >= r)
      ~> (Heard(s, r) \/ r \in silent \/ stage[s] # "streaming")

=============================================================================
