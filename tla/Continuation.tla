---------------------------- MODULE Continuation ----------------------------
(***************************************************************************)
(* What of a series is watched next: the order of its episodes              *)
(* (crates/madari-core/src/episodes.rs), the viewing that the profile keeps *)
(* (progress of the snapshot), and the history imported from Trakt          *)
(* (completed_progress in trakt/data.rs, apply_trakt_history in             *)
(* profiles/trakt.rs).                                                      *)
(*                                                                         *)
(* One series; its episodes are 1, 2, ... in the order of the addon's list. *)
(***************************************************************************)
EXTENDS Lists, FiniteSets

CONSTANTS
  Episodes,    \* 1 .. n
  Numbers,     \* those there are: 10 * season + episode; season 0 holds the specials
  MaxLate,     \* bound: episodes that come out on the second day
  MaxHistory   \* bound: views reported by other devices

\* 0 is for none of them.
ASSUME ContinuationAssumption ==
  Episodes \subseteq Nat \ {0} /\ Numbers \subseteq Nat \ {0} /\ MaxHistory \in Nat

VARIABLES
  number,        \* of each episode, or Unnumbered
  released,      \* the day of each episode
  today,         \* a day
  viewed,        \* progress of this title, the latest last: [episode, completed]
  traktHistory,  \* Trakt's: the numbers watched there, the latest first
  latest,        \* history: the episode this device played last, or NoEpisode
  inOrder        \* history: only what was offered was played, to its end, on one day

continuationVars == <<number, released, today, viewed, traktHistory, latest, inOrder>>

\* None of an Option comes before every number.
Unnumbered == 0
NoEpisode == 0

ContinuationInit ==
  /\ number \in [Episodes -> Numbers \cup {Unnumbered}]
  /\ released \in [Episodes -> {1, 2}]
  /\ Cardinality({v \in Episodes : released[v] = 2}) <= MaxLate
  /\ today = 1
  /\ viewed = <<>>
  /\ traktHistory = <<>>
  /\ latest = NoEpisode
  /\ inOrder = TRUE

-----------------------------------------------------------------------------
(* The order of the episodes *)

Available(v) == released[v] <= today

Special(v) == number[v] \in 1 .. 9

\* min_by_key and max_by_key: of equals the first and the last of the list.
Earliest(eps) ==
  {v \in eps : \A u \in eps : number[v] < number[u] \/ (number[u] = number[v] /\ v <= u)}

Last(eps) ==
  {v \in eps : \A u \in eps : number[u] < number[v] \/ (number[u] = number[v] /\ u <= v)}

Regular == {v \in Episodes : number[v] # Unnumbered /\ ~Special(v) /\ Available(v)}

\* The next and the previous episode: a set of one, or of none.
NextEpisode(v) == Earliest({u \in Regular : number[v] # Unnumbered /\ number[v] < number[u]})

PreviousEpisode(v) == Last({u \in Regular : number[v] # Unnumbered /\ number[u] < number[v]})

\* Where to begin: also with an episode that has no number.
FirstEpisode == Earliest({v \in Episodes : ~Special(v) /\ Available(v)})

ContinueEpisode ==
  LET last == viewed[Len(viewed)]
  IN IF viewed = <<>> THEN FirstEpisode
     ELSE IF last.completed THEN NextEpisode(last.episode)
     ELSE IF Available(last.episode) THEN {last.episode}
     ELSE FirstEpisode

-----------------------------------------------------------------------------
(* Viewing *)

Views(v) == [episode : {v}, completed : BOOLEAN]

\* report_progress: the episode's entry moves to the end.
Reported(v, completed) ==
  Append(Without(viewed, Views(v)), [episode |-> v, completed |-> completed])

\* What is offered is played; the user may stop before its end.
Continue(completed) ==
  /\ \E v \in ContinueEpisode : viewed' = Reported(v, completed) /\ latest' = v
  /\ UNCHANGED <<number, released, today, traktHistory, inOrder>>

\* The user picks an episode.
Pick(v, completed) ==
  /\ viewed' = Reported(v, completed)
  /\ latest' = v
  /\ inOrder' = FALSE
  /\ UNCHANGED <<number, released, today, traktHistory>>

\* Another device reports an episode to Trakt, and the account is synced.
WatchElsewhere(n) ==
  /\ Len(traktHistory) < MaxHistory
  /\ traktHistory' = <<n>> \o Without(traktHistory, {n})
  /\ UNCHANGED <<number, released, today, viewed, latest, inOrder>>

\* The addon's episode of a number: find takes the first of its list.
Numbered(n) == Earliest({v \in Episodes : number[v] = n})

\* completed_progress, from the oldest of the history to the newest.
CompletedProgress ==
  LET Known(progress, v) == \E i \in DOMAIN progress : progress[i].episode = v
      after[i \in 0 .. Len(traktHistory)] ==
        IF i = 0 THEN <<>>
        ELSE LET found == Numbered(traktHistory[Len(traktHistory) + 1 - i])
             IN IF \E v \in found : ~Known(viewed, v) /\ ~Known(after[i - 1], v)
                THEN Append(after[i - 1],
                       [episode |-> CHOOSE v \in found : TRUE, completed |-> TRUE])
                ELSE after[i - 1]
  IN after[Len(traktHistory)]

\* Fault: what is imported becomes the latest.
ImportedLast(imported) == viewed \o imported

Imported(imported) == imported \o viewed

\* The details are opened.
ApplyTraktHistory ==
  /\ CompletedProgress # <<>>
  /\ viewed' = Imported(CompletedProgress)
  /\ inOrder' = FALSE
  /\ UNCHANGED <<number, released, today, traktHistory, latest>>

DayPasses ==
  /\ today = 1
  /\ today' = 2
  /\ inOrder' = FALSE
  /\ UNCHANGED <<number, released, viewed, traktHistory, latest>>

ContinuationNext ==
  \/ \E completed \in BOOLEAN :
       Continue(completed) \/ \E v \in Episodes : Pick(v, completed)
  \/ \E n \in Numbers : WatchElsewhere(n)
  \/ ApplyTraktHistory \/ DayPasses

ContinuationSpec == ContinuationInit /\ [][ContinuationNext]_continuationVars

-----------------------------------------------------------------------------
(* Properties *)

Completed(v) == \E i \in DOMAIN viewed : viewed[i].episode = v /\ viewed[i].completed

\* Every regular episode has a number of its own.
WellNumbered ==
  \A v \in Episodes : number[v] # Unnumbered /\ \A u \in Episodes : number[u] = number[v] => u = v

\* "Prepend history so an ongoing local rewatch remains the latest progress"
\* (profiles/trakt.rs): whatever is imported, the device goes on with what it played
\* last; each episode has one entry. Whoever goes on with what is offered sees every
\* regular episode that is out, in order, once, and is offered nothing after that;
\* "next" and "previous" undo each other.
ContinuesWhereLeft ==
  /\ latest # NoEpisode => viewed[Len(viewed)].episode = latest
  /\ Cardinality({viewed[i].episode : i \in DOMAIN viewed}) = Len(viewed)
  /\ \A v \in ContinueEpisode : Available(v)
  /\ WellNumbered =>
       /\ inOrder => \A v \in Regular :
            Completed(v) <=> \A u \in ContinueEpisode : number[v] < number[u]
       /\ \A v \in Regular : \A u \in NextEpisode(v) : PreviousEpisode(u) = {v}

=============================================================================
