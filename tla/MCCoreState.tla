----------------------------- MODULE MCCoreState -----------------------------
(***************************************************************************)
(* Small command sets for model checking CoreState.                         *)
(***************************************************************************)
EXTENDS CoreState, TLC

CONSTANTS a1, a2, u1, u2, i1, i2, v1, v2,
  First  \* a caller

\* Addons: clients install, remove and reorder over each other.
MCAddonCommands ==
  { [op |-> "install", id |-> a1, url |-> u1],
    [op |-> "install", id |-> a2, url |-> u1],
    [op |-> "remove_addon", id |-> a1],
    [op |-> "reorder", ids |-> <<a2, a1>>] }

\* Reports of two episodes of a series and of another title, with and without
\* metadata, and a malformed one; every command on addons, library and the rest.
Report(key, video, metadata) ==
  [op |-> "record_progress",
   entry |-> [key |-> key, video |-> video, position |-> 1,
              duration |-> NoDuration, metadata |-> metadata]]

MCAllCommands == MCAddonCommands \cup
  { [op |-> "reorder", ids |-> <<a1>>],
    Report(i1, v1, NoMetadata), Report(i1, v1, i1), Report(i1, v2, NoMetadata),
    Report(i2, v1, i2),
    [op |-> "record_progress",
     entry |-> [key |-> i1, video |-> v1, position |-> 3, duration |-> 2,
                metadata |-> NoMetadata]],
    [op |-> "configure_addon", id |-> a1, url |-> u2],
    [op |-> "set_enabled", id |-> a1, enabled |-> FALSE],
    [op |-> "save_item", entry |-> [key |-> i1, metadata |-> i1]],
    [op |-> "save_item", entry |-> [key |-> i1, metadata |-> NoMetadata]],
    [op |-> "save_item", entry |-> [key |-> i2, metadata |-> i1]],
    [op |-> "remove_item", key |-> i1],
    [op |-> "set_continue_hidden", key |-> i1, hidden |-> TRUE],
    [op |-> "set_continue_hidden", key |-> i1, hidden |-> FALSE],
    [op |-> "set_playback_preferences", preferences |-> "german"],
    [op |-> "set_playback_preferences", preferences |-> "malformed"],
    [op |-> "mark_seeded"] }

MCPreferences == {"default", "german", "malformed"}
MCValidPreferences == {"default", "german"}
MCDefaultPreferences == "default"

-----------------------------------------------------------------------------
(* Three parts in one run: callers that race with a few commands on addons; one *)
(* caller that sends any commands one after another and waits for each; and     *)
(* callers that race with one harmless command while a stream of events comes   *)
(* and goes.                                                                    *)

Racing == INSTANCE CoreState WITH Commands <- MCAddonCommands

Watched == INSTANCE CoreState WITH Commands <- {[op |-> "mark_seeded"]}

VARIABLE part

MCInit == Init /\ part \in {"racing", "alone", "watched"}

MCNext ==
  /\ UNCHANGED part
  /\ \/ part = "racing" /\ Racing!Next /\ UNCHANGED stage
     \/ /\ part = "alone" /\ Next /\ UNCHANGED stage
        /\ pc'[First] # "detached" /\ \A c \in Callers \ {First} : pc'[c] = "idle"
     \/ part = "watched" /\ Watched!Next

MCSpec == MCInit /\ [][MCNext]_<<vars, part>>

=============================================================================
