---------------------------- MODULE CoreCommands ----------------------------
(***************************************************************************)
(* The commands of madari-core: what each `change` closure passed to        *)
(* Core::mutate accepts and what it makes of a snapshot                     *)
(* (crates/madari-core/src/lib.rs).  Pure operators, no state.              *)
(*                                                                         *)
(* A snapshot keeps the collections as sequences because their order is     *)
(* observable: addons are queried in order, and the newest progress entry   *)
(* is the last.  Metadata is represented by the item it describes.          *)
(***************************************************************************)
EXTENDS Naturals, Sequences, Lists

CONSTANTS
  InstallationIds,    \* installation_id of an addon
  ManifestUrls,       \* configured manifest URL; manifest and allow_local go with it
  ItemKeys,           \* ItemKey of a library or progress entry
  VideoIds,           \* video_id of an episode
  Preferences,        \* playback preferences a client may send
  ValidPreferences,   \* those whose language lists are accepted
  DefaultPreferences, \* PlaybackPreferences::default()
  NoMetadata,         \* the absent metadata of an entry
  NoDuration          \* the absent duration of a progress report

ASSUME PreferencesAssumption ==
  /\ ValidPreferences \subseteq Preferences
  /\ DefaultPreferences \in ValidPreferences

-----------------------------------------------------------------------------
(* Data types *)

Metadata == ItemKeys \union {NoMetadata}

Installation == [id: InstallationIds, url: ManifestUrls, enabled: BOOLEAN]

LibraryEntry == [key: ItemKeys, metadata: Metadata]

Progress ==
  [key: ItemKeys, video: VideoIds, position: Nat,
   duration: Nat \union {NoDuration}, metadata: Metadata]

Snapshot ==
  [revision: Nat, seeded: BOOLEAN, addons: Seq(Installation),
   library: Seq(LibraryEntry), progress: Seq(Progress),
   hidden: Seq(ItemKeys), preferences: Preferences]

EmptySnapshot ==
  [revision |-> 0, seeded |-> FALSE, addons |-> << >>, library |-> << >>,
   progress |-> << >>, hidden |-> << >>, preferences |-> DefaultPreferences]

Command ==
       [op: {"install", "configure_addon"}, id: InstallationIds, url: ManifestUrls]
  \cup [op: {"set_enabled"}, id: InstallationIds, enabled: BOOLEAN]
  \cup [op: {"remove_addon"}, id: InstallationIds]
  \cup [op: {"reorder"}, ids: Seq(InstallationIds)]
  \cup [op: {"save_item"}, entry: LibraryEntry]
  \cup [op: {"remove_item"}, key: ItemKeys]
  \cup [op: {"set_continue_hidden"}, key: ItemKeys, hidden: BOOLEAN]
  \cup [op: {"set_playback_preferences"}, preferences: Preferences]
  \cup [op: {"record_progress"}, entry: Progress]
  \cup [op: {"mark_seeded"}]

-----------------------------------------------------------------------------
(* What is validated before mutate is entered, and what needs the network. *)

WellFormed(cmd) ==
  CASE cmd.op = "record_progress" ->
         \/ cmd.entry.duration = NoDuration
         \/ cmd.entry.position <= cmd.entry.duration
    [] cmd.op = "set_playback_preferences" -> cmd.preferences \in ValidPreferences
    [] OTHER -> TRUE

NeedsManifest(cmd) == cmd.op \in {"install", "configure_addon"}

-----------------------------------------------------------------------------
(* The closures. *)

OfKey(entries, key) == {e \in Elements(entries) : e.key = key}

InstalledIds(s) == {a.id : a \in Elements(s.addons)}

\* Fault: installations the client did not name may be left over.
IsPartialOrderOf(ids, s) ==
  /\ \A i, j \in DOMAIN ids : i # j => ids[i] # ids[j]
  /\ Elements(ids) \subseteq InstalledIds(s)

\* A permutation of the installed ids: every id found once, none left over.
IsOrderOf(ids, s) ==
  /\ Len(ids) = Len(s.addons)
  /\ \A i, j \in DOMAIN ids : i # j => ids[i] # ids[j]
  /\ Elements(ids) = InstalledIds(s)

\* The `?` of a closure: the command is refused and nothing is written.
Accepts(cmd, s) ==
  CASE cmd.op = "install" -> cmd.id \notin InstalledIds(s)
    [] cmd.op \in {"configure_addon", "set_enabled"} -> cmd.id \in InstalledIds(s)
    [] cmd.op = "reorder" -> IsOrderOf(cmd.ids, s)
    [] OTHER -> TRUE

Install(s, id, url) ==
  [s EXCEPT !.addons = Append(@, [id |-> id, url |-> url, enabled |-> TRUE])]

ConfigureAddon(s, id, url) ==
  [s EXCEPT !.addons =
     [i \in DOMAIN @ |-> IF @[i].id = id THEN [@[i] EXCEPT !.url = url] ELSE @[i]]]

SetEnabled(s, id, enabled) ==
  [s EXCEPT !.addons =
     [i \in DOMAIN @ |-> IF @[i].id = id THEN [@[i] EXCEPT !.enabled = enabled] ELSE @[i]]]

RemoveAddon(s, id) ==
  [s EXCEPT !.addons = Without(s.addons, {a \in Elements(s.addons) : a.id = id})]

Reorder(s, ids) ==
  [s EXCEPT !.addons =
     [i \in DOMAIN ids |-> CHOOSE a \in Elements(s.addons) : a.id = ids[i]]]

\* Metadata that names another item is dropped.
Checked(metadata, key) == IF metadata = key THEN metadata ELSE NoMetadata

\* Fault: the oldest entry of the title decides.
KnownMetadataOfOldest(entries, key, newest) ==
  LET of == {i \in DOMAIN entries : entries[i].key = key}
  IN  IF of = {} THEN NoMetadata
      ELSE entries[CHOOSE i \in of : \A j \in of : i <= j].metadata

\* The metadata of the first (library) or newest (progress) entry of a key.
KnownMetadata(entries, key, newest) ==
  LET of == {i \in DOMAIN entries : entries[i].key = key}
      best == CHOOSE i \in of :
                \A j \in of : IF newest THEN j <= i ELSE i <= j
  IN  IF of = {} THEN NoMetadata ELSE entries[best].metadata

WithMetadata(entry, entries, newest) ==
  [entry EXCEPT !.metadata =
     Checked(IF @ = NoMetadata THEN KnownMetadata(entries, entry.key, newest) ELSE @,
             entry.key)]

SaveItem(s, entry) ==
  [s EXCEPT !.library =
     Append(Without(s.library, OfKey(s.library, entry.key)),
            WithMetadata(entry, s.library, FALSE))]

RemoveItem(s, key) ==
  [s EXCEPT !.library = Without(s.library, OfKey(s.library, key))]

SetContinueHidden(s, key, hidden) ==
  LET others == Without(s.hidden, {key})
  IN  [s EXCEPT !.hidden = IF hidden THEN Append(others, key) ELSE others]

RecordProgress(s, entry) ==
  [s EXCEPT !.progress =
     Append(Without(s.progress, {p \in OfKey(s.progress, entry.key) : p.video = entry.video}),
            WithMetadata(entry, s.progress, TRUE))]

\* The snapshot a closure leaves, the revision aside.
Change(cmd, s) ==
  CASE cmd.op = "install"             -> Install(s, cmd.id, cmd.url)
    [] cmd.op = "configure_addon"     -> ConfigureAddon(s, cmd.id, cmd.url)
    [] cmd.op = "set_enabled"         -> SetEnabled(s, cmd.id, cmd.enabled)
    [] cmd.op = "remove_addon"        -> RemoveAddon(s, cmd.id)
    [] cmd.op = "reorder"             -> Reorder(s, cmd.ids)
    [] cmd.op = "save_item"           -> SaveItem(s, cmd.entry)
    [] cmd.op = "remove_item"         -> RemoveItem(s, cmd.key)
    [] cmd.op = "set_continue_hidden" -> SetContinueHidden(s, cmd.key, cmd.hidden)
    [] cmd.op = "set_playback_preferences" -> [s EXCEPT !.preferences = cmd.preferences]
    [] cmd.op = "record_progress"     -> RecordProgress(s, cmd.entry)
    [] cmd.op = "mark_seeded"         -> [s EXCEPT !.seeded = TRUE]

\* What mutate writes: the changed snapshot under the next revision.
Successor(cmd, s) == [Change(cmd, s) EXCEPT !.revision = s.revision + 1]

=============================================================================
