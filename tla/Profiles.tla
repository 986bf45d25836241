------------------------------ MODULE Profiles ------------------------------
(***************************************************************************)
(* Profiles, their sessions, kids mode and shared addons:                   *)
(* crates/madari-native/src/profiles.rs.                                    *)
(*                                                                         *)
(* Several handles (Profiles::open: the application's, one per paired       *)
(* browser) share one database.  A handle runs one handler at a time,       *)
(* under its mutex; the handlers of different handles interleave.  A        *)
(* handler that writes is two steps: its checks, on what the database says  *)
(* then, and its transaction, which relies only on foreign keys and on the  *)
(* revision it compares.                                                    *)
(***************************************************************************)
EXTENDS Integers, FiniteSets

CONSTANTS
  Handles,      \* open Profiles handles
  Screens,      \* those of applications: a browser's handle only manages
  Ids,          \* profile ids (UUIDs: none is used twice)
  NoProfile,
  Tokens,       \* session tokens (UUIDs: a token in use is not issued again)
  Addons,       \* installation ids
  MaxProfiles,  \* 12: the profiles a device supports
  MaxRevision,  \* bound: how often the model changes the database
  None          \* no session, no loaded snapshot, no handler running

ASSUME ProfilesAssumption ==
  /\ Screens \subseteq Handles
  /\ NoProfile \notin Ids
  /\ MaxProfiles \in Nat \ {0}
  /\ MaxRevision \in Nat

VARIABLES
  rows,      \* the table profiles: a function on the existing ids
  used,      \* the ids given out so far
  locked,    \* profile_meta.active_kids: kids mode, or NoProfile
  revision,  \* profile_meta.revision
  shared,    \* shared_addons
  links,     \* profile_addons: <<profile, addon>>
  active,    \* each handle's Active: [id, token, editable], or None
  loaded,    \* the snapshot its Core loaded: [id, token, revision, addons], or None
  op         \* the handler between its checks and its transaction, or None

database == <<rows, used, locked, revision, shared, links>>
vars == <<database, active, loaded, op>>

Row == [kids: BOOLEAN, pinned: BOOLEAN, guardian: Ids \union {NoProfile}]

Existing == DOMAIN rows

LinkedTo(id) == {a \in Addons : <<id, a>> \in links}

Init ==
  /\ rows = [i \in {} |-> 0]
  /\ used = {}
  /\ locked = NoProfile
  /\ revision = 0
  /\ shared = {}
  /\ links = {}
  /\ active = [h \in Handles |-> None]
  /\ loaded = [h \in Handles |-> None]
  /\ op = [h \in Handles |-> None]

-----------------------------------------------------------------------------
(* Authorization *)

\* verify_pin: the given PIN is the right one, or there is none to give.
Verified(id, right) == id \in Existing /\ (rows[id].pinned => right)

GuardianOf(id) == IF rows[id].kids THEN rows[id].guardian ELSE id

\* Fault: the session is looked up by its profile alone.
AuthorizedById(h, id, token, editing) ==
  /\ active[h] # None
  /\ active[h].id = id
  /\ locked \in {NoProfile, id}
  /\ editing => active[h].editable
  /\ id \in Existing

\* authorized: the handle's current session, not shut out by kids mode.
Authorized(h, id, token, editing) ==
  /\ active[h] # None
  /\ active[h].id = id /\ active[h].token = token
  /\ locked \in {NoProfile, id}
  /\ editing => active[h].editable
  /\ id \in Existing

\* A call with the session the handle has; any older one is turned away.
May(h, editing) ==
  /\ op[h] = None
  /\ active[h] # None
  /\ Authorized(h, active[h].id, active[h].token, editing)

InUse(h) ==
  {x.token : x \in {active[h], loaded[h]} \ {None}}

Started(h, o) ==
  /\ op' = [op EXCEPT ![h] = o]
  /\ UNCHANGED <<rows, locked, revision, shared, links, active, loaded>>

\* What unlock and unlock_management look at first.
Openable(h, id) == op[h] = None /\ locked \in {NoProfile, id} /\ id \in Existing

Activate(h, id, editable) ==
  \E t \in Tokens \ InUse(h) :
    active' = [active EXCEPT ![h] = [id |-> id, token |-> t, editable |-> editable]]

-----------------------------------------------------------------------------
(* Handlers that only touch the session, or only read: one step. *)

Unlock(h, id, right) ==
  /\ Openable(h, id)
  /\ ~rows[id].kids
  /\ Verified(id, right)
  /\ Activate(h, id, FALSE)
  /\ UNCHANGED <<database, loaded, op>>

UnlockManagement(h, id, right) ==
  /\ Openable(h, id)
  /\ Verified(GuardianOf(id), right)
  /\ Activate(h, id, TRUE)
  /\ UNCHANGED <<database, loaded, op>>

AuthorizeSettings(h, right) ==
  /\ May(h, FALSE)
  /\ Verified(GuardianOf(active[h].id), right)
  /\ active' = [active EXCEPT ![h].editable = TRUE]
  /\ UNCHANGED <<database, loaded, op>>

LockSettings(h) ==
  /\ May(h, FALSE)
  /\ active' = [active EXCEPT ![h].editable = FALSE]
  /\ UNCHANGED <<database, loaded, op>>

\* load_snapshot, for a Core of the handle's session.
Load(h) ==
  /\ May(h, FALSE)
  /\ loaded' = [loaded EXCEPT ![h] =
       [id |-> active[h].id, token |-> active[h].token,
        revision |-> revision, addons |-> LinkedTo(active[h].id)]]
  /\ UNCHANGED <<database, active, op>>

\* The process ends; what it had not committed, and its sessions, are gone.
Restart(h) ==
  /\ active' = [active EXCEPT ![h] = None]
  /\ loaded' = [loaded EXCEPT ![h] = None]
  /\ op' = [op EXCEPT ![h] = None]
  /\ UNCHANGED database

-----------------------------------------------------------------------------
(* The checks of the handlers that write. *)

RoomForAnother == Cardinality(Existing) < MaxProfiles

NewProfile(h, id, kids, pinned, guardian, session) ==
  /\ RoomForAnother
  /\ id \notin used
  /\ used' = used \union {id}
  /\ Started(h, [op |-> "create", id |-> id, session |-> session,
                 row |-> [kids |-> kids, pinned |-> pinned, guardian |-> guardian]])

\* The first profile needs no session.
Bootstrap(h, id, pinned) ==
  /\ op[h] = None
  /\ Existing = {}
  /\ NewProfile(h, id, FALSE, pinned, NoProfile, FALSE)

CreateRegular(h, id, pinned) ==
  /\ May(h, TRUE)
  /\ ~rows[active[h].id].kids
  /\ NewProfile(h, id, FALSE, pinned, NoProfile, TRUE)

\* Fault: a profile without a PIN becomes a guardian.
CanGuardAlways(id) == ~rows[id].kids

CanGuard(id) == ~rows[id].kids /\ rows[id].pinned

CreateKids(h, id) ==
  /\ May(h, TRUE)
  /\ CanGuard(active[h].id)
  /\ NewProfile(h, id, TRUE, FALSE, active[h].id, TRUE)

UnlockKids(h, id) ==
  /\ Openable(h, id)
  /\ rows[id].kids
  /\ Started(h, [op |-> "enter", id |-> id])
  /\ UNCHANGED used

Leave(h, right) ==
  /\ May(h, FALSE)
  /\ rows[active[h].id].kids => Verified(GuardianOf(active[h].id), right)
  /\ Started(h, [op |-> "leave", id |-> active[h].id, right |-> right])
  /\ UNCHANGED used

Update(h, newPin) ==
  /\ May(h, TRUE)
  /\ newPin => ~rows[active[h].id].kids
  /\ Started(h, [op |-> "update", id |-> active[h].id, newPin |-> newPin])
  /\ UNCHANGED used

Delete(h, right) ==
  /\ May(h, TRUE)
  /\ rows[active[h].id].kids => Verified(GuardianOf(active[h].id), right)
  /\ \A i \in Existing : rows[i].guardian # active[h].id
  /\ Started(h, [op |-> "delete", id |-> active[h].id, right |-> right])
  /\ UNCHANGED used

Share(h, addon, target, right) ==
  /\ May(h, TRUE)
  /\ target \in Existing
  /\ GuardianOf(target) # active[h].id => Verified(GuardianOf(target), right)
  /\ <<active[h].id, addon>> \in links
  /\ Started(h, [op |-> "share", addon |-> addon, target |-> target])
  /\ UNCHANGED used

\* Fault: a write computed from an older revision passes.
UnchangedSinceAny(expected) == TRUE

UnchangedSince(expected) == revision = expected

\* compare_and_swap, up to its transaction: the snapshot Core computed from the
\* one it loaded, with the addons next; next is unchanged when only the library,
\* the progress (editing is not needed) or the preferences (it is) differ.
Write(h, next, editing) ==
  LET snapshot == loaded[h]
  IN  /\ op[h] = None
      /\ snapshot # None
      /\ Authorized(h, snapshot.id, snapshot.token, editing)
      /\ UnchangedSince(snapshot.revision)
      /\ next # LinkedTo(snapshot.id) => editing
      /\ op' = [op EXCEPT ![h] =
           [op |-> "write", id |-> snapshot.id, token |-> snapshot.token,
            expected |-> snapshot.revision, seen |-> snapshot.addons,
            previous |-> LinkedTo(snapshot.id), next |-> next]]
      /\ loaded' = [loaded EXCEPT ![h] = None]
      /\ UNCHANGED <<database, active>>

-----------------------------------------------------------------------------
(* Their transactions.  Each is atomic; one that breaks a foreign key, or   *)
(* finds the revision moved, is rolled back (Fails).                        *)

Running(h, kind) == op[h] # None /\ op[h].op = kind

Ends(h) == op' = [op EXCEPT ![h] = None]

NextRevision == revision < MaxRevision /\ revision' = revision + 1

Fails(h) ==
  /\ op[h] # None
  /\ Ends(h)
  /\ UNCHANGED <<database, active, loaded>>

\* profiles.guardian_id REFERENCES profiles(id).
GuardianRowExists(row) == row.guardian \in Existing \union {NoProfile}

CreateCommits(h) ==
  /\ Running(h, "create")
  /\ GuardianRowExists(op[h].row)
  /\ rows' = [i \in Existing \union {op[h].id} |-> IF i = op[h].id THEN op[h].row ELSE rows[i]]
  /\ NextRevision
  /\ Ends(h)
  /\ UNCHANGED <<used, locked, shared, links, active, loaded>>

\* One UPDATE of profile_meta, which no foreign key guards, and the session.
EnterCommits(h) ==
  /\ Running(h, "enter")
  /\ locked' = op[h].id
  /\ Activate(h, op[h].id, FALSE)
  /\ Ends(h)
  /\ UNCHANGED <<rows, used, revision, shared, links, loaded>>

LeaveCommits(h) ==
  /\ Running(h, "leave")
  /\ locked' = NoProfile
  /\ active' = [active EXCEPT ![h] = None]
  /\ Ends(h)
  /\ UNCHANGED <<rows, used, revision, shared, links, loaded>>

\* Fault: an update without a new PIN clears the PIN.
PinAfterClears(row, newPin) == newPin

PinAfter(row, newPin) == row.pinned \/ newPin

\* UPDATE profiles ... WHERE id: no row, when the profile is gone.
UpdateCommits(h) ==
  /\ Running(h, "update")
  /\ rows' = [i \in Existing |->
                IF i = op[h].id
                THEN [rows[i] EXCEPT !.pinned = PinAfter(rows[i], op[h].newPin)]
                ELSE rows[i]]
  /\ NextRevision
  /\ Ends(h)
  /\ UNCHANGED <<used, locked, shared, links, active, loaded>>

\* profiles.guardian_id REFERENCES profiles(id), on the side of the delete.
Unreferenced(id) == \A i \in Existing \ {id} : rows[i].guardian # id

\* Kids mode cannot outlive the profile it was pinned to.
LockedWithout(id) == IF locked = id THEN NoProfile ELSE locked

\* DELETE FROM shared_addons WHERE no profile links it.
Owned(remaining) == {a \in Addons : \E i \in Ids : <<i, a>> \in remaining}

DeleteCommits(h) ==
  LET id == op[h].id
  IN  /\ Running(h, "delete")
      /\ Unreferenced(id)
      /\ rows' = [i \in Existing \ {id} |-> rows[i]]
      /\ links' = {l \in links : l[1] # id}
      /\ shared' = shared \intersect Owned(links')
      /\ locked' = LockedWithout(id)
      /\ NextRevision
      /\ active' = IF active[h] # None /\ active[h].id = id
                   THEN [active EXCEPT ![h] = None] ELSE active
      /\ Ends(h)
      /\ UNCHANGED <<used, loaded>>

\* Fault: a link to a removed installation is stored.
LinkableAlways(profile, addon) == profile \in Existing

\* The two foreign keys of profile_addons.
Linkable(profile, addon) == profile \in Existing /\ addon \in shared

ShareCommits(h) ==
  /\ Running(h, "share")
  /\ Linkable(op[h].target, op[h].addon)
  /\ links' = links \union {<<op[h].target, op[h].addon>>}
  /\ NextRevision
  /\ Ends(h)
  /\ UNCHANGED <<rows, used, locked, shared, active, loaded>>

\* "New IDs may not attach an existing installation by guessing its ID."
Attachable(previous, next) == \A a \in next : a \in shared => a \in previous

WriteCommits(h) ==
  LET w == op[h]
  IN  /\ Running(h, "write")
      /\ UnchangedSince(w.expected)
      /\ IF w.next = w.previous
         THEN UNCHANGED <<shared, links>>
         ELSE /\ w.id \in Existing
              /\ Attachable(w.previous, w.next)
              /\ links' = {l \in links : l[1] = w.id => l[2] \notin w.previous \ w.next}
                            \union {<<w.id, a>> : a \in w.next}
              /\ shared' = (shared \union w.next) \intersect Owned(links')
      /\ NextRevision
      /\ Ends(h)
      /\ UNCHANGED <<rows, used, locked, active, loaded>>

-----------------------------------------------------------------------------

\* Whoever sits at the screen opens a profile and leaves or deletes it; right
\* says whether the PIN given is correct.
ScreenCalls(h) ==
  \/ \E id \in Ids : UnlockKids(h, id)
  \/ \E right \in BOOLEAN :
       \/ \E id \in Ids : Unlock(h, id, right)
       \/ AuthorizeSettings(h, right) \/ Leave(h, right) \/ Delete(h, right)

Calls(h) ==
  \/ LockSettings(h) \/ Load(h) \/ Restart(h)
  \/ \E right \in BOOLEAN, id \in Ids :
       UnlockManagement(h, id, right) \/ \E a \in Addons : Share(h, a, id, right)
  \/ \E id \in Ids :
       \/ CreateKids(h, id)
       \/ \E pinned \in BOOLEAN : Bootstrap(h, id, pinned) \/ CreateRegular(h, id, pinned)
  \/ \E newPin \in BOOLEAN : Update(h, newPin)
  \/ \E next \in SUBSET Addons, editing \in BOOLEAN : Write(h, next, editing)

Commits(h) ==
  \/ CreateCommits(h) \/ EnterCommits(h) \/ LeaveCommits(h) \/ UpdateCommits(h)
  \/ DeleteCommits(h) \/ ShareCommits(h) \/ WriteCommits(h) \/ Fails(h)

Next ==
  \/ \E h \in Screens : ScreenCalls(h)
  \/ \E h \in Handles : Calls(h) \/ Commits(h)

Spec == Init /\ [][Next]_vars

-----------------------------------------------------------------------------
(* Properties *)

Active == [id: Ids, token: Tokens, editable: BOOLEAN]

Loaded == [id: Ids, token: Tokens, revision: 0 .. MaxRevision, addons: SUBSET Addons]

Op ==
  [op: {"create"}, id: Ids, session: BOOLEAN, row: Row]
  \union [op: {"enter"}, id: Ids]
  \union [op: {"leave", "delete"}, id: Ids, right: BOOLEAN]
  \union [op: {"update"}, id: Ids, newPin: BOOLEAN]
  \union [op: {"share"}, addon: Addons, target: Ids]
  \union [op: {"write"}, id: Ids, token: Tokens, expected: 0 .. MaxRevision,
          seen: SUBSET Addons, previous: SUBSET Addons, next: SUBSET Addons]

\* Every variable has its type.
TypeOK ==
  /\ used \subseteq Ids
  /\ Existing \subseteq used
  /\ rows \in [Existing -> Row]
  /\ locked \in Ids \union {NoProfile}
  /\ revision \in 0 .. MaxRevision
  /\ shared \subseteq Addons
  /\ links \subseteq Ids \X Addons
  /\ active \in [Handles -> Active \union {None}]
  /\ loaded \in [Handles -> Loaded \union {None}]
  /\ op \in [Handles -> Op \union {None}]

\* Every kids profile has an existing, regular, PIN-protected guardian, whatever
\* the handles create, update and delete at the same time: a kids profile
\* without one could not be left, authorized or deleted.
GuardedKids ==
  \A i \in Existing : rows[i].kids =>
    /\ rows[i].guardian \in Existing
    /\ ~rows[rows[i].guardian].kids
    /\ rows[rows[i].guardian].pinned

\* The registry holds exactly the installations that existing profiles link to.
LinksOwned ==
  /\ \A l \in links : l[1] \in Existing /\ l[2] \in shared
  /\ \A a \in shared : \E l \in links : l[2] = a

\* An installation disappears from a profile only by a write of that profile
\* that knew of it: a write computed before another profile shared it does not
\* take it away again.
SharedLinksSurvive ==
  [][\A l \in links : (l \notin links' /\ l[1] \in DOMAIN rows') =>
       \E h \in Handles : /\ Running(h, "write") /\ op[h].id = l[1]
                          /\ l[2] \in op[h].seen \ op[h].next]_vars

\* A profile comes to an installation that already exists by sharing only.
ExistingOnlyByShare ==
  [][\A l \in links' \ links : l[2] \in shared =>
       \E h \in Handles : Running(h, "share") /\ op[h].addon = l[2]]_vars

\* Changing the profile invalidates old Core handles: what is written through a
\* Core was loaded in the session its handle still has.
OldCoresWriteNothing ==
  [][\A h \in Handles : (Running(h, "write") /\ revision' # revision /\ op'[h] = None) =>
       /\ active[h] # None /\ active[h].id = op[h].id /\ active[h].token = op[h].token]_vars

\* Kids mode names a profile, so that there is one to leave it from.
KidsModeNamesAProfile == locked # NoProfile => locked \in Existing

\* Kids mode ends, or moves on to another profile, only by a leave or a delete
\* of the profile it holds, with the guardian's PIN; not by restarting.
KidsModeEndsByGuardian ==
  [][(locked # NoProfile /\ locked' # locked) =>
       \E h \in Handles : /\ Running(h, "leave") \/ Running(h, "delete")
                          /\ op[h].id = locked /\ op[h].right]_vars

\* A profile stored without a session is the first one of the device.
OnlyFirstBootstraps ==
  [][\A h \in Handles : (Running(h, "create") /\ ~op[h].session /\ rows' # rows
                          /\ op'[h] = None) => Existing = {}]_vars

=============================================================================
