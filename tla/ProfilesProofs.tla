--------------------------- MODULE ProfilesProofs ---------------------------
(***************************************************************************)
(* Proofs about Profiles, for any number of handles and profiles.           *)
(***************************************************************************)
EXTENDS Profiles, TLAPS

\* The types the proofs need: rows is a function, on ids given out before.
RowsOK ==
  /\ used \subseteq Ids
  /\ Existing \subseteq used
  /\ rows \in [Existing -> Row]
  /\ op = [h \in Handles |-> op[h]]

\* A profile about to be stored is a new one, and so is every other one about
\* to be stored; its guardian, unless deleted meanwhile, is fit to be one.
CreatesOK ==
  \A h \in Handles : Running(h, "create") =>
    /\ op[h].id \in used \ Existing
    /\ op[h].row \in Row
    /\ \A k \in Handles : Running(k, "create") /\ k # h => op[k].id # op[h].id
    /\ op[h].row.kids =>
         /\ op[h].row.guardian \in used
         /\ \A k \in Handles : Running(k, "create") => op[k].id # op[h].row.guardian
         /\ op[h].row.guardian \in Existing =>
              ~rows[op[h].row.guardian].kids /\ rows[op[h].row.guardian].pinned

GuardInv == RowsOK /\ CreatesOK /\ GuardedKids

-----------------------------------------------------------------------------
(* The shapes of steps *)

\* A step that changes neither the database nor starts a handler's transaction.
Quiet ==
  /\ UNCHANGED database
  /\ \A k \in Handles : op'[k] \in {op[k], None}
  /\ op' = [h \in Handles |-> op'[h]]

\* The checks of a handler that is not a create passed.
Checked(h) ==
  /\ UNCHANGED database
  /\ op' = [op EXCEPT ![h] = op'[h]]
  /\ ~(op'[h] # None /\ op'[h].op = "create")

QuietStep(h) ==
  \/ \E id \in Ids, right \in BOOLEAN : Unlock(h, id, right) \/ UnlockManagement(h, id, right)
  \/ \E right \in BOOLEAN : AuthorizeSettings(h, right)
  \/ LockSettings(h) \/ Load(h) \/ Restart(h) \/ Fails(h)

CheckStep(h) ==
  \/ \E id \in Ids : UnlockKids(h, id)
  \/ \E right \in BOOLEAN : Leave(h, right) \/ Delete(h, right)
  \/ \E a \in Addons, id \in Ids, right \in BOOLEAN : Share(h, a, id, right)
  \/ \E newPin \in BOOLEAN : Update(h, newPin)
  \/ \E next \in SUBSET Addons, editing \in BOOLEAN : Write(h, next, editing)

CreateStep(h) ==
  \E id \in Ids :
    \/ CreateKids(h, id)
    \/ \E pinned \in BOOLEAN : Bootstrap(h, id, pinned) \/ CreateRegular(h, id, pinned)

LEMMA StepKinds ==
  ASSUME Next
  PROVE  \E h \in Handles : QuietStep(h) \/ CheckStep(h) \/ CreateStep(h) \/ Commits(h)
<1>1. ASSUME NEW h \in Screens, ScreenCalls(h)
      PROVE  h \in Handles /\ (QuietStep(h) \/ CheckStep(h))
  BY <1>1, ProfilesAssumption DEF ScreenCalls, QuietStep, CheckStep
<1>2. ASSUME NEW h \in Handles, Calls(h)
      PROVE  QuietStep(h) \/ CheckStep(h) \/ CreateStep(h)
  BY <1>2 DEF Calls, QuietStep, CheckStep, CreateStep
<1> QED
  BY <1>1, <1>2 DEF Next

LEMMA QuietSteps ==
  ASSUME op = [h \in Handles |-> op[h]], NEW h \in Handles, QuietStep(h)
  PROVE  Quiet
  BY DEF QuietStep, Quiet, Unlock, UnlockManagement, AuthorizeSettings, LockSettings,
         Load, Restart, Fails, Ends

LEMMA CheckSteps ==
  ASSUME op = [h \in Handles |-> op[h]], NEW h \in Handles, CheckStep(h)
  PROVE  Checked(h)
<1>1. ASSUME NEW o, op' = [op EXCEPT ![h] = o], UNCHANGED database, o.op # "create"
      PROVE  Checked(h)
  BY <1>1 DEF Checked
<1>2. ASSUME NEW id \in Ids, UnlockKids(h, id)
      PROVE  Checked(h)
  BY <1>1, <1>2 DEF UnlockKids, Started, database
<1>3. ASSUME NEW right \in BOOLEAN, Leave(h, right) \/ Delete(h, right)
      PROVE  Checked(h)
  <2>1. CASE Leave(h, right)
    BY <1>1, <2>1 DEF Leave, Started, database
  <2>2. CASE Delete(h, right)
    BY <1>1, <2>2 DEF Delete, Started, database
  <2> QED
    BY <1>3, <2>1, <2>2
<1>4. ASSUME NEW a \in Addons, NEW id \in Ids, NEW right \in BOOLEAN, Share(h, a, id, right)
      PROVE  Checked(h)
  BY <1>1, <1>4 DEF Share, Started, database
<1>5. ASSUME NEW newPin \in BOOLEAN, Update(h, newPin)
      PROVE  Checked(h)
  BY <1>1, <1>5 DEF Update, Started, database
<1>6. ASSUME NEW next \in SUBSET Addons, NEW editing \in BOOLEAN, Write(h, next, editing)
      PROVE  Checked(h)
  BY <1>1, <1>6 DEF Write
<1> QED
  BY <1>2, <1>3, <1>4, <1>5, <1>6 DEF CheckStep

LEMMA CreateSteps ==
  ASSUME RowsOK, NEW h \in Handles, CreateStep(h)
  PROVE  \E id \in Ids \ used, row \in Row, session \in BOOLEAN :
           /\ op' = [op EXCEPT ![h] = [op |-> "create", id |-> id, session |-> session, row |-> row]]
           /\ used' = used \union {id}
           /\ row.kids => row.guardian \in Existing /\ ~rows[row.guardian].kids
                            /\ rows[row.guardian].pinned
           /\ UNCHANGED <<rows, locked, revision, shared, links, active, loaded>>
<1>1. ASSUME NEW id \in Ids, CreateKids(h, id)
      PROVE  /\ active[h].id \in Existing
             /\ NewProfile(h, id, TRUE, FALSE, active[h].id, TRUE)
             /\ ~rows[active[h].id].kids /\ rows[active[h].id].pinned
  BY <1>1 DEF CreateKids, May, Authorized, CanGuard
<1>2. ASSUME NEW id \in Ids, CreateKids(h, id)
      PROVE  [kids |-> TRUE, pinned |-> FALSE, guardian |-> active[h].id] \in Row
  BY <1>1, <1>2 DEF Row, RowsOK
<1>3. ASSUME NEW pinned \in BOOLEAN
      PROVE  [kids |-> FALSE, pinned |-> pinned, guardian |-> NoProfile] \in Row
  BY DEF Row
<1> QED
  BY <1>1, <1>2, <1>3 DEF CreateStep, Bootstrap, CreateRegular, NewProfile, Started

-----------------------------------------------------------------------------
(* Guardians *)

LEMMA GuardQuiet ==
  ASSUME GuardInv, Quiet
  PROVE  GuardInv'
<1> USE DEF GuardInv, Quiet, database
<1>1. RowsOK'
  BY DEF RowsOK, Existing
<1>2. CreatesOK'
  BY DEF CreatesOK, Running, Existing
<1>3. GuardedKids'
  BY DEF GuardedKids, Existing
<1> QED
  BY <1>1, <1>2, <1>3

LEMMA GuardChecked ==
  ASSUME GuardInv, NEW h \in Handles, Checked(h)
  PROVE  GuardInv'
<1> USE DEF GuardInv, Checked, database
<1>1. RowsOK'
  BY DEF RowsOK, Existing
<1>2. \A k \in Handles : Running(k, "create")' => Running(k, "create") /\ op'[k] = op[k]
  BY DEF Running, RowsOK
<1>3. CreatesOK'
  BY <1>2 DEF CreatesOK, Existing
<1>4. GuardedKids'
  BY DEF GuardedKids, Existing
<1> QED
  BY <1>1, <1>3, <1>4

LEMMA GuardCreate ==
  ASSUME GuardInv, NEW h \in Handles, CreateStep(h)
  PROVE  GuardInv'
<1>1. PICK id \in Ids \ used, row \in Row, session \in BOOLEAN :
           /\ op' = [op EXCEPT ![h] = [op |-> "create", id |-> id, session |-> session, row |-> row]]
           /\ used' = used \union {id}
           /\ row.kids => row.guardian \in Existing /\ ~rows[row.guardian].kids
                            /\ rows[row.guardian].pinned
           /\ UNCHANGED <<rows, locked, revision, shared, links, active, loaded>>
  BY CreateSteps DEF GuardInv
<1>2. RowsOK'
  BY <1>1 DEF GuardInv, RowsOK, Existing
<1>3. op'[h].id = id /\ op'[h].row = row
  BY <1>1 DEF GuardInv, RowsOK
<1>4. \A k \in Handles \ {h} : op'[k] = op[k]
  BY <1>1 DEF GuardInv, RowsOK
<1>5. \A k \in Handles \ {h} : Running(k, "create")' => op[k].id # id /\ op[k].id \in used
  BY <1>1, <1>4 DEF GuardInv, CreatesOK, Running
<1>6. \A k \in Handles \ {h} : Running(k, "create")' /\ op[k].row.kids => op[k].row.guardian # id
  BY <1>1, <1>4 DEF GuardInv, CreatesOK, Running
<1>7. row.kids => row.guardian \in used /\ row.guardian # id
  BY <1>1 DEF GuardInv, RowsOK
<1>8. \A k \in Handles \ {h} : Running(k, "create")' /\ row.kids => op[k].id # row.guardian
  BY <1>1, <1>4 DEF GuardInv, CreatesOK, Running
<1>9. CreatesOK'
  <2> SUFFICES ASSUME NEW k \in Handles, Running(k, "create")'
               PROVE  /\ op'[k].id \in used' \ Existing
                      /\ op'[k].row \in Row
                      /\ \A j \in Handles : Running(j, "create")' /\ j # k => op'[j].id # op'[k].id
                      /\ op'[k].row.kids =>
                           /\ op'[k].row.guardian \in used'
                           /\ \A j \in Handles : Running(j, "create")' => op'[j].id # op'[k].row.guardian
                           /\ op'[k].row.guardian \in Existing =>
                                ~rows[op'[k].row.guardian].kids /\ rows[op'[k].row.guardian].pinned
    BY <1>1 DEF CreatesOK, Existing
  <2>1. CASE k = h
    BY <1>1, <1>3, <1>4, <1>5, <1>7, <1>8, <2>1 DEF GuardInv, RowsOK
  <2>2. CASE k # h
    <3>1. Running(k, "create") /\ op'[k] = op[k]
      BY <1>4, <2>2 DEF Running
    <3>2. \A j \in Handles : Running(j, "create")' /\ j # k => op'[j].id # op'[k].id
      BY <1>3, <1>4, <1>5, <2>2, <3>1 DEF GuardInv, CreatesOK, Running
    <3>3. op[k].row.kids => \A j \in Handles : Running(j, "create")' => op'[j].id # op[k].row.guardian
      BY <1>3, <1>4, <1>6, <2>2, <3>1 DEF GuardInv, CreatesOK, Running
    <3> QED
      BY <1>1, <2>2, <3>1, <3>2, <3>3 DEF GuardInv, CreatesOK
  <2> QED
    BY <2>1, <2>2
<1>10. GuardedKids'
  BY <1>1 DEF GuardInv, GuardedKids, Existing
<1> QED
  BY <1>2, <1>9, <1>10 DEF GuardInv

\* A transaction that stores no new profile keeps the guardians' side of rows.
LEMMA GuardCommitsElse ==
  ASSUME GuardInv, NEW h \in Handles, UNCHANGED used,
         op' = [op EXCEPT ![h] = None],
         Existing' \subseteq Existing, rows' \in [Existing' -> Row],
         \A i \in Existing' : /\ rows'[i].kids = rows[i].kids
                              /\ rows'[i].guardian = rows[i].guardian
                              /\ rows[i].pinned => rows'[i].pinned,
         \A i \in Existing' : rows[i].kids => rows[i].guardian \in Existing'
  PROVE  GuardInv'
<1>1. RowsOK'
  BY DEF GuardInv, RowsOK
<1>2. \A k \in Handles : Running(k, "create")' => Running(k, "create") /\ op'[k] = op[k]
  BY DEF GuardInv, RowsOK, Running
<1>3. CreatesOK'
  <2> SUFFICES ASSUME NEW k \in Handles, Running(k, "create")'
               PROVE  /\ op'[k].id \in used' \ Existing'
                      /\ op'[k].row \in Row
                      /\ \A j \in Handles : Running(j, "create")' /\ j # k => op'[j].id # op'[k].id
                      /\ op'[k].row.kids =>
                           /\ op'[k].row.guardian \in used'
                           /\ \A j \in Handles : Running(j, "create")' => op'[j].id # op'[k].row.guardian
                           /\ op'[k].row.guardian \in Existing' =>
                                ~rows'[op'[k].row.guardian].kids /\ rows'[op'[k].row.guardian].pinned
    BY DEF CreatesOK
  <2>1. Running(k, "create") /\ op'[k] = op[k]
    BY <1>2
  <2>2. \A j \in Handles : Running(j, "create")' => Running(j, "create") /\ op'[j] = op[j]
    BY <1>2
  <2> QED
    BY <2>1, <2>2 DEF GuardInv, CreatesOK
<1>4. GuardedKids'
  BY DEF GuardInv, GuardedKids
<1> QED
  BY <1>1, <1>3, <1>4 DEF GuardInv

LEMMA GuardCreateCommits ==
  ASSUME GuardInv, NEW h \in Handles, CreateCommits(h)
  PROVE  GuardInv'
<1> DEFINE id == op[h].id
           row == op[h].row
<1>1. /\ Running(h, "create") /\ id \in used \ Existing /\ row \in Row
      /\ rows' = [i \in Existing \union {id} |-> IF i = id THEN row ELSE rows[i]]
      /\ UNCHANGED used
      /\ op' = [op EXCEPT ![h] = None]
      /\ row.kids => row.guardian \in Existing /\ row.guardian # NoProfile
  BY ProfilesAssumption DEF CreateCommits, GuardInv, CreatesOK, RowsOK, Ends, GuardianRowExists
<1> HIDE DEF id, row
<1>2. Existing' = Existing \union {id}
  BY <1>1 DEF Existing
<1>3. \A i \in Existing : rows'[i] = rows[i]
  BY <1>1
<1>4. rows'[id] = row
  BY <1>1
<1>5. RowsOK'
  BY <1>1, <1>2, <1>3, <1>4 DEF GuardInv, RowsOK
<1>6. \A k \in Handles : Running(k, "create")' => Running(k, "create") /\ op'[k] = op[k] /\ k # h
  BY <1>1 DEF GuardInv, RowsOK, Running
<1>7. \A k \in Handles : Running(k, "create")' => op[k].id # id
  BY <1>1, <1>6 DEF GuardInv, CreatesOK, id
<1>8. \A k \in Handles : Running(k, "create")' /\ op[k].row.kids => op[k].row.guardian # id
  BY <1>1, <1>6 DEF GuardInv, CreatesOK, id
<1>9. CreatesOK'
  <2> SUFFICES ASSUME NEW k \in Handles, Running(k, "create")'
               PROVE  /\ op'[k].id \in used' \ Existing'
                      /\ op'[k].row \in Row
                      /\ \A j \in Handles : Running(j, "create")' /\ j # k => op'[j].id # op'[k].id
                      /\ op'[k].row.kids =>
                           /\ op'[k].row.guardian \in used'
                           /\ \A j \in Handles : Running(j, "create")' => op'[j].id # op'[k].row.guardian
                           /\ op'[k].row.guardian \in Existing' =>
                                ~rows'[op'[k].row.guardian].kids /\ rows'[op'[k].row.guardian].pinned
    BY DEF CreatesOK
  <2>1. \A j \in Handles : Running(j, "create")' => Running(j, "create") /\ op'[j] = op[j]
    BY <1>6
  <2>2. op'[k].id \in used' \ Existing' /\ op'[k].row \in Row
    BY <1>1, <1>2, <1>7, <2>1 DEF GuardInv, CreatesOK
  <2> QED
    BY <1>1, <1>2, <1>3, <1>8, <2>1, <2>2 DEF GuardInv, CreatesOK
<1>10. row.kids => ~rows[row.guardian].kids /\ rows[row.guardian].pinned
  BY <1>1 DEF GuardInv, CreatesOK, row
<1>11. GuardedKids'
  BY <1>1, <1>2, <1>3, <1>4, <1>10 DEF GuardInv, GuardedKids
<1> QED
  BY <1>5, <1>9, <1>11 DEF GuardInv

LEMMA GuardCommits ==
  ASSUME GuardInv, NEW h \in Handles, Commits(h)
  PROVE  GuardInv'
<1>1. CASE CreateCommits(h)
  BY <1>1, GuardCreateCommits
<1>2. CASE EnterCommits(h) \/ LeaveCommits(h) \/ ShareCommits(h) \/ WriteCommits(h)
  <2>1. UNCHANGED <<rows, used>> /\ op' = [op EXCEPT ![h] = None]
    BY <1>2 DEF EnterCommits, LeaveCommits, ShareCommits, WriteCommits, Ends
  <2>2. Existing' = Existing
    BY <2>1 DEF Existing
  <2> QED
    BY <2>1, <2>2, GuardCommitsElse DEF GuardInv, RowsOK, GuardedKids
<1>3. CASE UpdateCommits(h)
  <2>1. /\ rows' = [i \in Existing |->
                      IF i = op[h].id
                      THEN [rows[i] EXCEPT !.pinned = PinAfter(rows[i], op[h].newPin)]
                      ELSE rows[i]]
        /\ UNCHANGED used /\ op' = [op EXCEPT ![h] = None]
    BY <1>3 DEF UpdateCommits, Ends
  <2>2. Existing' = Existing
    BY <2>1 DEF Existing
  <2>3. \A i \in Existing : rows[i] \in Row
    BY DEF GuardInv, RowsOK
  <2>4. \A i \in Existing : rows'[i] \in Row /\ rows'[i].kids = rows[i].kids
                             /\ rows'[i].guardian = rows[i].guardian
                             /\ (rows[i].pinned => rows'[i].pinned)
    BY <2>1, <2>3 DEF Row, PinAfter
  <2> QED
    BY <2>1, <2>2, <2>4, GuardCommitsElse DEF GuardInv, RowsOK, GuardedKids
<1>4. CASE DeleteCommits(h)
  <2>1. /\ Unreferenced(op[h].id)
        /\ rows' = [i \in Existing \ {op[h].id} |-> rows[i]]
        /\ UNCHANGED used /\ op' = [op EXCEPT ![h] = None]
    BY <1>4 DEF DeleteCommits, Ends
  <2>2. Existing' = Existing \ {op[h].id}
    BY <2>1 DEF Existing
  <2>3. rows' \in [Existing' -> Row]
    BY <2>1, <2>2 DEF GuardInv, RowsOK
  <2> QED
    BY <2>1, <2>2, <2>3, GuardCommitsElse DEF GuardInv, GuardedKids, Unreferenced
<1>5. CASE Fails(h)
  BY <1>5, QuietSteps, GuardQuiet DEF QuietStep, GuardInv, RowsOK
<1> QED
  BY <1>1, <1>2, <1>3, <1>4, <1>5 DEF Commits

THEOREM GuardInvariant == Spec => []GuardInv
<1>1. Init => GuardInv
  BY DEF Init, GuardInv, RowsOK, CreatesOK, GuardedKids, Existing, Running, Row
<1>2. GuardInv /\ Next => GuardInv'
  <2> SUFFICES ASSUME GuardInv, Next PROVE GuardInv'
    OBVIOUS
  <2>1. PICK h \in Handles : QuietStep(h) \/ CheckStep(h) \/ CreateStep(h) \/ Commits(h)
    BY StepKinds
  <2>2. op = [k \in Handles |-> op[k]]
    BY DEF GuardInv, RowsOK
  <2>3. CASE QuietStep(h)
    BY <2>2, <2>3, QuietSteps, GuardQuiet
  <2>4. CASE CheckStep(h)
    BY <2>2, <2>4, CheckSteps, GuardChecked
  <2>5. CASE CreateStep(h)
    BY <2>5, GuardCreate
  <2>6. CASE Commits(h)
    BY <2>6, GuardCommits
  <2> QED
    BY <2>1, <2>3, <2>4, <2>5, <2>6
<1>3. GuardInv /\ UNCHANGED vars => GuardInv'
  <2> SUFFICES ASSUME GuardInv, UNCHANGED vars PROVE GuardInv'
    OBVIOUS
  <2>1. Quiet
    BY DEF Quiet, vars, GuardInv, RowsOK
  <2> QED
    BY <2>1, GuardQuiet
<1> QED
  BY <1>1, <1>2, <1>3, PTL DEF Spec

\* Every kids profile has an existing, regular, PIN-protected guardian, however
\* many handles create, update and delete profiles at the same time.
THEOREM KidsGuarded == Spec => []GuardedKids
  BY GuardInvariant, PTL DEF GuardInv

-----------------------------------------------------------------------------
(* Links *)

Tables ==
  /\ links \subseteq Ids \X Addons
  /\ shared \subseteq Addons
  /\ revision \in Nat
  /\ loaded = [h \in Handles |-> loaded[h]]

\* A loaded snapshot of the current revision shows the current links.
LoadsCurrent ==
  \A h \in Handles : loaded[h] # None =>
    /\ loaded[h].id \in Ids
    /\ loaded[h].revision \in Nat
    /\ loaded[h].revision <= revision
    /\ loaded[h].revision = revision => loaded[h].addons = LinkedTo(loaded[h].id)

\* And so does a write that can still pass.
WritesCurrent ==
  \A h \in Handles : Running(h, "write") =>
    /\ op[h].id \in Ids
    /\ op[h].next \in SUBSET Addons
    /\ op[h].expected \in Nat
    /\ op[h].expected <= revision
    /\ op[h].expected = revision => /\ op[h].previous = LinkedTo(op[h].id)
                                   /\ op[h].seen = op[h].previous

LinkInv == RowsOK /\ Tables /\ LoadsCurrent /\ WritesCurrent /\ LinksOwned

\* The writes of a step that starts none, and changes links only with the revision.
LEMMA WritesKept ==
  ASSUME WritesCurrent, Tables,
         (revision' = revision /\ links' = links) \/ revision' = revision + 1,
         \A k \in Handles : Running(k, "write")' => Running(k, "write") /\ op'[k] = op[k]
  PROVE  WritesCurrent'
  BY DEF WritesCurrent, Tables, LinkedTo

LEMMA LoadsKept ==
  ASSUME LoadsCurrent, Tables,
         (revision' = revision /\ links' = links) \/ revision' = revision + 1,
         \A k \in Handles : loaded'[k] \in {loaded[k], None}
  PROVE  LoadsCurrent'
  BY DEF LoadsCurrent, Tables, LinkedTo

LEMMA LinkQuiet ==
  ASSUME LinkInv, NEW h \in Handles, QuietStep(h)
  PROVE  LinkInv'
<1>1. Quiet
  BY QuietSteps DEF LinkInv, RowsOK
<1>2. WritesCurrent'
  BY <1>1, WritesKept DEF LinkInv, Quiet, database, Running
<1>3. RowsOK' /\ LinksOwned'
  BY <1>1 DEF LinkInv, RowsOK, LinksOwned, Quiet, database, Existing
<1>4. CASE Load(h)
  <2>1. loaded' = [loaded EXCEPT ![h] =
           [id |-> active[h].id, token |-> active[h].token,
            revision |-> revision, addons |-> LinkedTo(active[h].id)]]
        /\ active[h].id \in Existing /\ UNCHANGED database
    BY <1>4 DEF Load, May, Authorized
  <2>2. LoadsCurrent'
    BY <2>1 DEF LinkInv, LoadsCurrent, LinkedTo, Tables, RowsOK, database
  <2> QED
    BY <1>2, <1>3, <2>1, <2>2 DEF LinkInv, Tables, database
<1>5. CASE ~Load(h)
  <2>1. \A k \in Handles : loaded'[k] \in {loaded[k], None}
    BY <1>5 DEF QuietStep, Unlock, UnlockManagement, AuthorizeSettings, LockSettings,
                Restart, Fails, LinkInv, Tables
  <2>2. loaded' = [k \in Handles |-> loaded'[k]]
    BY <1>5 DEF QuietStep, Unlock, UnlockManagement, AuthorizeSettings, LockSettings,
                Restart, Fails, LinkInv, Tables
  <2>3. LoadsCurrent'
    BY <1>1, <2>1, LoadsKept DEF LinkInv, Quiet, database
  <2> QED
    BY <1>1, <1>2, <1>3, <2>2, <2>3 DEF LinkInv, Tables, Quiet, database
<1> QED
  BY <1>4, <1>5

LEMMA LinkWrite ==
  ASSUME LinkInv, NEW h \in Handles, NEW next \in SUBSET Addons, NEW editing \in BOOLEAN,
         Write(h, next, editing)
  PROVE  LinkInv'
<1> DEFINE old == loaded[h]
           w == [op |-> "write", id |-> old.id, token |-> old.token,
                 expected |-> old.revision, seen |-> old.addons,
                 previous |-> LinkedTo(old.id), next |-> next]
<1>1. /\ old # None
      /\ old.revision = revision
      /\ op' = [op EXCEPT ![h] = w]
      /\ loaded' = [loaded EXCEPT ![h] = None]
      /\ UNCHANGED database
  BY DEF Write, UnchangedSince
<1>2. old.id \in Ids /\ old.addons = LinkedTo(old.id)
  BY <1>1 DEF LinkInv, LoadsCurrent
<1>3. RowsOK' /\ LinksOwned' /\ Tables'
  BY <1>1 DEF LinkInv, RowsOK, LinksOwned, Tables, database, Existing
<1>4. LoadsCurrent'
  BY <1>1, LoadsKept DEF LinkInv, Tables, database
<1>5. \A k \in Handles \ {h} : op'[k] = op[k]
  BY <1>1 DEF LinkInv, RowsOK
<1>6. op'[h] = w
  BY <1>1 DEF LinkInv, RowsOK
<1>7. \A i \in Ids : LinkedTo(i)' = LinkedTo(i)
  BY <1>1 DEF LinkedTo, database
<1>8. WritesCurrent'
  BY <1>1, <1>2, <1>5, <1>6, <1>7 DEF LinkInv, WritesCurrent, Running, Tables, database
<1> QED
  BY <1>3, <1>4, <1>8 DEF LinkInv

LEMMA LinkStarted ==
  ASSUME LinkInv, NEW h \in Handles,
         CheckStep(h) \/ CreateStep(h),
         ~\E next \in SUBSET Addons, editing \in BOOLEAN : Write(h, next, editing)
  PROVE  LinkInv'
<1>1. PICK o : op' = [op EXCEPT ![h] = o] /\ o.op # "write"
                /\ UNCHANGED <<rows, revision, shared, links, loaded>>
                /\ used \subseteq used' /\ used' \subseteq Ids
  <2>1. ASSUME NEW o, Started(h, o), o.op # "write", used \subseteq used', used' \subseteq Ids
        PROVE  \E x : op' = [op EXCEPT ![h] = x] /\ x.op # "write"
                  /\ UNCHANGED <<rows, revision, shared, links, loaded>>
                  /\ used \subseteq used' /\ used' \subseteq Ids
    BY <2>1 DEF Started
  <2>2. ASSUME NEW id \in Ids, UnlockKids(h, id)
        PROVE  \E o : Started(h, o) /\ o.op # "write" /\ used' = used
    BY <2>2 DEF UnlockKids
  <2>3. ASSUME NEW right \in BOOLEAN, Leave(h, right)
        PROVE  \E o : Started(h, o) /\ o.op # "write" /\ used' = used
    BY <2>3 DEF Leave
  <2>4. ASSUME NEW right \in BOOLEAN, Delete(h, right)
        PROVE  \E o : Started(h, o) /\ o.op # "write" /\ used' = used
    BY <2>4 DEF Delete
  <2>5. ASSUME NEW a \in Addons, NEW id \in Ids, NEW right \in BOOLEAN, Share(h, a, id, right)
        PROVE  \E o : Started(h, o) /\ o.op # "write" /\ used' = used
    BY <2>5 DEF Share
  <2>6. ASSUME NEW newPin \in BOOLEAN, Update(h, newPin)
        PROVE  \E o : Started(h, o) /\ o.op # "write" /\ used' = used
    BY <2>6 DEF Update
  <2>7. CASE CheckStep(h)
    BY <2>1, <2>2, <2>3, <2>4, <2>5, <2>6, <2>7 DEF CheckStep, LinkInv, RowsOK
  <2>8. CASE CreateStep(h)
    <3>1. PICK id \in Ids \ used, row \in Row, session \in BOOLEAN :
            /\ op' = [op EXCEPT ![h] = [op |-> "create", id |-> id, session |-> session, row |-> row]]
            /\ used' = used \union {id}
            /\ UNCHANGED <<rows, locked, revision, shared, links, active, loaded>>
      BY <2>8, CreateSteps DEF LinkInv
    <3> DEFINE o == [op |-> "create", id |-> id, session |-> session, row |-> row]
    <3>2. o.op # "write"
      OBVIOUS
    <3>3. op' = [op EXCEPT ![h] = o]
      BY <3>1
    <3>4. used \subseteq used' /\ used' \subseteq Ids
      BY <3>1 DEF LinkInv, RowsOK
    <3> HIDE DEF o
    <3> QED
      BY <3>1, <3>2, <3>3, <3>4
  <2> QED
    BY <2>7, <2>8
<1>2. \A k \in Handles : Running(k, "write")' => Running(k, "write") /\ op'[k] = op[k]
  BY <1>1 DEF LinkInv, RowsOK, Running
<1>3. RowsOK' /\ LinksOwned' /\ Tables'
  BY <1>1 DEF LinkInv, RowsOK, LinksOwned, Tables, Existing
<1>4. LoadsCurrent'
  BY <1>1, LoadsKept DEF LinkInv
<1>5. WritesCurrent'
  BY <1>1, <1>2, WritesKept DEF LinkInv
<1> QED
  BY <1>3, <1>4, <1>5 DEF LinkInv

\* A transaction keeps what was loaded and checked before it, if it moves the
\* revision whenever it changes links.
LEMMA CommitsKeep ==
  ASSUME LinkInv, NEW h \in Handles, op' = [op EXCEPT ![h] = None],
         (revision' = revision /\ links' = links) \/ revision' = revision + 1,
         RowsOK', links' \subseteq Ids \X Addons, shared' \subseteq Addons,
         loaded' = loaded, LinksOwned'
  PROVE  LinkInv'
<1>1. \A k \in Handles : Running(k, "write")' => Running(k, "write") /\ op'[k] = op[k]
  BY DEF LinkInv, RowsOK, Running
<1>2. WritesCurrent' /\ LoadsCurrent'
  BY <1>1, WritesKept, LoadsKept DEF LinkInv, Tables
<1>3. Tables'
  BY DEF LinkInv, Tables
<1> QED
  BY <1>2, <1>3 DEF LinkInv

LEMMA PairsOfLinks ==
  ASSUME links \subseteq Ids \X Addons, NEW l \in links
  PROVE  l[1] \in Ids /\ l[2] \in Addons /\ l = <<l[1], l[2]>>
  OBVIOUS

LEMMA DeleteLinks ==
  ASSUME LinkInv, NEW h \in Handles, DeleteCommits(h)
  PROVE  links' \subseteq links /\ shared' \subseteq shared /\ LinksOwned'
<1> DEFINE id == op[h].id
<1>1. /\ rows' = [i \in Existing \ {id} |-> rows[i]]
      /\ links' = {l \in links : l[1] # id}
      /\ shared' = shared \intersect Owned(links')
  BY DEF DeleteCommits
<1> HIDE DEF id
<1>2. Existing' = Existing \ {id}
  BY <1>1 DEF Existing
<1>3. ASSUME NEW l \in links'
      PROVE  l[1] \in Existing' /\ l[2] \in shared'
  <2>1. l \in links /\ l[1] \in Ids /\ l[2] \in Addons /\ l = <<l[1], l[2]>>
    BY <1>1, <1>3, PairsOfLinks DEF LinkInv, Tables
  <2>2. l[2] \in Owned(links')
    BY <1>3, <2>1 DEF Owned
  <2> QED
    BY <1>1, <1>2, <1>3, <2>1, <2>2 DEF LinkInv, LinksOwned
<1>4. ASSUME NEW a \in shared'
      PROVE  \E l \in links' : l[2] = a
  <2>1. PICK i \in Ids : <<i, a>> \in links'
    BY <1>1, <1>4 DEF Owned
  <2> QED
    BY <2>1
<1> QED
  BY <1>1, <1>3, <1>4 DEF LinksOwned

LEMMA WriteLinks ==
  ASSUME LinkInv, NEW h \in Handles, WriteCommits(h), op[h].next # op[h].previous
  PROVE  links' \subseteq Ids \X Addons /\ shared' \subseteq Addons /\ LinksOwned'
<1> DEFINE w == op[h]
           kept == {l \in links : l[1] = w.id => l[2] \notin w.previous \ w.next}
           added == {<<w.id, a>> : a \in w.next}
<1>1. /\ w.id \in Existing /\ UNCHANGED rows
      /\ links' = kept \union added
      /\ shared' = (shared \union w.next) \intersect Owned(links')
  BY DEF WriteCommits
<1>2. w.next \subseteq Addons /\ w.id \in Ids
  BY DEF WriteCommits, LinkInv, WritesCurrent
<1>3. added \subseteq Ids \X Addons /\ \A l \in added : l[1] = w.id /\ l[2] \in w.next
  BY <1>2
<1>4. kept \subseteq links
  OBVIOUS
<1> HIDE DEF w, kept, added
<1>5. links' \subseteq Ids \X Addons /\ shared' \subseteq Addons
  BY <1>1, <1>2, <1>3, <1>4 DEF LinkInv, Tables
<1>6. ASSUME NEW l \in links'
      PROVE  l[1] \in Existing' /\ l[2] \in shared'
  <2>1. l[1] \in Ids /\ l[2] \in Addons /\ l = <<l[1], l[2]>>
    BY <1>5, <1>6
  <2>2. l[2] \in Owned(links')
    BY <1>6, <2>1 DEF Owned
  <2>3. l[1] \in Existing /\ l[2] \in shared \union w.next
    BY <1>1, <1>3, <1>4, <1>6 DEF LinkInv, LinksOwned
  <2> QED
    BY <1>1, <2>2, <2>3 DEF Existing
<1>7. ASSUME NEW a \in shared'
      PROVE  \E l \in links' : l[2] = a
  <2>1. PICK i \in Ids : <<i, a>> \in links'
    BY <1>1, <1>7 DEF Owned
  <2> QED
    BY <2>1
<1> QED
  BY <1>5, <1>6, <1>7 DEF LinksOwned

LEMMA RowsCommits ==
  ASSUME LinkInv, GuardInv, NEW h \in Handles, Commits(h)
  PROVE  RowsOK'
  BY GuardCommits DEF GuardInv

LEMMA LinkCommits ==
  ASSUME LinkInv, GuardInv, NEW h \in Handles, Commits(h)
  PROVE  LinkInv'
<1>1. CASE CreateCommits(h)
  <2>1. /\ UNCHANGED <<links, shared, loaded>> /\ revision' = revision + 1
        /\ op' = [op EXCEPT ![h] = None]
        /\ Existing \subseteq Existing'
    BY <1>1 DEF CreateCommits, NextRevision, Ends, Existing
  <2>2. LinksOwned'
    BY <2>1 DEF LinkInv, LinksOwned
  <2> QED
    BY <2>1, <2>2, RowsCommits, CommitsKeep DEF LinkInv, Tables
<1>2. CASE EnterCommits(h) \/ LeaveCommits(h)
  <2>1. /\ UNCHANGED <<rows, links, shared, loaded, revision>>
        /\ op' = [op EXCEPT ![h] = None]
    BY <1>2 DEF EnterCommits, LeaveCommits, Ends
  <2>2. LinksOwned'
    BY <2>1 DEF LinkInv, LinksOwned, Existing
  <2> QED
    BY <2>1, <2>2, RowsCommits, CommitsKeep DEF LinkInv, Tables
<1>3. CASE UpdateCommits(h)
  <2>1. /\ UNCHANGED <<links, shared, loaded>> /\ revision' = revision + 1
        /\ op' = [op EXCEPT ![h] = None]
        /\ Existing' = Existing
    BY <1>3 DEF UpdateCommits, NextRevision, Ends, Existing
  <2>2. LinksOwned'
    BY <2>1 DEF LinkInv, LinksOwned
  <2> QED
    BY <2>1, <2>2, RowsCommits, CommitsKeep DEF LinkInv, Tables
<1>4. CASE DeleteCommits(h)
  <2>1. /\ UNCHANGED loaded /\ revision' = revision + 1
        /\ op' = [op EXCEPT ![h] = None]
    BY <1>4 DEF DeleteCommits, NextRevision, Ends
  <2> QED
    BY <1>4, <2>1, DeleteLinks, RowsCommits, CommitsKeep DEF LinkInv, Tables
<1>5. CASE ShareCommits(h)
  <2>1. /\ UNCHANGED <<rows, shared, loaded>> /\ revision' = revision + 1
        /\ op' = [op EXCEPT ![h] = None]
        /\ op[h].target \in Existing /\ op[h].addon \in shared
        /\ links' = links \union {<<op[h].target, op[h].addon>>}
    BY <1>5 DEF ShareCommits, NextRevision, Ends, Linkable
  <2>2. LinksOwned'
    BY <2>1 DEF LinkInv, LinksOwned, Existing
  <2>3. links' \subseteq Ids \X Addons
    BY <2>1 DEF LinkInv, Tables, RowsOK
  <2> QED
    BY <2>1, <2>2, <2>3, RowsCommits, CommitsKeep DEF LinkInv, Tables
<1>6. CASE WriteCommits(h)
  <2>1. /\ UNCHANGED <<rows, loaded>> /\ revision' = revision + 1
        /\ op' = [op EXCEPT ![h] = None]
    BY <1>6 DEF WriteCommits, NextRevision, Ends
  <2>2. CASE op[h].next = op[h].previous
    <3>1. UNCHANGED <<shared, links>>
      BY <1>6, <2>2 DEF WriteCommits
    <3>2. LinksOwned'
      BY <2>1, <3>1 DEF LinkInv, LinksOwned, Existing
    <3> QED
      BY <2>1, <3>1, <3>2, RowsCommits, CommitsKeep DEF LinkInv, Tables
  <2> QED
    BY <1>6, <2>1, <2>2, WriteLinks, RowsCommits, CommitsKeep
<1>7. CASE Fails(h)
  BY <1>7, LinkQuiet DEF QuietStep
<1> QED
  BY <1>1, <1>2, <1>3, <1>4, <1>5, <1>6, <1>7 DEF Commits

THEOREM LinkInvariant == Spec => []LinkInv
<1>1. Init => LinkInv
  BY DEF Init, LinkInv, RowsOK, Tables, LoadsCurrent, WritesCurrent, LinksOwned, Existing,
         Running, Row
<1>2. LinkInv /\ GuardInv /\ Next => LinkInv'
  <2> SUFFICES ASSUME LinkInv, GuardInv, Next PROVE LinkInv'
    OBVIOUS
  <2>1. PICK h \in Handles : QuietStep(h) \/ CheckStep(h) \/ CreateStep(h) \/ Commits(h)
    BY StepKinds
  <2>2. CASE \E next \in SUBSET Addons, editing \in BOOLEAN : Write(h, next, editing)
    BY <2>2, LinkWrite
  <2> QED
    BY <2>1, <2>2, LinkQuiet, LinkStarted, LinkCommits
<1>3. LinkInv /\ UNCHANGED vars => LinkInv'
  BY DEF LinkInv, RowsOK, Tables, LoadsCurrent, WritesCurrent, LinksOwned, Existing,
         Running, LinkedTo, vars, database
<1> QED
  BY <1>1, <1>2, <1>3, GuardInvariant, PTL DEF Spec

\* The registry holds exactly the installations existing profiles link to.
THEOREM LinksAlwaysOwned == Spec => []LinksOwned
  BY LinkInvariant, PTL DEF LinkInv

\* What changes links: a share, a write that lost no race, a delete.
LEMMA LinkChanges ==
  ASSUME LinkInv, [Next]_vars, links' # links
  PROVE  \E h \in Handles :
           \/ ShareCommits(h) \/ DeleteCommits(h)
           \/ /\ WriteCommits(h) /\ op[h].next # op[h].previous
              /\ op[h].previous = LinkedTo(op[h].id) /\ op[h].seen = op[h].previous
<1>1. ASSUME NEW h \in Handles, QuietStep(h) \/ CheckStep(h)
      PROVE  links' = links
  BY <1>1, QuietSteps, CheckSteps DEF LinkInv, RowsOK, Quiet, Checked, database
<1>2. ASSUME NEW h \in Handles, CreateStep(h)
      PROVE  links' = links
  BY <1>2, CreateSteps DEF LinkInv
<1>3. ASSUME NEW h \in Handles, Commits(h)
      PROVE  ShareCommits(h) \/ DeleteCommits(h) \/ WriteCommits(h)
  BY <1>3 DEF Commits, CreateCommits, EnterCommits, LeaveCommits, UpdateCommits, Fails, database
<1>4. ASSUME NEW h \in Handles, WriteCommits(h)
      PROVE  /\ op[h].next # op[h].previous
             /\ op[h].previous = LinkedTo(op[h].id) /\ op[h].seen = op[h].previous
  BY <1>4 DEF WriteCommits, UnchangedSince, LinkInv, WritesCurrent
<1>5. Next
  BY DEF vars, database
<1> QED
  BY <1>1, <1>2, <1>3, <1>4, <1>5, StepKinds

LEMMA RemovalsAreWrites ==
  ASSUME LinkInv, [Next]_vars, NEW l \in links, l \notin links', l[1] \in DOMAIN rows'
  PROVE  \E h \in Handles : /\ Running(h, "write") /\ op[h].id = l[1]
                            /\ l[2] \in op[h].seen \ op[h].next
<1>1. PICK h \in Handles :
           \/ ShareCommits(h) \/ DeleteCommits(h)
           \/ /\ WriteCommits(h) /\ op[h].next # op[h].previous
              /\ op[h].previous = LinkedTo(op[h].id) /\ op[h].seen = op[h].previous
  BY LinkChanges
<1>2. ~ShareCommits(h)
  BY DEF ShareCommits
<1>3. ~DeleteCommits(h)
  BY DEF DeleteCommits
<1> QED
  BY <1>1, <1>2, <1>3 DEF WriteCommits

LEMMA AdditionsAreShares ==
  ASSUME LinkInv, [Next]_vars, NEW l \in links', l \notin links, l[2] \in shared
  PROVE  \E h \in Handles : Running(h, "share") /\ op[h].addon = l[2]
<1>1. PICK h \in Handles :
           \/ ShareCommits(h) \/ DeleteCommits(h)
           \/ /\ WriteCommits(h) /\ op[h].next # op[h].previous
              /\ op[h].previous = LinkedTo(op[h].id) /\ op[h].seen = op[h].previous
  BY LinkChanges
<1>2. CASE ShareCommits(h)
  BY <1>2 DEF ShareCommits
<1>3. ~DeleteCommits(h)
  BY DEF DeleteCommits
<1>4. CASE WriteCommits(h) /\ op[h].next # op[h].previous
             /\ op[h].previous = LinkedTo(op[h].id)
  <2>1. PICK a \in op[h].next : l = <<op[h].id, a>>
    BY <1>4 DEF WriteCommits
  <2>2. a \in op[h].previous
    BY <1>4, <2>1 DEF WriteCommits, Attachable
  <2> QED
    BY <1>4, <2>1, <2>2 DEF LinkedTo
<1> QED
  BY <1>1, <1>2, <1>3, <1>4

\* A write takes a link away only if the snapshot it was computed from showed
\* it: an installation shared meanwhile stays.
THEOREM SharedSurvive == Spec => SharedLinksSurvive
<1> DEFINE A == \A l \in links : (l \notin links' /\ l[1] \in DOMAIN rows') =>
                  \E h \in Handles : /\ Running(h, "write") /\ op[h].id = l[1]
                                     /\ l[2] \in op[h].seen \ op[h].next
<1>1. LinkInv /\ [Next]_vars => [A]_vars
  BY RemovalsAreWrites
<1> QED
  BY <1>1, LinkInvariant, PTL DEF Spec, SharedLinksSurvive

\* An installation that exists reaches another profile by sharing only.
THEOREM OnlyByShare == Spec => ExistingOnlyByShare
<1> DEFINE A == \A l \in links' \ links : l[2] \in shared =>
                  \E h \in Handles : Running(h, "share") /\ op[h].addon = l[2]
<1>1. LinkInv /\ [Next]_vars => [A]_vars
  BY AdditionsAreShares
<1> QED
  BY <1>1, LinkInvariant, PTL DEF Spec, ExistingOnlyByShare

-----------------------------------------------------------------------------
(* Sessions *)

\* The session a running write was authorized in is still the handle's.
SessionInv ==
  /\ op = [h \in Handles |-> op[h]]
  /\ active = [h \in Handles |-> active[h]]
  /\ \A h \in Handles : Running(h, "write") =>
       /\ active[h] # None
       /\ active[h].id = op[h].id
       /\ active[h].token = op[h].token

LEMMA OthersUntouched ==
  ASSUME SessionInv, RowsOK, NEW h \in Handles,
         QuietStep(h) \/ CheckStep(h) \/ CreateStep(h) \/ Commits(h)
  PROVE  /\ \A k \in Handles \ {h} : op'[k] = op[k] /\ active'[k] = active[k]
         /\ op' = [k \in Handles |-> op'[k]]
         /\ active' = [k \in Handles |-> active'[k]]
<1>1. CASE QuietStep(h)
  BY <1>1 DEF SessionInv, QuietStep, Unlock, UnlockManagement, AuthorizeSettings, LockSettings,
              Load, Restart, Fails, Ends, Activate
<1>2. CASE CheckStep(h)
  <2>1. active' = active
    BY <1>2 DEF CheckStep, UnlockKids, Leave, Delete, Share, Update, Write, Started
  <2> QED
    BY <1>2, <2>1, CheckSteps DEF SessionInv, Checked
<1>3. CASE CreateStep(h)
  BY <1>3, CreateSteps DEF SessionInv
<1>4. CASE Commits(h)
  <2>1. op' = [op EXCEPT ![h] = None]
    BY <1>4 DEF Commits, CreateCommits, EnterCommits, LeaveCommits, UpdateCommits,
                DeleteCommits, ShareCommits, WriteCommits, Fails, Ends
  <2>2. active' = active \/ \E a : active' = [active EXCEPT ![h] = a]
    BY <1>4 DEF Commits, CreateCommits, EnterCommits, LeaveCommits, UpdateCommits,
                DeleteCommits, ShareCommits, WriteCommits, Fails, Activate
  <2> QED
    BY <2>1, <2>2 DEF SessionInv
<1> QED
  BY <1>1, <1>2, <1>3, <1>4

LEMMA OnlyWriteStartsWrites ==
  ASSUME SessionInv, RowsOK, NEW h \in Handles,
         QuietStep(h) \/ CheckStep(h) \/ CreateStep(h) \/ Commits(h),
         Running(h, "write")'
  PROVE  \E next \in SUBSET Addons, editing \in BOOLEAN : Write(h, next, editing)
<1>1. ~QuietStep(h)
  BY DEF SessionInv, QuietStep, Unlock, UnlockManagement, AuthorizeSettings, LockSettings,
         Load, Restart, Fails, Ends, Activate, Openable, May, Running
<1>2. ~CreateStep(h)
  BY CreateSteps DEF SessionInv, Running
<1>3. ~Commits(h)
  BY DEF SessionInv, Commits, CreateCommits, EnterCommits, LeaveCommits, UpdateCommits,
         DeleteCommits, ShareCommits, WriteCommits, Fails, Ends, Running
<1>4. ASSUME NEW o, Started(h, o), o.op # "write"
      PROVE  FALSE
  BY <1>4 DEF SessionInv, Started, Running
<1>5. ASSUME NEW id \in Ids PROVE ~UnlockKids(h, id)
  BY <1>4 DEF UnlockKids
<1>6. ASSUME NEW right \in BOOLEAN PROVE ~Leave(h, right)
  BY <1>4 DEF Leave
<1>7. ASSUME NEW right \in BOOLEAN PROVE ~Delete(h, right)
  BY <1>4 DEF Delete
<1>8. ASSUME NEW a \in Addons, NEW id \in Ids, NEW right \in BOOLEAN PROVE ~Share(h, a, id, right)
  BY <1>4 DEF Share
<1>9. ASSUME NEW newPin \in BOOLEAN PROVE ~Update(h, newPin)
  BY <1>4 DEF Update
<1> QED
  BY <1>1, <1>2, <1>3, <1>5, <1>6, <1>7, <1>8, <1>9 DEF CheckStep

LEMMA WriteIsAuthorized ==
  ASSUME SessionInv, NEW h \in Handles, NEW next \in SUBSET Addons, NEW editing \in BOOLEAN,
         Write(h, next, editing)
  PROVE  active'[h] # None /\ active'[h].id = op'[h].id /\ active'[h].token = op'[h].token
<1>1. /\ active[h] # None
      /\ active[h].id = loaded[h].id /\ active[h].token = loaded[h].token
      /\ UNCHANGED active
  BY DEF Write, Authorized
<1>2. op'[h].id = loaded[h].id /\ op'[h].token = loaded[h].token
  BY DEF Write, SessionInv
<1> QED
  BY <1>1, <1>2

LEMMA SessionStep ==
  ASSUME SessionInv, RowsOK, Next
  PROVE  SessionInv'
<1>1. PICK h \in Handles : QuietStep(h) \/ CheckStep(h) \/ CreateStep(h) \/ Commits(h)
  BY StepKinds
<1>2. /\ \A k \in Handles \ {h} : op'[k] = op[k] /\ active'[k] = active[k]
      /\ op' = [k \in Handles |-> op'[k]]
      /\ active' = [k \in Handles |-> active'[k]]
  BY <1>1, OthersUntouched
<1>3. Running(h, "write")' => /\ active'[h] # None
                             /\ active'[h].id = op'[h].id /\ active'[h].token = op'[h].token
  BY <1>1, OnlyWriteStartsWrites, WriteIsAuthorized
<1> QED
  BY <1>2, <1>3 DEF SessionInv, Running

THEOREM SessionInvariant == Spec => []SessionInv
<1>1. Init => SessionInv
  BY DEF Init, SessionInv, Running
<1>2. SessionInv /\ GuardInv /\ [Next]_vars => SessionInv'
  <2>1. SessionInv /\ UNCHANGED vars => SessionInv'
    BY DEF SessionInv, Running, vars
  <2> QED
    BY <2>1, SessionStep DEF GuardInv
<1> QED
  BY <1>1, <1>2, GuardInvariant, PTL DEF Spec

\* Changing the profile invalidates old Core handles: what commits was loaded
\* and authorized in the session its handle still has.
THEOREM OldCoresHarmless == Spec => OldCoresWriteNothing
<1> DEFINE A == \A h \in Handles :
                  (Running(h, "write") /\ revision' # revision /\ op'[h] = None) =>
                    /\ active[h] # None /\ active[h].id = op[h].id /\ active[h].token = op[h].token
<1>1. SessionInv => [A]_vars
  BY DEF SessionInv
<1> QED
  BY <1>1, SessionInvariant, PTL DEF Spec, OldCoresWriteNothing

-----------------------------------------------------------------------------
(* Kids mode, on a device with one screen *)

OneScreen == \A g, h \in Screens : g = h

\* Kids mode names a kids profile; only the screen's handle opens, leaves or
\* deletes one, and it does the latter two with the guardian's PIN.
KidsInv ==
  /\ locked # NoProfile => locked \in Existing /\ rows[locked].kids
  /\ \A h \in Handles :
       /\ Running(h, "enter") =>
            /\ h \in Screens
            /\ op[h].id \in Existing /\ rows[op[h].id].kids
            /\ locked \in {NoProfile, op[h].id}
       /\ Running(h, "leave") \/ Running(h, "delete") =>
            /\ h \in Screens
            /\ op[h].id \in Existing
            /\ locked \in {NoProfile, op[h].id}
            /\ rows[op[h].id].kids => op[h].right

LEMMA KidsQuiet ==
  ASSUME KidsInv, UNCHANGED <<rows, locked>>,
         \A k \in Handles, kind \in {"enter", "leave", "delete"} :
           Running(k, kind)' => Running(k, kind) /\ op'[k] = op[k]
  PROVE  KidsInv'
  BY DEF KidsInv, Existing

LEMMA GuardianPinned ==
  ASSUME GuardInv, NEW id \in Existing, rows[id].kids, NEW right \in BOOLEAN,
         Verified(GuardianOf(id), right)
  PROVE  right
  BY DEF GuardInv, GuardedKids, Verified, GuardianOf

\* A handler of the screen that enters, leaves or deletes has passed its checks.
LEMMA KidsScreen ==
  ASSUME KidsInv, GuardInv, NEW h \in Screens, ScreenCalls(h)
  PROVE  KidsInv'
<1>0. h \in Handles /\ op = [k \in Handles |-> op[k]]
  BY ProfilesAssumption DEF GuardInv, RowsOK
<1>1. ASSUME NEW o, op' = [op EXCEPT ![h] = o], UNCHANGED <<rows, locked>>,
             o.op = "enter" => o.id \in Existing /\ rows[o.id].kids /\ locked \in {NoProfile, o.id},
             o.op \in {"leave", "delete"} =>
               /\ o.id \in Existing /\ locked \in {NoProfile, o.id}
               /\ rows[o.id].kids => o.right
      PROVE  KidsInv'
  <2>1. op'[h] = o /\ \A k \in Handles \ {h} : op'[k] = op[k]
    BY <1>0, <1>1
  <2> QED
    BY <1>1, <2>1 DEF KidsInv, Running, Existing
<1>2. ASSUME NEW id \in Ids, UnlockKids(h, id)
      PROVE  KidsInv'
  <2>1. id \in Existing /\ rows[id].kids /\ locked \in {NoProfile, id}
    BY <1>2 DEF UnlockKids, Openable
  <2>2. /\ op' = [op EXCEPT ![h] = [op |-> "enter", id |-> id]]
        /\ UNCHANGED <<rows, locked>>
    BY <1>2 DEF UnlockKids, Started
  <2> QED
    BY <1>1, <2>1, <2>2
<1>3. ASSUME NEW right \in BOOLEAN, Leave(h, right)
      PROVE  KidsInv'
  <2>1. /\ active[h].id \in Existing /\ locked \in {NoProfile, active[h].id}
        /\ rows[active[h].id].kids => Verified(GuardianOf(active[h].id), right)
    BY <1>3 DEF Leave, May, Authorized
  <2>2. rows[active[h].id].kids => right
    BY <2>1, GuardianPinned
  <2>3. /\ op' = [op EXCEPT ![h] = [op |-> "leave", id |-> active[h].id, right |-> right]]
        /\ UNCHANGED <<rows, locked>>
    BY <1>3 DEF Leave, Started
  <2> QED
    BY <1>1, <2>1, <2>2, <2>3
<1>4. ASSUME NEW right \in BOOLEAN, Delete(h, right)
      PROVE  KidsInv'
  <2>1. /\ active[h].id \in Existing /\ locked \in {NoProfile, active[h].id}
        /\ rows[active[h].id].kids => Verified(GuardianOf(active[h].id), right)
    BY <1>4 DEF Delete, May, Authorized
  <2>2. rows[active[h].id].kids => right
    BY <2>1, GuardianPinned
  <2>3. /\ op' = [op EXCEPT ![h] = [op |-> "delete", id |-> active[h].id, right |-> right]]
        /\ UNCHANGED <<rows, locked>>
    BY <1>4 DEF Delete, Started
  <2> QED
    BY <1>1, <2>1, <2>2, <2>3
<1>5. ASSUME NEW right \in BOOLEAN,
             (\E id \in Ids : Unlock(h, id, right)) \/ AuthorizeSettings(h, right)
      PROVE  KidsInv'
  BY <1>5, KidsQuiet DEF Unlock, AuthorizeSettings, database, Running
<1> QED
  BY <1>2, <1>3, <1>4, <1>5 DEF ScreenCalls

LEMMA KidsCalls ==
  ASSUME KidsInv, GuardInv, NEW h \in Handles, Calls(h)
  PROVE  KidsInv'
<1>0. op = [k \in Handles |-> op[k]]
  BY DEF GuardInv, RowsOK
<1>1. ASSUME UNCHANGED <<rows, locked>>,
             NEW o, op' = [op EXCEPT ![h] = o], o = None \/ o.op \notin {"enter", "leave", "delete"}
      PROVE  KidsInv'
  <2>1. op'[h] = o /\ \A k \in Handles \ {h} : op'[k] = op[k]
    BY <1>0, <1>1
  <2> QED
    BY <1>1, <2>1, KidsQuiet DEF Running
<1>2. CASE UNCHANGED <<rows, locked, op>>
  BY <1>2, KidsQuiet DEF Running
<1>3. CASE LockSettings(h) \/ Load(h) \/ \E right \in BOOLEAN, id \in Ids : UnlockManagement(h, id, right)
  BY <1>2, <1>3 DEF LockSettings, Load, UnlockManagement, database
<1>4. CASE Restart(h)
  BY <1>1, <1>4 DEF Restart, database
<1>5. ASSUME NEW right \in BOOLEAN, NEW id \in Ids, NEW a \in Addons, Share(h, a, id, right)
      PROVE  KidsInv'
  BY <1>1, <1>5 DEF Share, Started
<1>6. CASE CreateStep(h)
  BY <1>1, <1>6, CreateSteps DEF GuardInv
<1>7. ASSUME NEW newPin \in BOOLEAN, Update(h, newPin)
      PROVE  KidsInv'
  BY <1>1, <1>7 DEF Update, Started
<1>8. ASSUME NEW next \in SUBSET Addons, NEW editing \in BOOLEAN, Write(h, next, editing)
      PROVE  KidsInv'
  BY <1>1, <1>8 DEF Write, database
<1> QED
  BY <1>3, <1>4, <1>5, <1>6, <1>7, <1>8 DEF Calls, CreateStep

\* A transaction of another handler than the screen's own keeps kids mode, and
\* the profiles the screen's handler is about.
LEMMA KidsKept ==
  ASSUME KidsInv, GuardInv, NEW h \in Handles, op' = [op EXCEPT ![h] = None],
         locked' = locked, Existing \subseteq Existing',
         \A i \in Existing : rows'[i].kids = rows[i].kids
  PROVE  KidsInv'
<1>1. \A k \in Handles, kind \in {"enter", "leave", "delete"} :
        Running(k, kind)' => Running(k, kind) /\ op'[k] = op[k]
  BY DEF GuardInv, RowsOK, Running
<1>2. locked' # NoProfile => locked' \in Existing' /\ rows'[locked'].kids
  BY DEF KidsInv
<1> QED
  BY <1>1, <1>2 DEF KidsInv

\* The one screen's handler ends: no other one enters, leaves or deletes.
LEMMA ScreenIsFree ==
  ASSUME OneScreen, KidsInv, GuardInv, NEW h \in Screens, op' = [op EXCEPT ![h] = None],
         NEW k \in Handles, NEW kind \in {"enter", "leave", "delete"}
  PROVE  ~Running(k, kind)'
<1>1. h \in Handles
  BY ProfilesAssumption
<1>2. CASE k = h
  BY <1>1, <1>2 DEF GuardInv, RowsOK, Running
<1>3. CASE k # h
  <2>1. k \notin Screens
    BY <1>3 DEF OneScreen
  <2>2. ~Running(k, kind)
    BY <2>1 DEF KidsInv
  <2> QED
    BY <1>3, <2>2 DEF GuardInv, RowsOK, Running
<1> QED
  BY <1>2, <1>3

LEMMA KidsCommits ==
  ASSUME OneScreen, KidsInv, GuardInv, NEW h \in Handles, Commits(h)
  PROVE  KidsInv'
<1>1. CASE CreateCommits(h)
  <2>1. op[h].id \notin Existing
    BY <1>1 DEF CreateCommits, GuardInv, CreatesOK
  <2>2. /\ rows' = [i \in Existing \union {op[h].id} |-> IF i = op[h].id THEN op[h].row ELSE rows[i]]
        /\ op' = [op EXCEPT ![h] = None] /\ locked' = locked
    BY <1>1 DEF CreateCommits, Ends
  <2>3. Existing \subseteq Existing'
    BY <2>2 DEF Existing
  <2> QED
    BY <2>1, <2>2, <2>3, KidsKept
<1>2. CASE EnterCommits(h)
  <2>1. h \in Screens /\ op[h].id \in Existing /\ rows[op[h].id].kids
    BY <1>2 DEF EnterCommits, KidsInv
  <2>2. op' = [op EXCEPT ![h] = None] /\ locked' = op[h].id /\ UNCHANGED rows
    BY <1>2 DEF EnterCommits, Ends
  <2> QED
    BY <2>1, <2>2, ScreenIsFree DEF KidsInv, Existing
<1>3. CASE LeaveCommits(h)
  <2>1. h \in Screens
    BY <1>3 DEF LeaveCommits, KidsInv
  <2>2. op' = [op EXCEPT ![h] = None] /\ locked' = NoProfile
    BY <1>3 DEF LeaveCommits, Ends
  <2> QED
    BY <2>1, <2>2, ScreenIsFree DEF KidsInv
<1>4. CASE DeleteCommits(h)
  <2>1. h \in Screens
    BY <1>4 DEF DeleteCommits, KidsInv
  <2>2. /\ op' = [op EXCEPT ![h] = None]
        /\ rows' = [i \in Existing \ {op[h].id} |-> rows[i]]
        /\ locked' = LockedWithout(op[h].id)
    BY <1>4 DEF DeleteCommits, Ends
  <2>3. locked' # NoProfile => locked' \in Existing' /\ rows'[locked'].kids
    BY <2>2 DEF KidsInv, LockedWithout, Existing
  <2> QED
    BY <2>1, <2>2, <2>3, ScreenIsFree DEF KidsInv
<1>5. CASE UpdateCommits(h)
  <2>1. /\ rows' = [i \in Existing |->
                      IF i = op[h].id
                      THEN [rows[i] EXCEPT !.pinned = PinAfter(rows[i], op[h].newPin)]
                      ELSE rows[i]]
        /\ op' = [op EXCEPT ![h] = None] /\ locked' = locked
    BY <1>5 DEF UpdateCommits, Ends
  <2>2. \A i \in Existing : rows[i] \in Row
    BY DEF GuardInv, RowsOK
  <2>3. \A i \in Existing : rows'[i].kids = rows[i].kids
    BY <2>1, <2>2 DEF Row
  <2>4. Existing' = Existing
    BY <2>1 DEF Existing
  <2> QED
    BY <2>1, <2>3, <2>4, KidsKept
<1>6. CASE ShareCommits(h) \/ WriteCommits(h) \/ Fails(h)
  <2>1. op' = [op EXCEPT ![h] = None] /\ UNCHANGED <<rows, locked>>
    BY <1>6 DEF ShareCommits, WriteCommits, Fails, Ends, database
  <2>2. Existing' = Existing
    BY <2>1 DEF Existing
  <2> QED
    BY <2>1, <2>2, KidsKept
<1> QED
  BY <1>1, <1>2, <1>3, <1>4, <1>5, <1>6 DEF Commits

THEOREM KidsInvariant == ASSUME OneScreen PROVE Spec => []KidsInv
<1>1. Init => KidsInv
  BY DEF Init, KidsInv, Running
<1>2. KidsInv /\ GuardInv /\ [Next]_vars => KidsInv'
  <2>1. KidsInv /\ UNCHANGED vars => KidsInv'
    BY KidsQuiet DEF vars, database, Running
  <2> QED
    BY <2>1, KidsScreen, KidsCalls, KidsCommits DEF Next
<1> QED
  BY <1>1, <1>2, GuardInvariant, PTL DEF Spec

\* With one screen, kids mode always names an existing profile.
THEOREM KidsModeNamed == ASSUME OneScreen PROVE Spec => []KidsModeNamesAProfile
<1>1. KidsInv => KidsModeNamesAProfile
  BY DEF KidsInv, KidsModeNamesAProfile
<1> QED
  BY <1>1, KidsInvariant, PTL

LEMMA KidsModeChanges ==
  ASSUME KidsInv, GuardInv, [Next]_vars, locked # NoProfile, locked' # locked
  PROVE  \E h \in Handles : /\ Running(h, "leave") \/ Running(h, "delete")
                            /\ op[h].id = locked /\ op[h].right
<1>1. ASSUME NEW h \in Handles, QuietStep(h) \/ CheckStep(h) \/ CreateStep(h)
      PROVE  FALSE
  BY <1>1, QuietSteps, CheckSteps, CreateSteps DEF GuardInv, RowsOK, Quiet, Checked, database
<1>2. PICK h \in Handles : Commits(h)
  BY <1>1, StepKinds DEF vars, database
<1>3. EnterCommits(h) \/ LeaveCommits(h) \/ DeleteCommits(h)
  BY <1>2 DEF Commits, CreateCommits, UpdateCommits, ShareCommits, WriteCommits, Fails, database
<1>4. ~EnterCommits(h)
  BY DEF EnterCommits, KidsInv
<1>5. CASE LeaveCommits(h)
  BY <1>5 DEF LeaveCommits, KidsInv
<1>6. CASE DeleteCommits(h)
  BY <1>6 DEF DeleteCommits, KidsInv, LockedWithout
<1> QED
  BY <1>3, <1>4, <1>5, <1>6

\* With one screen, kids mode ends only by leaving or deleting its profile with
\* the guardian's PIN; restarts, browsers and lost races do not end it.
THEOREM KidsModeEnds == ASSUME OneScreen PROVE Spec => KidsModeEndsByGuardian
<1> DEFINE A == (locked # NoProfile /\ locked' # locked) =>
                  \E h \in Handles : /\ Running(h, "leave") \/ Running(h, "delete")
                                     /\ op[h].id = locked /\ op[h].right
<1>1. KidsInv /\ GuardInv /\ [Next]_vars => [A]_vars
  BY KidsModeChanges
<1> QED
  BY <1>1, KidsInvariant, GuardInvariant, PTL DEF Spec, KidsModeEndsByGuardian

=============================================================================
