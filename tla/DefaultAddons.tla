--------------------------- MODULE DefaultAddons ---------------------------
(***************************************************************************)
(* Core::install_default_addons (crates/madari-core/src/lib.rs), run by a   *)
(* client each time it opens a profile, while the user edits the addons.    *)
(*                                                                         *)
(* A command of Core is one step here, as CoreState shows it to be; what    *)
(* interleaves are the commands of a run, which decides once, when it       *)
(* starts, what is missing.  A run works with the Core of the session that  *)
(* started it, and opening the profile again ends that session.             *)
(***************************************************************************)
EXTENDS Integers, Sequences

CONSTANTS
  Defaults,     \* DEFAULT_ADDONS: a sequence of manifest URLs
  Runs,         \* concurrent runs
  Authorizes,   \* the client authorizes settings before it starts a run
  MaxCopies     \* bound: installations of one URL (their ids differ)

ASSUME DefaultsAssumption ==
  /\ Len(Defaults) \in Nat /\ DOMAIN Defaults = 1 .. Len(Defaults)
  /\ Authorizes \in BOOLEAN

Urls == {Defaults[i] : i \in DOMAIN Defaults}

VARIABLES
  copies,    \* installations in the profile, per URL
  seeded,    \* Snapshot.defaults_seeded
  opened,      \* a session is open
  unlocked,    \* and its settings are unlocked
  runStep,        \* each run: 0 when it is not running, or the default it is at
  present,   \* the URLs it found when it started
  failed,    \* some install of it failed
  current,   \* the session that started it is still the open one
  hindered   \* history: something outside kept the run from its work

addonVars == <<copies, seeded>>
openVars == <<opened, unlocked>>
runVars == <<runStep, present, failed, current, hindered>>
defaultsVars == <<addonVars, openVars, runVars>>

DefaultsInit ==
  /\ copies = [u \in Urls |-> 0]
  /\ seeded = FALSE
  /\ opened = FALSE /\ unlocked = FALSE
  /\ runStep = [r \in Runs |-> 0]
  /\ present = [r \in Runs |-> {}]
  /\ failed = [r \in Runs |-> FALSE]
  /\ current = [r \in Runs |-> FALSE]
  /\ hindered = [r \in Runs |-> FALSE]

Installed == {u \in Urls : copies[u] > 0}

Working == {r \in Runs : runStep[r] # 0}

Return(r) ==
  /\ runStep' = [runStep EXCEPT ![r] = 0]
  /\ present' = [present EXCEPT ![r] = {}]
  /\ failed' = [failed EXCEPT ![r] = FALSE]
  /\ current' = [current EXCEPT ![r] = FALSE]
  /\ hindered' = [hindered EXCEPT ![r] = FALSE]

-----------------------------------------------------------------------------
(* Sessions: unlock, authorize_settings, lock_settings, leave. *)

\* The client opens the profile and starts a run, which loads the snapshot.
OpenProfile(r) ==
  /\ runStep[r] = 0
  /\ opened' = TRUE
  /\ unlocked' = Authorizes
  /\ hindered' = [s \in Runs |-> s \in Working]
  /\ \/ /\ ~seeded
        /\ runStep' = [runStep EXCEPT ![r] = 1]
        /\ present' = [present EXCEPT ![r] = Installed]
        /\ failed' = [failed EXCEPT ![r] = FALSE]
        /\ current' = [s \in Runs |-> s = r]
     \/ \* already offered, or the load failed
        /\ current' = [s \in Runs |-> FALSE]
        /\ UNCHANGED <<runStep, present, failed>>
  /\ UNCHANGED addonVars

LeaveProfile ==
  /\ opened
  /\ opened' = FALSE /\ unlocked' = FALSE
  /\ current' = [r \in Runs |-> FALSE]
  /\ hindered' = [r \in Runs |-> r \in Working]
  /\ UNCHANGED <<addonVars, runStep, present, failed>>

AuthorizeSettings == opened /\ unlocked' = TRUE /\ UNCHANGED <<addonVars, opened, runVars>>

RelockSettings ==
  /\ opened
  /\ unlocked' = FALSE
  /\ hindered' = [r \in Runs |-> hindered[r] \/ r \in Working]
  /\ UNCHANGED <<addonVars, opened, runStep, present, failed, current>>

-----------------------------------------------------------------------------
(* The user installs and removes addons in the settings. *)

Add(u) ==
  /\ copies[u] < MaxCopies
  /\ copies' = [copies EXCEPT ![u] = @ + 1]

UserInstalls(u) ==
  /\ unlocked
  /\ Add(u)
  /\ UNCHANGED <<seeded, openVars, runVars>>

Removable(u) == copies[u] > 0

UserRemoves(u) ==
  /\ unlocked
  /\ Removable(u)
  /\ copies' = [copies EXCEPT ![u] = @ - 1]
  /\ UNCHANGED <<seeded, openVars, runVars>>

-----------------------------------------------------------------------------
(* A run *)

AtDefault(r) == runStep[r] \in DOMAIN Defaults

Forward(r) == runStep' = [runStep EXCEPT ![r] = @ + 1]

\* "Already in place from an earlier partial run."
SkipPresent(r) ==
  /\ AtDefault(r)
  /\ Defaults[runStep[r]] \in present[r]
  /\ Forward(r)
  /\ UNCHANGED <<addonVars, openVars, present, failed, current, hindered>>

\* Fault: a Core outlives its session.
MayInstallLater(r) == unlocked

\* ProfileStorage::compare_and_swap authorizes a write that changes addons.
MayInstall(r) == current[r] /\ unlocked

InstallDefault(r) ==
  /\ AtDefault(r)
  /\ Defaults[runStep[r]] \notin present[r]
  /\ MayInstall(r)
  /\ Add(Defaults[runStep[r]])
  /\ Forward(r)
  /\ UNCHANGED <<seeded, openVars, present, failed, current, hindered>>

\* The manifest cannot be fetched, or the write is refused.
FailDefault(r) ==
  /\ AtDefault(r)
  /\ Defaults[runStep[r]] \notin present[r]
  /\ \/ hindered' = [hindered EXCEPT ![r] = TRUE]
     \/ ~MayInstall(r) /\ UNCHANGED hindered
  /\ failed' = [failed EXCEPT ![r] = TRUE]
  /\ Forward(r)
  /\ UNCHANGED <<addonVars, openVars, present, current>>

\* Fault: a run that finds every default installed does not set it.
CompleteIfBusy(r) == ~failed[r] /\ present[r] # Urls

Complete(r) == ~failed[r]

\* The marker is the last write; it may be refused, or fail.
Finish(r) ==
  /\ runStep[r] = Len(Defaults) + 1
  /\ \/ Complete(r) /\ current[r] /\ seeded' = TRUE
     \/ ~Complete(r) /\ UNCHANGED seeded
     \/ (~current[r] \/ hindered[r]) /\ UNCHANGED seeded
  /\ Return(r)
  /\ UNCHANGED <<copies, openVars>>

\* The store fails under the run's last write.
StoreFails(r) ==
  /\ runStep[r] = Len(Defaults) + 1
  /\ hindered' = [hindered EXCEPT ![r] = TRUE]
  /\ UNCHANGED <<addonVars, openVars, runStep, present, failed, current>>

-----------------------------------------------------------------------------

RunStep(r) == SkipPresent(r) \/ InstallDefault(r) \/ FailDefault(r)
              \/ Finish(r) \/ StoreFails(r)

DefaultsNext ==
  \/ LeaveProfile \/ AuthorizeSettings \/ RelockSettings
  \/ \E u \in Urls : UserInstalls(u) \/ UserRemoves(u)
  \/ \E r \in Runs : OpenProfile(r) \/ RunStep(r)

DefaultsSpec == DefaultsInit /\ [][DefaultsNext]_defaultsVars

-----------------------------------------------------------------------------
(* Properties *)

\* Once seeded, a run installs nothing, the run of an earlier session included:
\* defaults a user removes stay removed.
SeededStaysAsIs ==
  [][\A r \in Runs : InstallDefault(r) => ~seeded]_defaultsVars

\* A run that reached every manifest, and whose session was not left or locked
\* meanwhile, leaves the profile seeded.
ReachableRunsSeed ==
  [][\A r \in Runs : (runStep[r] = Len(Defaults) + 1 /\ runStep'[r] = 0 /\ ~hindered[r])
       => seeded']_defaultsVars

=============================================================================
