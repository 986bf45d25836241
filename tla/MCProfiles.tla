----------------------------- MODULE MCProfiles -----------------------------
(***************************************************************************)
(* Model checking Profiles in two parts:                                    *)
(*   kids    a new device without addons: profiles, PINs, kids mode         *)
(*   links   a device in use: two profiles and an addon that can be shared  *)
(***************************************************************************)
EXTENDS Profiles, TLC

\* Two regular profiles, without PINs, and one addon installed in one of them.
CONSTANTS p1, p2, a1

VARIABLE part

NoAddons == INSTANCE Profiles WITH Addons <- {}, MaxRevision <- 4

DeviceInUse ==
  /\ rows = [i \in {p1, p2} |-> [kids |-> FALSE, pinned |-> FALSE, guardian |-> NoProfile]]
  /\ used = {p1, p2}
  /\ locked = NoProfile
  /\ revision = 3
  /\ shared = {a1}
  /\ links = {<<p1, a1>>}
  /\ active = [h \in Handles |-> None]
  /\ loaded = [h \in Handles |-> None]
  /\ op = [h \in Handles |-> None]

MCInit ==
  \/ part = "kids" /\ NoAddons!Init
  \/ part = "links" /\ DeviceInUse

MCNext ==
  /\ UNCHANGED part
  /\ \/ part = "kids" /\ NoAddons!Next
     \/ part = "links" /\ Next

MCSpec == MCInit /\ [][MCNext]_<<vars, part>>

MCSymmetry == Permutations(Tokens)

=============================================================================
