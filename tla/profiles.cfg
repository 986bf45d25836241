SPECIFICATION MCSpec
CONSTANTS
  p1 = p1
  p2 = p2
  a1 = a1
  Handles = {h1, h2}
  Screens = {h1}
  Ids = {p1, p2}
  Addons = {a1}
  Tokens = {t1, t2}
  NoProfile = NoProfile
  None = None
  MaxProfiles = 2
  MaxRevision = 5
SYMMETRY MCSymmetry
INVARIANTS GuardedKids LinksOwned
PROPERTIES KidsModeEndsByGuardian SharedLinksSurvive OldCoresWriteNothing
