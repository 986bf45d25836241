SPECIFICATION Spec
CONSTANTS
  Handles = {h1, h2}
  Screens = {h1}
  Ids = {p1, p2}
  Addons = {}
  Tokens = {t1, t2}
  NoProfile = NoProfile
  None = None
  MaxProfiles = 2
  MaxRevision = 2
PROPERTIES OnlyFirstBootstraps
