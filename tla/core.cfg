SPECIFICATION MCSpec
CONSTANTS
  a1 = a1
  a2 = a2
  u1 = u1
  u2 = u2
  i1 = i1
  i2 = i2
  v1 = v1
  v2 = v2
  First = c1
  InstallationIds = {a1, a2}
  ManifestUrls = {u1, u2}
  ItemKeys = {i1, i2}
  VideoIds = {v1, v2}
  Preferences <- MCPreferences
  ValidPreferences <- MCValidPreferences
  DefaultPreferences <- MCDefaultPreferences
  NoMetadata = NoMetadata
  NoDuration = NoDuration
  NoCommand = NoCommand
  Callers = {c1, c2}
  Streams = {s1}
  Commands <- MCAllCommands
  MaxRevision = 3
  MaxTries = 2
  Buffer = 1
INVARIANTS CollectionsConsistent NoSilentGap
PROPERTIES ImplementsAtomicState ReorderKeepsAddons ContentionIsReal
