SPECIFICATION MetadataSpec
CONSTANTS
  Requests = {q1, q2}
  Addons = {1, 2}
  Origin = 2
  Fields = {f1}
  MaxChanges = 1
  NoEntry = NoEntry
INVARIANTS CachedFromSources
