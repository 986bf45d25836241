SPECIFICATION MCSpec
CONSTANTS
  Profiles = {p1}
  Calls = {c1, c2}
  MaxConns = 2
  MaxTokens = 2
  MaxWatched = 1
  None = None
  Episodes = {1, 2, 3}
  Numbers = {1, 11, 12}
  MaxLate = 1
  MaxHistory = 2
  Requests = {q1, q2}
  Addons = {1, 2}
  Origin = 2
  Fields = {f1}
  MaxChanges = 1
  NoEntry = NoEntry
SYMMETRY MCSymmetry
INVARIANTS StoredTokenWorks RefreshesAreFirst FreshIsComplete ImportOfAccount
  ContinuesWhereLeft ResolvedByRank
PROPERTIES ReportsStayBound
