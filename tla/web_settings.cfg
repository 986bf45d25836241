SPECIFICATION Spec
CONSTANTS
  Browsers = {b1, b2}
  Objects = {o1, o2, o3}
  Requests = {r1, r2}
  Profiles = {p1}
  Kinds = {"select", "create", "edit"}
  None = None
  MaxBrowsers = 1
  MaxFailed = 2
  LockTime = 2
  Lifetime = 2
  MaxTime = 2
  MaxExcused = 2
SYMMETRY MCSymmetry
INVARIANTS NoEditMissed GuessesBounded
PROPERTIES SignedOutStaysOut
