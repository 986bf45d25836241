SPECIFICATION Spec
CONSTANTS
  Profiles = {p1, p2}
  None = None
  Nothing = Nothing
  cinemeta = cinemeta
  opensubtitles = opensubtitles
  Defaults <- MCDefaults
  MaxCopies = 2
  Parts = {"pages"}
  Polls = {q1, q2}
  MaxCodes = 2
  Runs = {r1, r2}
  Authorizes = TRUE
PROPERTY NextPlays
