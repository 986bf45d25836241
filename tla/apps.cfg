SPECIFICATION FairSpec
CONSTANTS
  Profiles = {p1, p2}
  None = None
  Nothing = Nothing
  cinemeta = cinemeta
  opensubtitles = opensubtitles
  Defaults <- MCDefaults
  MaxCopies = 2
  Parts = {"login", "defaults", "streams"}
  Polls = {q1, q2}
  MaxCodes = 2
  Runs = {r1, r2}
  Authorizes = TRUE
PROPERTIES ApprovalEnds SeededStaysAsIs ReachableRunsSeed StreamsCatchUp
