SPECIFICATION Spec
CONSTANTS
  Profiles = {p1, p2}
  None = None
  Nothing = Nothing
  cinemeta = cinemeta
  opensubtitles = opensubtitles
  Defaults <- MCDefaults
  MaxCopies = 2
  Parts = {"login"}
  Polls = {q1}
  MaxCodes = 1
  Runs = {}
  Authorizes = TRUE
PROPERTIES LoginStaysWithProfile
