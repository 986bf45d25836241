SPECIFICATION FairSpec
CONSTANTS
  MaxPlays = 2
  MaxReports = 3
  Capacity = 2
  None = None
CHECK_DEADLOCK FALSE
INVARIANTS BadgeConfirmed EndsAreHeardOnce
PROPERTIES Retried
