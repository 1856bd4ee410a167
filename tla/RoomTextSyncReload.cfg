CONSTANTS
  c1 = c1
  Client = {c1}
  MaxEdits = 3
  MaxBreaks = 3
  MaxReloads = 1
  CalmJoins = TRUE
SPECIFICATION FairSpec
PROPERTY QueuedEditsSurvive
CHECK_DEADLOCK FALSE
