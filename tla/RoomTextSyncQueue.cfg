CONSTANTS
  c1 = c1
  Client = {c1}
  MaxEdits = 3
  MaxBreaks = 3
  MaxReloads = 0
  CalmJoins = TRUE
SPECIFICATION FairSpec
INVARIANT TypeOK
PROPERTY QueuedEditsSurvive EventuallyStored
CHECK_DEADLOCK FALSE
