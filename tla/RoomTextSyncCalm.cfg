CONSTANTS
  c1 = c1
  c2 = c2
  Client = {c1, c2}
  MaxEdits = 1
  MaxBreaks = 1
  MaxReloads = 1
  CalmJoins = TRUE
SPECIFICATION FairSpec
PROPERTY EventuallySame EventuallyInRoom
CHECK_DEADLOCK FALSE
