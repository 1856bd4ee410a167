CONSTANTS
  c1 = c1
  c2 = c2
  Client = {c1, c2}
  MaxEdits = 1
  MaxBreaks = 0
  MaxReloads = 0
  CalmJoins = FALSE
SPECIFICATION FairSpec
PROPERTY EventuallySame
CHECK_DEADLOCK FALSE
