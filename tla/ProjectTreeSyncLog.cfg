\* Two connected tabs and two folders: three changes that race.
CONSTANTS
  Site = {1, 2}
  SeedSite = 9
  Entry = {1, 2}
  Folder = {1, 2}
  Name = {"a", "b"}
  Late = {}
  CalmJoins = TRUE
  FreshIds = TRUE
  Start <- TwoFolders
  MaxChanges = 3
  MaxBreaks = 0
SPECIFICATION Spec
INVARIANTS ShowsForest SnapshotStandsForLog
CHECK_DEADLOCK FALSE
