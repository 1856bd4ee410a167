\* Folders in folders.
CONSTANTS
  Site = {1, 2}
  SeedSite = 9
  Entry = {1, 2, 3}
  Folder = {1, 2}
  Name = {"a", "b", "c"}
  Late = {}
  CalmJoins = TRUE
  FreshIds = TRUE
  Start <- NestedFolders
  MaxChanges = 1
  MaxBreaks = 0
SPECIFICATION Spec
INVARIANT ServerListsWhatTabsShow
CHECK_DEADLOCK FALSE
