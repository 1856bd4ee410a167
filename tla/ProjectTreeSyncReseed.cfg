\* One tab loses its connection, changes the tree and reconnects; another is
\* there.
CONSTANTS
  Site = {1, 2}
  SeedSite = 9
  Entry = {1, 2}
  Folder = {1, 2}
  Name = {"a", "b"}
  Late = {2}
  CalmJoins = TRUE
  FreshIds = FALSE
  Start <- OneFolder
  MaxChanges = 2
  MaxBreaks = 1
SPECIFICATION Spec
INVARIANT TabsShowTheSame
CHECK_DEADLOCK FALSE
