\* Two tabs, a folder and another to be made, and a connection that breaks
\* twice, anywhere.
CONSTANTS
  Site = {1, 2}
  SeedSite = 9
  Entry = {1, 2}
  Folder = {1, 2}
  Name = {"a", "b"}
  Late = {}
  CalmJoins = TRUE
  FreshIds = TRUE
  Start <- OneFolder
  MaxChanges = 2
  MaxBreaks = 2
SPECIFICATION Spec
INVARIANTS TypeOK LoggedOnce 
PROPERTIES SavedOrRolledBack
CHECK_DEADLOCK FALSE
