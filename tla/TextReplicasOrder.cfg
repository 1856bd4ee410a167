\* Three sites, four concurrent inserts in any order of arrival.
CONSTANTS
  Site = {1, 2, 3}
  MaxInserts = 4
  MaxDeletes = 0
  MaxSnapshots = 0
SPECIFICATION Spec
INVARIANTS Convergence IdsAreGlobal
CHECK_DEADLOCK FALSE
