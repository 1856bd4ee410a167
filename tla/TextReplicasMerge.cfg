\* Two sites that also delete and exchange snapshots, under fair
\* delivery.
CONSTANTS
  Site = {1, 2}
  MaxInserts = 3
  MaxDeletes = 1
  MaxSnapshots = 1
SPECIFICATION FairSpec
INVARIANTS TypeOK DocumentsAreTrees BufferHoldsOnlyOrphans
PROPERTIES HistoryIsKept ImplementsSharedList EventuallySame
CHECK_DEADLOCK FALSE
