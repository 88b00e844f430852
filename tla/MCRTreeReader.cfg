SPECIFICATION Spec
CONSTANTS
  Time <- MCTime
  Key <- MCKey
  Databases <- MCDatabases
  None = None
INVARIANTS TypeOK QueryIsExact HeapCoversMatches NearestIsNearest SnapshotFindsTheChanges
PROPERTIES ReadsEnd
CHECK_DEADLOCK FALSE
