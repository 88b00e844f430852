SPECIFICATION Spec
CONSTANTS
  Databases <- MCDatabases
  LastAddr = 6
  LastTime = 2
  TimeMax = 9
  Default = Default
INVARIANTS NoUpdateInsideTheRange
CHECK_DEADLOCK FALSE
