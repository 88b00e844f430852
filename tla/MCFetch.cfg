SPECIFICATION Spec
CONSTANTS
  Databases <- MCDatabases
  LastAddr = 6
  LastTime = 2
  TimeMax = 9
  Default = Default
INVARIANTS TypeOK FetchIsWhatMemoryHeld CompleteAnswerStaysValid
CHECK_DEADLOCK FALSE
