SPECIFICATION IndexedSpec
CONSTANTS
  AddrMax = 2
  TimeMax = 2
  MaxLen = 3
  Byte = {b0, b1}
  Unknown = Unknown
  NoLeaf = NoLeaf
INVARIANTS TypeOK EmittedLeavesArePast LeavesDisjoint LookupIsComplete AnswersHistory
SYMMETRY Symmetry
CHECK_DEADLOCK FALSE
