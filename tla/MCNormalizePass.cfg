SPECIFICATION NormalizeSpec
CONSTANTS
  AddrMax = 0
  TimeMax = 2
  MaxLen = 1
  Byte = {b0, b1}
  Unknown = Unknown
  NoLeaf = NoLeaf
  Reg = {pc, sp}
  Word = {w0, w1}
INVARIANTS NormalizeTypeOK SlotsAreFull OneLeafAtATime ReadsAreAnswered
PROPERTIES RefinesRegisterHistory
CHECK_DEADLOCK FALSE
SYMMETRY Symmetry
