SPECIFICATION Spec
CONSTANTS
  Time <- MCTime
  Key <- MCKey
  KeyBits = 4
  TimeBits = 3
  PartBits = 1
  MaxTrees = 2
  NodeOrder = 1
  InlineSize = 1
  Metadata = 5
  Traces <- MCTraces
  None = None
INVARIANTS NoPanic
CHECK_DEADLOCK FALSE
