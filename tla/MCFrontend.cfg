SPECIFICATION Spec
CONSTANTS
  Traces <- MCTraces
  MaxOpens = 2
  Height = 2
  Mouse <- MCMouse
  TimeBound = 1
  None = None
INVARIANTS TypeOK WhatIsShownIsCurrent
CHECK_DEADLOCK FALSE
