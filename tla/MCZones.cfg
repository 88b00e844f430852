SPECIFICATION ZonesSpec
CONSTANTS
  AddrMax = 9
  Padding = 2
  MaxLen = 3
  MaxLeaves = 4
INVARIANTS ZonesTypeOK ZonesStayApart EveryLeafHasItsZone CountsAreWhatIsFound
CHECK_DEADLOCK FALSE
