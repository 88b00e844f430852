SPECIFICATION Spec
CONSTANTS
  t1 = t1
  t2 = t2
  Thread = {t1, t2}
  Reg = {x0}
  Word = {0, 1}
  Zero = 0
  Options <- MCOptions
  FlushSize = 4
  Workloads <- MCWorkloads
INVARIANTS TypeOK FileIsTheLog RegistersAreReplayed
CHECK_DEADLOCK FALSE
