CONSTANTS
  t1 = t1
  t2 = t2
  Thread = {t1}
  Cmd = {a}
  a = a
  None = None
  Timeout = 2
  HardLimit = 3
  MaxRuns = 2
SPECIFICATION Spec
INVARIANT TimeoutIsOwn
CHECK_DEADLOCK FALSE
