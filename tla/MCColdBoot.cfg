CONSTANTS
  Thread = {t1, t2}
  t1 = t1
  t2 = t2
  Cmd = {a}
  a = a
  None = None
  Timeout = 1
  HardLimit = 2
  MaxRuns = 3
SPECIFICATION LiveSpec
 
PROPERTIES RunEnds
CHECK_DEADLOCK FALSE
