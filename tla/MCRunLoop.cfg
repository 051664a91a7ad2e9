CONSTANTS
  t1 = t1
  t2 = t2
  a = a
  b = b
  h = h
  j = j
  None = None
  Thread = {t1, t2}
  Bystander = {j}
  Cmd = {a}
  Hang = {}
  IoPeriod = 2
SPECIFICATION LiveSpec
INVARIANTS TypeOK  TimerOffAtRest
PROPERTIES FinishedRunReturns
