CONSTANTS
  t1 = t1
  t2 = t2
  a = a
  b = b
  h = h
  j = j
  None = None
  Thread = {t1, t2}
  Bystander = {}
  Cmd = {a, h}
  Hang = {h}
  IoPeriod = 2
SPECIFICATION ClockSpec
PROPERTIES HungRunKilled
