SPECIFICATION Spec
CONSTANTS
  Part = {"store", "layers", "fresh", "buffers", "memo", "kernel", "wasm"}
  Off = Off
  c1 = c1
  c2 = c2
  c3 = c3
  Session = {x1, x2}
  Variant = {python}
  Capture = {c1, c2, c3}
  MaxVersion = 2
  Absent = Absent
  Torn = Torn
  Proc = {x1, x2}
  Packaged = FALSE
  MaxBytes = 1
  MaxBuild = 2
  MaxTime = 2
  MaxCalls = 2
  Backend = {x1, x2}
  None = None
  MinIdle = 2
  MaxIdle = 1
  GpuRequired = TRUE
  NetworkAllowed = TRUE
  Retries = 2
  MaxLives = 2
  Key = {k1, k2}
  Result = {r1, r2}
  MaxEntries = {1, 2}
  Ttl = {1, 2}
  MaxClock = 3
  \* Buffers of 16 bytes and every length around their ends.
  BUF_MAX = 16
  READY_OFFSET = 10
  CodeLengths = {0, 1, 2, 3, 4, 5, 6, 7, 8, 9, 10, 11, 12, 13, 14, 15, 16, 17, 18}
  OutputLengths = {0, 1, 2, 3, 4, 5, 6, 7, 8, 9, 10, 11, 12, 13, 14, 15, 16, 17, 18}
SYMMETRY Alike
INVARIANTS TypeOK   PlanHonours NothingElseLost AnswerIntact RemembersExactly
 
