SPECIFICATION Spec
CONSTANTS
  Part = {"net", "bus", "bar", "session", "engine"}
  Off = Off
  QueueSize = 2
  IdxMod = 4
  Frames = 4
  IPv6 = {2}
  TapRoom = 2
  Dwords = {12, 16, 24, 60}
  Byte = {255}
  MaxWrites = 2
  MaxCapture = 1
  Ram = {1}
  Base32 = 2
  Base64 = 4
  Align64 = 2
  End32 = 4
  Top = 8
  HostPtr = {p1, p2, p3}
  MaxMoves = 1
  Pins = 3
  IntxGsi = 1
  Vectors = {0, 1}
  Regions = {0, 6, 7}
  MaxFaults = 2
  VM = {p1, p2, p3}
  NoVM = NoVM
  Region = {r1, r2}
  Addr = {a1, a2, main}
  LoadAddr = main
  MaxShared = 1
  MaxBatch = 3
SYMMETRY Alike
INVARIANTS TypeOK BuffersConserved FlowInOrder  BusFaithful BarsSound MsiWired SessionClean OnlyRunLeaks Isolated
PROPERTY BatchWhole
