CONSTANTS
  Variant = {v1, v2}
  Engine = {e1}
  NoEngine = NoEngine
  VM = {x1, x2, x3, x4}
  Config <- SmallConfigs
  MaxAsk = 3
SPECIFICATION Spec
SYMMETRY Symmetric
INVARIANTS TypeOK NoLeak OneOwner FloorKept
PROPERTIES PastMaxOnlyByFill KeepsPromise
