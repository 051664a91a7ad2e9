CONSTANTS
  v1 = v1
  v2 = v2
  i1 = i1
  i2 = i2
  i3 = i3
  Variant = {v1, v2}
  Engine = {e1}
  NoEngine = NoEngine
  VM = {x1, x2}
  Config <- SmallConfigs
  MaxAsk = 1
  Item = {i1, i2, i3}
  VariantOf <- SmallVariantOf
  MaxBatch = 3
SPECIFICATION LazySpec
INVARIANTS EverySlotFilled
