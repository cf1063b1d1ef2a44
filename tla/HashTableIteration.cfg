CONSTANTS
  k1 = k1
  k2 = k2
  k3 = k3
  Key <- MCKey
  Value = {x, y}
  HashOf <- MCHashOf
  NULL = NULL
  InitialCapacity = 2
  MaxCapacity = 8
SPECIFICATION IterSpec
INVARIANT LoopExact
INVARIANT DisturbedByGrowthOnly
INVARIANT NothingLeaks
CHECK_DEADLOCK FALSE
