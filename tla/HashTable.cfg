CONSTANTS
  k1 = k1
  k2 = k2
  k3 = k3
  k4 = k4
  k5 = k5
  Key <- MCKey
  Value = {x, y}
  HashOf <- MCHashOf
  NULL = NULL
  InitialCapacity = 2
  MaxCapacity = 16
SPECIFICATION FairSpec
INVARIANT TypeOK
INVARIANT Reachable
INVARIANT GrowthInv
INVARIANT LengthExact
INVARIANT HoleLeft
PROPERTY Implements
PROPERTY CallsReturn
