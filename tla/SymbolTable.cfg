CONSTANTS
  x = x
  Name = {x}
  Defined <- MCDefined
  MaxArgs = 1
  AddressBits = 1
  NULL = NULL
  MaxScopes = 3
  MaxGiven = 3
SPECIFICATION Spec
INVARIANT TypeOK
INVARIANT SlotsDistinct
PROPERTY Implements
