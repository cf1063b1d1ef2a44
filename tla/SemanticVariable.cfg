CONSTANTS
  Name = {f}
  MaxArgs = 2
  AddressBits = 4
  NULL = NULL
  Bytes = Bytes
  MaxStats = 3
SPECIFICATION Spec
INVARIANT VariableOnce
CHECK_DEADLOCK FALSE
