CONSTANTS
  Name = {f}
  MaxArgs = 2
  AddressBits = 4
  NULL = NULL
  Bytes = Bytes
  MaxStats = 4
SPECIFICATION Spec
INVARIANT TypeOK
INVARIANT TableExact
INVARIANT OverlapsCaught
INVARIANT AssignmentsChecked
INVARIANT ErrorsJustified
CHECK_DEADLOCK FALSE
