CONSTANTS
  Elem = {a, b}
  NULL = NULL
  Garbage = Garbage
  MaxSizes <- MCMaxSizes
  MaxIndex = 5
SPECIFICATION Spec
INVARIANT TypeOK
INVARIANT ReadInOrder
PROPERTY ReadToEnd
PROPERTY Implements
CHECK_DEADLOCK FALSE
