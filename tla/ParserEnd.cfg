SPECIFICATION Spec
CONSTANTS
  Families <- FewFamilies
  NULL = NULL
  ArgBits = 1
  MaxArgs = 1
  MaxList = 2
INVARIANT AcceptsGrammar
CHECK_DEADLOCK FALSE
