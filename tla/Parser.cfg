SPECIFICATION FairSpec
CONSTANTS
  Families <- MCFamilies
  NULL = NULL
  ArgBits = 2
  MaxArgs = 3
  MaxList = 2
INVARIANT TypeOK
INVARIANT ErrorsJustified
INVARIANT TreeExact
INVARIANT TreeComplete
INVARIANT ArgsExact
PROPERTY Derives
PROPERTY ParsingEnds
CHECK_DEADLOCK FALSE
