CONSTANTS
  Memories <- MCMemories
  Keywords <- MCKeywords
SPECIFICATION FairSpec
INVARIANT TypeOK
INVARIANT OverrunCauses
INVARIANT CommentsExact
INVARIANT LineInfoExact
INVARIANT NumbersExact
INVARIANT SpansExact
INVARIANT LineNumber
PROPERTY LexingEnds
CHECK_DEADLOCK FALSE
