CONSTANTS
  Memories <- FewMemories
  Keywords <- MCKeywords
SPECIFICATION Spec
INVARIANT ParenAfterName
CHECK_DEADLOCK FALSE
