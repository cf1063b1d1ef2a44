SPECIFICATION FairSpec
CONSTANTS
  Files <- MCFiles
  Heap <- MCHeap
  KeywordTag <- MCKeywordTag
  MaxTokens = 40
  NULL = NULL
  ArgBits = 2
  MaxArgs = 3
  MaxList = 3
INVARIANT TokensExact
INVARIANT RejectsOnlyWrong
PROPERTY TranslationEnds
CHECK_DEADLOCK FALSE
