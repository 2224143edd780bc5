SPECIFICATION Spec
CONSTANTS
  Programs <- MCClashes
  Language <- MCLanguage
  Optimizations <- MCOptimizations
  MaxIncludeDepth = 3
CHECK_DEADLOCK FALSE
INVARIANT Meaning
