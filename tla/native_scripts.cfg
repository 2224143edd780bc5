SPECIFICATION FairSpec
CONSTANTS
  Programs <- MCPrograms
  Language <- MCLanguage
  Optimizations <- MCOptimizations
  MaxIncludeDepth = 3
CHECK_DEADLOCK FALSE
INVARIANTS Verdict Meaning Balanced JumpsLand LabelsApart TreesApart LinkerInput
PROPERTY ScriptEnds
