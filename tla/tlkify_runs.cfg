SPECIFICATION Spec
CONSTANTS
  Text = {1, 2, 3}
  Blank = 0
  None <- MCNone
  Plain <- MCPlain
  Tables <- MCTables
  MaxRuns = 2
INVARIANT TypeOK
PROPERTIES TranslationsSaved SaveReadsNothing
CHECK_DEADLOCK FALSE
