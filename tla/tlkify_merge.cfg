SPECIFICATION Spec
CONSTANTS
  Text = {1, 2, 3}
  Blank = 0
  None <- MCNone
  Plain <- MCVerbatim
  Tables <- MCNoTable
  MaxRuns = 2
INVARIANT PromisesKept
CHECK_DEADLOCK FALSE
