SPECIFICATION Spec
CONSTANTS
  f1 = f1
  f2 = f2
  f3 = f3
  d1 = d1
  d2 = d2
  b1 = b1
  b2 = b2
  b3 = b3
  w1 = w1
  w2 = w2
  None = None
  Old = Old
  Torn = Torn
  File = {f1, f2}
  Dir = {d1, d2}
  Worker = {w1, w2}
  Language = "lang"
  DirOf <- MCDirOf
  StemOf <- MCStemOf
  Includes <- MCIncludes
  Holds <- MCHolds
  Base <- MCLargerBase
  OutDir = None
  Continue = FALSE
  Simulate = FALSE
  Debug = FALSE
  MaxFailures = 0
CHECK_DEADLOCK FALSE
SYMMETRY MCSymmetry
INVARIANT ResolvedForItself
