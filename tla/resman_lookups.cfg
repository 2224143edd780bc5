SPECIFICATION Spec
CONSTANTS
  c1 = c1
  c2 = c2
  c3 = c3
  n1 = n1
  n2 = n2
  None = None
  Name = {n1}
  Container = {c1, c2, c3}
  Size = {0, 2}
  Caching = TRUE
  MaxWeight = 1
  MinSize = 0
  MaxUses = 1
  MaxChanges = 3
SYMMETRY MCSymmetry
INVARIANTS TypeOK GetIsTotal CacheTopmost
PROPERTIES TopmostFound NothingMissed
CHECK_DEADLOCK FALSE
