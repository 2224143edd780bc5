SPECIFICATION Spec
CONSTANTS
  k1 = k1  k2 = k2  k3 = k3  v1 = v1  v2 = v2
  Key = {k1, k2, k3}
  Value = {v1, v2}
  Weight = {1, 2, 4}
  None = None
  MaxWeight = 3
  MinSize = 1
  MaxUses = 1
  MaxDepth = 2
CHECK_DEADLOCK FALSE
SYMMETRY MCSymmetry
INVARIANTS
  TypeOK
  Agreement
  Bounded
PROPERTIES
  EvictsLeastRecent
  IsForgetfulMap
