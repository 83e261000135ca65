SPECIFICATION Spec
CONSTANTS
  Keys = {k1, k2, k3}
  Values = {v1, v2, v3}
  Hashes = {0, 3}
  Counts = {1, 2, 3, 9, 16}
  Width = 8
  Shifts <- HalfShifts
  None = None
SYMMETRY ValueSymmetry
INVARIANTS
  TableInv
  CapacityFits
  DestroyedOnce
PROPERTIES
  WalkVisitsAll
  ImplementsTableMap
