SPECIFICATION Spec
CONSTANTS
  Keys = {k1, k2}
  Values = {v1, v2}
  Hashes = {0}
  Counts = {1}
  Width = 8
  Shifts <- HalfShifts
  None = None
PROPERTIES
  InsertedIsFound
