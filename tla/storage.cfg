\* A program that aborts or crashes takes no more steps.
SPECIFICATION Spec
CHECK_DEADLOCK FALSE
CONSTANTS
  Blocks = {b1, b2, b3}
  Allocators = {"default", "custom"}
  Asserts = TRUE
  Null = Null
  Wild = Wild
  Components <- FewComponents
  MaxParts = 3
  Sizes = {0, 1, 2, 4, 5, 6, 12}
  MaxLength = 2
  Threshold = 1
  Trims = {0, 1, 2}
SYMMETRY BlockSymmetry
INVARIANTS
  JoinFits
  TrimUndoesJoin
  ReadWhole
  BlocksOwned
