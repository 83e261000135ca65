SPECIFICATION Spec
CONSTANTS
  Objects = {o1, o2, o3, o4}
  ListHead = ListHead
  Null = Null
  Asserts = FALSE
SYMMETRY ObjectSymmetry
INVARIANTS
  RingInv
PROPERTIES
  ImplementsListSeq
