SPECIFICATION Spec
CONSTANTS
  Clients = {c1, c2, c3}
  Waiters = {c1, c2}
  NumThreads = 3
  CountMod = 4
  Tasks = {t1, t2, t3, t4}
  TaskSubmits = TRUE
  Disciplined = FALSE
  Nobody = Nobody
  NoTask = NoTask
SYMMETRY TaskSymmetry
INVARIANTS
  TypeOK
  WorkersInsidePool
  InWorkCounts
  TaskOwnedOnce
  WorkConserving
