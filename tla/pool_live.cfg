SPECIFICATION PoolSpec
CONSTANTS
  Clients = {c1, c2}
  Waiters = {c1}
  NumThreads = 2
  CountMod = 3
  Tasks = {t1, t2, t3}
  TaskSubmits = TRUE
  Disciplined = TRUE
  Nobody = Nobody
  NoTask = NoTask
  ListHead = ListHead
INVARIANTS
  ClientsInsidePool
  NoStrandedWaiter
  QueueOnRing
PROPERTIES
  OnlyLateLost
  ImplementsTaskQueue
  QueuedTaskSettles
  WaitReturns
  StopReturns
