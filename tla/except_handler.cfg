\* The program may end, or wait for a lock that it holds.
SPECIFICATION FairSpec
CHECK_DEADLOCK FALSE
CONSTANTS
  Threads = {t1, t2}
  Caller = t1
  Signals <- TwoSignals
  Asserts = TRUE
  MaxCalls = 1
  MaxSignals = 2
  Nobody = Nobody
INVARIANTS
  ActionsKept
  LoneHandlerSafe
PROPERTIES
  LinesWhole
  HandlerEnds
  OverflowReported
