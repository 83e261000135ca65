SPECIFICATION FairSpec
CONSTANTS
  Clients = {c1, c2}
  Entries = {e1, e2}
  Intervals = {1, 2}
  AccMod = 5
  MaxWait = 2
  MaxElapsed = 2
  Nobody = Nobody
INVARIANTS
  TypeOK
  VisitsLinked
  ThreadLife
  NeverEarly
PROPERTIES
  DeleteReturns
