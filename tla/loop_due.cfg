SPECIFICATION Spec
CONSTANTS
  Clients = {c1, c2}
  Entries = {e1}
  Intervals = {1, 2}
  AccMod = 6
  MaxWait = 3
  MaxElapsed = 3
  Nobody = Nobody
PROPERTIES
  DueRuns
