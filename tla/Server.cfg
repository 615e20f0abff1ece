SPECIFICATION FairSpec
CONSTANTS
  c1 = c1  c2 = c2
  t1 = t1  t2 = t2
  None = None
  Connections = {c1, c2}
  Callers = {t1, t2}
  Programs <- MCPrograms
CHECK_DEADLOCK FALSE
INVARIANT NothingOutlives
INVARIANT CeilingHolds
PROPERTY RequestsFinish
PROPERTY StopEnds
