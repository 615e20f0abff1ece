SPECIFICATION FairSpec
CONSTANTS
  t1 = t1  t2 = t2  t3 = t3
  None = None  Block = Block  Teardown = Teardown
  Tasks = {t1, t2, t3}
  Signals = {0, 1}
  Makes <- MCMakes
CHECK_DEADLOCK FALSE
INVARIANT WaitsEndRight
INVARIANT NothingDangles
PROPERTY CallsEnd
