SPECIFICATION FairSpec
CONSTANTS
  t1 = t1  t2 = t2  t3 = t3
  Tasks = {t1, t2, t3}
  Programs <- MCPrograms
  Block = Block
  Chunks = {0, 2}
  MaxHeld = 2
  None = None
INVARIANT NothingDangles
INVARIANT ToldRight
INVARIANT NoStrandedClient
PROPERTY CallsEnd
CHECK_DEADLOCK FALSE
