SPECIFICATION FairSpec
CONSTANTS
  t1 = t1  t2 = t2
  Tasks = {t1, t2}
  Durations = {2}
  Millisecond = 2
  MaxTime = 5
INVARIANT RequestOrWake
INVARIANT EndsRight
PROPERTY CallsEnd
