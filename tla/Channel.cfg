SPECIFICATION Spec
CONSTANTS
  t1 = t1  t2 = t2  t3 = t3
  v1 = v1  v2 = v2
  None = None
  Tasks = {t1, t2, t3}
  Values = {v1, v2}
  Capacity = 2
CHECK_DEADLOCK FALSE
INVARIANT NoStrandedWaiter
PROPERTY CloseReturns
PROPERTY ImplementsFifo
