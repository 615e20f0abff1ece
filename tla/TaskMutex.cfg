SPECIFICATION Spec
CONSTANTS
  t1 = t1  t2 = t2  t3 = t3  t4 = t4
  None = None
  Tasks = {t1, t2, t3, t4}
CHECK_DEADLOCK FALSE
INVARIANT OneHolder
INVARIANT NoStrandedWaiter
INVARIANT TrapDeserved
INVARIANT FreedIsUnused
