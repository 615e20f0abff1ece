CONSTANTS
  w0 = w0
  w1 = w1
  t1 = t1
  t2 = t2
  Workers = {w0, w1}
  WorkerZero = w0
  Loop = loop
  Root = root
  Tasks = {root, t1, t2}
  NoTask = nil
  Aliases = TRUE
SPECIFICATION FairSpec
INVARIANT RightPlace
INVARIANT NothingIsLost
INVARIANT ReleaseIsSafe
INVARIANT NoIdleWorker
INVARIANT NoTrap
PROPERTY RunnableRuns
PROPERTY JoinReturns
PROPERTY RootEnds
CHECK_DEADLOCK FALSE
