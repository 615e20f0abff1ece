SPECIFICATION FairSpec
CONSTANTS
  a1 = a1  a2 = a2  a3 = a3
  s1 = s1  s2 = s2
  k1 = k1  k2 = k2
  None = None
  Actors = {a1, a2, a3}
  Slots = {s1, s2}
  Kinds = {k1, k2}
  MaxGeneration = 1
  Chunks <- OneChunk
CHECK_DEADLOCK FALSE
INVARIANT NothingAstray
PROPERTY StaysClosed
PROPERTY CloseEnds
PROPERTY ImplementsCapability
