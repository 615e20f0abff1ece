SPECIFICATION FileSpec
CONSTANTS
  a1 = a1  a2 = a2  a3 = a3
  h1 = h1  h2 = h2  h3 = h3
  Nil = Nil
  Actors = {a1, a2, a3}
  Handles = {h1, h2, h3}
  Descriptors = {3, 4}
CHECK_DEADLOCK FALSE
INVARIANT ClosesOwnDescriptor
INVARIANT NoLeakedDescriptor
