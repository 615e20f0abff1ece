SPECIFICATION Spec
CONSTANTS
  Bodies <- SmallBodies
CHECK_DEADLOCK FALSE
INVARIANT YieldsOnEveryPath
