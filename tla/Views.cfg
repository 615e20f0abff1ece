SPECIFICATION Spec
CONSTANTS
  TypeOfBinding <- MCTypes
  Functions <- MCFunctions
  Order <- MCOrder
  Statements <- MCStatements
  Families <- MCFamilies
  Straight <- MCStraight
  MaxLoop = 2
  MaxDeferred = 2
CHECK_DEADLOCK FALSE
INVARIANT NoDanglingRead
INVARIANT DanglingKnown
INVARIANT NoFalseStale
