SPECIFICATION Spec
CONSTANTS
  Tests = {"c", "d"}
  Fallible = {"e", "g", "spawn"}
  MaxRounds = 2
  MaxStatements = 3
  Closing = {"return", "while", "for"}
  Families <- MCFamilies
CHECK_DEADLOCK FALSE
INVARIANT FollowsSource
