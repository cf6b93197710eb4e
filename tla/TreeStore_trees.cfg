SPECIFICATION TreeSpec
CONSTANTS
  N = 2
  SubName = {"x"}
  Content <- MCContent
  Sealed = TRUE
  MaxGen = 1
  MaxOps = 6
INVARIANTS
  RestoreIsExact
PROPERTIES
  TreesAreKept
CHECK_DEADLOCK FALSE
