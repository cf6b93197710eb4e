CONSTANTS
  Key = {k1, k2}
  Writer = {cli}
  Syncer = {cli}
  None = None
  Torn = Torn
  MaxWrites = 4
  MaxCrashes = 2
SPECIFICATION FairSpec
CHECK_DEADLOCK FALSE
INVARIANTS
  AckedWriteIsKept
PROPERTIES
  ImplementsKeyMap
  OutboxDrains
