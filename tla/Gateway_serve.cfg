SPECIFICATION GwSpec
CONSTANTS
  Tcp = {t1}
  Unix = {u1}
  Cli = Cli
  Keys <- MCKeys
  Objects <- MCObjects
  ChunkLen <- MCChunkLen
  Requests <- MCRequests
  Acls <- MCAcls
  NoAcl = NoAcl
  Cap = 1
  Huge = 65535
  MaxReqs = 2
  MaxCmds = 1
  MaxBoots = 3
  MaxFiles = 3
  Unset = Unset
  Gone = Gone
INVARIANTS
  ReadsAreExact
PROPERTIES
  WritesAreAllowed
CHECK_DEADLOCK FALSE
