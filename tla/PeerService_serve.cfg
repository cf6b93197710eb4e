SPECIFICATION Spec
CONSTANTS
  Client = {"c1", "c2"}
  Key = {"k1", "k2"}
  KeyOf <- MCKeyOf
  Subject = {1, 2}
  Addr = {"x"}
  Right = {"append", "delete-request"}
  Modes = {"e2ee", "dedup-lie", "witness"}
  MaxRecords = 0
  Kinds = {"get", "put", "lease", "release", "slot", "delete", "leases", "warnings", "witness", "handoff", "slot-head", "witnesses"}
  MaxAsks <- MCMaxAsks
  MaxConns = 1
  MaxOps = 4
INVARIANTS
  WritesAreAuthorised
PROPERTIES
  PushedIsHeld
  NobodyWaitsForever
CHECK_DEADLOCK FALSE
