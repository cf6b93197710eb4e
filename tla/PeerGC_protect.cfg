CONSTANTS
  Addr = {a1}
  Holder = {h1, h2}
  Request = {r1}
  Size <- UnitSize
  Grace = 1
  LeaseExpiry = 1
  Notice = 1
  MaxLeasedBytes = 9
  IgnoreRetention = FALSE
  MaxTime = 4
  MaxFaults = 1
SPECIFICATION Spec
SYMMETRY Symmetry
INVARIANTS
  IndInv
PROPERTIES
  RelianceOutlivesNotice
  EveryUploadGetsGrace
  ImplementsProtectedStore
