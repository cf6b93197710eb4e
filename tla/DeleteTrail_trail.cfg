SPECIFICATION Spec
CONSTANTS
  k1 = k1
  k2 = k2
  laptop = laptop
  Key <- MCKey
  Authority <- MCAuthority
  Request <- MCRequest
  Quorum <- MCQuorum
  Subject = {"family", "laptop"}
  Granted = {"laptop"}
  Window = 1
  Objects = 1
  EscalateTo = 2
  CoolingOff = 1
  MaxApprovals = 2
  MaxRequests = 2
  MaxTime = 1
  MaxFaults = 1
  MaxRelayed = 1
  MaxReports = 2
INVARIANTS
  QuorumIsDeliberate
  DecompositionEscalates
PROPERTY
  TrailAppendOnly
