CONSTANTS
  Device = {d1, d2}
  Hostilities = {{}, {"fork"}, {"rollback"}, {"withhold"}, {"fork", "rollback"}}
  Interval = 2
  RetainN = 4
  Page = 2
  MaxRungs = 9
  MaxWitnesses = 9
  MaxPuts = 1
  MaxSigned = 5
  MaxStops = 1
SPECIFICATION SyncSpec
SYMMETRY Symmetry
INVARIANTS
  HonestPeerIsAccepted
  VouchedHeadsAgree
PROPERTIES
  PinsOnlyExtend
