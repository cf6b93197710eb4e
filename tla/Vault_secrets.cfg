SPECIFICATION Spec
CONSTANTS
  Procs = {p1, p2}
  None = None
  Torn = Torn
  Pw = {"a", "b"}
  Modes = {"e2ee", "transit-only", "passphrase"}
  MaxFresh = 6
  MaxWrap = 2
  MaxAnchor = 1
INVARIANTS
  KeysOpenTheVault
  SealedCanBeOpened
  PassphraseRecovers
SYMMETRY ProcSymmetry
CHECK_DEADLOCK FALSE
