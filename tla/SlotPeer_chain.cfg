CONSTANTS
  Record <- MCRecord
  Writer = {w1, w2}
  Roster = {w1, w2}
  Regimes = {"single", "cas"}
  MaxSeq = 2
  Zero = Zero
  None = None
  MaxHandoffs = 1
SPECIFICATION Spec
SYMMETRY Symmetry
INVARIANTS
  IndInv
  ServedHistoryVerifies
PROPERTIES
  ImplementsSlotLog
