CONSTANTS
  Writers = {1, 2}
  MaxOps = 2
INIT Init
NEXT Next
INVARIANTS
  FormatsAreCanonical
  SignaturesBind
  KeysStayApart
  ChunksFollowContent
  WalksAreOneHistory
  SelectorsMeanWhatTheySay
PROPERTY
  EditsSurvive
CHECK_DEADLOCK FALSE
