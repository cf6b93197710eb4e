SPECIFICATION Spec
CONSTANTS
  Record <- MCRecord
  Offers <- MCOffers
  Minted <- MCMinted
  Served <- MCServed
  Heads <- MCHeads
  Anchor <- A
  Roster = {"alice", "bob"}
  Regime = "single"
  Trusted = {1, 2}
  MaxHashes = 2
  MaxWitnesses = 3
  MaxRelayed = 4
  MaxCrashes = 1
  MaxOffers = 2
INVARIANTS
  ProofConvicts
  ForkIsFound
PROPERTIES
  PinsMoveForward
  PollNotices
CHECK_DEADLOCK FALSE
