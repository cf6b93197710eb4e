SPECIFICATION Spec
CONSTANTS
  N = 5
  Parents <- MCParents
  Tree <- MCTree
  DefaultRules <- MCDefaultRules
  RuleSets <- MCRuleSets
  Agents = {a1, a2}
  Refs = {"main", "dev"}
  MaxCmds = 5
  Exclusive = TRUE
  None = None
  Malformed = Malformed
  Secret = {"key"}
INVARIANTS
  AnsweredIsStored
  PublicIsClean
PROPERTIES
  HistoriesOnlyExtend
SYMMETRY AgentSymmetry
CHECK_DEADLOCK FALSE
