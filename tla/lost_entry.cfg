SPECIFICATION RSpec
CONSTANTS
  Configs <- MCConfigs
  RulesUsed <- MCRules
  Hierarchies <- MCHierarchies
  Before <- KeyBefore
  Entry <- SerializeEntry
  Throws <- CannotSerialize
  Asserts <- NullInArray
  Reread <- FiniteValue
  Unreadable <- HoldsNull
  Unreliable <- MCUnreliable
INVARIANTS NothingLost
CHECK_DEADLOCK FALSE
