SPECIFICATION RSpec
CONSTANTS
  Configs <- MCConfigs
  RulesUsed <- MCRules
  Hierarchies <- MCHierarchies
  Before <- KeyBefore
  Entry <- SerializeEntry
  Throws <- CannotSerialize
  Asserts <- NullInArray
  Reread <- FiniteValue
  Unreadable <- HoldsNull
  Unreliable <- MCUnreliable
INVARIANTS WrittenOnce InsideGroup ReadsBack HalfWrittenIsRejected CutFileIsBeginning IndentFollowsNesting BlankLinesSeparate
PROPERTIES RoundTripEnds
CHECK_DEADLOCK FALSE
