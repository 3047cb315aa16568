SPECIFICATION AccessSpec
CONSTANTS
  Configs = {"c", "d"}
  EntryKeys <- MCKeys
  Groups <- MCGroups
  Values <- MCValues
  ElementText <- MCElementText
  AsksHidden = FALSE
  MaxCalls = 4
INVARIANTS MoveLosesNothing ViewFollowsValue GettersAgree
PROPERTIES ContractSpec CallEnds
CHECK_DEADLOCK FALSE
