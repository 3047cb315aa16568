SPECIFICATION AccessSpec
CONSTANTS
  Configs = {"c", "d"}
  EntryKeys <- MCHidingKeys
  Groups <- MCGroups
  Values <- MCValues
  ElementText <- MCElementText
  AsksHidden = TRUE
  MaxCalls = 4
PROPERTIES ContractSpec
CHECK_DEADLOCK FALSE
