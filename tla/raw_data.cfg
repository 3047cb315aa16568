SPECIFICATION SpecValues
CONSTANTS
  NSlots = 2
  Texts <- MCTexts
  Sizes = {1}
  MaxBuffers = 3
  MaxCells = 2
  MayFail = TRUE
CHECK_DEADLOCK FALSE
INVARIANTS OwnedOnce NoFault FailureContained
PROPERTIES ContractSpec
