SPECIFICATION SpecValues
CONSTANTS
  NSlots = 2
  Texts <- MCBinaryTexts
  Sizes = {1}
  MaxBuffers = 3
  MaxCells = 2
  MayFail = FALSE
CHECK_DEADLOCK FALSE
PROPERTIES ContractSpec
