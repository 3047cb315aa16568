SPECIFICATION Spec
CHECK_DEADLOCK FALSE
CONSTANTS
  Width = 8
  Precision = 6
  Scale = 9
  RoundDigits = 3
  Values <- MCValues
  Texts <- MCTexts
INVARIANTS IsBaseTen
