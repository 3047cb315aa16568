SPECIFICATION Spec
CONSTANTS
  Names <- MCNames
  MaxNames = 2
INVARIANTS PartsAreNames SpansCompareAsKeys
PROPERTIES ThrowsUnlessNames
