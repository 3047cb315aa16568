SPECIFICATION Spec
CONSTANTS
  Names = {"a", "b"}
  Keys <- MCKeys
  MaxPuts = 3
INVARIANTS TreeIsClosure OnlyWay Fork FirstFork
PROPERTIES Returns
