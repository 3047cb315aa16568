SPECIFICATION DocSpec
CONSTANTS
  Documents <- MCDocuments
  Blankings <- MCBlankings
  Sources = {}
  Inputs <- MCInputs
  Rest <- MCRest
  Junk <- MCJunk
  MaxBuffer = 12
INVARIANTS ParsesDocument ReturnSeparatesNothing NewlineEndsText StreamOnlyLosesEnds ReadersInStep KeysWellFormed CountLosesEnds CountGainsNothing
PROPERTIES BothTerminate
CHECK_DEADLOCK FALSE
