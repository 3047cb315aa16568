SPECIFICATION SpecStream
CONSTANTS
  Texts <- MCTexts
  Limits <- MCLimits
PROPERTIES FailsOnlyAtEof
