SPECIFICATION Spec
CONSTANTS
  a = a
  b = b
  c = c
  d = d
  None = None
  Accounts <- MCAccount
  Lettered <- MCLettered
  Derivable <- MCAccount
  Codes <- MCCodes
  OperatorRewrites = TRUE
  MaxFrames = 3
INVARIANT TopReadsItsCode
CHECK_DEADLOCK FALSE
