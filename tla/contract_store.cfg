SPECIFICATION Spec
CONSTANTS
  a = a
  b = b
  c = c
  d = d
  None = None
  Accounts <- MCAccounts
  Lettered <- MCLettered
  Derivable <- MCAccounts
  Codes <- MCCodes
  OperatorRewrites = FALSE
  MaxFrames = 3
INVARIANTS TypeOK HashMatchesCode
PROPERTIES InstalledCodeIsStable
CHECK_DEADLOCK FALSE
