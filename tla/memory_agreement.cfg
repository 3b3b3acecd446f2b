SPECIFICATION Spec
CONSTANTS
  Base = 2
  WordBytes = 4
  NumberBytes = 3
  MaxExact = 4
  MAX_MEM_BYTES = 3
  LastPosition = 5
  Offsets = {0, 1}
  Lengths = {0, 2, 4}
  Immediates = {1, 7, 14}
  Calldata <- MCCalldata
  Code <- MCCode
  ExtCode <- MCExtCode
  Answers <- MCAnswers
  MaxOps = 4
INVARIANTS TypeOK   MsizeWithinOne
CHECK_DEADLOCK FALSE
