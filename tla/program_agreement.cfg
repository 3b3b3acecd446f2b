SPECIFICATION Spec
CONSTANTS
  Alphabets <- MCAlphabets
  STACK_LIMIT = 3
  NumberBytes = 1
  MaxExact = 32
INVARIANTS TypeOK
PROPERTIES PartOnlyAsListed NeverElsewhere
