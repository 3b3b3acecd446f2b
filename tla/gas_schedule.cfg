SPECIFICATION Spec
CONSTANTS
  MAX_MEM_BYTES = 4096
  ExpBytes = 3
  GasCap = 36000
  CalldataSize = 200000
  CodeSize = 24576
  ExternalSize = 24576
  Executed <- MCBilled
  Operands <- MCOperands
  MaxStack = 4
  MaxOps = 5
INVARIANTS TypeOK WorkIsPaid ChargesFit OpcodeWorkBounded
CHECK_DEADLOCK FALSE
