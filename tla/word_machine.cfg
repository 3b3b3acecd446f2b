SPECIFICATION Spec
CONSTANTS
  BITS = 8
  BYTEBITS = 2
  LIMB = 3
  MANTISSA = 5
  Rounded = Rounded
  Immediates = {0, 1, 3, 7, 8, 30}
  Ops <- AllOps
  MaxDepth = 3
INVARIANTS TypeOK InStep
