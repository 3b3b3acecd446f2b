SPECIFICATION Spec
CONSTANTS
  Slots = {s1, s2}
  MaxBlock = 4
  MaxTx = 4
  BlockOf <- MCBlockOf
SYMMETRY Symmetry
INVARIANTS IndexedUpToPointer
