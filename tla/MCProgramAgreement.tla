------------------------- MODULE MCProgramAgreement -------------------------
EXTENDS ProgramAgreement

\* Every opcode, one each of the families, and a byte that is none.
Alphabet == {STOP, DIV, ISZERO, POP, JUMP, JUMPI, PC, JUMPDEST, PUSH0, 96, 97, 128, 129, 144, 145, 12}

\* Bytes for longer programs, with jumps and with conditional jumps.
JumpAlphabet  == {JUMP, PC, DIV, ISZERO, JUMPDEST, PUSH0, 96}
JumpIAlphabet == {ISZERO, JUMPI, JUMPDEST, PUSH0, 96, 128}

MCAlphabets == <<Alphabet, Alphabet, Alphabet, Alphabet, JumpAlphabet, JumpIAlphabet>>
=============================================================================
