------------------------------ MODULE WordMachine ------------------------------
(***************************************************************************)
(* A program of pushes, stack opcodes and word opcodes, run by evm.lua and *)
(* by the reference semantics in lockstep: one stack of Lua numbers, one   *)
(* of words.  A Lua number represents the word it is congruent to: SUB may *)
(* go below zero, and -1 stands for the largest word.                      *)
(***************************************************************************)
EXTENDS Integers, Sequences

CONSTANTS BITS, BYTEBITS, LIMB, MANTISSA, Rounded,
  Immediates,  \* what PUSH1 to PUSH7 push
  Ops,         \* the word opcodes the program may use
  MaxDepth     \* bound on the stack

Lua == INSTANCE LuaWords
Ref == INSTANCE ReferenceWords

Unary   == {"ISZERO"}
Ternary == {"ADDMOD", "MULMOD"}
Binary  == {"ADD", "MUL", "SUB", "DIV", "SDIV", "MOD", "SMOD", "EXP", "SIGNEXTEND", "LT", "GT",
            "SLT", "SGT", "EQ", "AND", "OR", "XOR", "BYTE", "SHL", "SHR", "SAR"}

ASSUME WidthAssumption ==
  /\ {BITS, BYTEBITS, LIMB, MANTISSA, MaxDepth} \subseteq Nat \ {0}
  /\ BITS % BYTEBITS = 0
  /\ BYTEBITS <= MANTISSA /\ LIMB < MANTISSA
  /\ MANTISSA <= 2 * LIMB /\ MANTISSA <= BITS - 2 /\ 2 * LIMB <= BITS
  /\ Immediates \subseteq 0 .. 2 ^ MANTISSA - 1
  /\ Ops \subseteq Unary \cup Binary \cup Ternary

\* What the provers do not know of powers.
ASSUME PowerAssumption ==
  /\ 2 ^ 0 = 1
  /\ \A n \in 0 .. BITS - 1 : 2 ^ (n + 1) = 2 * 2 ^ n

Arity(op) == IF op \in Unary THEN 1 ELSE IF op \in Binary THEN 2 ELSE 3

LuaResult(op, s) ==
  CASE op = "ADD" -> Lua!ADD(s[1], s[2])        [] op = "MUL" -> Lua!MUL(s[1], s[2])
    [] op = "SUB" -> Lua!SUB(s[1], s[2])        [] op = "DIV" -> Lua!DIV(s[1], s[2])
    [] op = "SDIV" -> Lua!SDIV(s[1], s[2])      [] op = "MOD" -> Lua!MOD(s[1], s[2])
    [] op = "SMOD" -> Lua!SMOD(s[1], s[2])      [] op = "EXP" -> Lua!EXP(s[1], s[2])
    [] op = "ADDMOD" -> Lua!ADDMOD(s[1], s[2], s[3])
    [] op = "MULMOD" -> Lua!MULMOD(s[1], s[2], s[3])
    [] op = "SIGNEXTEND" -> Lua!SIGNEXTEND(s[1], s[2])
    [] op = "LT" -> Lua!LT(s[1], s[2])          [] op = "GT" -> Lua!GT(s[1], s[2])
    [] op = "SLT" -> Lua!SLT(s[1], s[2])        [] op = "SGT" -> Lua!SGT(s[1], s[2])
    [] op = "EQ" -> Lua!EQ(s[1], s[2])          [] op = "ISZERO" -> Lua!ISZERO(s[1])
    [] op = "AND" -> Lua!AND(s[1], s[2])        [] op = "OR" -> Lua!OR(s[1], s[2])
    [] op = "XOR" -> Lua!XOR(s[1], s[2])
    [] op = "BYTE" -> Lua!BYTE(s[1], s[2])      [] op = "SHL" -> Lua!SHL(s[1], s[2])
    [] op = "SHR" -> Lua!SHR(s[1], s[2])        [] op = "SAR" -> Lua!SAR(s[1], s[2])

RefResult(op, s) ==
  CASE op = "ADD" -> Ref!Add(s[1], s[2])        [] op = "MUL" -> Ref!Mul(s[1], s[2])
    [] op = "SUB" -> Ref!Sub(s[1], s[2])        [] op = "DIV" -> Ref!Div(s[1], s[2])
    [] op = "SDIV" -> Ref!SDiv(s[1], s[2])      [] op = "MOD" -> Ref!Mod(s[1], s[2])
    [] op = "SMOD" -> Ref!SMod(s[1], s[2])      [] op = "EXP" -> Ref!Exp(s[1], s[2])
    [] op = "ADDMOD" -> Ref!AddMod(s[1], s[2], s[3])
    [] op = "MULMOD" -> Ref!MulMod(s[1], s[2], s[3])
    [] op = "SIGNEXTEND" -> Ref!SignExtend(s[1], s[2])
    [] op = "LT" -> Ref!LessThan(s[1], s[2])    [] op = "GT" -> Ref!GreaterThan(s[1], s[2])
    [] op = "SLT" -> Ref!SignedLessThan(s[1], s[2])
    [] op = "SGT" -> Ref!SignedGreaterThan(s[1], s[2])
    [] op = "EQ" -> Ref!Equal(s[1], s[2])       [] op = "ISZERO" -> Ref!IsZero(s[1])
    [] op = "AND" -> Ref!BitwiseAnd(s[1], s[2]) [] op = "OR" -> Ref!BitwiseOr(s[1], s[2])
    [] op = "XOR" -> Ref!BitwiseXor(s[1], s[2])
    [] op = "BYTE" -> Ref!GetByte(s[1], s[2])   [] op = "SHL" -> Ref!BitwiseShl(s[1], s[2])
    [] op = "SHR" -> Ref!BitwiseShr(s[1], s[2]) [] op = "SAR" -> Ref!BitwiseSar(s[1], s[2])

VARIABLES
  lua,  \* evm.lua's stack, the top first
  ref   \* the reference's

vars == <<lua, ref>>

------------------------------------------------------------------------------
Push(v) ==
  /\ Len(lua) < MaxDepth
  /\ lua' = Lua!PUSH(lua, v)
  /\ ref' = Ref!PushN(ref, v)

Pop ==
  /\ lua # <<>>
  /\ lua' = Lua!POP(lua)
  /\ ref' = Ref!PopItem(ref)

Dup(n) ==
  /\ n <= Len(lua)
  /\ Len(lua) < MaxDepth
  /\ lua' = Lua!DUP(lua, n)
  /\ ref' = Ref!DupN(ref, n - 1)

Swap(n) ==
  /\ n < Len(lua)
  /\ lua' = Lua!SWAP(lua, n)
  /\ ref' = Ref!SwapN(ref, n)

\* Bug: the last operand is read and not popped.
BugBelowOperands(s, op) == SubSeq(s, Arity(op), Len(s))

Below(s, op) == SubSeq(s, Arity(op) + 1, Len(s))

\* The opcodes that take their operands in the other order than the reference does: a
\* program written for evm.lua exchanges them.
Reversed == {"LT", "GT", "SLT", "SGT", "SHR"}
Operands(op, s) == IF op \in Reversed THEN Ref!SwapN(s, 1) ELSE s

\* The operands an opcode is applied to. On others the two sides mean different things
\* and the program has no such step. NOT is not among the opcodes: evm.lua flips 53 bits,
\* the reference 256, and they agree on no operand.
Meant(op, s) ==
  \/ op \in {"ADD", "SUB", "MUL", "SDIV", "EQ", "ISZERO", "BYTE", "SLT", "SGT"}
  \/ op \in {"DIV", "MOD", "SMOD", "OR", "XOR", "LT", "GT", "SHR"} /\ s[1] >= 0 /\ s[2] >= 0
  \/ op = "AND" /\ (s[1] >= 0 \/ s[2] >= 0)
  \/ op \in {"ADDMOD", "MULMOD"} /\ s[1] >= 0 /\ s[2] >= 0 /\ s[3] >= 0
  \/ op = "EXP" /\ s[2] >= 0
  \/ op \in {"SHL", "SIGNEXTEND"} /\ s[1] >= 0
  \/ op = "SAR" /\ s[1] >= 0 /\ (s[1] < BITS \/ s[2] >= 0)

Apply(op) ==
  /\ Len(lua) >= Arity(op)
  /\ Meant(op, lua)
  /\ LuaResult(op, lua) # Rounded
  /\ lua' = <<LuaResult(op, lua)>> \o Below(lua, op)
  /\ ref' = <<RefResult(op, Operands(op, ref))>> \o Below(ref, op)

Init == lua = <<>> /\ ref = <<>>

Next ==
  \/ \E v \in Immediates : Push(v)
  \/ Pop
  \/ \E n \in 1 .. MaxDepth : Dup(n)
  \/ \E n \in 1 .. MaxDepth : Swap(n)
  \/ \E op \in Ops : Apply(op)

Spec == Init /\ [][Next]_vars

------------------------------------------------------------------------------
Represents(v, w) == v % Ref!Modulus = w

\* The stacks hold doubles and words.
TypeOK == lua \in Seq(Lua!Exact) /\ ref \in Seq(Ref!Word) /\ Len(lua) <= MaxDepth

\* However long the program, evm.lua's stack represents the reference's (evm.lua:605-912
\* and 1360-1398): while no result needs rounding, the negative numbers that SUB leaves in
\* place of large words do no harm to the opcodes that Meant lets them into.
InStep ==
  /\ Len(lua) = Len(ref)
  /\ \A i \in DOMAIN lua : Represents(lua[i], ref[i])

=============================================================================
