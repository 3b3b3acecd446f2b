-------------------------- MODULE ProgramAgreement --------------------------
(***************************************************************************)
(* One frame's bytecode, fetched byte by byte by evm.lua and by the        *)
(* reference in lockstep: the program counter, jumps, and the stack.       *)
(*                                                                         *)
(* The program is a sequence of bytes, so that a byte may be both the data *)
(* of a PUSH and, for a jump that lands on it, an opcode.  Lua's table of  *)
(* bytes counts from 1 and the reference's from 0; lua.pc and ref.pc are   *)
(* each side's own.  Opcodes other than those below are taken from the     *)
(* programs; what they would do to the stack is in WordMachine.            *)
(***************************************************************************)
EXTENDS LuaDoubles, Sequences, SequencesExt

CONSTANTS
  Alphabets,    \* bound: the bytes that the programs of each length are made of
  STACK_LIMIT,  \* the reference's limit on its stack, 1024
  NumberBytes   \* the longest PUSH that is a number, and what toNumber keeps of the others, 7

Byte == 0 .. 255

STOP     == 0
DIV      == 4
ISZERO   == 21
POP      == 80
JUMP     == 86
JUMPI    == 87
PC       == 88
JUMPDEST == 91
PUSH0    == 95
PUSH == 96 .. 127
DUP  == 128 .. 143
SWAP == 144 .. 159

Opcodes == {STOP, DIV, ISZERO, POP, JUMP, JUMPI, PC, JUMPDEST, PUSH0} \cup PUSH \cup DUP \cup SWAP

\* Bytes that are no opcode for either side.
Unassigned == {12, 13, 14, 15}

ASSUME ProgramAssumption ==
  /\ Alphabets \in Seq(SUBSET Byte)
  /\ STACK_LIMIT \in Nat \ {0}
  /\ NumberBytes \in Nat \ {0}

\* Numbers of so many bytes are at most 2^56, which is 8 times 2^53.
ASSUME PowerAssumption == 256 ^ NumberBytes \in 1 .. 8 * MaxExact

VARIABLES code, lua, ref

vars == <<code, lua, ref>>

Frame(pc, stack, status) == [pc |-> pc, stack |-> stack, status |-> status]
------------------------------------------------------------------------------
(***************************************************************************)
(* evm.lua.  Both stacks have their top last, as the Lua table and the     *)
(* Python list do.                                                         *)
(***************************************************************************)
LuaByte(pc) == IF pc \in DOMAIN code THEN code[pc] ELSE -1

LuaReads(op) == lua.status = "run" /\ LuaByte(lua.pc) = op

\* The number that a PUSH makes of its bytes; those past the end of the code are zero.
NumberOf(bytes) ==
  LET value[n \in 0 .. Len(bytes)] == IF n = 0 THEN 0 ELSE 256 * value[n - 1] + bytes[n]
  IN  value[Len(bytes)]

OrZero(b) == IF b = -1 THEN 0 ELSE b

LuaBytes(n) == NumberOf([i \in 1 .. n |-> OrZero(LuaByte(lua.pc + i))])

\* tonumber makes a double of a short PUSH; a long one stays the string of its digits.
LuaImmediate(n) == IF n <= NumberBytes THEN Double(LuaBytes(n)) ELSE LuaBytes(n)

\* table.remove of an empty table is nil, which toNumber reads as 0; of a string it makes a
\* double of the last bytes. (A number it leaves alone: on stacks that agree it is below 2^56,
\* unless it is the quotient of operands that did not fit.)
ToNumber(v) == Double(v % 256 ^ NumberBytes)
Operand(n) == IF n <= Len(lua.stack) THEN ToNumber(lua.stack[Len(lua.stack) + 1 - n]) ELSE 0

Removed(s, n) == SubSeq(s, 1, Len(s) - n)

LuaGoes(pc, stack) == lua' = Frame(pc, stack, "run")
LuaNext(stack) == LuaGoes(lua.pc + 1, stack)
LuaEnds(status) == lua' = [lua EXCEPT !.status = status]

LuaPush(n) == LuaGoes(lua.pc + 1 + n, Append(lua.stack, LuaImmediate(n)))

\* Bug: the item below the one that is meant.
BugDupBelow(n) ==
  LuaNext(IF n < Len(lua.stack) THEN Append(lua.stack, lua.stack[Len(lua.stack) - n])
          ELSE lua.stack)

\* An item beyond the end is nil, and table.insert of nil adds nothing.
LuaDup(n) ==
  LuaNext(IF n <= Len(lua.stack) THEN Append(lua.stack, lua.stack[Len(lua.stack) + 1 - n])
          ELSE lua.stack)

\* The top is exchanged with nil when the stack is too short: it is shorter by one then.
LuaSwap(n) ==
  LET s == lua.stack  top == Len(lua.stack) IN
  LuaNext(IF n < top THEN [s EXCEPT ![top] = s[top - n], ![top - n] = s[top]]
          ELSE Removed(s, 1))

\* The operand indexes the table that counts from 1.
LuaAccepts(d) == LuaByte(d) = JUMPDEST

\* Bug: the jump lands on the table's index, a byte early.
BugLandsEarly ==
  IF LuaAccepts(Operand(1)) THEN LuaGoes(Operand(1), Removed(lua.stack, 1))
  ELSE lua' = Frame(lua.pc, Removed(lua.stack, 1), "stopped")

LuaJump ==
  IF LuaAccepts(Operand(1)) THEN LuaGoes(Operand(1) + 1, Removed(lua.stack, 1))
  ELSE lua' = Frame(lua.pc, Removed(lua.stack, 1), "stopped")

LuaJumpI ==
  IF Operand(2) = 0 THEN LuaNext(Removed(lua.stack, 2))
  ELSE IF LuaAccepts(Operand(1)) THEN LuaGoes(Operand(1) + 1, Removed(lua.stack, 2))
  ELSE lua' = Frame(lua.pc, Removed(lua.stack, 2), "stopped")

LuaPc == LuaNext(Append(lua.stack, lua.pc - 1))

LuaIsZero == LuaNext(Append(Removed(lua.stack, 1), IF Operand(1) = 0 THEN 1 ELSE 0))

\* math.floor(a / b): rounding the quotient of a larger number may take it to the next
\* integer, and a quotient that large is itself rounded.
LuaQuotients(a, b) ==
  IF b = 0 THEN {0}
  ELSE IF a <= MaxExact THEN {a \div b} ELSE {Double(a \div b), Double(a \div b + 1)}

LuaDiv ==
  \E q \in LuaQuotients(Operand(1), Operand(2)) : LuaNext(Append(Removed(lua.stack, 2), q))
------------------------------------------------------------------------------
(***************************************************************************)
(* The reference.                                                          *)
(***************************************************************************)
RefByte(pc) == IF pc + 1 \in DOMAIN code THEN code[pc + 1] ELSE -1

RefReads(op) == ref.status = "run" /\ RefByte(ref.pc) = op

\* Opcodes start at 0 and after each opcode and its data.
Width(op) == IF op \in PUSH THEN op - PUSH0 + 1 ELSE 1

Skim(r, op) ==
  IF r.at < r.next THEN [r EXCEPT !.at = @ + 1]
  ELSE [at |-> r.at + 1, next |-> r.at + Width(op), starts |-> r.starts \cup {r.at}]

Starts == FoldLeft(Skim, [at |-> 0, next |-> 0, starts |-> {}], code).starts

\* Evm.valid_jump_destinations
Valid(d) == d \in Starts /\ RefByte(d) = JUMPDEST

RefImmediate(n) == NumberOf([i \in 1 .. n |-> OrZero(RefByte(ref.pc + i))])

RefGoes(pc, stack) == ref' = Frame(pc, stack, "run")
RefNext(stack) == RefGoes(ref.pc + 1, stack)
RefEnds(status) == ref' = [ref EXCEPT !.status = status]
RefRaises == RefEnds("failed")

Item(n) == ref.stack[Len(ref.stack) + 1 - n]

\* stack.pop and stack.push raise at either end of the stack.
Underflows(n) == Len(ref.stack) < n
Overflows == Len(ref.stack) = STACK_LIMIT

\* Bug: no limit.
BugNoLimit(pc, v) == RefGoes(pc, Append(ref.stack, v))

RefPushValue(pc, v) == IF Overflows THEN RefRaises ELSE RefGoes(pc, Append(ref.stack, v))

RefPop == IF Underflows(1) THEN RefRaises ELSE RefNext(Removed(ref.stack, 1))
RefPush(n) == RefPushValue(ref.pc + 1 + n, RefImmediate(n))
RefDup(n) == IF Underflows(n) THEN RefRaises ELSE RefPushValue(ref.pc + 1, Item(n))

RefSwap(n) ==
  LET s == ref.stack  top == Len(ref.stack) IN
  IF Underflows(n + 1) THEN RefRaises
  ELSE RefNext([s EXCEPT ![top] = s[top - n], ![top - n] = s[top]])

RefJump ==
  IF Underflows(1) \/ ~Valid(Item(1)) THEN RefRaises
  ELSE RefGoes(Item(1), Removed(ref.stack, 1))

RefJumpI ==
  IF Underflows(2) THEN RefRaises
  ELSE IF Item(2) = 0 THEN RefNext(Removed(ref.stack, 2))
  ELSE IF ~Valid(Item(1)) THEN RefRaises
  ELSE RefGoes(Item(1), Removed(ref.stack, 2))

RefPc == RefPushValue(ref.pc + 1, ref.pc)

RefIsZero ==
  IF Underflows(1) THEN RefRaises
  ELSE RefNext(Append(Removed(ref.stack, 1), IF Item(1) = 0 THEN 1 ELSE 0))

RefDiv ==
  IF Underflows(2) THEN RefRaises
  ELSE RefNext(Append(Removed(ref.stack, 2), IF Item(2) = 0 THEN 0 ELSE Item(1) \div Item(2)))
------------------------------------------------------------------------------
\* Both sides are at the same byte, or ended alike, with the same stack.
InStep ==
  /\ lua.status = ref.status
  /\ lua.stack = ref.stack
  /\ lua.status = "run" => lua.pc = ref.pc + 1

Reads(op) == InStep /\ LuaReads(op) /\ RefReads(op) /\ UNCHANGED code

Stop      == Reads(STOP) /\ LuaEnds("stopped") /\ RefEnds("stopped")
Pop       == Reads(POP) /\ LuaNext(Removed(lua.stack, 1)) /\ RefPop
Push0     == Reads(PUSH0) /\ LuaPush(0) /\ RefPush(0)
Push(op)  == Reads(op) /\ LuaPush(op - PUSH0) /\ RefPush(op - PUSH0)
Dup(op)   == Reads(op) /\ LuaDup(op - 127) /\ RefDup(op - 127)
Swap(op)  == Reads(op) /\ LuaSwap(op - 143) /\ RefSwap(op - 143)
Jump      == Reads(JUMP) /\ LuaJump /\ RefJump
JumpI     == Reads(JUMPI) /\ LuaJumpI /\ RefJumpI
Pc        == Reads(PC) /\ LuaPc /\ RefPc
JumpDest  == Reads(JUMPDEST) /\ LuaNext(lua.stack) /\ RefNext(ref.stack)
IsZero    == Reads(ISZERO) /\ LuaIsZero /\ RefIsZero
Div       == Reads(DIV) /\ LuaDiv /\ RefDiv
Unknown   == \E op \in Unassigned : Reads(op) /\ LuaEnds("failed") /\ RefRaises

\* The end of the code is an opcode that evm.lua does not know, and the reference's halt.
EndOfCode == Reads(-1) /\ LuaEnds("failed") /\ RefEnds("stopped")

\* The program has ended, or the two sides have parted.
Over == ~(InStep /\ lua.status = "run") /\ UNCHANGED vars

Init ==
  /\ \E n \in DOMAIN Alphabets : code \in [1 .. n -> Alphabets[n]]
  /\ lua = Frame(1, <<>>, "run")
  /\ ref = Frame(0, <<>>, "run")

Next ==
  \/ Stop \/ Pop \/ Push0 \/ Jump \/ JumpI \/ Pc \/ JumpDest \/ IsZero \/ Div \/ Unknown
  \/ \E op \in PUSH : Push(op)
  \/ \E op \in DUP : Dup(op)
  \/ \E op \in SWAP : Swap(op)
  \/ EndOfCode
  \/ Over

Spec == Init /\ [][Next]_vars
------------------------------------------------------------------------------
(***************************************************************************)
(* Properties.                                                             *)
(***************************************************************************)

Statuses == {"run", "stopped", "failed"}

\* Both counters stay within the code and its end, a PUSH at the end included; the stacks
\* hold words; only the reference's is bounded.
TypeOK ==
  /\ code \in Seq(Byte)
  /\ lua \in [pc : 1 .. Len(code) + 33, stack : Seq(Nat), status : Statuses]
  /\ ref \in [pc : 0 .. Len(code) + 32, stack : Seq(Nat), status : Statuses]
  /\ Len(ref.stack) <= STACK_LIMIT

At(ops) == ref.status = "run" /\ RefByte(ref.pc) \in ops

\* How many items an opcode needs.
Needs(op) ==
  CASE op \in {POP, JUMP, ISZERO} -> 1
    [] op \in {JUMPI, DIV} -> 2
    [] op \in DUP -> op - 127
    [] op \in SWAP -> op - 142
    [] OTHER -> 0

\* A destination that one side takes: the reference wants the mark where the jump lands,
\* evm.lua in the byte before it, be it data or not. Where both refuse, they halt differently.
Disputed(d) == ~(Valid(d) /\ RefByte(d - 1) = JUMPDEST)

CutsOperand ==
  /\ At({JUMP, JUMPI, ISZERO, DIV})
  /\ \E n \in 1 .. Needs(RefByte(ref.pc)) : Item(n) # ToNumber(Item(n))

\* A PUSH of as many bytes as still make a number, and a quotient, that no double holds.
RoundsImmediate ==
  \E n \in 1 .. 32 : At({PUSH0 + n}) /\ n <= NumberBytes /\ RefImmediate(n) # Double(RefImmediate(n))

RoundsQuotient == At({DIV}) /\ Item(1) > MaxExact

ChangesWord == CutsOperand \/ RoundsImmediate \/ RoundsQuotient

ListedDifference ==
  \/ Underflows(Needs(RefByte(ref.pc)))
  \/ Overflows /\ At({PUSH0, PC} \cup PUSH \cup DUP)
  \/ At({-1})
  \/ ChangesWord
  \/ At({JUMP}) /\ Disputed(Item(1))
  \/ At({JUMPI}) /\ Item(2) # 0 /\ Disputed(Item(1))

\* A program runs the same on both sides, byte by byte and word by word, until its stack
\* under- or overflows, its code ends, a jump has a disputed destination, or a double does not
\* hold a word: an operand wider than toNumber keeps or a double is exact, a PUSH7 or a
\* quotient beyond 2^53 (evm.lua:95-109, 1294-1350, 1727-1783; instructions/control_flow.py,
\* stack.py). In particular PC's numbers, for all that the tables are one apart, are good
\* for jumps on both sides, and the data of a PUSH is never read as an opcode before.
PartOnlyAsListed == [][InStep => InStep' \/ ListedDifference]_vars

\* When they part, one of them has ended: evm.lua goes on running beside the reference on
\* another path, or with other words, only once a double did not hold a word (evm.lua:95,
\* 629-640, 1315-1346, 1740-1742).
NeverElsewhere ==
  [][InStep /\ lua'.status = "run" /\ ref'.status = "run" => InStep' \/ ChangesWord]_vars
=============================================================================
