------------------------------ MODULE GasSchedule ------------------------------
(***************************************************************************)
(* What evm.lua charges for an opcode, and what the opcode then does for   *)
(* that price.  dynamic_gas looks at the stack before the handler pops it, *)
(* so the charge and the handler must agree on which operand is the        *)
(* length; the handler then loops over that many bytes.                    *)
(*                                                                         *)
(* The state machine is one frame that runs any of Executed with operands  *)
(* left on its stack by any earlier opcode.  Loops are counted from above: *)
(* a region once, however many passes a handler makes over it, and no loop *)
(* over the bits or bytes of a single word, whose length is a constant.    *)
(* Operands are integers, negative ones included; what infinite ones do is *)
(* in EvmCallTree.                                                         *)
(***************************************************************************)
EXTENDS Integers, Sequences, FiniteSets

CONSTANTS
  MAX_MEM_BYTES,   \* evm.lua's ceiling on one memory region, 4096
  ExpBytes,        \* bytes a number can have
  GasCap,          \* the pool
  CalldataSize,    \* bytes of the key CALLDATA; 0 in a nested frame, which has a table
  CodeSize,        \* bytes of the frame's own code
  ExternalSize,    \* bytes of the largest code of any other account
  Executed,        \* the opcodes the program may use
  Operands,        \* the numbers an opcode may leave on the stack
  MaxStack,        \* bound on the stack's depth
  MaxOps           \* bound on the opcodes of one execution

------------------------------------------------------------------------------
(***************************************************************************)
(* The opcodes by static cost, GAS_COSTS.  PUSH, DUP and SWAP stand for    *)
(* their numbered families.                                                *)
(***************************************************************************)
Free   == {"STOP", "RETURN", "REVERT", "INVALID"}
Tier1  == {"JUMPDEST"}
Tier2  == {"ADDRESS", "ORIGIN", "CALLER", "CALLVALUE", "CALLDATASIZE", "CODESIZE", "GASPRICE",
           "RETURNDATASIZE", "COINBASE", "TIMESTAMP", "NUMBER", "PREVRANDAO", "GASLIMIT",
           "CHAINID", "BASEFEE", "BLOBBASEFEE", "POP", "PC", "MSIZE", "GAS", "PUSH0"}
Tier3  == {"ADD", "SUB", "LT", "GT", "SLT", "SGT", "EQ", "ISZERO", "AND", "OR", "XOR", "NOT",
           "BYTE", "SHL", "SHR", "SAR", "CALLDATALOAD", "CALLDATACOPY", "CODECOPY",
           "RETURNDATACOPY", "BLOBHASH", "MLOAD", "MSTORE", "MSTORE8", "MCOPY",
           "PUSH", "DUP", "SWAP"}
Tier5  == {"MUL", "DIV", "SDIV", "MOD", "SMOD", "SIGNEXTEND", "SELFBALANCE"}
Tier8  == {"ADDMOD", "MULMOD", "JUMP"}
Tier10 == {"EXP", "JUMPI"}
Calls  == {"CALL", "CALLCODE", "DELEGATECALL", "STATICCALL"}
Creates == {"CREATE", "CREATE2"}
Logs   == {"LOG0", "LOG1", "LOG2", "LOG3", "LOG4"}
External == {"BALANCE", "EXTCODESIZE", "EXTCODECOPY", "EXTCODEHASH"}

Opcodes == Free \cup Tier1 \cup Tier2 \cup Tier3 \cup Tier5 \cup Tier8 \cup Tier10 \cup Calls
           \cup Creates \cup Logs \cup External
           \cup {"BLOCKHASH", "KECCAK256", "TLOAD", "TSTORE", "SLOAD", "SELFDESTRUCT", "SSTORE"}

StaticCost(op) ==
  CASE op \in Free    -> 0
    [] op \in Tier1   -> 1
    [] op \in Tier2   -> 2
    [] op \in Tier3   -> 3
    [] op \in Tier5   -> 5
    [] op \in Tier8   -> 8
    [] op \in Tier10  -> 10
    [] op = "BLOCKHASH" -> 20
    [] op = "KECCAK256" -> 30
    [] op \in Calls \cup {"TLOAD", "TSTORE"} -> 100
    [] op \in Logs    -> 375
    [] op = "SLOAD"   -> 2100
    [] op \in External -> 2600
    [] op = "SELFDESTRUCT" -> 5000
    [] op = "SSTORE"  -> 20000
    [] op \in Creates -> 32000

\* The ceiling is low enough for a creation to pay for its init code and what it deploys, and
\* high enough for LOG4 to be the dearest opcode.
ASSUME ScheduleAssumption ==
  /\ MAX_MEM_BYTES \in Nat
  /\ 6 * MAX_MEM_BYTES <= 32 * 32000
  /\ 32000 <= 375 + 4 * 375 + 8 * MAX_MEM_BYTES
  /\ ExpBytes \in Nat
  /\ 10 + 50 * ExpBytes <= 32000
  /\ GasCap \in Nat
  /\ CalldataSize \in Nat
  /\ CodeSize \in Nat
  /\ ExternalSize \in Nat
  /\ Executed \subseteq Opcodes
  /\ Operands \subseteq Int
  /\ MaxStack \in Nat \ {0}
  /\ MaxOps \in Nat

------------------------------------------------------------------------------
\* The k-th operand from the top; reading or popping past the bottom gives nil, which
\* toNumber turns into 0.
Operand(stack, k) == IF k <= Len(stack) THEN stack[Len(stack) + 1 - k] ELSE 0

\* Bug: the length is used as it comes.
BugUnclamped(length) == length

\* clamp_length: from above only.
Clamp(length) == IF length > MAX_MEM_BYTES THEN MAX_MEM_BYTES ELSE length

NumWords(bytes) == (bytes + 31) \div 32

Copies == {"CALLDATACOPY", "CODECOPY", "RETURNDATACOPY", "MCOPY"}

Topics(op) ==
  CASE op = "LOG0" -> 0 [] op = "LOG1" -> 1 [] op = "LOG2" -> 2 [] op = "LOG3" -> 3
    [] op = "LOG4" -> 4

\* Bug: the copies are billed for the operand below the top, as hashing and logging are.
BugBilledAtTwo(op) == IF op = "EXTCODECOPY" THEN 3 ELSE 2

\* Which operand dynamic_gas takes for the length.
BilledAt(op) ==
  CASE op \in Logs \cup {"KECCAK256"} -> 2
    [] op \in Copies -> 3
    [] op = "EXTCODECOPY" -> 4

\* The bytes of an exponent: how often it can be divided by 256 before it is 0.
ByteCount(n) == Cardinality({k \in 1 .. ExpBytes : 256 ^ (k - 1) <= n})

DynamicGas(op, stack) ==
  CASE op = "KECCAK256" -> 6 * NumWords(Clamp(Operand(stack, BilledAt(op))))
    [] op \in Copies \cup {"EXTCODECOPY"} ->
         3 * NumWords(Clamp(Operand(stack, BilledAt(op))))
    [] op \in Logs -> 375 * Topics(op) + 8 * Clamp(Operand(stack, BilledAt(op)))
    [] op = "EXP" -> 50 * ByteCount(Operand(stack, 2))
    [] OTHER -> 0

Cost(op, stack) == StaticCost(op) + DynamicGas(op, stack)

------------------------------------------------------------------------------
(***************************************************************************)
(* The handlers that loop.  Lengthy ones take the number of iterations     *)
(* from the stack.  Storing ones write a word or a byte.  Walking ones     *)
(* decode all of a string before they look at it, or, for MSIZE, visit     *)
(* every entry of the memory table.                                        *)
(***************************************************************************)
Hashing == Logs \cup {"KECCAK256"}
Lengthy == Hashing \cup Copies \cup {"EXTCODECOPY", "RETURN", "REVERT", "EXP"} \cup Creates
           \cup Calls
Storing == {"MSTORE", "MSTORE8"}
CalldataOps == {"CALLDATALOAD", "CALLDATASIZE", "CALLDATACOPY"}
CodeOps     == {"CODESIZE", "CODECOPY"}
ExternalOps == {"EXTCODESIZE", "EXTCODECOPY", "EXTCODEHASH"} \cup Calls
Walking == CalldataOps \cup CodeOps \cup ExternalOps \cup {"MSIZE"}
Looping == Lengthy \cup Storing \cup Walking

LengthAt(op) ==
  CASE op \in Hashing \cup {"RETURN", "REVERT", "EXP"} -> 2
    [] op \in Copies \cup Creates -> 3
    [] op \in {"EXTCODECOPY", "DELEGATECALL", "STATICCALL"} -> 4
    [] op \in {"CALL", "CALLCODE"} -> 5

\* Those that take nothing from the stack.
Reporting == {"CALLDATASIZE", "CODESIZE", "MSIZE"}

\* Bug: hashing looks at its operands without popping them, as dynamic_gas does.
BugPops(op) ==
  CASE op \in Reporting \cup {"KECCAK256"} -> 0
    [] op \in {"CALLDATALOAD", "EXTCODESIZE", "EXTCODEHASH"} -> 1
    [] op \in {"RETURN", "REVERT", "EXP"} \cup Storing -> 2
    [] op \in Copies \cup {"CREATE"} -> 3
    [] op \in {"EXTCODECOPY", "CREATE2"} -> 4
    [] op \in Logs -> 2 + Topics(op)
    [] op \in {"DELEGATECALL", "STATICCALL"} -> 6
    [] op \in {"CALL", "CALLCODE"} -> 7

Pops(op) ==
  CASE op \in Reporting -> 0
    [] op \in {"CALLDATALOAD", "EXTCODESIZE", "EXTCODEHASH"} -> 1
    [] op \in {"KECCAK256", "RETURN", "REVERT", "EXP"} \cup Storing -> 2
    [] op \in Copies \cup {"CREATE"} -> 3
    [] op \in {"EXTCODECOPY", "CREATE2"} -> 4
    [] op \in Logs -> 2 + Topics(op)
    [] op \in {"DELEGATECALL", "STATICCALL"} -> 6
    [] op \in {"CALL", "CALLCODE"} -> 7

Pushing == {"KECCAK256", "EXP", "CALLDATALOAD", "CALLDATASIZE", "CODESIZE", "EXTCODESIZE",
            "EXTCODEHASH", "MSIZE"} \cup Creates \cup Calls

AtLeastZero(n) == IF n > 0 THEN n ELSE 0
Larger(m, n) == IF m > n THEN m ELSE n

\* The bytes a handler works on: do_call copies its arguments, and EXP multiplies, as often as
\* the operand says.
Length(op, st) ==
  CASE op \in Calls \cup {"EXP"} -> AtLeastZero(Operand(st, LengthAt(op)))
    [] op \in Lengthy \ (Calls \cup {"EXP"}) -> AtLeastZero(Clamp(Operand(st, LengthAt(op))))
    [] op = "MSTORE" -> 32
    [] op = "MSTORE8" -> 1
    [] OTHER -> 0

\* What a sub-frame returns is at most what a RETURN hands out: do_call copies it into
\* memory, a creation writes it to Redis.
Returned(op) == IF op \in Calls \cup Creates THEN MAX_MEM_BYTES ELSE 0

\* MCOPY and EXTCODECOPY first append to the memory table until # is at the end of their
\* regions; MCOPY of nothing does not.  A # of 0 is the worst case.
RequiredSize(op, st) ==
  CASE op = "MCOPY" /\ Clamp(Operand(st, 3)) # 0 ->
         AtLeastZero(Larger(Operand(st, 1), Operand(st, 2)) + Clamp(Operand(st, 3)))
    [] op = "EXTCODECOPY" -> AtLeastZero(Operand(st, 2) + Clamp(Operand(st, 4)))
    [] OTHER -> 0

\* The highest position that an opcode stores to, or 0.
Reach(op, st) ==
  CASE op \in (Storing \cup Copies) \ {"MCOPY"} ->
         AtLeastZero(Operand(st, 1) + Length(op, st) - 1)
    [] op \in {"CALL", "CALLCODE"} -> AtLeastZero(Operand(st, 6) + MAX_MEM_BYTES - 1)
    [] op \in {"DELEGATECALL", "STATICCALL"} -> AtLeastZero(Operand(st, 5) + MAX_MEM_BYTES - 1)
    [] OTHER -> RequiredSize(op, st)

VARIABLES
  stack,     \* state.stack
  highest,   \* the highest index of state.memory, or 0
  used,      \* budget.gas_used
  refunded,  \* history: what negative charges took back from it
  work,      \* history: bytes worked on so far
  took,      \* history: iterations of all loops for the last opcode
  ops,       \* opcodes executed
  status     \* "run", "halted" or "out"

vars == <<stack, highest, used, refunded, work, took, ops, status>>

Iterations(op) == Length(op, stack) + Returned(op) + RequiredSize(op, stack)

\* Every entry of the memory table was made by one of the iterations before.
Walk(op) ==
  CASE op \in CalldataOps -> CalldataSize
    [] op \in CodeOps -> CodeSize
    [] op \in ExternalOps -> ExternalSize
    [] op = "MSIZE" -> work
    [] OTHER -> 0

Popped(n) == SubSeq(stack, 1, IF n < Len(stack) THEN Len(stack) - n ELSE 0)

Bill(op) ==
  /\ status = "run"
  /\ used' = used + Cost(op, stack)
  /\ refunded' = refunded + AtLeastZero(-Cost(op, stack))

Charged(op) ==
  /\ Bill(op)
  /\ used' <= GasCap
  /\ ops < MaxOps
  /\ ops' = ops + 1

\* After every opcode printState walks the stack, and the memory up to #; of a table with
\* gaps that is the end of any run of entries.
PrintState(n) == took' = n + Len(stack') + highest'

\* The opcodes without such a loop leave one more number, or one fewer.
Simple(op) ==
  /\ Charged(op)
  /\ \/ \E v \in Operands : stack' = Append(stack, v)
     \/ stack' = Popped(1)
  /\ Len(stack') <= MaxStack   \* bound
  /\ UNCHANGED <<highest, work, status>>
  /\ PrintState(0)

Execute(op) ==
  /\ Charged(op)
  /\ IF op \in Pushing
       THEN \E v \in Operands : stack' = Append(Popped(Pops(op)), v)
       ELSE stack' = Popped(Pops(op))
  /\ op \in Reporting => Len(stack) < MaxStack   \* bound
  /\ highest' = Larger(highest, Reach(op, stack))
  /\ work' = work + Iterations(op)
  /\ status' = IF op \in Free THEN "halted" ELSE "run"
  /\ PrintState(Iterations(op) + Walk(op))

\* The charge precedes the handler, which then never runs.
OutOfGas(op) ==
  /\ Bill(op)
  /\ used' > GasCap
  /\ status' = "out"
  /\ took' = 0
  /\ UNCHANGED <<stack, highest, work, ops>>

Init ==
  /\ stack = <<>>
  /\ highest = 0
  /\ used = 0
  /\ refunded = 0
  /\ work = 0
  /\ took = 0
  /\ ops = 0
  /\ status = "run"

Next ==
  \/ \E op \in Executed \ (Looping \cup Free) : Simple(op)
  \/ \E op \in Executed \cap Looping : Execute(op)
  \/ \E op \in Executed : OutOfGas(op)

Spec == Init /\ [][Next]_vars

------------------------------------------------------------------------------
(***************************************************************************)
(* Properties.                                                             *)
(***************************************************************************)

\* The shape of the state; the stack's depth is what the bounds and the handlers' pops keep
\* it at.
TypeOK ==
  /\ stack \in Seq(Operands)
  /\ Len(stack) <= MaxStack
  /\ highest \in Nat
  /\ used \in Int
  /\ refunded \in Nat
  /\ work \in Nat
  /\ took \in Nat
  /\ ops \in 0 .. MaxOps
  /\ status \in {"run", "halted", "out"}

\* The handlers whose loop over an operand is not bounded by what they are charged for.
Unpaid == Calls \cup {"EXP", "MCOPY", "EXTCODECOPY"}

\* The lengths that dynamic_gas charges for, and those that only the ceiling bounds, are paid
\* for: whatever the program, its handlers store, copy, hash, log and create at most 32 bytes
\* for 3 gas, refunds added back, and once more the region of the RETURN or REVERT that ends
\* it, which is free (evm.lua:486, 1881-1911).  It says nothing of what is walked besides.
WorkIsPaid ==
  3 * work <= 32 * (used + refunded) + 3 * (IF status = "halted" THEN MAX_MEM_BYTES ELSE 0)

\* The largest charge of one opcode: LOG4 at the ceiling.
MaxCharge == 375 + 4 * 375 + 8 * MAX_MEM_BYTES

\* What the call tree assumes of every charge: none is larger than MaxCharge, only an opcode
\* that halts its frame is free, and only a hash, copy or log of a negative length refills
\* the pool; its handler then works on no byte at all (evm.lua:492, 1885-1910).
ChargesFit ==
  \A op \in Executed \cap Looping :
    /\ Cost(op, stack) <= MaxCharge
    /\ Cost(op, stack) <= 0 /\ op \notin Free =>
         op \in Hashing \cup Copies \cup {"EXTCODECOPY"} /\ Length(op, stack) = 0

LargestObject == Larger(CalldataSize, Larger(CodeSize, ExternalSize))

\* The comment of MAX_MEM_BYTES (evm.lua:486), it "keeps the worst-case per-opcode work
\* bounded", as far as it is true: beside the ceiling an opcode also walks what it decodes,
\* the stack, memory up to its highest index, and for MSIZE the entries paid for so far.
OpcodeWorkBounded ==
  3 * took <= 3 * (2 * MAX_MEM_BYTES + LargestObject + Len(stack) + highest)
                + 32 * (used + refunded)
=============================================================================
