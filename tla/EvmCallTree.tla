----------------------------- MODULE EvmCallTree -----------------------------
(***************************************************************************)
(* The interpreter of evm.lua seen as a call tree: eth_call opens a frame, *)
(* the CALL and CREATE families open nested frames, every opcode draws     *)
(* from one gas pool, and the writing opcodes change Redis in place.       *)
(*                                                                         *)
(* The bytecode is arbitrary: a running frame may execute any opcode with  *)
(* any operands of the constant sets.  Opcodes are grouped by what they    *)
(* change here.  "plain" stands for all those that touch only the frame's  *)
(* own stack, memory and program counter (among them a taken JUMP to a     *)
(* JUMPDEST, and the reads of Redis); GasSchedule has what each of them    *)
(* costs, ContractStore the keys that hold code.                           *)
(***************************************************************************)
EXTENDS Integers, Sequences, FiniteSets, Functions, LuaDoubles

CONSTANTS
  Addrs,           \* account addresses in the canonical form "0x" + 40 lower hex
  Slots,           \* storage positions
  Words,           \* storage values; a missing key reads as Zero
  Zero,            \* the value SLOAD pushes for a key that does not exist
  Payloads,        \* non-empty byte tables: return data, init code, deployed code
  Empty,           \* the empty byte table
  NoCode,          \* lookup_code's nil
  Installed,       \* code the operator stored under the raw key of each address
  Salts,           \* CREATE2's salts
  Creators,        \* bound: the addresses that execute CREATE and CREATE2
  MaxNonce,        \* bound on CREATE_NONCE
  Derive,          \* keccak256 of a creator's address and a seed
  MAX_CALL_DEPTH,  \* evm.lua's constant, 1024
  HostDepth,       \* nested pcalls the Lua host allows
  GasCap,          \* the pool's size for a top-level call
  OpCosts,         \* the gas charges each opcode class can be billed
  MaxCost,         \* the largest of those charges
  InfiniteOps,     \* the classes whose charge can also be -inf or nan
  MinUsed,         \* bound on how far negative charges bring the pool down
  Supply           \* the balances' initial value

CallKinds   == {"CALL", "CALLCODE", "DELEGATECALL", "STATICCALL"}
CreateKinds == {"CREATE", "CREATE2"}
HaltOps     == {"STOP", "RETURN", "REVERT", "INVALID"}
Ops         == {"plain", "SSTORE", "call", "create", "SELFDESTRUCT", "badjump"} \cup HaltOps

Data     == Payloads \cup {Empty}
CodeVals == Data \cup {NoCode}
Seeds    == Salts \cup 1..MaxNonce

\* An address is a string of 20 bytes.
ASSUME AddressAssumption == IsFiniteSet(Addrs)

ASSUME DataAssumption ==
  /\ Empty \notin Payloads
  /\ NoCode \notin Data
  /\ Zero \in Words
  /\ Installed \in [Addrs -> CodeVals]
  /\ Supply \in [Addrs -> Nat]

ASSUME SeedAssumption ==
  /\ MaxNonce \in Nat
  /\ Salts \subseteq Nat \ {0}
  /\ Creators \subseteq Addrs
  /\ Derive \in [Creators \X Seeds -> Addrs]

ASSUME DepthAssumption ==
  /\ MAX_CALL_DEPTH \in Nat
  /\ HostDepth \in Nat \ {0}

ASSUME GasAssumption ==
  /\ GasCap \in Nat
  /\ MaxCost \in Nat
  /\ InfiniteOps \subseteq Ops
  /\ MinUsed \in Int
  /\ MinUsed <= 0
  /\ OpCosts \in [Ops -> SUBSET Int]
  /\ \A op \in Ops : \A c \in OpCosts[op] : c <= MaxCost

(***************************************************************************)
(* dynamic_gas follows a length on the stack for KECCAK256, the copies and *)
(* the LOGs only, all of them "plain" here.  clamp_length has no lower     *)
(* bound: SUB pushes a negative length, and the charge may be negative     *)
(* (module GasSchedule).  Every other charge is a constant of GAS_COSTS.   *)
(***************************************************************************)
OnlyPlainRefills ==
  /\ \A op \in Ops \ {"plain"} : OpCosts[op] \subseteq Nat
  /\ InfiniteOps \subseteq {"plain"}

(***************************************************************************)
(* A length can be -inf or nan, too: EXP overflows to inf, and SUB goes on *)
(* from there.  After such a charge gas_used is one of the two, no later   *)
(* charge changes that, and it never exceeds the cap.  This number, below  *)
(* all that the bound admits, stands for both.                             *)
(***************************************************************************)
Bottomless == MinUsed - 1

VARIABLES
  frames,    \* the nested evmStates, the top-level one first; <<>> between calls
  gasUsed,   \* budget.gas_used, shared by every frame of the tree
  reply,     \* what the last eth_call answered: "none" while it runs
  storage,   \* the keys <address>:<slot>
  code,      \* the keys CODE:<address>, written by CREATE and CREATE2
  nonce,     \* the key CREATE_NONCE
  balance    \* the keys BALANCE:<address>

world == <<storage, code, nonce, balance>>
vars  == <<frames, gasUsed, reply, world>>

(***************************************************************************)
(* One evmState.  rdata is state.return_data, which serves both as the     *)
(* frame's own output and as the buffer of its last sub-call.  flag is the *)
(* last success flag a CALL or CREATE of this frame pushed ("1" also stands  *)
(* for the pushed address of a new contract).  status is what the Lua      *)
(* fields running, reverted, invalid_opcode and a raised error amount to,  *)
(* and "stuck" in a handler that never ends.                               *)
(***************************************************************************)
Statuses == {"run", "stopped", "returned", "reverted", "failed", "stuck"}
Flags    == {"none", "0", "1"}

Frame == [addr   : Addrs,
          kind   : {"TOP"} \cup CallKinds \cup CreateKinds,
          depth  : Nat,
          static : BOOLEAN,
          code   : Data,
          salt   : Salts \cup {0},
          rdata  : Data,
          flag   : Flags,
          status : Statuses]

Idle == frames = <<>>
Top  == frames[Len(frames)]
Below == frames[Len(frames) - 1]

\* Bug: the nested frame forgets call_depth, as if every frame were a top-level one.
BugFreshAtDepthZero(addr, kind, depth, static, bytes, salt) ==
  [addr |-> addr, kind |-> kind, depth |-> 0, static |-> static, code |-> bytes,
   salt |-> salt, rdata |-> Empty, flag |-> "none", status |-> "run"]

\* EVM.init
Fresh(addr, kind, depth, static, bytes, salt) ==
  [addr |-> addr, kind |-> kind, depth |-> depth, static |-> static, code |-> bytes,
   salt |-> salt, rdata |-> Empty, flag |-> "none", status |-> "run"]

\* lookup_code: the raw key is tried before the CODE: key; an empty string counts as none.
LookupCode(a) == IF Installed[a] # NoCode THEN Installed[a] ELSE code[a]

------------------------------------------------------------------------------
\* EVM.execute is about to run an opcode of the innermost frame. Empty code has none.
Running == ~Idle /\ Top.status = "run"
HasOpcode == Running /\ Top.code # Empty

\* Bug: no metering, the interpreter loop as it was before the pool existed.
BugUnmetered(op) == HasOpcode /\ UNCHANGED gasUsed

\* Bug: the cap is compared with the gas used before this charge.
BugLateCapCheck(op) ==
  /\ HasOpcode
  /\ gasUsed <= GasCap
  /\ \E c \in OpCosts[op] : gasUsed' = gasUsed + c

\* The charge that precedes the handler, when the pool covers it.
Charge(op) ==
  /\ HasOpcode
  /\ \/ /\ gasUsed # Bottomless
        /\ \E c \in OpCosts[op] : gasUsed' = gasUsed + c
        /\ gasUsed' <= GasCap
        /\ gasUsed' >= MinUsed   \* bound
     \/ /\ gasUsed = Bottomless \/ op \in InfiniteOps
        /\ gasUsed' = Bottomless

SetTop(f) == frames' = [frames EXCEPT ![Len(frames)] = f]
Push(flag) == SetTop([Top EXCEPT !.flag = flag])
Halt(status) == SetTop([Top EXCEPT !.status = status])
HaltWith(status, d) == SetTop([Top EXCEPT !.status = status, !.rdata = d])

\* Bug: exhaustion clears state.running without raising an error.
BugQuietOutOfGas(op) ==
  /\ HasOpcode
  /\ \E c \in OpCosts[op] :
       /\ gasUsed' = gasUsed + c
       /\ gasUsed' > GasCap
  /\ Halt("stopped")
  /\ UNCHANGED <<reply, world>>

\* Bug: exhaustion is noted but the frame goes on.
BugOutOfGasGoesOn(op) ==
  /\ HasOpcode
  /\ \E c \in OpCosts[op] :
       /\ gasUsed' = gasUsed + c
       /\ gasUsed' > GasCap
  /\ UNCHANGED <<frames, reply, world>>

\* The charge exceeds the cap: execute raises an error and the handler never runs.
OutOfGas(op) ==
  /\ HasOpcode
  /\ gasUsed # Bottomless
  /\ \E c \in OpCosts[op] :
       /\ gasUsed' = gasUsed + c
       /\ gasUsed' > GasCap
  /\ Halt("failed")
  /\ UNCHANGED <<reply, world>>

Plain ==
  /\ Charge("plain")
  /\ UNCHANGED <<frames, reply, world>>

SStore(s, w) ==
  /\ Charge("SSTORE")
  /\ storage' = [storage EXCEPT ![Top.addr][s] = w]
  /\ UNCHANGED <<frames, reply, code, nonce, balance>>

Stop ==
  /\ Charge("STOP")
  /\ Halt("stopped")
  /\ UNCHANGED <<reply, world>>

\* A jump whose target is not a JUMPDEST only clears state.running.
BadJump ==
  /\ Charge("badjump")
  /\ Halt("stopped")
  /\ UNCHANGED <<reply, world>>

Return(d) ==
  /\ Charge("RETURN")
  /\ HaltWith("returned", d)
  /\ UNCHANGED <<reply, world>>

Revert(d) ==
  /\ Charge("REVERT")
  /\ HaltWith("reverted", d)
  /\ UNCHANGED <<reply, world>>

\* INVALID, and any handler that raises a Lua or Redis error after its charge.
Abort(op) ==
  /\ Charge(op)
  /\ Halt("failed")
  /\ UNCHANGED <<reply, world>>

\* EXP counts up to its exponent one by one, and never arrives at one above 2^53, where adding
\* 1 to a double changes nothing; of an infinite one dynamic_gas already counts the bytes for
\* ever, before anything is charged.  OR halves its operands until both are 0, which an infinite
\* one never is.  Only a restart of Redis ends this (module RedisHost).
Hang ==
  /\ HasOpcode
  /\ Charge("plain") \/ UNCHANGED gasUsed
  /\ Halt("stuck")
  /\ UNCHANGED <<reply, world>>

\* An opcode that is not in the table, or the end of the code: raised without a charge.
UnknownOpcode ==
  /\ Running
  /\ Halt("failed")
  /\ UNCHANGED <<gasUsed, reply, world>>

\* Bug: the contract's own balance is not zeroed.
BugSelfDestructKeepsBalance(b) ==
  /\ Charge("SELFDESTRUCT")
  /\ balance' = [balance EXCEPT ![b] = @ + balance[Top.addr]]
  /\ code' = [code EXCEPT ![Top.addr] = NoCode]
  /\ Halt("stopped")
  /\ UNCHANGED <<reply, storage, nonce>>

\* The balance is added to the beneficiary's first and then zeroed, in this order. Both are
\* decimal strings that toNumber makes doubles of, and so is their sum.
SelfDestruct(b) ==
  /\ Charge("SELFDESTRUCT")
  /\ LET own == Double(balance[Top.addr])
         sum == Double(Double(balance[b]) + own)
     IN  IF own > 0
           THEN \E s \in Formats(sum) :
                  balance' = [[balance EXCEPT ![b] = s] EXCEPT ![Top.addr] = 0]
           ELSE UNCHANGED balance
  /\ code' = [code EXCEPT ![Top.addr] = NoCode]
  /\ Halt("stopped")
  /\ UNCHANGED <<reply, storage, nonce>>

------------------------------------------------------------------------------
(***************************************************************************)
(* do_call and the two creation handlers.  HostDepth is where the nested   *)
(* pcall itself fails: the sub-frame exists but runs no opcode.            *)
(***************************************************************************)
\* Bug: one level too many.
BugTooDeepByOne == Top.depth > MAX_CALL_DEPTH

TooDeep     == Top.depth >= MAX_CALL_DEPTH
HostRefuses == Len(frames) >= HostDepth

\* do_call empties the buffer when the depth limit stops it, and reports failure.
CallTooDeep ==
  /\ Charge("call")
  /\ TooDeep
  /\ SetTop([Top EXCEPT !.rdata = Empty, !.flag = "0"])
  /\ UNCHANGED <<reply, world>>

\* An account without code: success and an empty buffer.
CallNoCode(to) ==
  /\ Charge("call")
  /\ ~TooDeep
  /\ LookupCode(to) = NoCode
  /\ SetTop([Top EXCEPT !.rdata = Empty, !.flag = "1"])
  /\ UNCHANGED <<reply, world>>

\* The pcall raises before the callee's first opcode.
CallHostFails(to) ==
  /\ Charge("call")
  /\ ~TooDeep
  /\ LookupCode(to) # NoCode
  /\ HostRefuses
  /\ SetTop([Top EXCEPT !.rdata = Empty, !.flag = "0"])
  /\ UNCHANGED <<reply, world>>

\* Bug: DELEGATECALL switches to the callee's storage like CALL.
BugDelegateSwitches(kind, to) ==
  IF kind \in {"CALL", "STATICCALL", "DELEGATECALL"} THEN to ELSE Top.addr

\* The storage context a callee runs in.
ExecAddress(kind, to) == IF kind \in {"CALL", "STATICCALL"} THEN to ELSE Top.addr

\* Bug: static is set by STATICCALL but not inherited.
BugCallDropsStatic(kind, to) ==
  /\ Charge("call")
  /\ ~TooDeep
  /\ LookupCode(to) # NoCode
  /\ ~HostRefuses
  /\ frames' = Append(frames, Fresh(ExecAddress(kind, to), kind, Top.depth + 1,
                                    kind = "STATICCALL", LookupCode(to), 0))
  /\ UNCHANGED <<reply, world>>

\* Bug: the callee seeds a pool of its own instead of sharing state.budget.
BugCallSeedsPool(kind, to) ==
  /\ HasOpcode
  /\ gasUsed' = 0
  /\ ~TooDeep
  /\ LookupCode(to) # NoCode
  /\ ~HostRefuses
  /\ frames' = Append(frames, Fresh(ExecAddress(kind, to), kind, Top.depth + 1,
                                    Top.static \/ kind = "STATICCALL", LookupCode(to), 0))
  /\ UNCHANGED <<reply, world>>

Call(kind, to) ==
  /\ Charge("call")
  /\ ~TooDeep
  /\ LookupCode(to) # NoCode
  /\ ~HostRefuses
  /\ frames' = Append(frames, Fresh(ExecAddress(kind, to), kind, Top.depth + 1,
                                    Top.static \/ kind = "STATICCALL", LookupCode(to), 0))
  /\ UNCHANGED <<reply, world>>

\* Depth limit or host limit: 0 is pushed and the creator's buffer is left as it was.
CreateFails ==
  /\ Charge("create")
  /\ TooDeep \/ HostRefuses
  /\ Push("0")
  /\ UNCHANGED <<reply, world>>

\* Bounds on creation: a creator that Derive knows, and for CREATE a nonce left for
\* this frame and each one around it.
CreateBound(kind) ==
  /\ Top.addr \in Creators
  /\ kind = "CREATE" => nonce + Len(frames) <= MaxNonce

\* The init code runs in the creator's own storage context, and static is not passed on.
Create(kind, init, salt) ==
  /\ Charge("create")
  /\ CreateBound(kind)
  /\ ~TooDeep
  /\ ~HostRefuses
  /\ frames' = Append(frames, Fresh(Top.addr, kind, Top.depth + 1, FALSE, init,
                                    IF kind = "CREATE2" THEN salt ELSE 0))
  /\ UNCHANGED <<reply, world>>

------------------------------------------------------------------------------
(***************************************************************************)
(* The innermost frame has left EVM.execute and its opener goes on.        *)
(***************************************************************************)
Halted == ~Idle /\ Top.status \notin {"run", "stuck"}
Succeeded == Top.status \in {"stopped", "returned"}

Resume(f) == frames' = [SubSeq(frames, 1, Len(frames) - 1) EXCEPT ![Len(frames) - 1] = f]

\* Bug: the buffer is handed over only by a callee that succeeded.
BugRevertDataLost ==
  /\ Halted
  /\ Top.kind \in CallKinds
  /\ Resume([Below EXCEPT !.rdata = IF Succeeded THEN Top.rdata ELSE @,
                         !.flag = IF Succeeded THEN "1" ELSE "0"])
  /\ UNCHANGED <<gasUsed, reply, world>>

\* The rest of do_call: the callee's buffer becomes the caller's, whatever the outcome.
ReturnToCaller ==
  /\ Halted
  /\ Top.kind \in CallKinds
  /\ Resume([Below EXCEPT !.rdata = Top.rdata, !.flag = IF Succeeded THEN "1" ELSE "0"])
  /\ UNCHANGED <<gasUsed, reply, world>>

\* The address CREATE derives: the nonce is incremented after the init code ended.
NewAddress == Derive[<<Below.addr, IF Top.kind = "CREATE" THEN nonce + 1 ELSE Top.salt>>]

\* Deployment: no look at what CODE:<address> held before.
ReturnToCreator ==
  /\ Halted
  /\ Top.kind \in CreateKinds
  /\ Succeeded
  /\ nonce' = IF Top.kind = "CREATE" THEN nonce + 1 ELSE nonce
  /\ code' = [code EXCEPT ![NewAddress] = Top.rdata]
  /\ Resume([Below EXCEPT !.flag = "1"])
  /\ UNCHANGED <<gasUsed, reply, storage, balance>>

CreationFailed ==
  /\ Halted
  /\ Top.kind \in CreateKinds
  /\ ~Succeeded
  /\ Resume([Below EXCEPT !.flag = "0"])
  /\ UNCHANGED <<gasUsed, reply, world>>

\* The top-level frame is not under pcall: an error becomes the error reply, and a
\* revert is an ordinary answer.
Answer ==
  /\ Halted
  /\ Top.kind = "TOP"
  /\ frames' = <<>>
  /\ reply' = IF Top.status = "failed" THEN "error" ELSE "ok"
  /\ UNCHANGED <<gasUsed, world>>

\* eth_call reads the raw key only; no value means no opcode to run.
EthCall(a) ==
  /\ Idle
  /\ frames' = <<Fresh(a, "TOP", 0, FALSE,
                       IF Installed[a] = NoCode THEN Empty ELSE Installed[a], 0)>>
  /\ gasUsed' = 0
  /\ reply' = "none"
  /\ UNCHANGED world

------------------------------------------------------------------------------
Init ==
  /\ frames = <<>>
  /\ gasUsed = 0
  /\ reply = "none"
  /\ storage = [a \in Addrs |-> [s \in Slots |-> Zero]]
  /\ code = [a \in Addrs |-> NoCode]
  /\ nonce = 0
  /\ balance = Supply

Opcode ==
  \/ Plain
  \/ \E s \in Slots, w \in Words : SStore(s, w)
  \/ Stop
  \/ BadJump
  \/ \E d \in Data : Return(d)
  \/ \E d \in Data : Revert(d)
  \/ \E op \in {"INVALID", "plain"} : Abort(op)
  \/ Hang
  \/ UnknownOpcode
  \/ \E b \in Addrs : SelfDestruct(b)
  \/ CallTooDeep
  \/ \E to \in Addrs : CallNoCode(to)
  \/ \E to \in Addrs : CallHostFails(to)
  \/ \E kind \in CallKinds, to \in Addrs : Call(kind, to)
  \/ CreateFails
  \/ \E init \in Data : Create("CREATE", init, 0)
  \/ \E init \in Data, salt \in Salts : Create("CREATE2", init, salt)
  \/ \E op \in Ops : OutOfGas(op)

Unwind == ReturnToCaller \/ ReturnToCreator \/ CreationFailed \/ Answer

Step == Opcode \/ Unwind

Next == Step \/ \E a \in Addrs : EthCall(a)

Spec == Init /\ [][Next]_vars

\* Redis runs a function to completion on its main thread: a call in progress always
\* takes its next step, unless its handler is stuck, while nobody is obliged to make another
\* call.
FairSpec == Spec /\ WF_vars(Step)
------------------------------------------------------------------------------
(***************************************************************************)
(* Properties.                                                             *)
(***************************************************************************)

\* The frames of a call in progress: call_depth counts the frames below, and only the
\* innermost frame can have halted.
FramesOK(fs) ==
  /\ fs \in Seq(Frame)
  /\ \A i \in 1 .. Len(fs) :
       /\ fs[i].depth = i - 1
       /\ i = 1 => fs[i].kind = "TOP"
       /\ i > 1 => fs[i].kind # "TOP"
       /\ i < Len(fs) => fs[i].status = "run"

\* A creation in progress has a name for the address it will derive.
CreationsNamed(fs, n) ==
  \A i \in 2 .. Len(fs) :
    /\ fs[i].kind \in CreateKinds => fs[i - 1].addr \in Creators
    /\ fs[i].kind = "CREATE" => n + i - 1 <= MaxNonce
    /\ fs[i].kind = "CREATE2" => fs[i].salt \in Salts

\* The shape of the state. It includes what do_call's bookkeeping relies on: nested frames
\* count their depth from the top-level one, whichever opcode opened them.
TypeOK ==
  /\ FramesOK(frames)
  /\ CreationsNamed(frames, nonce)
  /\ gasUsed \in Int
  /\ reply \in {"none", "ok", "error"}
  /\ storage \in [Addrs -> [Slots -> Words]]
  /\ code \in [Addrs -> CodeVals]
  /\ nonce \in 0 .. MaxNonce
  /\ balance \in [Addrs -> Int]

\* No mixture of CALL and CREATE frames nests deeper than the limit that do_call and the
\* creation handlers compare with (evm.lua:533 and the same test in CREATE and CREATE2).
DepthBounded == Len(frames) <= MAX_CALL_DEPTH + 1

\* An answer without an error means that the whole tree, failed sub-calls included,
\* stayed within the cap: a caller cannot survive the exhaustion of the shared pool.
OkWithinCap == reply = "ok" => gasUsed <= GasCap

\* While the pool is overdrawn nothing is written to Redis: every frame above the exhausted
\* one fails on its next opcode, whatever it is, until the error reply, or until a hash, copy
\* or log of a negative length has brought the pool back under the cap (evm.lua:1885, 1939).
OverdrawnWritesNothing == [][gasUsed > GasCap /\ ~Idle => UNCHANGED world]_vars

\* How far the pool can be overdrawn: every enclosing frame adds at most one more charge.
OvershootBounded == gasUsed <= GasCap + MaxCost * (MAX_CALL_DEPTH + 1)

\* A frame entered by the CALL family below a static frame is static, however many calls
\* lie between (evm.lua:563).
StaticInherited ==
  \A i, j \in DOMAIN frames :
    /\ i < j
    /\ frames[i].static
    /\ \A k \in i + 1 .. j : frames[k].kind \in CallKinds
    => frames[j].static

\* A storage write lands at an address that the chain of calls really switched to: code
\* reached only by DELEGATECALL or CALLCODE, and init code, never write their own account.
WritesNeedAContext ==
  [][\A a \in Addrs : storage'[a] # storage[a] =>
       \E i \in DOMAIN frames : /\ frames[i].addr = a
                               /\ frames[i].kind \in {"TOP", "CALL", "STATICCALL"}]_vars

\* Every call in progress is eventually answered, since gas ends every loop and every
\* recursion; what is left are a handler that is stuck itself (evm.lua:820, 876, 1892), and a
\* program that refills the pool again and again, or once for good (evm.lua:1885-1910).
Stuck   == ~Idle /\ Top.status = "stuck"
Refills == ~Idle /\ gasUsed' < gasUsed

TerminatesUnlessRefilled ==
  []<><<Refills>>_vars \/ (~Idle ~> Idle \/ Stuck \/ gasUsed = Bottomless)

\* SELFDESTRUCT, the only opcode that moves balance, never creates any out of amounts that
\* doubles hold, not even with itself or an enclosing frame's address as beneficiary.  Beyond
\* 2^53 wei rounding can (evm.lua:1629-1632).
BalanceNeverCreated ==
  [][LET moved == {x \in Addrs : balance'[x] # balance[x]} IN
     (\A x, y \in moved : /\ balance[x] \in 0 .. MaxExact
                          /\ x # y => balance[x] + balance[y] <= MaxExact)
       => SumFunction(balance') <= SumFunction(balance)]_vars

\* The call tree implements the gas pool that docs/SCALING.md:88 describes, as far as the
\* code keeps to it: one pool for all frames, no write and no normal answer while it is
\* overdrawn, and no way back but a refill.
Pool == INSTANCE GasPool WITH open <- Len(frames), used <- gasUsed
PoolSpec == Pool!Spec

=============================================================================
