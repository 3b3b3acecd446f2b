# evm.lua in TLA+

evm.lua runs Ethereum bytecode inside Redis: a Redis function library
(`src/evm.lua`) whose entry point `eth_call` loads a contract's code from a key,
interprets it, and reads and writes the contract's storage as Redis keys. Two
Python scripts copy a live contract from an Ethereum node into those keys. A
second, Python, implementation of the opcodes (`src/instructions/`) serves as
the statement of what they should do.

This directory specifies that system. Most of it is about what unit tests with
one bytecode each reach badly: trees of nested calls that share a gas pool and
write Redis in place, keys that several opcodes spell in different ways, scripts
that die half way while the node moves on, and arithmetic on doubles that is
right only as long as nothing is rounded. Wherever the repository has both an
implementation and a reference, the two are run side by side, and the properties
say where they agree and list every way in which they part.

1. [The system](#1-the-system)
2. [The modules and the code](#2-the-modules-and-the-code)
3. [What is checked](#3-what-is-checked)
4. [What is proved](#4-what-is-proved)
5. [Where code and documents disagree](#5-where-code-and-documents-disagree)
6. [What is not modelled](#6-what-is-not-modelled)
7. [Plan](#7-plan)

`PROJECT.json` lists the components, the runs, the hazards with their lines, the
theorems, and for each definition the lines it models.

## 1. The system

### Components

| component | state it keeps | operations | where |
|---|---|---|---|
| call tree | a stack of `evmState` tables (address, depth, static flag, return data, running) | `eth_call`, `EVM.execute`, `do_call` for the four CALL kinds, CREATE, CREATE2, STOP, RETURN, REVERT, INVALID, SELFDESTRUCT | `evm.lua:11-24, 517-582, 1401-1409, 1526-1639, 1916-1976` |
| gas pool | the `budget` table (`gas_used`, `gas_cap`) that all frames of one tree share | the charge before each opcode | `evm.lua:1881-1960`, `docs/SCALING.md` section B |
| gas schedule and handler work | none of its own: reads the stack | `GAS_COSTS`, `dynamic_gas`, `clamp_length`, the loops of the copying, hashing and logging handlers | `evm.lua:484-497, 1835-1913` |
| contract code keys | four key conventions for code, and `CODEHASH:` as a cache | `lookup_code`, `eth_call`, EXTCODESIZE/COPY/HASH, CODESIZE, CODECOPY, CREATE, CREATE2, SELFDESTRUCT | `evm.lua:59-82, 1019-1047, 1430-1523, 1546-1639` |
| word opcodes | the stack | ADD ... SAR | `evm.lua:203-251, 604-912, 1360-1398`; reference in `instructions/arithmetic.py`, `comparison.py`, `bitwise.py` |
| stack | the stack | POP, PUSH0-32, DUP1-16, SWAP1-16 | `evm.lua:1150-1153, 1727-1783`, `instructions/stack.py` |
| control flow | `pc`, `running` | JUMP, JUMPI, JUMPDEST, PC, GAS | `evm.lua:1294-1350`, `instructions/control_flow.py` |
| memory | a byte table per frame | MLOAD, MSTORE, MSTORE8, MSIZE, MCOPY, the copies, what calls copy in and out | `evm.lua:484-541, 915-1047, 1156-1312, 1478-1490`, `instructions/memory.py`, `environment.py` |
| storage | keys `<address>:<slot>`; a table per frame for transient storage | SLOAD, SSTORE, TLOAD, TSTORE | `evm.lua:1203-1251`, `instructions/storage.py` |
| environment and block context | global keys (caller, value, calldata, block fields) that clients set before a call | one read each | `evm.lua:159-165, 948-1147`, `instructions/environment.py`, `block.py` |
| logs | a list per frame | LOG0-LOG4 | `evm.lua:1642-1714`, `instructions/log.py` |
| keccak | none | hash of a byte table | `evm.lua`, `references/sha3.ts` |
| formatting and parsing | none | `toNumber`, `hexStringToTable`, `h` | `evm.lua` |
| debugging entry point | as `eth_call` | `eth_call_debug` | `evm.lua` |
| precompiles | none | sha256 and others, which `evm.lua` never loads | `precompile_crypto.lua` |
| reference semantics | Python objects with journaled state | every opcode, message calls with rollback | `instructions/` |
| state export scripts | `<address>:C`, `<address>:S:<hash of the slot>` (export), `<address>:S:<slot>` (delta), `<address>:pointer` | full export, delta | `scripts/export-contract-state.py`, `...-delta.py` |
| benchmarks, load test | none | timed calls | `scripts/` |
| test harness | the keys it sets; the server it may restart | flush, set the context, call, compare, restart a Redis that hangs | `tests/vmtest-runner.py`, `tests/lib.sh` |

### How they interact

- A client stores code and context keys and issues `FCALL eth_call`. Redis runs
  the function on its only thread: nothing else touches Redis until it returns,
  and a call that does not end stops the server for everyone.
- `do_call`, CREATE and CREATE2 call `EVM.execute` again, under `pcall`. The
  nested frame gets the caller's `budget` table, so that the gas of a failed
  sub-call stays spent; an error in it becomes a 0 on the caller's stack. The
  top-level frame is not under `pcall`: its error is the client's error reply.
- Opcodes write Redis keys at once. Nothing is undone when a frame reverts or
  fails (`docs/SCALING.md:57-62` says so).
- `return_data` of a frame is at the same time the buffer that its last sub-call
  filled and the frame's own output.
- The context of a call (caller, value, calldata, block fields) is a set of global
  keys that a client writes one at a time before its `FCALL`. Any other client may
  be served in between.
- `tests/vmtest-runner.py` flushes the database before each test, waits for the answer
  of its call however long that takes, and then shuts down, restarts and reloads a server
  that does not answer PONG: one that is busy with somebody else's call.
- The export scripts talk to the node and to Redis one call at a time; the
  pointer key is all they keep from one run to the next. They share it, but not the keys
  of the slots.

### What is hard, and what correct means

| component | hard | correct means |
|---|---|---|
| call tree | mixtures of six ways to open a frame; two limits on depth; failure at any level; an error that a caller survives | depth stays bounded; static mode reaches every call below; a write lands in a storage context the tree really entered; balance is not created out of exact amounts; a call is answered unless it refills its pool or a handler is stuck |
| gas pool | sharing between frames that fail and go on; charges that can be negative | a normal answer stayed within the cap; nothing is written while the pool is overdrawn; the overdraft is bounded |
| gas schedule | price and work are computed in two places, each numbering the stack for itself; lengths come from the program and may be negative | a charge that is not positive is a halting opcode's or that of a handler that works on nothing; what is charged for by length is paid for; one opcode's work is bounded by the ceiling and by what it walks |
| code keys | four conventions, two spellings, a cache, and frames in progress while keys change | what a CALL of an installed contract runs does not change; caches are fresh; a frame finds its own code |
| word opcodes | negative numbers that stand for large words travel through opcodes written for unsigned ones; operand order | after any program the stack represents the one of the reference |
| calls against the reference | evm.lua writes in place and forgets nothing, the reference rolls back; six kinds of frame; one buffer for two purposes; tables per frame where the reference has one per transaction | storage, balances, return data, transient storage and logs are the reference's, except in listed cells and frames; the trees part only in listed ways |
| bytes of a program | tables that count from 1 beside a counter from 0; data that looks like an opcode; missing operands; words that are cut to 56 bits and rounded to 53 | both sides read the same bytes as opcodes until a listed difference, and one of them has ended then unless a double did not hold a word |
| memory | regions that overlap, lengths beyond the ceiling, words wider than a number, answers longer than the buffer | every byte is the reference's but for those that were cut or rounded, wherever they are moved or handed out |
| host and clients | keys shared by clients that know nothing of each other; a call that hangs; a restart that drops what others asked; errors that are not recognised | the verdict on an undisturbed test depends on its fixture alone; sweeps end, if only by each other's restarts |
| state export | the node advances between pages, either script dies anywhere and is run again; two sets of keys under one pointer | each set of keys has what its script was there for, and is not ahead of the safe block by more than the design admits |

## 2. The modules and the code

| module | models | lines of code |
|---|---|---|
| `EvmCallTree` | the call tree and the gas pool as implemented | `evm.lua` frames, calls, creations, answers |
| `GasPool` | *abstract*: what metering gives a client | `docs/SCALING.md` section B |
| `LuaDoubles` | which integers a double holds, and what `%d` makes of a sum | `toNumber`, `string.format` |
| `GasSchedule` | prices, ceilings, handler loops | `GAS_COSTS`, `dynamic_gas`, handlers |
| `ContractStore` | the keys that hold code | `lookup_code` and everyone who reads or writes code |
| `LuaWords` | word and stack opcodes on Lua numbers | `evm.lua` |
| `ReferenceWords` | *abstract*: the same opcodes on 256-bit words | `instructions/` |
| `WordMachine` | both machines in lockstep | composes the two above |
| `EvmReference` | *abstract*: messages, creations, rollback, writes, logs | `instructions/system.py`, `storage.py`, `log.py` |
| `CallAgreement` | both call trees in lockstep | composes `EvmCallTree` and `EvmReference` |
| `ProgramAgreement` | both interpreters' loops over one program of bytes: `pc`, jumps, stack | `evm.lua`; `control_flow.py`, `stack.py` |
| `MemoryAgreement` | both memories of one frame | `evm.lua`; `memory.py`, `environment.py` |
| `RedisHost` | one Redis, several sweeps of the test runner, calls that hang, restarts | `tests/vmtest-runner.py`, `get_env_data` |
| `StateExport` | both export scripts, the node, Redis | `scripts/` |
| `MC...` | the constants of the small instances | |
| `...Proofs` | the theorems about the module of that name; `CallTreeProofs` those about `EvmCallTree` and `CallAgreement` | |

Definitions whose names begin with `Bug` are not part of any specification. Each
is the mutated form of the definition that follows it, a slip one could make in
that code; putting one in place of the other makes TLC report the property it is
listed with in `PROJECT.json` ("mutants"). Every property of every passing run
has one.

### EvmCallTree

`frames` is the Lua call stack: a sequence of records, the top-level frame first.
A record has the fields of `evmState` that outlive an opcode and reach other
frames: `addr` (storage context), `kind` (how it was opened), `depth`
(`call_depth`), `static`, `code`, `salt`, `rdata` (`return_data`), `flag` (the
last success flag pushed by a CALL or CREATE) and `status`, which sums up
`running`, `reverted`, `invalid_opcode` and a raised error, and "stuck" in a handler
that never ends. `gasUsed` is `budget.gas_used`. `storage`, `code`, `nonce`, `balance` are Redis keys. `reply`
is what the client got.

The bytecode is arbitrary: a running frame may execute any opcode next. What
holds of the model holds of every program. Each opcode that changes more than its
own frame's stack, memory and program counter is an action (`SStore`,
`SelfDestruct`, `Call`, `CallTooDeep`, `CallNoCode`, `CallHostFails`, `Create`,
`CreateFails`, `Stop`, `Return`, `Revert`, `Abort`, `BadJump`); the others are
`Plain`, or `Hang`: EXP counts up to its exponent and never arrives at one above 2^53
(`evm.lua:876`), OR halves an infinite operand for ever (820), and `dynamic_gas` does the
same with EXP's (1892). Each begins with `Charge`, as `EVM.execute` does, and `OutOfGas(op)` is
the same charge when it exceeds the cap: the handler then does not run. What
happens after a frame has ended is the rest of the handler that opened it:
`ReturnToCaller` (the rest of `do_call`), `ReturnToCreator` and `CreationFailed`
(the rest of CREATE and CREATE2, including nonce and deployment), `Answer` (the
end of `eth_call`).

`OpCosts` gives the charges that an opcode can be billed, and they may be negative:
`clamp_length` has no lower bound (492), SUB pushes negative numbers, and a KECCAK256,
copy or LOG of such a length gives gas back (1885-1910). A frame that survives the
exhaustion of the pool can bring it back under the cap in this way and write. The charge
can also be -inf or nan, after which no later one exceeds the cap; `Bottomless` stands for
both. SELFDESTRUCT goes through `LuaDoubles`: both balances and their sum are rounded to
doubles, and `%d` of a sum beyond 2^63 is undefined (`Formats`).

`HostDepth` is the Lua host's own limit on nested `pcall`s (around 200), below
the code's 1024; a frame that it refuses never runs. It is the limit a program
really meets first, and it is met in another place: in the `pcall` of `do_call`,
after the callee's code was looked up, and not in the test before it.

`code` holds what creations wrote and `Installed` what the operator stored;
`LookupCode` prefers the latter, as `lookup_code` does. The details of the keys
are in `ContractStore`.

### GasPool and the refinement

`GasPool` knows of a call in progress only how many frames it has (`open`). A pool is
drawn from; Redis (`world`) may change while the pool covers the work and not while it is
overdrawn; an answer that is not an error leaves it within the cap. `Refill` is a step
of its own, because the code has it: it may make an overdrawn pool usable again, but
no write goes with it. A frame that ends leaves the pool as it is, and deploys nothing
when it is overdrawn. `EvmCallTree` implements this under the mapping
`open <- Len(frames)`, `used <- gasUsed`, with `reply` and `world` as they are. The point
of the refinement is that several frames survive for a while after the exhaustion (each
caller continues after its failed callee until its own next charge), and none of what
they do may show outside until there is gas again.

### GasSchedule

One frame executes opcodes from `Executed` with any integers left on its stack, negative
ones included. `Cost` is `GAS_COSTS[op] + dynamic_gas(op, stack)`, which reads operands
by their distance from the top *before* the handler pops them; `Execute` pops and loops as
the handler does. The loops are of three kinds:

- over an operand: `Length`, `Returned` (what `do_call` copies of an answer) and
  `RequiredSize` (MCOPY and EXTCODECOPY first grow the table). `work` sums them up;
- over a string that is decoded before anything is looked at: `Walk` has the whole calldata
  for CALLDATALOAD, CALLDATASIZE and CALLDATACOPY (91, 976-1000), the whole code for
  CODESIZE and CODECOPY (1042), another account's for the EXTCODE opcodes and the CALL
  family, and for MSIZE every entry of the memory table (1305);
- over the stack and the memory up to `#`, in `printState` after every opcode (1785-1809).
  `highest` bounds Lua's `#` of a table with gaps, whose value is the end of any run.

`took` is what the last opcode took of all three. Prices and the 4096-byte ceiling are the
real ones. A loop over the bits or bytes of a single word is a constant and is left out;
infinite operands are in `EvmCallTree`.

### ContractStore

Keys are functions from names to code; a name is an account and a spelling,
because Redis keys are case sensitive, `eth_call` and EXTCODE use an address as
spelled, CALL lower-cases it, and creations and PUSH20 produce upper case. An
address without letters has one spelling. `context` is the stack of frames with
the name each runs at and the code it runs. `OperatorStores` is a client that
rewrites keys between calls; the constant `OperatorRewrites` turns it on.

### LuaWords, ReferenceWords, WordMachine

`ReferenceWords` is `instructions/` on words of `BITS` bits. `LuaWords` is
`evm.lua` on doubles: integers below 2^`MANTISSA` and a value `Rounded` for all
results that would need rounding. `WordMachine` runs the same program on both: a
step pushes, pops, duplicates, swaps or applies an opcode to both stacks.
`InStep` says that the Lua number is congruent to the word, at every position,
for ever. Three restrictions on programs are in the module, at `Meant`,
`Reversed` and `Apply`: operands on which the two sides have different meanings
(for example DIV of a negative number), the five opcodes whose operand order
differs (the program exchanges them), and results that would be rounded. What becomes of a
word that a double does not hold is in the two modules about programs and memory.

### EvmReference and CallAgreement

`EvmReference` is what `instructions/` says of messages: a stack of `evms` with
target, caller, value, static flag and the state to return to (`snap`), and one
`state` record with storage, transient storage, code, nonces, balances, logs and
the accounts created or doomed. `generic_call` is `CallRejected`, `CallRefused`,
`CallNoCode` and `CallRuns`; `generic_create` is `CreateRefused`, `CreateCollides`
and `CreateRuns`; `ReturnFromCall`, `ReturnFromCreate` and `FinishMessage` commit or
roll back. `process_message` and `process_create_message` are not in the
repository; they are modelled from how `system.py` uses them and marked external.
It has operations only and no specification of its own.

`CallAgreement` extends `EvmCallTree` and instantiates `EvmReference`. A step of it
is the same opcode with the same operands on both sides (`BothCall`,
`BothSStore`, ...) and it is taken while the two trees have the same shape:
equally many frames, opened by the same opcodes, in the same condition, told the
same of their sub-frames. When a step breaks the shape the comparison is over
(`Over`), and `TreesPartOnlyAsListed` says which steps do. Three histories say what
is compared: `loose` holds the cells of storage and balances that a listed
difference has touched (a rollback, a transfer of value, the contexts of init code,
a write in a static frame, a SELFDESTRUCT in favour of oneself, or one whose amounts a
double does not hold, `ExactMove`), `entries` counts
the frames an account has had, and `locals[i].last` says whether a frame's last
opening was a call or a creation. `locals` also has the tables of a frame that
`EvmCallTree` leaves out, transient storage and logs. `keys` has the two global keys that
CALLER and CALLVALUE read in every frame (`LuaCaller`, `LuaCallValue`), at the start any
of `Keys`: another client may have set them after the one whose call it is.

### ProgramAgreement

A program is a sequence of bytes, and both sides fetch, decode and execute it: a
byte may be the data of a PUSH and, for a jump that lands on it, an opcode.
`Lua...` operators are evm.lua's handlers (table from 1, operands missing from the
stack read 0, a bad jump stops without an error), `Ref...` the reference's
(`Valid` is its set of jump destinations, `stack.pop` and `push` raise). `LuaImmediate`
and `ToNumber` go through `Double`: `tonumber(hex, 16)` of up to seven bytes is a number of
53 bits (`evm.lua:101-103, 1740-1742`), and so is a quotient. One action per opcode applies
both; the machine stops when they part.

### MemoryAgreement

evm.lua's `memory` is a function because a missing index of the table reads as 0
everywhere; `size` is what MSIZE finds of the keys. The reference's is a byte string
that grows by whole words. `LuaRead`, `LuaWrites`, `Copied` and `Filled` are the loops
of the handlers. A word is a string or, from PUSH and MLOAD of up to seven bytes, a
number; `ToNumber` and `MLoad` make doubles of what they keep. `lost` is a history: the
positions whose bytes `toNumber` or `clamp_length` has cut or a double has rounded, and
where MCOPY moved them; `wordLost` says the same of the word on the stack. Of a number that
is rounded any byte may be wrong: 2^56 - 1 becomes 2^56. `Call` is the caller's side of
the CALL family, `Consume` stands for KECCAK256, LOG, CREATE, RETURN and REVERT,
whose bytes go into `read`.

### RedisHost

One server with `db` (the context keys and the code), `slot` (what the fixtures
write) and `inbox` (calls sent and not yet taken up), and any number of runners, each
with a program counter through `run_one` and `main`: `Flush`, `SetField`, `SetCode`,
`Ask`, `Judge`, `Ping`, `Shutdown`, `StartServer`, `Load`. A command is served, refused
with BUSY while a call runs, or finds no server; `redis_cli` does not look. The wait for
an answer has no limit: `redis-cli -t` is about the connection. An answer is "ok", "ERR"
(an error reply, which redis-cli prints before it exits with success) or "error" (BUSY, or
a connection that failed); `Errored` recognises the last only, as lines 194-198 do. A value in a key is the test that put it there,
so that what a call reads tells whose context it ran in. `disturbed` is a history: the runners with whose current test another client has
interfered. Commands sent while a runner's own call runs are not interference, since they
are refused.

### StateExport

The chain is fixed at the start (every choice of slots written by each
transaction is an initial state), and a slot's value is the number of the
transaction that wrote it last. The node imports blocks and moves its safe block
at any time. The scripts are modelled call by call: `SaveCode`, `ReadNumber`,
`FetchPage`, `SaveSlot`, `FinishExport`; `StartDelta`, `TraceBlock`,
`TraceFails`, `NextDiff`, `SaveDiff`, `SavePointer`, `FinishDelta`. `Die` ends
whichever script is running, between any two calls.

`hashed` are the keys that the export sets, under the hash that the node's answer has for
a slot, and `raw` those of the delta, under the slot itself: the same slot has two keys,
and no delta changes what an export left. `FetchPage` shows the state before the first
transaction of the safe block (`txindex` 0), which is that after its parent. `exported`
is a history variable, the number of the last export that ended.

## 3. What is checked

### Runs that pass

| run | instance | states | properties |
|---|---|---|---|
| `tree_safety` | 2 accounts, depth limit 2, pool 3, charges 2, 1 and -1, no balance | 2,097,369 | `TypeOK` `DepthBounded` `OkWithinCap` `OvershootBounded` `StaticInherited` `OverdrawnWritesNothing` `WritesNeedAContext` `PoolSpec` |
| `tree_host` | 2 accounts, depth limit 3, host limit 2, pool 3, balances 3 and 7 with numbers exact up to 4, fairness | 169,657 | `TerminatesUnlessRefilled` `BalanceNeverCreated` |
| `call_agreement` | 4 accounts, depth limit 2, 3 opcodes that do not halt, balances 3 and 1 with numbers exact up to 2 | 745,214 | `AgreementTypeOK` `StateAgrees` `ReturnDataNeverWrong` `TransientAgreesWithoutReentry` `LeafLogsAgree` `ContextServesDelegatesAlone` `TreesPartOnlyAsListed` |
| `program_agreement` | 16 bytes in programs of up to 4; 7 and 6 in those of 5 and 6; stack of 3, numbers exact up to 32 | 372,268 | `TypeOK` `PartOnlyAsListed` `NeverElsewhere` |
| `memory_agreement` | 2-valued bytes, words of 4, numbers of 3 and exact up to 4, ceiling 3, 6 positions, 4 opcodes | 444,388 | `TypeOK` `MemoryAgrees` `HandedOutAgrees` `MsizeWithinOne` |
| `redis_host` | 2 sweeps with 2 tests and 1, 2 context keys, fairness | 31,457 | `TypeOK` `UndisturbedPassesHavePost` `SweepsEndEachOther` |
| `gas_schedule` | 12 opcodes, operands -5000, 33 and 10^6, stack of 4, at most 5 opcodes, cap 36000, codes and calldata of their real sizes | 155,411 | `TypeOK` `WorkIsPaid` `ChargesFit` `OpcodeWorkBounded` |
| `contract_store` | 2 accounts, 2 codes, 3 frames, keys left alone between calls | 794,823 | `TypeOK` `HashMatchesCode` `InstalledCodeIsStable` |
| `store_rewritten` | 1 account, keys rewritten between calls | 200,961 | `TopReadsItsCode` |
| `state_export` | 2 slots, 4 blocks, 4 transactions | 427,832 | `TypeOK` `NeverBehind` `AtMostOneUnsafeBlock` |
| `word_machine` | 8-bit words, 2-bit bytes, 3-bit limbs, 5-bit mantissa, stack of 3 | 78,520 | `TypeOK` `InStep` |

**tree_safety.** `DepthBounded`: no mixture of frames is deeper than the limit.
`OkWithinCap`: an answer that is not an error did not exceed the cap, sub-calls
that failed included. `OverdrawnWritesNothing`: while the pool is overdrawn no
Redis key changes; it is the strongest that holds, since a negative charge can bring the pool
back. `OvershootBounded`: the pool is overdrawn by at most one
charge per enclosing frame. `StaticInherited`: below a STATICCALL, every frame
reached by calls is static. `WritesNeedAContext`: code reached by DELEGATECALL or
CALLCODE only, or running as init code, never writes its own account.
`PoolSpec`: the refinement of `GasPool`.

*Bounds.* Depth 2 gives stacks of three frames, the least in which a frame is
nested in one that is itself nested: inheritance, an overdraft that passes
through a surviving frame, and a delegate call below a delegate call all need
three. Charges are scaled down but keep their signs: 2 for a write, a call or a creation, 1 or
-1 for a plain opcode, 0 for a halting one, and -inf. With a pool of 3 an opcode fits or
overdraws at every level, and a survivor can refill. Two accounts: one with code, which
also creates, and the one where its creations end up.

**tree_host.** The host's limit is below the code's, so that `HostRefuses` is the
one that binds. `TerminatesUnlessRefilled` is a liveness property: a call in progress is
answered, unless a handler is stuck, the pool is refilled again and again, or a charge
of -inf has emptied the count for good. That is less than `docs/SCALING.md:44` says, and
all that the code gives (section 5). `BalanceNeverCreated`: SELFDESTRUCT to one's own, an
enclosing frame's or another account never adds balance, if doubles hold what it moves. Of
the initial balances 3 is exact and 7 is not, so both cases occur.

**call_agreement.** Both sides call, create, write and halt alike, for every
program. `StateAgrees`: whatever was reverted, paid or created, every cell of storage
and every balance is the reference's unless a listed difference has touched it, a sum that a
double does not hold among them.
`TreesPartOnlyAsListed`: the trees keep the same shape, success flags included,
until a static frame writes, code ends without STOP, a jump is bad, code is the empty
string or was left by a creation that the reference undid, a balance does not
cover a value, or a creation's address is taken. `ReturnDataNeverWrong`: after a call the
buffer of evm.lua is the reference's, or stale where the reference's is empty; never
another callee's where the reference has data. `TransientAgreesWithoutReentry` and
`LeafLogsAgree` say for which frames the tables per frame are enough: those whose
account has no other frame, and those that opened none.
`ContextServesDelegatesAlone`: what evm.lua's CALLER reads is the reference's caller in
exactly the frames that the top-level one reached by DELEGATECALL alone, and only if no
other client has set the key since; CALLVALUE's is right there.

*Bounds.* Two contracts with code, one whose code is the empty string and one
without, which is where creations end up: each outcome of `lookup_code`. Three opcodes
that do not halt their frame, at any place in a tree three deep, suffice for a call in a
call with a write, for two calls one after the other with a third opcode around
them, and for a write, a reentry and a read. Gas is only the bound here. One
top-level call is compared, because the two sides put new contracts at different
addresses and keep transient storage for one transaction.

**program_agreement.** `PartOnlyAsListed`: a program runs the same on both sides,
byte by byte and word by word, until its stack under- or overflows, its code ends, a
jump's destination is disputed, or a double does not hold a word (an operand that
`toNumber` cuts or rounds, a PUSH of up to seven bytes or a quotient beyond 2^53).
`NeverElsewhere`: when they part one of them has ended, unless a double did not hold a word:
otherwise evm.lua does not run on along a path of its own. A destination is *not* disputed
only if there is a JUMPDEST where the jump lands and another byte of that value
before it.

*Bounds.* All opcodes of the module with one member of each family, and an
unassigned byte, in all programs of four bytes (65,536). A loop that both sides
accept (two JUMPDESTs, PUSH0, ISZERO and JUMP) and a conditional one need five and six
bytes, for which the alphabets are smaller. `NumberBytes` is 1, so that PUSH2 is already wider, and of the one byte that is a number
doubles hold everything up to 32 and from there some: 33, 91 or 129 are rounded, as
2^53 + 1 is. Bytes that double as opcodes (0x56, 0x5b, 0x60) are among them.

**memory_agreement.** `MemoryAgrees` and `HandedOutAgrees` follow cut and rounded bytes
through copies: what was not made of them is right, wherever it was moved or handed out. Four
opcodes are a store, a copy over it, a copy of the copy and a read of the result.
The proportions are the real ones: a number is narrower than a word, a double is exact for
less than a number (of the immediates 14 is cut, and 7 is rounded to the power of the base
that has one digit more, as 2^56 - 1 is), the ceiling is not above the lengths, positions allow a region to overlap another by each amount.

**redis_host.** `UndisturbedPassesHavePost`: a test that no other client interfered
with is judged "pass" exactly if it has a post state, whatever earlier tests
and calls left behind. That it is *exactly* so is the point: one that is expected to fail, and
does, is judged to have failed (section 5). `SweepsEndEachOther` says that every sweep ends, or
waits for ever for a call of its own that hangs; and, which the first part does not give,
that such a wait is ended by any other sweep that is still under way. One sweep hangs in its
first test and passes in its second with other fields set, so that a flush, a restart
and a reload lie between two tests; the other expects a failure. Between them every order
of their commands, with a snapshot at any time (at most one that knows the library), is explored.

**gas_schedule.** One opcode or more of each pattern of operands and of each kind of loop, with
lengths that are negative, nothing (a missing operand), more than a word and above the ceiling.
`ChargesFit` is what `EvmCallTree` assumes of `OpCosts`: no charge is above `MaxCharge`,
and one that is not positive is a halting opcode's, or that of a hash, copy or log whose
handler then works on no byte. `WorkIsPaid`: what is charged for by length is 32 bytes for 3
gas, refunds added back. `OpcodeWorkBounded`: one opcode takes at most twice the ceiling, and
what it walks: the largest of calldata and code, the stack, the memory up to `#`, and for MSIZE the
entries that earlier opcodes were paid for. 36000 gas is just above the largest
single charge (LOG4 at the ceiling), so that both outcomes of the largest occur; five
opcodes are, for example, two PUSHes, a LOG that refills the pool, a store and an MSIZE.

**contract_store, store_rewritten.** Every assignment of codes to conventions
and spellings is an initial state. An account with and one without letters suffice because
accounts interact only pairwise. Without the operator's rewriting there are two
accounts; with it one, since keys of another account do not enter
`TopReadsItsCode`.

**state_export.** `NeverBehind` is about each set of keys by itself. The export's
hold at least the values before the block it is numbered with, not that block's own, and the
delta's every change from the second block after the last export to the one after the
pointer: the block in between is in neither (section 5). `AtMostOneUnsafeBlock`: nothing
is ahead of the safe block, but for one block in the delta's keys.

*Bounds.* Four blocks: one before, one skipped, one with two transactions
and one after; exports and deltas can follow each other in any order with deaths
between any calls.

**word_machine.** The widths keep the proportions that the code depends on: byte
< limb < mantissa, which is at least two bits narrower than the word; two limbs reach beyond
the mantissa and fit the word; a word is a whole number of bytes. Immediates are the boundaries 0, 1, the largest byte, the largest
limb, the first value beyond it, and 30, which is one below the largest exact number. All stacks that any
program of any length can build from them within a depth of 3 are reached.

### Fairness

`tree_host` assumes `WF_vars(Step)`, where `Step` is every action of a call in
progress. Redis executes a function to its end on its main thread, so a call in progress
always takes its next step, unless its handler never ends: a stuck frame has no next step
(`Halted` leaves it out). A new call (`EthCall`) is under no fairness: no client has to call.
Nothing about single opcodes is assumed; termination rests on gas alone.

`redis_host` assumes `WF_vars(RunnerStep(r))` for each runner, a process that the
system schedules; `WF_vars(Proceed)`, since a call that does not hang goes on; and
`WF_vars(TakeUp(t))` for each request, since the server comes to every connection that has one,
if only to reply BUSY. No limit on a wait is assumed, and nothing of a call that hangs: a
runner waits for it until somebody restarts the server.

### Deadlock

`CHECK_DEADLOCK FALSE` is in the configurations of `EvmCallTree` (under a handler that
never ends nothing happens any more, until Redis is restarted), of `GasSchedule` (the machine
stops after RETURN, out of gas or at the bound `MaxOps`), of `ContractStore`
(with no code under any key there is nothing to call) and of `MemoryAgreement` (after
RETURN or at `MaxOps`). The other machines never stop and are checked for
deadlock: `CallAgreement`, `ProgramAgreement` and `RedisHost` say with `Over` and
`AllOver` where stopping is meant.

### Bounds in the modules

`EvmCallTree`: `Creators` and `MaxNonce` bound creations (`CreateBound`), `MinUsed` how far
negative charges bring the pool down.
`CallAgreement`: `Callees`, `MaxLogs`, `Clients`, `Keys`, and in `BothCreate` the attempts for which
`Computed` has addresses; frames that the Lua host's limit refuses are not compared, since
the reference has no such limit. `ProgramAgreement`: `Alphabets`. `MemoryAgreement`:
`LastPosition`, `Offsets`, `Lengths`, `MaxOps`, and CALLDATALOAD only of words that a
double holds. `RedisHost`: one snapshot (`Save`). `GasSchedule`: `MaxStack`,
`MaxOps`. `ContractStore`: `MaxFrames`. `StateExport`: `MaxBlock`, `MaxTx`.
`WordMachine`: `MaxDepth`. Each is a guard with the name of the constant in it. The
other constants are parameters of the code itself.

### The run that finds a violation

`skipped_block` checks a sentence of the repository that the code does not keep;
see section 5.

## 4. What is proved

TLAPS checks the following for all values of the constants that satisfy the named
assumptions of their modules, with more than 15,500 obligations in all. Every safety and
action property of the runs is among them.

| theorem | module | further assumption | states |
|---|---|---|---|
| `TypeCorrect` | `CallTreeProofs` | | `Spec => []TypeOK` |
| `OkMeansWithinCap` | `CallTreeProofs` | | `Spec => []OkWithinCap` |
| `NoWriteOverdrawn` | `CallTreeProofs` | `OnlyPlainRefills` | `Spec => OverdrawnWritesNothing` |
| `ImplementsPool` | `CallTreeProofs` | `OnlyPlainRefills` | `Spec => PoolSpec` |
| `DepthIsBounded` | `CallTreeProofs` | | `Spec => []DepthBounded` |
| `StaticReachesCallees` | `CallTreeProofs` | | `Spec => []StaticInherited` |
| `WritesStayInContext` | `CallTreeProofs` | | `Spec => WritesNeedAContext` |
| `OvershootIsBounded` | `CallTreeProofs` | | `Spec => []OvershootBounded` |
| `NoBalanceCreated` | `CallTreeProofs` | | `Spec => BalanceNeverCreated` |
| `BothRunTheTree` | `CallTreeProofs` | | `BothSpec => Spec` |
| `AgreementTyped` | `CallTreeProofs` | | `BothSpec => []AgreementTypeOK` |
| `ContextServesDelegates` | `CallTreeProofs` | | `BothSpec => []ContextServesDelegatesAlone` |
| `StateAlwaysAgrees` | `CallTreeProofs` | | `BothSpec => []StateAgrees` |
| `PartOnlyAsTheListSays` | `CallTreeProofs` | | `BothSpec => TreesPartOnlyAsListed` |
| `ReturnDataIsTheCallees` | `CallTreeProofs` | | `BothSpec => []ReturnDataNeverWrong` |
| `LoneFramesReadTheirTransient` | `CallTreeProofs` | | `BothSpec => []TransientAgreesWithoutReentry` |
| `LeavesLogAlike` | `CallTreeProofs` | | `BothSpec => []LeafLogsAgree` |
| `ProgramTypeCorrect` | `ProgramAgreementProofs` | | `Spec => []TypeOK` |
| `PartOnlyWhereListed` | `ProgramAgreementProofs` | | `Spec => PartOnlyAsListed` |
| `OnlyDoublesRunElsewhere` | `ProgramAgreementProofs` | | `Spec => NeverElsewhere` |
| `MemoryTypeCorrect` | `MemoryAgreementProofs` | | `Spec => []TypeOK` |
| `MemoryAgreesThroughout` | `MemoryAgreementProofs` | | `Spec => []MemoryAgrees` |
| `HandedOutThroughout` | `MemoryAgreementProofs` | | `Spec => []HandedOutAgrees` |
| `MsizeThroughout` | `MemoryAgreementProofs` | | `Spec => []MsizeWithinOne` |
| `HostTypeCorrect` | `RedisHostProofs` | | `Spec => []TypeOK` |
| `UndisturbedVerdicts` | `RedisHostProofs` | | `Spec => []UndisturbedPassesHavePost` |
| `TypeCorrect` | `GasScheduleProofs` | | `Spec => []TypeOK` |
| `ChargesAlwaysFit` | `GasScheduleProofs` | | `Spec => []ChargesFit` |
| `PaidOpcodesBounded` | `GasScheduleProofs` | `PaidProgram` | `Spec => []OpcodeWorkBounded` |
| `WorkAlwaysPaid` | `GasScheduleProofs` | `PaidProgram` | `Spec => []WorkIsPaid` |
| `StoreTypeCorrect` | `ContractStoreProofs` | | `Spec => []TypeOK` |
| `CachedHashesFresh` | `ContractStoreProofs` | operator leaves keys alone | `Spec => []HashMatchesCode` |
| `InstalledCodeStays` | `ContractStoreProofs` | operator leaves keys alone | `Spec => InstalledCodeIsStable` |
| `TopAlwaysReadsItsCode` | `ContractStoreProofs` | | `Spec => []TopReadsItsCode` |
| `WordTypeCorrect` | `WordMachineProofs` | | `Spec => []TypeOK` |
| `ResultAgrees` | `WordMachineProofs` | | each opcode's results represent each other |
| `StacksInStep` | `WordMachineProofs` | | `Spec => []InStep` |
| `ExportTypeCorrect` | `StateExportProofs` | | `Spec => []TypeOK` |
| `DeltaNeverBehind` | `StateExportProofs` | | `Spec => []NeverBehind` |
| `DeltaHardlyAhead` | `StateExportProofs` | | `Spec => []AtMostOneUnsafeBlock` |

`OnlyPlainRefills`: a charge is negative only for an opcode that writes neither Redis nor the call
tree; `GasSchedule` shows that it is one of KECCAK256, the copies and the LOGs, so the assumption
is a theorem about the price list (`ChargesAlwaysFit`) and not a restriction of programs.
`PaidProgram`: the program has no opcode of `Unpaid`, for which the statements are false
(section 5).

Most assumptions say where the constants come from: limits are numbers, contracts are at
addresses, accounts with code send no transactions, a sweep has a test, widths have an order. Four are of another kind.
`AddressAssumption`: there are finitely many addresses, without which balances have no sum.
The three called `PowerAssumption`: the power 0 is 1 (in two modules: a power is a positive
number), and one with the exponent increased is multiplied by the base. The provers know
nothing of `^`; for numbers it is true, and TLC evaluates it on the instances.

Recursive functions (the value of a list of bytes, a sum, a copying loop) are
`CHOOSE`n by TLA+, so that nothing follows about them until some function is shown to
satisfy the equation. `Least` says that a set of numbers has a smallest member
(`WFMin`, with the order of the numbers), `Induction` that a set which has 0
and successors has all; both are about sets and need no operator as a parameter.
`ValueDefined`, `SumDefined`, `MovedDefined` and `StepsDefined` use them on the set of numbers
up to which the function exists.

**Call tree.** `TypeOK` is inductive because it says what the frames are to each
other and not only what shape each has: `FramesOK` (depth counts the frames
below; only the innermost has halted; only the first is the top-level one) is
what makes the frame under a halted one a running frame that can be resumed, and
`CreationsNamed` (an open CREATE has a nonce left, its opener is a creator) is
what keeps the address it derives inside `Derive`'s domain. The proof has a lemma
for each way frames change (`SetTopOK`, an appended frame, `ResumeOK`) and one
step per action.

`OkWithinCap` is not inductive: nothing in it says what an overdrawn pool has to
do with the frames that are still there. `GasInv` adds that, while frames are left,
no answer is out, and that once the pool is overdrawn the innermost frame is
running or has failed; so it can only be answered by an error. A frame that
resumes below an overdrawn callee is running again, hence "running or failed"
and not "failed". No assumption on the sign of charges is needed, because the
comparison with the cap and the answer both look at the pool as it is then.
For `NoWriteOverdrawn` the sign matters: an opcode that is charged for and writes must not
bring the pool back under the cap by its own charge. `OpcodeDraws` sorts the opcodes into
those that write and only draw (`Billed`), and those that may refill and change nothing but
the pool and their frame (`Quiet`); a creation deploys only when its frame has halted well,
and that was within the cap (`NoDeploymentOverdrawn`).
`ImplementsPool` maps a `Billed` opcode to `Spend`, a `Quiet` one to `Spend`, `Overdraw` or
`Refill` by what it did to the pool, the end of a frame to `Leave` or `Answer`, `EthCall` to
`Begin`.

**Frames.** `DepthIsBounded`, `StaticReachesCallees`, `WritesStayInContext` and
`OvershootIsBounded` rest on one lemma,
`StepShapes`: a step opens no frame, or one on top of the innermost, or begins a
tree, and frames that stay keep account, kind and static flag. `DepthBounded` then
is a matter of the one test before opening. `StaticInherited` is inductive
as it stands, since the frame between is static by the hypothesis of the step before.
`WritesNeedAContext` needs `ContextInv`: below every frame, itself included, there is
one that switched to its account. `OvershootBounded` is strengthened to
`OvershootInv`: the overdraft leaves room for one more charge by each frame that
can still make one (`Chargers`). A halt by exhaustion takes one away, a resumed
caller is one that was counted already, and a frame opens only after a charge
that fitted.

**Balances.** `NoBalanceCreated` is about a sum over all addresses, which the model takes
from the community modules as a fold. `SumTo` shows that the fold over a finite set is what
one expects and `SumWithOneChanged` that changing one value changes it by as much. Of the
opcodes only SELFDESTRUCT writes balances, twice: first the beneficiary's, then its own, so that
with two accounts the sum stays and with one it falls, provided that the beneficiary's new
balance is the exact sum. `DoubleFacts` shows that what doubles hold is not rounded, and
`SumOfMove` uses it for the three conversions and the "%d". Without the hypothesis of
`BalanceNeverCreated` the sum can grow: 2^53 + 4 and 3 make 2^53 + 8.

**Both trees.** `BothRunTheTree` makes every theorem about `EvmCallTree` one about
the comparison. `RefOK` and `TablesOK` are type invariants of the reference and of the tables
that evm.lua keeps per frame, and `BothSteps` says of every step which shapes both stacks
of frames take: both open none, both open one in the same account or for a creation, both
begin, or the lengths differ and the comparison is over.
`ContextServesDelegates` is then an induction on the opened frame (`SenderInv`): where only
DELEGATECALLs lead the reference's caller is the sender, everywhere else it is an account with
code, and no client is one, so that the one key is right in the former frames and wrong in
the latter.
`StateAlwaysAgrees` needs `SameAccounts`: frame by frame both sides run in the same
account, unless init code, or what it reached by CALLCODE and DELEGATECALL, runs. From it an
SSTORE or a SELFDESTRUCT in a context that agrees changes the same cell by the same amount, if
doubles hold it (`ExactlyAdded`; otherwise the cells are `loose`);
other steps leave evm.lua's cells alone, and what they move in the reference is `loose`.

The other four compare what the two sides do as long as they have one shape.
`Lockstep` lists it: both write, both halt, both are told of a sub-frame that did not run, both
go one frame deeper, both come back, both end or begin, each with what happens to the
return data, the tables and the reference's state. `StepsInStep` shows that a step is in
`Lockstep` or makes a listed difference (`Parts`), so that `PartOnlyAsTheListSays` is that lemma and
its hypothesis, `CodesInv`: a CALL finds code on both sides or on neither. It holds because
only creations change the reference's code, because an account is among the created ones
before it has any, and because no rollback forgets an account whose init code still runs:
the snapshots above it were taken after it was created. Each of the remaining three has one step
per form of `Lockstep`:

- `DataInv`, for `ReturnDataIsTheCallees`: the frame above is of the kind that the tables of the
  one below name, a running frame has no output yet, and a halted one's is empty or
  evm.lua's. Without the first, a creation's data could be taken for a call's.
- `TransientInv`, for `LoneFramesReadTheirTransient`: what a lone frame of an account wrote is
  in every snapshot taken above it. A frame writes only
  while it is the innermost, before a frame above it takes its snapshot.
- `LogsInv`, for `LeavesLogAlike`: while the innermost frame has opened none, what the
  reference has logged since its snapshot is the frame's own. It is enough to say it of the
  innermost, because the tables of a frame that is returned to have a mark.

**Programs.** The state is two program counters and two stacks, and the invariant says
nothing beyond types and "in step", which the machine's own guard is. The content is
`StepParts`, opcode by opcode: from equal stacks and counters one byte apart, the two
handlers end equal, or the difference is a listed one. An operand is the same on both sides
unless `toNumber` cuts or rounds it (`Uncut`), and a pushed number or a quotient unless it is
rounded (`PushAlike`); a jump needs that a destination which is not
disputed lands on the same byte (`JumpAlike`); and whenever the reference raises, evm.lua has run
into a limit that is listed. `OnlyDoublesRunElsewhere` follows from the same lemma.

**Memory.** `MemoryAgrees` is inductive for the stores and fails for RETURNDATACOPY, since
nothing in it says that the two buffers agree; `AnswersCut` says that evm.lua's is a beginning
of the reference's. Then every opcode that writes is shown to be one write on each
side (`Wrote`): to the same positions, the same bytes wherever they are not counted as lost.
`WriteKeeps` concludes for all of them. What is needed to see an opcode as such a write differs:

- MSTORE and MSTORE8 write the digits of `toNumber` of a word. `KeptDigit` shows that taking
  the remainder by a power of the base keeps the lower digits; the upper ones are the lost ones.
  If a double rounded what was kept, all of them are (`Inexact`), because a carry can reach the first.
- MLOAD reads the digits back: `NumberOfBytes` says that the number of a list of digits has
  these digits. A short word that is rounded is no longer the reference's (`wordLost`).
- MCOPY moves byte by byte, forward or backward by the order of the regions.
  `CopiedFacts` shows that what its loop leaves is what a copy through a buffer would: the
  loop never reads a position that it wrote. The reference copies through a buffer.
- The other copies pad, clamp and stop at the end of their source in ways that differ;
  `LuaReadFacts`, `RefReadFacts` and `PaddedFacts` give each its bytes.

`MsizeThroughout` follows the table's length and the reference's, which grows by words, through the
same case distinction. Sizes are compared exactly: the one by which MSIZE may be ahead comes
from a table that counts from 1 and is not given away in any lemma.

**Words.** `InStep` is inductive with `TypeOK`; all depends on `ResultAgrees`, which has a lemma
for each opcode. `Agree(v, w)` says that v is exact, w a word, and v congruent to w; from it
follow the two readings that the opcodes use (`AgreeFacts`): a number that is not negative
*is* its word, and the signed value of the word is the number in any case. This is why SDIV,
SLT, SGT, SAR, EQ and ISZERO, which are signed in evm.lua, may meet any number, while DIV,
MOD, LT, GT and SHR are meant for natural ones.

- ADD, SUB, MUL, SHL and EXP need congruence only (`CongruentAgrees`, `Products`); EXP's
  two loops go round together, until a product is rounded (`StepsDefined`, `EXPAgrees`).
- The quotients and remainders of natural numbers are below their operands, so that they are
  exact; SDIV and SAR round a negative quotient in the two directions that the reference does.
- AND, OR, XOR, BYTE and SIGNEXTEND look at bits. A word has the bits of the number that
  represents it (`AgreeBits`), negative or not: above the mantissa all are 0, or all 1 (`HighBits`).
  The number that a loop sums up from a set of bits has these bits and no other
  (`FromBitsFacts`, on `BitAdded`), two halves joined have the bits of both (`Joined`), and a
  number is determined by its bits (`BitsDetermine`). So an AND that keeps no bit above the
  mantissa is the same in two limbs as in one word (`JoinAgrees`), and OR's loop, which stops
  when both operands are used up, misses no bit.
- SIGNEXTEND adds the higher bits, which is wrong when they are set already. The proof shows that
  the sum is then beyond the mantissa, unless the sign bit is the word's own and nothing is added.

**Host.** `UndisturbedVerdicts` is far from inductive. `RequestsOK` says what calls may be
under way: a runner asks once for each test and waits until it is answered, so that a request is
in the inbox or running, never both, and is for the current test of its runner. `AloneOK` then
says what a runner that is not disturbed can rely on at each label: while it sets keys, the fields
set so far are its own and the others are empty (`SetSoFar`), from the flush of this very test;
when it has asked, the context is complete (`ContextSet`), the call that runs, if any, is its own
and reads it (`CallOK`); its answer is how the fixture ends, and it is never one that
`errored` recognises (`AnswerOK`). The proof has one lemma for steps of the runner itself
(`OwnStep`), one for those of others, which keep a runner undisturbed only if they touch nothing
or are refused during its call (`OthersStep`, `NotServed`), and one for the server's.

**Gas schedule.** `ChargesAlwaysFit` proves of the price list what the call tree
assumes of `OpCosts`, for all integers on the stack. It is by cases on price tiers, with a lemma on
`Clamp`. `WorkAlwaysPaid` sums work over a whole execution: the invariant is `WorkIsPaid`
itself, over what was charged and not over what is left of it (`refunded` adds up what negative
charges gave back, which their handlers do not work for), with the allowance of the final RETURN
or REVERT spent at most once because it halts the machine. `PaidOpcodesBounded` follows from it,
since the table that MSIZE walks has no more entries than earlier opcodes made. `Unpaid` (the
CALL family, EXP, MCOPY, EXTCODECOPY) is left out because there both statements are false.

**Code keys.** `TopReadsItsCode` is inductive with `TypeOK` because no execution
writes a raw key and the operator writes only while nothing runs.
`HashMatchesCode` likewise, since only the operator writes the tagged keys.
The content is in finding those two facts in the code, key by key: SELFDESTRUCT and
creations write the fourth convention only.

**State export.** `NeverBehind` needs to know how far a run has come: `Progress`
(in `diffs` the block in hand is the one after the pointer; a page is of the block before the
number's, or a later one), `DiffsSaved` (of the traced block, everything up to the current diff
is saved except what is still to do) and `PagesSaved` (slots neither in the rest nor to do are at
least as of the block before the export's number). The last holds although pages are of
different blocks, because the safe block never moves back: `from <= at + 1`. Deaths preserve all
of it since the pointer moves only after the last save. The two sets of keys meet only in
`exported <= pointer`.

**What the proofs changed.** One action was wrong and turned up as an invariant that could not
be proved: in `CallAgreement` the comparison left out calls that the Lua host refuses, but not
creations. `BothCreate` now fails at the depth limit only, as both sides do. The `TypeOK` of three modules said less than the
handlers rely on. `WidthAssumption` of `WordMachine` admitted widths for which `InStep` is false:
with a mantissa one bit narrower than the word, SIGNEXTEND of -126 in words of 8 bits is exact and
wrong, and with bytes wider than the mantissa BYTE of a negative number is not exact. It now says
what the real widths (8, 32, 53, 256) keep and the opcodes need: a byte fits the mantissa,
which is two bits narrower than the word, and two limbs fit the word.

**Only model-checked.** `TerminatesUnlessRefilled` and `SweepsEndEachOther`: liveness under fairness and ENABLED are
outside what the prover handles.

## 5. Where code and documents disagree

Found while writing the models. One is a run with a counterexample:

- **The delta skips a block** (`skipped_block`). Line 10 of
  `export-contract-state-delta.py`: "indexes the blocks since the last sync". The
  counter is incremented and the block after it is traced (42): the first block
  after an export is never replayed, and the last one traced is past the safe block. Nor are
  that block's own changes in the export, whose pages end with the block before it.

The others are part of the models, as listed differences or as guards of the
programs compared:

- **STATICCALL does not protect anything.** `evm.lua:1540` calls it "disallowing any
  state modification". `do_call` sets and inherits the flag (line 563) and no writing
  opcode reads it. The first difference in `TreesPartOnlyAsListed`.
- **The delta updates nothing that an export saved.** `export-contract-state-delta.py:11`: "It
  updates the Redis entries for each of the updated keys". It saves under the slot
  (51-52), the export under the key of the node's answer, which is the slot's hash
  (`export-contract-state.py:36-38`). `StateExport` has two sets of keys.
- **The pages are a block older than the pointer.** `debug_storageRangeAt` with `txindex` 0
  (`export-contract-state.py:32-34`) is the state before the safe block's own transactions;
  the pointer says that block (`NeverBehind`).
- **A loop may refill the pool, or empty it for good.** `docs/SCALING.md:44`: "An infinite loop
  now halts". `clamp_length` has no lower bound (492) and SUB pushes negative numbers, so
  that a LOG, hash or copy can be charged less than nothing (1885-1910), and a frame
  that survives the exhaustion of the pool can go on writing. With a length of -inf the count
  itself becomes -inf or nan, and no later charge exceeds the cap.
  `TerminatesUnlessRefilled` has both as exceptions.
- **A handler may never end**, whatever the cap: EXP counts up to an exponent above 2^53 (876),
  OR halves an infinite operand (820), `dynamic_gas` an infinite exponent (1892). `Hang`.
- **EXP works for free.** `evm.lua:1815-1816` wants the cap to bound the
  worst-case work. EXP multiplies as often as its exponent says (876) and is charged
  by the exponent's length (1896). So do `do_call` with its arguments (541), MCOPY, which first
  extends memory to the end of its regions (1270), and EXTCODECOPY, which grows it even for a copy
  of nothing (1480). They are the `Unpaid` opcodes of `GasSchedule`.
- **The ceiling does not bound an opcode's work.** `evm.lua:486` says of it that it "keeps the
  worst-case per-opcode work bounded". CODECOPY decodes all of the code (1042) and the three
  CALLDATA opcodes all of the calldata (91, 976-1000), for 3 gas or 2; MSIZE walks the table of
  the memory (1305); and after every opcode `printState` walks the stack and the memory
  up to `#` (1785-1809). `OpcodeWorkBounded` has each of them in its bound.
- **Balances are doubles.** SELFDESTRUCT adds two of them and writes the sum with "%d"
  (1629-1632): beyond 2^53 wei, about a hundredth of an ether, amounts are rounded and the sum can
  grow; beyond 2^63 the conversion is undefined in C.
- **Numbers are doubles.** `toNumber` "truncates large values to the low 56 bits"
  (`docs/SCALING.md`), and rounds them to 53: PUSH7 0x20000000000001 pushes 2^53. So do an
  MSTORE, a jump or a DIV of such a word, and an MLOAD. `RoundsImmediate`, `CutsOperand`,
  `lost`.
- **SMOD corrects a sign twice.** Lua's `%` has the divisor's sign already; lines
  684-687 add the divisor again. `WordMachine` gives it operands of one sign (`Meant`).
- **Frames see the top-level context.** CALLER and CALLVALUE read one key in
  every frame (953, 967); `ContextServesDelegatesAlone` is all that is true of it.
- **JUMP counts from 1** (1319). A destination of the reference is taken only if the
  byte before it has JUMPDEST's value, too. The load test's "loop" workload
  (`scripts/loadtest.py`) jumps to 2, where the mark is the third byte of the program:
  in evm.lua it halts after one round, in the reference it goes round sixteen times.
- **Missing operands read 0**, and SWAP on a stack that is too short drops the top
  (1756-1783); the reference raises.
- **A test that is expected to fail, and does, is judged to have failed.**
  `vmtest-runner.py:199-201`: "A raised error is the expected outcome". An error reply is printed
  by redis-cli as "ERR ...", with exit status 0, and lines 194-198 look for "ERROR", "BUSY" or
  another status. Only a lost connection or a BUSY server makes such a test pass.
- **No wait has a limit.** `vmtest-runner.py:186`: "`-t` bounds the client wait; on timeout
  we treat it as a failure", and `docs/SCALING.md:46-48` says that the shell tests "can never
  hang on a runaway contract" thanks to `redis-cli -t`. That option is the timeout of the
  connection. A runner whose own call hangs never comes to `recover_redis`, which would "keep a
  long fixture sweep going" (`vmtest-runner.py:75-81`): the first part of `SweepsEndEachOther` has
  the exception, the second says that another sweep ends it.
- **A runner that finds another's restart under way crashes**: `load_evm_function`
  raises when it is refused, and nothing catches it (66, 269-272). `SweepsEndEachOther` counts
  that as an end.
- A frame that calls and then stops without RETURN answers with its callee's data
  (`return_data` is one field, 571), and a creation leaves the buffer of an earlier call
  in place (1552).
- A reverted frame's writes stay (1232; `docs/SCALING.md:57-62` says so).
- CREATE2 with a used salt overwrites the code there (1614); the reference fails
  (`instructions/system.py:107`).
- Init code runs in its creator's account (1560): it writes the creator's storage.
- SELFDESTRUCT in favour of oneself burns the balance (1629).
- A contract whose code is `0x` fails when called, while an account without a
  code key succeeds (544-551, 1950).
- `tests/test-call-depth.sh:52` expects 0x00 of a contract that calls itself for
  ever, "because the innermost call will fail and return 0". Only the innermost
  frame sees that 0: it stops normally, so every frame above it is answered 1
  (575), and so is the client.
- MSIZE may be one more than the reference's: the table's length counts from 1 (1301).
- A cached `CODEHASH:` survives an operator's replacement of the code (1500).
- Code that CREATE deployed is invisible to the EXTCODE opcodes: one writes
  `CODE:<lower>`, the others read `CODE:0x<as spelled>` (1576, 1447). SELFDESTRUCT
  deletes one of the four keys (1635).
- The exporter's keys `<address>:C` and `<address>:S:<slot>` are none that evm.lua
  reads.
- The same account called under two spellings has two storages (1232).
- CODESIZE and CODECOPY in a DELEGATECALL or in init code look at the code of the
  storage context, not at the code that runs (1022). This is why `TopReadsItsCode` speaks
  of the top-level frame only.
- LT, GT, SLT, SGT and SHR read their operands in the other order than the reference;
  `tests/test-comparison.sh:9` agrees with the code. NOT flips 53 bits (254).

## 6. What is not modelled

- **Rounding in the word opcodes.** `LuaWords` stops following a result beyond the exact
  integers. Operands of PUSH8 and wider are strings until `toNumber` cuts them; ISZERO, DIV, the
  jumps and the stores are modelled on them and on rounded numbers, the other word opcodes
  are not. `CallAgreement` stores only words that both sides' conversions keep.
- **Doubles beyond 2^63**, except that "%d" of them is one of two numbers: `LuaDoubles` does not
  round them. Infinite operands are in `EvmCallTree` only, as charges and as handlers that never end.
- **Slot positions and the text of values**: SLOAD and SSTORE format the position from a
  double and the value as hexadecimal.
- **Keccak**: a pure function; the bytes it is given are in `MemoryAgreement`, and collisions
  of derived addresses are covered by `Derive` and `Computed`, which need not be injective.
- **The single environment and block opcodes**: one read of a key with a default and a format.
- **Gas in the reference**, and warm and cold access: the two schedules have little in common,
  and the comparison charges nothing.
- **A second top-level call** in `CallAgreement`: created contracts are at different addresses on
  the two sides from then on.
- **`eth_call_debug`** executes as `eth_call` does and formats the final frame.
  **`precompile_crypto.lua`** is loaded by nothing.
- **State export**: slots set to zero (missing from a tracer's post state), blocks in which only
  balance or nonce changed, reorganisations, two scripts at once, and an `eth_call`
  that reads half a transaction. They are listed as hazards.
- **Benchmarks and load test**: clients that time calls. Of the **harness**, the shell tests and
  `eth-test-adapter.py`, which set keys, call and compare one after the other. In
  `RedisHost` a restart or a FLUSHDB is one step, and a connection that the system drops on its
  own does not occur.

## 7. Plan

Done: the call tree with its pool, prices and work, code keys, words, export; the
reference's messages beside the call tree, programs byte by byte, both memories, the host
with its clients; and, as theorems, every safety and action property of all of these.

To come, in this order:

1. Zeroed slots and balance-only blocks in `StateExport`.
2. A second top-level call in `CallAgreement`, under a renaming of created addresses.
