---------------------------- MODULE EvmReference ----------------------------
(***************************************************************************)
(* What instructions/ says calls, creations and writes do: the Python      *)
(* modules are Ethereum's reference, of which the repository keeps the     *)
(* opcodes.  process_message, process_create_message and the state they    *)
(* snapshot are not in the repository; they are modelled from how the      *)
(* opcodes use them.                                                       *)
(*                                                                         *)
(* Gas, memory and the stack are left out: operands are arbitrary, and a   *)
(* frame never runs out of gas.  The module has the operations only;       *)
(* CallAgreement drives them together with those of evm.lua.               *)
(***************************************************************************)
EXTENDS Integers, Sequences

CONSTANTS
  Addrs,              \* account addresses
  Slots,              \* storage positions
  Zero,               \* the value of a slot that was never written
  Empty,              \* b"", also the code of an account that has none
  STACK_DEPTH_LIMIT,  \* 1024
  Computed            \* compute_contract_address and compute_create2_contract_address

VARIABLES
  evms,   \* the nested Evm objects, the outermost message's first
  state   \* block_env.state and tx_env.transient_storage

(***************************************************************************)
(* One Evm with its Message.  flag is the last success flag or address     *)
(* that a CALL or CREATE of this frame pushed, status what running and     *)
(* error amount to, snap what the transaction that process_message began   *)
(* returns to on an error.                                                 *)
(***************************************************************************)
NewEvm(kind, target, caller, value, static, bytes, snap) ==
  [kind |-> kind, target |-> target, caller |-> caller, value |-> value,
   static |-> static, code |-> bytes, rdata |-> Empty, output |-> Empty,
   flag |-> "none", status |-> "run", snap |-> snap]

Top   == evms[Len(evms)]
Below == evms[Len(evms) - 1]
Running   == evms # <<>> /\ Top.status = "run"
HasOpcode == Running /\ Top.code # Empty

SetTop(f) == evms' = [evms EXCEPT ![Len(evms)] = f]
Push(flag) == SetTop([Top EXCEPT !.rdata = Empty, !.flag = flag])
Halt(status, d) ==
  /\ HasOpcode
  /\ SetTop([Top EXCEPT !.status = status, !.output = d])
  /\ UNCHANGED state

\* An ExceptionalHalt: the frame's output is empty, its changes go when it is closed.
Raise == Halt("failed", Empty)

Return(d) == Halt("returned", d)
Revert(d) == Halt("reverted", d)
Stop      == Halt("stopped", Empty)

\* The loop that fetches opcodes ends with the code, without an error.
EndOfCode ==
  /\ Running
  /\ SetTop([Top EXCEPT !.status = "stopped"])
  /\ UNCHANGED state

------------------------------------------------------------------------------
\* WriteInStaticContext is raised once the opcode has been charged.
RejectWrite == Top.static /\ Raise

Write(new) ==
  /\ HasOpcode
  /\ ~Top.static
  /\ state' = new
  /\ UNCHANGED evms

SLoad(a, s) == state.storage[a][s]
TLoad(a, s) == state.transient[a][s]
Balance(a)  == state.balance[a]

SStore(s, w) == RejectWrite \/ Write([state EXCEPT !.storage[Top.target][s] = w])
TStore(s, w) == RejectWrite \/ Write([state EXCEPT !.transient[Top.target][s] = w])
LogN(d) == RejectWrite \/ Write([state EXCEPT !.logs = Append(@, <<Top.target, d>>)])

\* move_ether
Moved(balances, from, to, value) ==
  [[balances EXCEPT ![from] = @ - value] EXCEPT ![to] = @ + value]

\* All of the balance moves; an account of this transaction burns what it gave itself
\* and is registered for deletion.
SelfDestruct(b) ==
  LET moved == Moved(state.balance, Top.target, b, state.balance[Top.target])
      mine  == Top.target \in state.created
  IN  \/ RejectWrite
      \/ /\ HasOpcode
         /\ ~Top.static
         /\ state' = IF mine
                       THEN [state EXCEPT !.balance = [moved EXCEPT ![Top.target] = 0],
                                          !.doomed = @ \cup {Top.target}]
                       ELSE [state EXCEPT !.balance = moved]
         /\ SetTop([Top EXCEPT !.status = "stopped"])

------------------------------------------------------------------------------
(***************************************************************************)
(* CALL, CALLCODE, DELEGATECALL and STATICCALL around generic_call.        *)
(***************************************************************************)
TooDeep == Len(evms) > STACK_DEPTH_LIMIT

\* What the child message says; CALLCODE and DELEGATECALL stay in their own account.
Target(kind, to) == IF kind \in {"CALL", "STATICCALL"} THEN to ELSE Top.target

Caller(kind) == IF kind = "DELEGATECALL" THEN Top.caller ELSE Top.target
Value(kind, v) == IF kind = "DELEGATECALL" THEN Top.value ELSE v

\* process_message begins a transaction and then moves the value, unless it was inherited.
Paid(kind, to, v) ==
  IF kind = "DELEGATECALL" THEN state
  ELSE [state EXCEPT !.balance = Moved(@, Top.target, Target(kind, to), v)]

CallRejected(kind, v) == kind = "CALL" /\ v # 0 /\ RejectWrite

CallAllowed(kind, v) == HasOpcode /\ ~(kind = "CALL" /\ v # 0 /\ Top.static)

\* Bug: the sender's balance is not compared with the value.
BugOverdraft(v) == TooDeep

Refused(v) == state.balance[Top.target] < v \/ TooDeep

CallRefused(kind, v) ==
  /\ CallAllowed(kind, v)
  /\ Refused(v)
  /\ Push("0")
  /\ UNCHANGED state

\* A message to an account without code runs nothing and succeeds.
CallNoCode(kind, to, v) ==
  /\ CallAllowed(kind, v)
  /\ ~Refused(v)
  /\ state.code[to] = Empty
  /\ Push("1")
  /\ state' = Paid(kind, to, v)

CallRuns(kind, to, v) ==
  /\ CallAllowed(kind, v)
  /\ ~Refused(v)
  /\ state.code[to] # Empty
  /\ evms' = Append([evms EXCEPT ![Len(evms)].rdata = Empty],
                    NewEvm(kind, Target(kind, to), Caller(kind), Value(kind, v),
                           Top.static \/ kind = "STATICCALL", state.code[to], state))
  /\ state' = Paid(kind, to, v)

Call(kind, to, v) ==
  CallRejected(kind, v) \/ CallRefused(kind, v) \/ CallNoCode(kind, to, v) \/ CallRuns(kind, to, v)

------------------------------------------------------------------------------
(***************************************************************************)
(* CREATE and CREATE2 around generic_create.  The creator's nonce counts   *)
(* the attempt before the init code runs, and an attempt at an address     *)
(* that is taken as well.                                                  *)
(***************************************************************************)
NewAddress(kind, init, salt) ==
  Computed[IF kind = "CREATE" THEN <<Top.target, state.nonce[Top.target]>>
                              ELSE <<Top.target, salt, init>>]

Taken(a) == \/ state.code[a] # Empty
            \/ state.nonce[a] # 0
            \/ \E s \in Slots : state.storage[a][s] # Zero

Counted == [state EXCEPT !.nonce[Top.target] = @ + 1]

CreateRefused(v) ==
  /\ HasOpcode
  /\ ~Top.static
  /\ Refused(v)
  /\ Push("0")
  /\ UNCHANGED state

CreateCollides(a, v) ==
  /\ HasOpcode
  /\ ~Top.static
  /\ ~Refused(v)
  /\ Taken(a)
  /\ Push("0")
  /\ state' = Counted

\* The new account exists, with nonce 1, as soon as its init code runs.
CreateRuns(kind, a, v, init) ==
  /\ HasOpcode
  /\ ~Top.static
  /\ ~Refused(v)
  /\ ~Taken(a)
  /\ evms' = Append([evms EXCEPT ![Len(evms)].rdata = Empty],
                    NewEvm(kind, a, Top.target, v, FALSE, init, Counted))
  /\ state' = [Counted EXCEPT !.nonce[a] = 1,
                              !.created = @ \cup {a},
                              !.balance = Moved(@, Top.target, a, v)]

Create(kind, v, init, salt) ==
  LET new == NewAddress(kind, init, salt) IN
  RejectWrite \/ CreateRefused(v) \/ CreateCollides(new, v) \/ CreateRuns(kind, new, v, init)

------------------------------------------------------------------------------
Halted    == evms # <<>> /\ Top.status # "run"
Succeeded == Top.status \in {"stopped", "returned"}

Resume(f) == evms' = [SubSeq(evms, 1, Len(evms) - 1) EXCEPT ![Len(evms) - 1] = f]

\* incorporate_child_on_success or _on_error, after commit or rollback.
Rollback == IF Succeeded THEN state ELSE Top.snap

ReturnFromCall ==
  /\ Halted
  /\ Top.kind \in {"CALL", "CALLCODE", "DELEGATECALL", "STATICCALL"}
  /\ Resume([Below EXCEPT !.rdata = Top.output, !.flag = IF Succeeded THEN "1" ELSE "0"])
  /\ state' = Rollback

ReturnFromCreate ==
  /\ Halted
  /\ Top.kind \in {"CREATE", "CREATE2"}
  /\ \/ /\ Succeeded
        /\ state' = [state EXCEPT !.code[Top.target] = Top.output]
        /\ Resume([Below EXCEPT !.rdata = Empty, !.flag = "1"])
     \/ /\ ~Succeeded
        /\ state' = Rollback
        /\ Resume([Below EXCEPT !.rdata = Top.output, !.flag = "0"])

\* destroy_account for every account registered, at the end of the transaction.
Destroyed(st) ==
  [st EXCEPT
     !.code    = [a \in Addrs |-> IF a \in st.doomed THEN Empty ELSE @[a]],
     !.nonce   = [a \in Addrs |-> IF a \in st.doomed THEN 0 ELSE @[a]],
     !.balance = [a \in Addrs |-> IF a \in st.doomed THEN 0 ELSE @[a]],
     !.storage = [a \in Addrs |-> IF a \in st.doomed THEN [s \in Slots |-> Zero] ELSE @[a]]]

FinishMessage ==
  /\ Halted
  /\ Top.kind = "TOP"
  /\ evms' = <<>>
  /\ state' = Destroyed(Rollback)

\* A message from outside: its caller and value are the transaction's. The value has been
\* moved before, as in the pre-state of the repository's fixtures.
ProcessMessage(a, caller, v) ==
  /\ evms = <<>>
  /\ evms' = <<NewEvm("TOP", a, caller, v, FALSE, state.code[a], state)>>
  /\ UNCHANGED state

Unwind == ReturnFromCall \/ ReturnFromCreate \/ FinishMessage

InitialState(codes, balances) ==
  [storage   |-> [a \in Addrs |-> [s \in Slots |-> Zero]],
   transient |-> [a \in Addrs |-> [s \in Slots |-> Zero]],
   code      |-> codes,
   nonce     |-> [a \in Addrs |-> 0],
   balance   |-> balances,
   logs      |-> <<>>,
   created   |-> {},
   doomed    |-> {}]
=============================================================================
