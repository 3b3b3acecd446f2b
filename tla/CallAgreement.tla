--------------------------- MODULE CallAgreement ---------------------------
(***************************************************************************)
(* evm.lua's call tree and the reference's, side by side: both execute the *)
(* same opcode with the same operands, for as long as both trees have the  *)
(* same shape.  The opcodes and operands are arbitrary.  EvmCallTree is    *)
(* extended and EvmReference instantiated, so that a step here is a step   *)
(* of each.                                                                *)
(*                                                                         *)
(* Gas is out of the comparison (the two schedules have little in common): *)
(* the instance charges nothing.  So are Lua errors without a counterpart  *)
(* and the host's nesting limit, which EvmCallTree has.  One top-level     *)
(* call is compared, and a contract that it creates is not called again:   *)
(* the two sides put it at different addresses.  The words of Words are    *)
(* ones that the conversions of both sides keep; ProgramAgreement and      *)
(* MemoryAgreement have those that they do not.                            *)
(***************************************************************************)
EXTENDS EvmCallTree

CONSTANTS
  Values,    \* what CALL and CREATE try to pass on
  Callees,   \* bound: operands of the CALL family
  MaxLogs,   \* bound on the log entries of a frame
  Computed,  \* the reference's addresses of new contracts
  Clients,   \* accounts that send transactions
  Sender,    \* the one of the transaction compared
  Sent,      \* the value it sends along
  Keys       \* what the keys CALLER and CALLVALUE may hold by the time it runs

ASSUME AgreementAssumption ==
  /\ Values \subseteq Nat
  /\ Callees \subseteq Addrs
  /\ Computed \in [(Creators \X (0 .. MaxNonce)) \cup (Creators \X Salts \X Data) -> Addrs]

\* Accounts with code send no transactions.
ASSUME ClientAssumption ==
  /\ Clients \cap Addrs = {}
  /\ Sender \in Clients
  /\ Sent \in Nat
  /\ Keys \subseteq [caller : Clients, value : Nat]

VARIABLES
  evms, state,  \* the reference
  locals,       \* evm.lua's per-frame tables that EvmCallTree leaves out
  entries,      \* history: how many frames each account has had, counted up to 2
  loose,        \* history: the cells that a listed difference has touched
  keys          \* the keys CALLER and CALLVALUE; no other command runs during a function

refVars  == <<evms, state>>
bothVars == <<vars, refVars, locals, entries, loose, keys>>

Ref == INSTANCE EvmReference WITH STACK_DEPTH_LIMIT <- MAX_CALL_DEPTH

\* state.transient_storage and state.logs of one frame, and which opcode opened or tried
\* to open its last sub-frame (history).
NewLocals == [transient |-> [s \in Slots |-> Zero], logs |-> <<>>, last |-> "none"]

TopLocals == locals[Len(locals)]
SetLocals(l) == locals' = [locals EXCEPT ![Len(locals)] = l]

\* Storage and balances of both sides under one name: the cells of an account.
Cells == Addrs \X (Slots \cup {"balance"})

LuaCell(c) == IF c[2] = "balance" THEN balance[c[1]] ELSE storage[c[1]][c[2]]
RefCell(c) == IF c[2] = "balance" THEN Ref!Balance(c[1]) ELSE Ref!SLoad(c[1], c[2])

(***************************************************************************)
(* Two trees have the same shape when their frames were opened by the same *)
(* opcodes, are in the same condition and were told the same of their      *)
(* sub-frames.                                                             *)
(***************************************************************************)
SameFrame(f, e) == f.kind = e.kind /\ f.status = e.status /\ f.flag = e.flag

SameShape ==
  /\ Len(frames) = Len(evms)
  /\ \A i \in 1 .. Len(frames) : SameFrame(frames[i], evms[i])

\* The reference moved or restored these cells in a step that evm.lua takes without a write.
Restored == {c \in Cells : RefCell(c)' # RefCell(c)}

Entered(a) == entries' = [entries EXCEPT ![a] = IF @ < 2 THEN @ + 1 ELSE @]

Loosen(cells) == loose' = loose \cup cells

\* Steps that change no cell of evm.lua's.
NoWrite == Loosen(Restored)

\* Init code and what it delegates to run for the new account in the reference, and for the
\* creator in evm.lua.
InitContext ==
  \E i \in DOMAIN frames :
    /\ frames[i].kind \in CreateKinds
    /\ \A j \in i + 1 .. Len(frames) : frames[j].kind \in {"CALLCODE", "DELEGATECALL"}

\* Where both sides are expected to write the same cell.
SameContext == ~Ref!Top.static /\ ~InitContext
------------------------------------------------------------------------------
BothSStore(s, w) ==
  /\ SStore(s, w)
  /\ Ref!SStore(s, w)
  /\ Loosen(IF SameContext THEN {} ELSE {<<Top.addr, s>>, <<Ref!Top.target, s>>})
  /\ UNCHANGED <<locals, entries>>

\* Bug: one table of transient storage for all frames of a call, whatever their account.
BugLuaTStore(s, w) ==
  locals' = [i \in DOMAIN locals |-> [locals[i] EXCEPT !.transient[s] = w]]

\* TSTORE writes the frame's own table.
LuaTStore(s, w) == SetLocals([TopLocals EXCEPT !.transient[s] = w])

BothTStore(s, w) ==
  /\ Plain
  /\ LuaTStore(s, w)
  /\ Ref!TStore(s, w)
  /\ NoWrite
  /\ UNCHANGED entries

\* Bug: the list of entries is made anew, as in a handler that forgets the "or" of
\* state.logs = state.logs or {}.
BugLuaLog(d) == SetLocals([TopLocals EXCEPT !.logs = <<d>>])

\* LOG0 to LOG4 append to the frame's own list.
LuaLog(d) == SetLocals([TopLocals EXCEPT !.logs = Append(@, d)])

BothLog(d) ==
  /\ HasOpcode
  /\ Len(state.logs) < MaxLogs /\ Len(TopLocals.logs) < MaxLogs
  /\ Plain
  /\ LuaLog(d)
  /\ Ref!LogN(d)
  /\ NoWrite
  /\ UNCHANGED entries

\* What is moved, and the sum, are amounts that doubles hold.
ExactMove(b) ==
  /\ balance[Top.addr] \in 0 .. MaxExact
  /\ balance[b] \in 0 .. MaxExact - balance[Top.addr]

\* SELFDESTRUCT agrees on the balances, unless they differed, or the sum is rounded, or the
\* frame is its own beneficiary: evm.lua burns the balance then, the reference keeps it.
BothSelfDestruct(b) ==
  /\ SelfDestruct(b)
  /\ Ref!SelfDestruct(b)
  /\ Loosen(IF /\ SameContext
               /\ b # Top.addr
               /\ <<Top.addr, "balance">> \notin loose
               /\ ExactMove(b)
            THEN {} ELSE {Top.addr, Ref!Top.target, b} \X {"balance"})
  /\ UNCHANGED <<locals, entries>>

BothHalt ==
  /\ \/ Stop /\ Ref!Stop
     \/ \E d \in Data : Return(d) /\ Ref!Return(d)
     \/ \E d \in Data : Revert(d) /\ Ref!Revert(d)
     \/ Abort("INVALID") /\ Ref!Raise
     \/ BadJump /\ Ref!Raise
     \/ UnknownOpcode /\ (Ref!Raise \/ Ref!EndOfCode)
  /\ NoWrite
  /\ UNCHANGED <<locals, entries>>

\* A sub-frame was opened, or not: either way the opener's last call is this one.
Opening(kind) ==
  LET l == [TopLocals EXCEPT !.last = kind] IN
  /\ \/ Len(frames') > Len(frames) /\ locals' = Append([locals EXCEPT ![Len(locals)] = l], NewLocals)
     \/ Len(frames') = Len(frames) /\ SetLocals(l)
  /\ \/ Len(evms') > Len(evms) /\ Entered(Ref!Top.target')
     \/ Len(evms') = Len(evms) /\ UNCHANGED entries
  /\ NoWrite

BothCall(kind, to, v) ==
  /\ HasOpcode
  /\ to \notin state.created
  /\ CallTooDeep \/ CallNoCode(to) \/ Call(kind, to)
  /\ Ref!Call(kind, to, v)
  /\ Opening("call")

\* Bound on the reference's side: the attempts that Computed has addresses for.
BothCreate(kind, v, init, salt) ==
  /\ HasOpcode
  /\ Ref!Top.target \in Creators
  /\ kind = "CREATE" => state.nonce[Ref!Top.target] < MaxNonce
  /\ (TooDeep /\ CreateFails) \/ Create(kind, init, salt)
  /\ Ref!Create(kind, v, init, salt)
  /\ Opening("create")

BothUnwind ==
  /\ Unwind
  /\ Ref!Unwind
  /\ locals' = SubSeq(locals, 1, Len(locals) - 1)
  /\ NoWrite
  /\ UNCHANGED entries

BothBegin(a) ==
  /\ reply = "none"
  /\ EthCall(a)
  /\ Ref!ProcessMessage(a, Sender, Sent)
  /\ locals' = <<NewLocals>>
  /\ Entered(a)
  /\ NoWrite

\* The comparison is over: the call was answered, or the trees differ.
Over ==
  /\ ~SameShape \/ reply # "none"
  /\ UNCHANGED bothVars

BothInit ==
  /\ Init
  /\ evms = <<>>
  /\ state = Ref!InitialState([a \in Addrs |-> IF LookupCode(a) = NoCode THEN Empty
                                               ELSE LookupCode(a)], Supply)
  /\ locals = <<>>
  /\ entries = [a \in Addrs |-> 0]
  /\ loose = {}
  /\ keys \in Keys

BothStep ==
  \/ Over
  \/ /\ SameShape
     /\ \/ \E a \in Callees : BothBegin(a)
        \/ \E s \in Slots, w \in Words : BothSStore(s, w) \/ BothTStore(s, w)
        \/ \E d \in Data : BothLog(d)
        \/ \E b \in Addrs : BothSelfDestruct(b)
        \/ BothHalt
        \/ \E to \in Callees, v \in Values :
             \/ \E kind \in {"CALL", "CALLCODE"} : BothCall(kind, to, v)
             \/ \E kind \in {"DELEGATECALL", "STATICCALL"} : v = 0 /\ BothCall(kind, to, 0)
        \/ \E v \in Values, init \in Data :
             \/ BothCreate("CREATE", v, init, 0)
             \/ \E salt \in Salts : BothCreate("CREATE2", v, init, salt)
        \/ BothUnwind

BothNext == BothStep /\ UNCHANGED keys

BothSpec == BothInit /\ [][BothNext]_bothVars
------------------------------------------------------------------------------
(***************************************************************************)
(* Properties.                                                             *)
(***************************************************************************)

\* The shape of what this module adds: both stacks of frames carry their tables, and the
\* histories stay in range.
AgreementTypeOK ==
  /\ Len(locals) = Len(frames)
  /\ \A i \in 1 .. Len(locals) :
       /\ locals[i].transient \in [Slots -> Words]
       /\ locals[i].last \in {"none", "call", "create"}
  /\ entries \in [Addrs -> 0 .. 2]
  /\ loose \subseteq Cells
  /\ state.balance \in [Addrs -> Nat]
  /\ state.storage \in [Addrs -> [Slots -> Words]]

\* Whatever calls, creations, reverts and writes a tree is made of, storage and balances
\* of Redis are those of the reference, except in cells that the reference restored after a
\* failed frame, moved with a call's value, or put under the new account of a creation, and
\* in cells written by a static frame, and in balances that a SELFDESTRUCT burnt for itself or
\* rounded (evm.lua:1225, 1623; instructions/storage.py, system.py).
StateAgrees == \A c \in Cells \ loose : LuaCell(c) = RefCell(c)

\* An outcome is what one opcode made of the frame that ran it.
Opened(fs)  == Len(fs)' > Len(fs)
EndsIn(fs, status) == Len(fs)' = Len(fs) /\ fs[Len(fs)].status' = status

(***************************************************************************)
(* The trees part only where evm.lua is known to differ: a write in a      *)
(* static frame, which the reference rejects; the end of the code, an      *)
(* error for evm.lua; a jump to nowhere, an error for the reference; a     *)
(* call of code that is the empty string, or left by a creation that the   *)
(* reference undid; a value that the balance does not cover; and a         *)
(* creation at an address that is taken.                                   *)
(***************************************************************************)
ListedDifference ==
  \/ Ref!Top.static /\ EndsIn(evms, "failed")
  \/ EndsIn(frames, "failed") /\ EndsIn(evms, "stopped")
  \/ EndsIn(frames, "stopped") /\ EndsIn(evms, "failed")
  \/ /\ Opened(frames) /\ Top'.kind \in CallKinds /\ Ref!Top'.flag = "1"
     /\ Top'.code = Empty \/ \E a \in Addrs : state.code[a] = Empty /\ code[a] # NoCode
  \/ Ref!Top'.flag = "0" /\ ~Ref!TooDeep /\ \E v \in Values : Ref!Balance(Ref!Top.target) < v
  \/ Opened(frames) /\ Top'.kind \in CreateKinds /\ ~Opened(evms) /\ state'.nonce # state.nonce

\* Frames open, halt and answer alike on both sides, success flags included, until one of
\* the listed differences (evm.lua:517-580, 1545-1620; instructions/system.py).
TreesPartOnlyAsListed == [][SameShape => SameShape' \/ ListedDifference]_bothVars

\* RETURNDATASIZE and RETURNDATACOPY never show a frame the wrong callee's data when the
\* reference has data to show: after a call evm.lua's buffer is the reference's, or stale
\* where the reference's is empty (evm.lua:571).  Creations leave the buffer alone, which
\* the reference does not, so the frames whose last opening was a creation are left out.
ReturnDataNeverWrong ==
  SameShape =>
    \A i \in 1 .. Len(frames) :
      frames[i].status = "run" =>
        /\ locals[i].last = "call" => evms[i].rdata \in {Empty, frames[i].rdata}
        /\ locals[i].last = "none" => frames[i].rdata = Empty /\ evms[i].rdata = Empty

\* A frame whose account has no other frame in this call reads the transient storage that
\* the reference would give it; a second frame of the account starts from nothing instead
\* (evm.lua:560, 1237-1250).
TransientAgreesWithoutReentry ==
  SameShape =>
    \A i \in 1 .. Len(frames) :
      entries[evms[i].target] = 1 =>
        \A s \in Slots : locals[i].transient[s] = Ref!TLoad(evms[i].target, s)

\* A frame that opened no other has logged what the reference has recorded for it since it
\* began, in that order (evm.lua:1642-1714); what sub-frames logged is lost to their caller.
LeafLogsAgree ==
  SameShape /\ frames # <<>> /\ TopLocals.last = "none" =>
    LET before == Len(Ref!Top.snap.logs)
        since  == SubSeq(state.logs, before + 1, Len(state.logs))
    IN  TopLocals.logs = [i \in 1 .. Len(since) |-> since[i][2]]

\* Bug: a frame's caller is the account of the frame that opened it, whatever the opcode.
BugLuaCaller(i) == IF i = 1 THEN keys.caller ELSE frames[i - 1].addr

\* What CALLER and CALLVALUE push in the i-th frame of evm.lua.
LuaCaller(i)    == keys.caller
LuaCallValue(i) == Double(keys.value)

\* The i-th frame and the top-level one have only DELEGATECALLs between them.
Delegated(i) == \A j \in 2 .. i : evms[j].kind = "DELEGATECALL"

\* CALLER is right in exactly the frames that the top-level one reached by DELEGATECALL
\* alone, and only if no other client has set the key since; there CALLVALUE is what the
\* reference says, as far as a double holds it (evm.lua:953, 967).
ContextServesDelegatesAlone ==
  SameShape =>
    \A i \in 1 .. Len(evms) :
      /\ LuaCaller(i) = evms[i].caller <=> Delegated(i) /\ keys.caller = Sender
      /\ Delegated(i) /\ keys.value = Sent => LuaCallValue(i) = Double(evms[i].value)
=============================================================================
