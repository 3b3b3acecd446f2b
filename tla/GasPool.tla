------------------------------- MODULE GasPool -------------------------------
(***************************************************************************)
(* What whoever calls eth_call can rely on of the gas metering of evm.lua  *)
(* (docs/SCALING.md, section B): one pool per top-level call, however the  *)
(* call nests.  Redis changes only while the pool covers the work done;    *)
(* while it is overdrawn nothing is written, and the call can only end in  *)
(* an error, unless the pool is refilled; a call that answers normally     *)
(* leaves it within the cap.  What the document does not say is that a     *)
(* charge can be negative, and a refill a step of the program's own.       *)
(*                                                                         *)
(* EvmCallTree implements this specification; of its frames this one knows *)
(* only how many there are.                                                *)
(***************************************************************************)
EXTENDS Integers

CONSTANT GasCap     \* the pool's size

VARIABLES
  open,     \* the frames of the call in progress
  used,     \* gas drawn from its pool
  reply,    \* the answer of the last call, "none" while one is in progress
  world     \* everything eth_call can write in Redis

vars == <<open, used, reply, world>>

Init ==
  /\ open = 0
  /\ used = 0
  /\ reply = "none"

Begin ==
  /\ open = 0
  /\ open' = 1
  /\ used' = 0
  /\ reply' = "none"
  /\ UNCHANGED world

\* Work the pool covers: gas is drawn, and Redis may change in any way. A nested call draws
\* from the pool that is there.
Spend ==
  /\ open > 0
  /\ open' \in {open, open + 1}
  /\ used' \in Int
  /\ used' >= used
  /\ used' <= GasCap
  /\ UNCHANGED reply

\* The draw that exceeds the cap, and each one after it: no write and no call goes with it.
Overdraw ==
  /\ open > 0
  /\ used' \in Int
  /\ used' >= used
  /\ used' > GasCap
  /\ UNCHANGED <<open, reply, world>>

\* A negative charge, of a pool that is overdrawn or not: nothing is written with it, either.
Refill ==
  /\ open > 0
  /\ used' \in Int
  /\ used' < used
  /\ UNCHANGED <<open, reply, world>>

\* A nested call ends and leaves the pool as it is; a creation's end deploys code.
Leave ==
  /\ open > 1
  /\ open' = open - 1
  /\ used > GasCap => UNCHANGED world
  /\ UNCHANGED <<used, reply>>

Answer ==
  /\ open = 1
  /\ open' = 0
  /\ reply' \in {"ok", "error"}
  /\ reply' = "ok" => used <= GasCap
  /\ UNCHANGED <<used, world>>

Next == Begin \/ Spend \/ Overdraw \/ Refill \/ Leave \/ Answer

Spec == Init /\ [][Next]_vars
=============================================================================
