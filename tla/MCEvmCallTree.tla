---------------------------- MODULE MCEvmCallTree ----------------------------
(***************************************************************************)
(* Small instances of EvmCallTree. The charges are scaled down: a halting  *)
(* opcode is free, every other one costs something, and a hash, copy or    *)
(* log of a negative length, one of the "plain" opcodes, gives gas back.   *)
(* None costs exactly nothing here: a handful of lengths does bring a      *)
(* charge to 0, but no program loops on them alone, as JUMP and JUMPDEST   *)
(* cost 9.                                                                 *)
(***************************************************************************)
EXTENDS EvmCallTree

CONSTANTS a, b, d1

\* a has code from the start, b is where its creations end up.
MCInstalled == [x \in Addrs |-> IF x = a THEN d1 ELSE NoCode]
\* With numbers exact up to 4 and of even numbers up to 8, 7 is rounded, and 3 is not.
MCSupply    == [x \in Addrs |-> IF x = a THEN 3 ELSE 7]
MCNoSupply  == [x \in Addrs |-> 0]
MCDerive    == [p \in Creators \X Seeds |-> b]

MCOpCosts == [op \in Ops |->
  IF op \in HaltOps THEN {0} ELSE IF op = "plain" THEN {1, -1} ELSE {2}]
=============================================================================
