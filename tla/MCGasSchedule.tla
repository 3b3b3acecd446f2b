---------------------------- MODULE MCGasSchedule ----------------------------
(***************************************************************************)
(* Small instances of GasSchedule: the real prices and the real ceiling on *)
(* lengths, with one opcode of each pop pattern and of each kind of loop.  *)
(***************************************************************************)
EXTENDS GasSchedule

MCBilled == {"PUSH", "KECCAK256", "CODECOPY", "LOG1", "LOG4", "RETURN", "REVERT", "CREATE2",
             "MSTORE", "MSIZE", "CALLDATALOAD", "EXTCODEHASH"}
MCOperands == {-5000, 33, 1000000}
=============================================================================
