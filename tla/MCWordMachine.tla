---------------------------- MODULE MCWordMachine ----------------------------
(***************************************************************************)
(* WordMachine with widths in the proportions of the real ones: words of 8 *)
(* bits in 4 bytes, limbs of 3 bits, 5 bits exact in a double.             *)
(***************************************************************************)
EXTENDS WordMachine

AllOps == Unary \cup Binary \cup Ternary
=============================================================================
