---------------------------- MODULE MCStateExport ----------------------------
(***************************************************************************)
(* A chain of four blocks; the first is empty and the third holds two      *)
(* transactions. Every choice of written slots is an initial state.        *)
(***************************************************************************)
EXTENDS StateExport, TLC

MCBlockOf == <<2, 3, 3, 4>>
Symmetry  == Permutations(Slots)
=============================================================================
