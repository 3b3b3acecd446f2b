---------------------------- MODULE MCContractStore ----------------------------
(***************************************************************************)
(* Small instances of ContractStore: an address with letters and, when the *)
(* operator leaves the keys alone, one without; a creation may derive each.*)
(***************************************************************************)
EXTENDS ContractStore

CONSTANTS a, b, c, d

MCAccounts == {a, b}
MCAccount  == {a}
MCLettered == {a}
MCCodes    == {c, d}
=============================================================================
