----------------------------- MODULE ContractStore -----------------------------
(***************************************************************************)
(* Where evm.lua keeps contract code, and which keys its operations look   *)
(* at.  An account's code may lie under four keys:                         *)
(*   raw       "0x<address>", what eth_call reads                          *)
(*   bare      "<address>"                                                 *)
(*   tagged    "CODE:0x<address>", what the EXTCODE opcodes read           *)
(*   deployed  "CODE:<address>", what CREATE and CREATE2 write             *)
(* and its cached hash under a fifth.  Redis keys are case sensitive: the  *)
(* CALL family normalizes an address to lower case, eth_call and the       *)
(* EXTCODE opcodes take it as it is spelled, and PUSH20 and the creations  *)
(* spell in upper case.                                                    *)
(***************************************************************************)
EXTENDS Naturals, Sequences

CONSTANTS
  Accounts,
  Lettered,          \* the accounts whose address has a hex digit above 9
  Derivable,         \* the accounts CREATE and CREATE2 can derive
  Codes,             \* non-empty code strings
  None,              \* no value under a key
  OperatorRewrites,  \* whether the operator changes keys between calls
  MaxFrames          \* bound on nesting

ASSUME StoreAssumption ==
  /\ Lettered \subseteq Accounts
  /\ Derivable \subseteq Accounts
  /\ None \notin Codes
  /\ OperatorRewrites \in BOOLEAN
  /\ MaxFrames \in Nat

\* A spelling of an address. Only a digit above 9 can be spelled in two ways.
Spellings == {"lower", "upper"}
Name(a, spelling) == IF a \in Lettered THEN <<a, spelling>> ELSE <<a, "lower">>
Names == {Name(a, spelling) : a \in Accounts, spelling \in Spellings}

Values == Codes \cup {None}

VARIABLES
  raw,       \* by name
  bare,      \* by account: only the lower-case spelling is ever read
  tagged,    \* by name
  deployed,  \* by account
  hash,      \* by name: the code a cached CODEHASH:<name> is the hash of
  context    \* the frames of the call in progress

keys == <<raw, bare, tagged, deployed>>
vars == <<raw, bare, tagged, deployed, hash, context>>

\* Of a frame: state.address, the code it runs, whether CREATE or CREATE2 opened it, and
\* whether it has stopped by SELFDESTRUCT.
Frames == [at : Names, runs : Codes, creating : BOOLEAN, stopped : BOOLEAN]
Frame(n, c, creating) == [at |-> n, runs |-> c, creating |-> creating, stopped |-> FALSE]

Idle == context = <<>>
Top == context[Len(context)]
Running == ~Idle /\ ~Top.stopped
Enter(f) == Len(context) < MaxFrames /\ context' = Append(context, f)
Leave == context' = SubSeq(context, 1, Len(context) - 1)

\* The value of a key, or else the next one's.
OrElse(x, y) == IF x # None THEN x ELSE y

\* Bug: what a creation wrote is looked at first.
BugDeployedFirst(a) ==
  OrElse(deployed[a],
         OrElse(raw[Name(a, "lower")], OrElse(bare[a], tagged[Name(a, "lower")])))

\* lookup_code: the four keys of the lower-case spelling, in this order.
LookupCode(a) ==
  OrElse(raw[Name(a, "lower")],
         OrElse(bare[a], OrElse(tagged[Name(a, "lower")], deployed[a])))

------------------------------------------------------------------------------
\* The operator stores code under one of the conventions that the test suite uses.
OperatorStores(convention, n, v) ==
  /\ Idle
  /\ OperatorRewrites
  /\ raw' = IF convention = "raw" THEN [raw EXCEPT ![n] = v] ELSE raw
  /\ bare' = IF convention = "bare" THEN [bare EXCEPT ![n[1]] = v] ELSE bare
  /\ tagged' = IF convention = "tagged" THEN [tagged EXCEPT ![n] = v] ELSE tagged
  /\ deployed' = IF convention = "deployed" THEN [deployed EXCEPT ![n[1]] = v] ELSE deployed
  /\ UNCHANGED <<hash, context>>

\* eth_call: the frame's address is the key as the client spelled it. Without a value
\* there is nothing to run.
EthCall(n) ==
  /\ Idle
  /\ raw[n] # None
  /\ Enter(Frame(n, raw[n], FALSE))
  /\ UNCHANGED <<keys, hash>>

\* Bug: lookup_code's nil is taken for code.
BugCallsAnything(a) ==
  /\ Running
  /\ Enter(Frame(Name(a, "lower"), LookupCode(a), FALSE))
  /\ UNCHANGED <<keys, hash>>

\* CALL and STATICCALL: the frame's address is normalized.
CallContract(a) ==
  /\ Running
  /\ LookupCode(a) # None
  /\ Enter(Frame(Name(a, "lower"), LookupCode(a), FALSE))
  /\ UNCHANGED <<keys, hash>>

\* DELEGATECALL and CALLCODE: another account's code at the caller's address.
DelegateTo(a) ==
  /\ Running
  /\ LookupCode(a) # None
  /\ Enter(Frame(Top.at, LookupCode(a), FALSE))
  /\ UNCHANGED <<keys, hash>>

\* CREATE and CREATE2: init code from memory at the creator's address.
RunInitCode(c) ==
  /\ Running
  /\ Enter(Frame(Top.at, c, TRUE))
  /\ UNCHANGED <<keys, hash>>

\* A frame ends: eth_call's or do_call's, or a creation's that failed.
Return ==
  /\ ~Idle
  /\ Leave
  /\ UNCHANGED <<keys, hash>>

\* Bug: the new code goes where the EXTCODE opcodes look.
BugDeployTagged(a, c) ==
  /\ ~Idle
  /\ Top.creating
  /\ Leave
  /\ tagged' = [tagged EXCEPT ![Name(a, "lower")] = c]
  /\ UNCHANGED <<raw, bare, deployed, hash>>

\* A creation's frame ends and its data becomes the code of the derived account.
Deploy(a, c) ==
  /\ ~Idle
  /\ Top.creating
  /\ Leave
  /\ deployed' = [deployed EXCEPT ![a] = c]
  /\ UNCHANGED <<raw, bare, tagged, hash>>

StopTop == context' = [context EXCEPT ![Len(context)].stopped = TRUE]

\* Bug: SELFDESTRUCT deletes the key that eth_call reads.
BugSelfDestructDeletesRaw ==
  /\ Running
  /\ raw' = [raw EXCEPT ![Top.at] = None]
  /\ StopTop
  /\ UNCHANGED <<bare, tagged, deployed, hash>>

\* Only one of the four keys is deleted.
SelfDestruct ==
  /\ Running
  /\ deployed' = [deployed EXCEPT ![Top.at[1]] = None]
  /\ StopTop
  /\ UNCHANGED <<raw, bare, tagged, hash>>

\* EXTCODEHASH: a hash that is not cached yet is computed and cached, unless there is no code.
ExtCodeHash(n) ==
  /\ Running
  /\ hash[n] = None
  /\ tagged[n] # None
  /\ hash' = [hash EXCEPT ![n] = tagged[n]]
  /\ UNCHANGED <<keys, context>>

------------------------------------------------------------------------------
Conventions == {"raw", "bare", "tagged", "deployed"}

\* The operator has stored the code of each account under any of the conventions, in any
\* spelling: the tests use each of them, and some use two at once.
Init ==
  \E at \in [Names -> SUBSET Conventions], c \in Codes :
    LET Stored(n, convention) == IF convention \in at[n] THEN c ELSE None
        StoredFor(a, convention) ==
          IF convention \in at[Name(a, "lower")] THEN c ELSE None
    IN  /\ raw = [n \in Names |-> Stored(n, "raw")]
        /\ bare = [a \in Accounts |-> StoredFor(a, "bare")]
        /\ tagged = [n \in Names |-> Stored(n, "tagged")]
        /\ deployed = [a \in Accounts |-> StoredFor(a, "deployed")]
        /\ hash = [n \in Names |-> None]
        /\ context = <<>>

Execution ==
  \/ \E n \in Names : EthCall(n)
  \/ \E a \in Accounts : CallContract(a)
  \/ \E a \in Accounts : DelegateTo(a)
  \/ \E c \in Codes : RunInitCode(c)
  \/ Return
  \/ \E a \in Derivable, c \in Codes : Deploy(a, c)
  \/ SelfDestruct
  \/ \E n \in Names : ExtCodeHash(n)

Next ==
  \/ Execution
  \/ \E convention \in Conventions, n \in Names, v \in Values :
       OperatorStores(convention, n, v)

Spec == Init /\ [][Next]_vars

------------------------------------------------------------------------------
(***************************************************************************)
(* Properties.                                                             *)
(***************************************************************************)
TypeOK ==
  /\ raw \in [Names -> Values]
  /\ bare \in [Accounts -> Values]
  /\ tagged \in [Names -> Values]
  /\ deployed \in [Accounts -> Values]
  /\ hash \in [Names -> Values]
  /\ context \in Seq(Frames)

\* No execution changes what a CALL of an account runs while its code is installed under
\* one of the operator's keys: neither a creation that derives the same address nor a
\* SELFDESTRUCT of it reaches past lookup_code's order (evm.lua:69-81).
InstalledCodeIsStable ==
  [][\A a \in Accounts :
       raw[Name(a, "lower")] # None \/ bare[a] # None \/ tagged[Name(a, "lower")] # None
         => LookupCode(a)' = LookupCode(a)]_vars

\* The frame that eth_call opened finds its own code under CODESIZE and CODECOPY until the
\* end, whatever the frames it opens create or destroy, and whichever name it was called by.
TopReadsItsCode == ~Idle => raw[context[1].at] = context[1].runs

\* What EXTCODEHASH answers from its cache is the hash of what EXTCODECOPY copies.
HashMatchesCode == \A n \in Names : hash[n] # None => hash[n] = tagged[n]
=============================================================================
