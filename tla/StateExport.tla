------------------------------ MODULE StateExport ------------------------------
(***************************************************************************)
(* The two scripts that copy a contract from an Ethereum node to Redis:    *)
(* export-contract-state.py takes code and storage once, page by page, and *)
(* export-contract-state-delta.py replays what later blocks changed.  Each *)
(* leaves in <address>:pointer the block that Redis is supposed to be at.  *)
(* They do not share the slots' keys: the export saves under the hash that *)
(* debug_storageRangeAt names a slot by, the delta under the slot itself,  *)
(* so neither ever updates what the other has saved.                       *)
(*                                                                         *)
(* The node goes on while a script runs, every RPC sees the node of its    *)
(* moment, and a script may die between any two of its calls.              *)
(***************************************************************************)
EXTENDS Integers

CONSTANTS
  Slots,      \* the contract's storage slots
  MaxBlock,   \* bound on the chain's length
  MaxTx,      \* bound on its transactions
  BlockOf     \* the block of each transaction

Blocks == 1 .. MaxBlock
Txs == 1 .. MaxTx

ASSUME ChainAssumption ==
  /\ MaxBlock \in Nat \ {0}
  /\ MaxTx \in Nat
  /\ BlockOf \in [Txs -> Blocks]
  /\ \A m, n \in Txs : m < n => BlockOf[m] <= BlockOf[n]

VARIABLES
  writes,    \* the chain: which transaction writes which slot. A slot's value is the
             \* number of the transaction that wrote it last, 0 before the first
  safe,      \* the node's safe block
  head,      \* the node's latest block
  code,      \* whether <address>:C exists
  hashed,    \* the keys <address>:S:<hash of the slot>, which the export sets
  raw,       \* the keys <address>:S:<slot>, which the delta sets
  pointer,   \* the key <address>:pointer, 0 while there is none
  exported,  \* history: the number of the last export that ended, 0 before
  pc,        \* where the running script is
  from,      \* block_from; the export's block_number
  to,        \* block_to
  rest,      \* slots of pages the export has yet to fetch
  at,        \* the block whose end the export's current page shows
  tx,        \* the transaction of the delta's current diff, 0 before the first
  todo       \* slots of the current page or diff yet to be saved

chain  == <<writes, safe, head>>
redis  == <<code, hashed, raw, pointer, exported>>
script == <<pc, from, to, rest, at, tx, todo>>
vars   == <<chain, redis, script>>

\* The value of a slot after block b.
IsValueAt(v, s, b) ==
  /\ <<v, s>> \in writes
  /\ BlockOf[v] <= b
  /\ \A n \in Txs : <<n, s>> \in writes /\ BlockOf[n] <= b => n <= v

Goto(label) == pc' = label

\* The script ends, by itself or not, and its variables are gone.
Exit ==
  /\ pc' = "idle"
  /\ from' = 0 /\ to' = 0 /\ at' = 0 /\ tx' = 0
  /\ rest' = {} /\ todo' = {}

------------------------------------------------------------------------------
\* The node imports a block, and its safe block moves.
Import ==
  /\ head < MaxBlock
  /\ head' = head + 1
  /\ UNCHANGED <<writes, safe, redis, script>>

MarkSafe ==
  /\ safe < head
  /\ safe' = safe + 1
  /\ UNCHANGED <<writes, head, redis, script>>

------------------------------------------------------------------------------
\* export-contract-state.py: the code first.
SaveCode ==
  /\ pc = "idle"
  /\ code' = TRUE
  /\ Goto("number")
  /\ UNCHANGED <<chain, hashed, raw, pointer, exported, from, to, rest, at, tx, todo>>

\* Bug: the number is that of the latest block, while the pages are of the safe one.
BugReadLatest ==
  /\ pc = "number"
  /\ from' = head
  /\ rest' = Slots
  /\ todo' = {}
  /\ Goto("pages")
  /\ UNCHANGED <<chain, redis, to, at, tx>>

\* The number the pointer will get, asked for before the first page.
ReadNumber ==
  /\ pc = "number"
  /\ from' = safe
  /\ rest' = Slots
  /\ todo' = {}
  /\ Goto("pages")
  /\ UNCHANGED <<chain, redis, to, at, tx>>

\* Each page is of the block that is safe when it is fetched. With 0 for the transaction it
\* shows the state before that block's first transaction, which is that after its parent's
\* last, and names the slots that have a value there.
FetchPage(page) ==
  /\ pc = "pages"
  /\ todo = {}
  /\ page # {}
  /\ page \subseteq rest
  /\ rest' = rest \ page
  /\ todo' = {s \in page : \E n \in Txs : <<n, s>> \in writes /\ BlockOf[n] < safe}
  /\ at' = safe - 1
  /\ UNCHANGED <<chain, redis, pc, from, to, tx>>

SaveSlot(s, v) ==
  /\ pc = "pages"
  /\ s \in todo
  /\ IsValueAt(v, s, at)
  /\ hashed' = [hashed EXCEPT ![s] = v]
  /\ todo' = todo \ {s}
  /\ UNCHANGED <<chain, code, raw, pointer, exported, pc, from, to, rest, at, tx>>

FinishExport ==
  /\ pc = "pages"
  /\ rest = {} /\ todo = {}
  /\ pointer' = from
  /\ exported' = from
  /\ Exit
  /\ UNCHANGED <<chain, code, hashed, raw>>

------------------------------------------------------------------------------
\* Bug: the target is the latest block instead of the safe one.
BugTargetLatest ==
  /\ pc = "idle"
  /\ pointer # 0
  /\ pointer < head
  /\ from' = pointer
  /\ to' = head
  /\ Goto("blocks")
  /\ UNCHANGED <<chain, redis, rest, at, tx, todo>>

\* export-contract-state-delta.py: nothing to do unless the safe block is past the pointer,
\* and no conversion of a pointer that is not there.
StartDelta ==
  /\ pc = "idle"
  /\ pointer # 0
  /\ pointer < safe
  /\ from' = pointer
  /\ to' = safe
  /\ Goto("blocks")
  /\ UNCHANGED <<chain, redis, rest, at, tx, todo>>

\* Bug: the pointer is moved before the block's changes are saved.
BugPointerFirst ==
  /\ pc = "blocks"
  /\ from < to
  /\ from + 2 <= head
  /\ from' = from + 1
  /\ pointer' = from + 1
  /\ tx' = 0
  /\ todo' = {}
  /\ Goto("diffs")
  /\ UNCHANGED <<chain, code, hashed, raw, exported, to, rest, at>>

\* block_from is incremented, and the block after it is the one that is traced.
TraceBlock ==
  /\ pc = "blocks"
  /\ from < to
  /\ from + 2 <= head
  /\ from' = from + 1
  /\ tx' = 0
  /\ todo' = {}
  /\ Goto("diffs")
  /\ UNCHANGED <<chain, redis, to, rest, at>>

\* The answer of a node that does not have that block yet has no "result".
TraceFails ==
  /\ pc = "blocks"
  /\ from < to
  /\ from + 2 > head
  /\ Exit
  /\ UNCHANGED <<chain, redis>>

Traced == {n \in Txs : BlockOf[n] = from + 1}

\* The next diff in the block's order.
NextDiff(n) ==
  /\ pc = "diffs"
  /\ todo = {}
  /\ n \in Traced
  /\ tx < n
  /\ \A m \in Traced : tx < m => n <= m
  /\ tx' = n
  /\ todo' = {s \in Slots : <<n, s>> \in writes}
  /\ UNCHANGED <<chain, redis, pc, from, to, rest, at>>

SaveDiff(s) ==
  /\ pc = "diffs"
  /\ s \in todo
  /\ raw' = [raw EXCEPT ![s] = tx]
  /\ todo' = todo \ {s}
  /\ UNCHANGED <<chain, code, hashed, pointer, exported, pc, from, to, rest, at, tx>>

SavePointer ==
  /\ pc = "diffs"
  /\ todo = {}
  /\ \A n \in Traced : n <= tx
  /\ pointer' = from
  /\ Goto("blocks")
  /\ UNCHANGED <<chain, code, hashed, raw, exported, from, to, rest, at, tx, todo>>

FinishDelta ==
  /\ pc = "blocks"
  /\ from = to
  /\ Exit
  /\ UNCHANGED <<chain, redis>>

\* Whichever script runs is killed, or loses the node or Redis.
Die ==
  /\ pc # "idle"
  /\ Exit
  /\ UNCHANGED <<chain, redis>>

------------------------------------------------------------------------------
Init ==
  /\ writes \in SUBSET (Txs \X Slots)
  /\ safe = 1 /\ head = 1
  /\ code = FALSE
  /\ hashed = [s \in Slots |-> 0]
  /\ raw = [s \in Slots |-> 0]
  /\ pointer = 0 /\ exported = 0
  /\ pc = "idle"
  /\ from = 0 /\ to = 0 /\ at = 0 /\ tx = 0
  /\ rest = {} /\ todo = {}

Node == Import \/ MarkSafe

Export ==
  \/ SaveCode
  \/ ReadNumber
  \/ \E page \in SUBSET Slots : FetchPage(page)
  \/ \E s \in Slots, v \in Txs : SaveSlot(s, v)
  \/ FinishExport

Delta ==
  \/ StartDelta
  \/ TraceBlock
  \/ TraceFails
  \/ \E n \in Txs : NextDiff(n)
  \/ \E s \in Slots : SaveDiff(s)
  \/ SavePointer
  \/ FinishDelta

Next == Node \/ Export \/ Delta \/ Die

Spec == Init /\ [][Next]_vars

------------------------------------------------------------------------------
(***************************************************************************)
(* Properties.                                                             *)
(***************************************************************************)
\* The shape of the state. Among it: the pointer never passes the node's safe block, and
\* exists only after the code was saved.
TypeOK ==
  /\ writes \subseteq Txs \X Slots
  /\ safe \in Blocks /\ head \in Blocks /\ safe <= head
  /\ code \in BOOLEAN
  /\ hashed \in [Slots -> 0 .. MaxTx]
  /\ raw \in [Slots -> 0 .. MaxTx]
  /\ pointer \in 0 .. safe
  /\ exported \in 0 .. pointer
  /\ pointer # 0 => code
  /\ pc \in {"idle", "number", "pages", "blocks", "diffs"}
  /\ from \in 0 .. safe /\ to \in 0 .. safe /\ at \in 0 .. safe
  /\ tx \in 0 .. MaxTx
  /\ rest \subseteq Slots /\ todo \subseteq Slots

\* However often either script dies and is run again, and however the safe block moves
\* between the pages of an export, neither kind of key is behind what its script has done.
\* The export's hold at least the last value written before the block it is numbered with,
\* not that block's own; the delta's hold every change from the second block after the last
\* export to the one after the pointer (export-contract-state.py:32-38,
\* export-contract-state-delta.py:39-56).
NeverBehind ==
  \A s \in Slots, n \in Txs :
    <<n, s>> \in writes =>
      /\ BlockOf[n] < exported => hashed[s] >= n
      /\ BlockOf[n] \in exported + 2 .. pointer + 1 => raw[s] >= n

\* What Redis holds was the slot's value: under the export's keys before the safe block, under
\* the delta's not beyond the one after it, so a reorganisation can orphan one block's.
AtMostOneUnsafeBlock ==
  \A s \in Slots :
    /\ hashed[s] # 0 => <<hashed[s], s>> \in writes /\ BlockOf[hashed[s]] < safe
    /\ raw[s] # 0 => <<raw[s], s>> \in writes /\ BlockOf[raw[s]] <= safe + 1

------------------------------------------------------------------------------
\* export-contract-state-delta.py:10: it "picks up the last block indexed for the address,
\* and indexes the blocks since the last sync": the delta's keys have the changes of all
\* blocks after the export up to the pointer.
IndexedUpToPointer ==
  \A s \in Slots, n \in Txs :
    <<n, s>> \in writes /\ BlockOf[n] \in exported + 1 .. pointer => raw[s] >= n
=============================================================================
