--------------------------- MODULE StateExportProofs ---------------------------
(***************************************************************************)
(* Proofs about StateExport, for every chain, every set of slots and every *)
(* schedule of imports, runs and deaths.                                   *)
(***************************************************************************)
EXTENDS StateExport, TLAPS

\* Where the running script is: the delta's block is the one after the pointer, and the
\* export never started below it; its pages are at most a block older than its number.
Progress ==
  /\ pc = "blocks" => pointer # 0 /\ from = pointer /\ from <= to
  /\ pc = "diffs" => /\ pointer # 0 /\ from = pointer + 1 /\ from <= to
                     /\ tx # 0 => tx \in Traced
                     /\ todo # {} => tx # 0
                     /\ \A s \in todo : <<tx, s>> \in writes
  /\ pc = "pages" => /\ from # 0 /\ pointer <= from
                     /\ todo # {} => from <= at + 1 /\ at + 1 <= safe
  /\ pc \in {"number", "pages"} => code

\* The diffs of the traced block that are already saved.
DiffsSaved ==
  pc = "diffs" =>
    \A s \in Slots, n \in Traced :
      <<n, s>> \in writes /\ n <= tx /\ (n = tx => s \notin todo) => raw[s] >= n

\* The pages of the export that are already saved.
PagesSaved ==
  pc = "pages" =>
    \A s \in Slots \ (rest \cup todo), n \in Txs :
      <<n, s>> \in writes /\ BlockOf[n] < from => hashed[s] >= n

Inv == Progress /\ DiffsSaved /\ PagesSaved /\ NeverBehind /\ AtMostOneUnsafeBlock

------------------------------------------------------------------------------
\* The state keeps its shape, and each script its bookkeeping.
LEMMA NextTypeOK ==
  ASSUME TypeOK, Progress, [Next]_vars
  PROVE  TypeOK' /\ Progress'
<1> USE ChainAssumption DEF Blocks, Txs
<1>1. CASE Import
  BY <1>1 DEF Import, redis, script, TypeOK, Progress, Traced
<1>2. CASE MarkSafe
  BY <1>2 DEF MarkSafe, redis, script, TypeOK, Progress, Traced
<1>3. CASE SaveCode
  BY <1>3 DEF SaveCode, Goto, chain, TypeOK, Progress, Traced
<1>4. CASE ReadNumber
  BY <1>4 DEF ReadNumber, Goto, chain, redis, TypeOK, Progress, Traced
<1>5. ASSUME NEW page \in SUBSET Slots, FetchPage(page) PROVE TypeOK' /\ Progress'
  BY <1>5 DEF FetchPage, chain, redis, TypeOK, Progress, Traced
<1>6. ASSUME NEW s \in Slots, NEW v \in Txs, SaveSlot(s, v) PROVE TypeOK' /\ Progress'
  BY <1>6 DEF SaveSlot, chain, TypeOK, Progress, Traced
<1>7. CASE FinishExport
  BY <1>7 DEF FinishExport, Exit, chain, TypeOK, Progress, Traced
<1>8. CASE StartDelta
  BY <1>8 DEF StartDelta, Goto, chain, redis, TypeOK, Progress, Traced
<1>9. CASE TraceBlock
  BY <1>9 DEF TraceBlock, Goto, chain, redis, TypeOK, Progress, Traced
<1>10. ASSUME Exit, UNCHANGED <<chain, redis>> PROVE TypeOK' /\ Progress'
  BY <1>10 DEF Exit, chain, redis, TypeOK, Progress, Traced
<1>11. CASE TraceFails \/ FinishDelta \/ Die
  BY <1>10, <1>11 DEF TraceFails, FinishDelta, Die
<1>12. ASSUME NEW n \in Txs, NextDiff(n) PROVE TypeOK' /\ Progress'
  BY <1>12 DEF NextDiff, chain, redis, TypeOK, Progress, Traced
<1>13. ASSUME NEW s \in Slots, SaveDiff(s) PROVE TypeOK' /\ Progress'
  BY <1>13 DEF SaveDiff, chain, TypeOK, Progress, Traced
<1>14. CASE SavePointer
  BY <1>14 DEF SavePointer, Goto, chain, TypeOK, Progress, Traced
<1>15. CASE UNCHANGED vars
  BY <1>15 DEF vars, chain, redis, script, TypeOK, Progress, Traced
<1> QED
  BY <1>1, <1>2, <1>3, <1>4, <1>5, <1>6, <1>7, <1>8, <1>9, <1>11, <1>12, <1>13, <1>14, <1>15
  DEF Next, Node, Export, Delta

\* The pointer never passes the safe block and exists only after the code was saved.
THEOREM ExportTypeCorrect == Spec => []TypeOK
<1>1. Init => TypeOK
  <2> SUFFICES ASSUME Init PROVE TypeOK
    OBVIOUS
  <2>1. 0 \in 0 .. MaxTx /\ 0 \in 0 .. safe /\ 1 \in Blocks
    BY ChainAssumption DEF Init, Blocks
  <2>2. hashed \in [Slots -> 0 .. MaxTx] /\ raw \in [Slots -> 0 .. MaxTx]
    BY <2>1 DEF Init
  <2>3. /\ writes \subseteq Txs \X Slots /\ code \in BOOLEAN
        /\ pointer # 0 => code
        /\ pc \in {"idle", "number", "pages", "blocks", "diffs"}
        /\ rest \subseteq Slots /\ todo \subseteq Slots
    BY DEF Init
  <2>5. exported \in 0 .. pointer
    BY DEF Init
  <2>4. safe \in Blocks /\ head \in Blocks /\ safe <= head
    BY <2>1 DEF Init
  <2> QED
    BY <2>1, <2>2, <2>3, <2>4, <2>5 DEF Init, TypeOK
<1>2. Init => Progress
  BY DEF Init, Progress
<1>3. TypeOK /\ Progress /\ [Next]_vars => TypeOK' /\ Progress'
  BY NextTypeOK
<1> QED
  BY <1>1, <1>2, <1>3, PTL DEF Spec

------------------------------------------------------------------------------
\* One transaction is not before another of an earlier block.
LEMMA LaterBlockLaterTx ==
  ASSUME NEW m \in Txs, NEW n \in Txs, BlockOf[n] < BlockOf[m]
  PROVE  n < m
<1> USE DEF Txs, Blocks
<1>1. m \in Nat /\ n \in Nat /\ BlockOf[m] \in Nat /\ BlockOf[n] \in Nat
  BY ChainAssumption
<1>2. m = n \/ m < n \/ n < m
  BY <1>1
<1>3. m < n => BlockOf[m] <= BlockOf[n]
  BY ChainAssumption
<1> QED
  BY <1>1, <1>2, <1>3

\* Steps that save nothing: the slots and the pointer stay, and the scripts' own claims are
\* carried over or start empty.
LEMMA QuietStep ==
  ASSUME TypeOK, Inv, safe' >= safe, safe' \in Nat, UNCHANGED <<writes, redis>>
  PROVE  NeverBehind' /\ AtMostOneUnsafeBlock'
<1>1. NeverBehind'
  BY DEF Inv, NeverBehind, redis
<1>2. ASSUME NEW v \in Txs PROVE (BlockOf[v] < safe => BlockOf[v] < safe')
                                 /\ (BlockOf[v] <= safe + 1 => BlockOf[v] <= safe' + 1)
  BY <1>2, ChainAssumption DEF TypeOK, Blocks
<1>3. AtMostOneUnsafeBlock'
  BY <1>2 DEF Inv, AtMostOneUnsafeBlock, redis, TypeOK
<1> QED
  BY <1>1, <1>3

\* A page's slot gets its value at the page's block, which is at most one older than the
\* export's number.
LEMMA SaveSlotInv ==
  ASSUME TypeOK, Inv, NEW s \in Slots, NEW v \in Txs, SaveSlot(s, v)
  PROVE  PagesSaved' /\ NeverBehind' /\ AtMostOneUnsafeBlock'
<1> USE DEF Txs, Blocks
<1>1. /\ hashed' = [hashed EXCEPT ![s] = v] /\ hashed \in [Slots -> 0 .. MaxTx]
      /\ <<v, s>> \in writes /\ BlockOf[v] <= at
      /\ \A n \in Txs : <<n, s>> \in writes /\ BlockOf[n] <= at => n <= v
      /\ UNCHANGED <<writes, safe, raw, pointer, exported, from, rest, at, pc>>
  BY DEF SaveSlot, IsValueAt, chain, TypeOK
<1>2. /\ pc = "pages" /\ from <= at + 1 /\ exported <= from /\ at + 1 <= safe
      /\ from \in Nat /\ at \in Nat /\ exported \in Nat /\ safe \in Nat
  BY ChainAssumption DEF SaveSlot, Inv, Progress, TypeOK
<1>3. ASSUME NEW t \in Slots, t # s PROVE hashed'[t] = hashed[t]
  BY <1>1, <1>3
<1>4. hashed'[s] = v
  BY <1>1
<1>5. \A n \in Txs : BlockOf[n] \in Nat /\ n \in Nat
  BY ChainAssumption
<1>6. PagesSaved'
  <2> SUFFICES ASSUME NEW t \in Slots \ (rest' \cup todo'), NEW n \in Txs,
                      <<n, t>> \in writes, BlockOf[n] < from
               PROVE  hashed'[t] >= n
    BY <1>1 DEF PagesSaved
  <2>1. CASE t = s
    <3>1. BlockOf[n] <= at
      BY <1>2, <1>5
    <3> QED  BY <2>1, <3>1, <1>1, <1>4, <1>5
  <2>2. CASE t # s
    <3>1. t \in Slots \ (rest \cup todo)
      BY <2>2 DEF SaveSlot
    <3> QED  BY <2>2, <3>1, <1>2, <1>3 DEF Inv, PagesSaved
  <2> QED  BY <2>1, <2>2
<1>7. NeverBehind'
  <2> SUFFICES ASSUME NEW t \in Slots, NEW n \in Txs, <<n, t>> \in writes, BlockOf[n] < exported
               PROVE  hashed'[t] >= n
    BY <1>1 DEF Inv, NeverBehind
  <2>1. CASE t = s
    <3>1. BlockOf[n] <= at
      BY <1>2, <1>5
    <3> QED  BY <2>1, <3>1, <1>1, <1>4, <1>5
  <2>2. CASE t # s
    BY <2>2, <1>3 DEF Inv, NeverBehind
  <2> QED  BY <2>1, <2>2
<1>8. AtMostOneUnsafeBlock'
  <2> SUFFICES ASSUME NEW t \in Slots, hashed'[t] # 0
               PROVE  <<hashed'[t], t>> \in writes /\ BlockOf[hashed'[t]] < safe
    BY <1>1 DEF Inv, AtMostOneUnsafeBlock
  <2>1. CASE t = s
    BY <2>1, <1>1, <1>2, <1>4, <1>5
  <2>2. CASE t # s
    BY <2>2, <1>3 DEF Inv, AtMostOneUnsafeBlock
  <2> QED  BY <2>1, <2>2
<1> QED  BY <1>6, <1>7, <1>8

\* A diff's slot gets the diff's transaction, which is later than every block up to the
\* one after the pointer.
LEMMA SaveDiffInv ==
  ASSUME TypeOK, Inv, NEW s \in Slots, SaveDiff(s)
  PROVE  DiffsSaved' /\ NeverBehind' /\ AtMostOneUnsafeBlock'
<1> USE DEF Txs, Blocks
<1>1. /\ raw' = [raw EXCEPT ![s] = tx] /\ raw \in [Slots -> 0 .. MaxTx]
      /\ UNCHANGED <<writes, safe, hashed, pointer, exported, from, tx, pc>>
      /\ todo' = todo \ {s} /\ s \in todo /\ pc = "diffs"
  BY DEF SaveDiff, chain, TypeOK
<1>2. /\ tx \in Txs /\ BlockOf[tx] = from + 1 /\ <<tx, s>> \in writes
      /\ from = pointer + 1 /\ from <= safe
      /\ from \in Nat /\ pointer \in Nat /\ safe \in Nat
  BY <1>1, ChainAssumption DEF Inv, Progress, TypeOK, Traced
<1>3. ASSUME NEW t \in Slots, t # s PROVE raw'[t] = raw[t]
  BY <1>1, <1>3
<1>4. raw'[s] = tx
  BY <1>1
<1>5. \A n \in Txs : BlockOf[n] \in Nat /\ n \in Nat
  BY ChainAssumption
<1>6. DiffsSaved'
  <2> SUFFICES ASSUME NEW t \in Slots, NEW n \in Traced, <<n, t>> \in writes, n <= tx,
                      n = tx => t \notin todo'
               PROVE  raw'[t] >= n
    BY <1>1 DEF DiffsSaved, Traced
  <2>1. CASE t = s
    BY <2>1, <1>2, <1>4, <1>5 DEF Traced
  <2>2. CASE t # s
    BY <2>2, <1>1, <1>3 DEF Inv, DiffsSaved
  <2> QED  BY <2>1, <2>2
<1>7. NeverBehind'
  <2> SUFFICES ASSUME NEW t \in Slots, NEW n \in Txs, <<n, t>> \in writes,
                      BlockOf[n] \in exported + 2 .. pointer + 1
               PROVE  raw'[t] >= n
    BY <1>1 DEF Inv, NeverBehind
  <2>1. CASE t = s
    <3>1. BlockOf[n] < BlockOf[tx]
      BY <1>2, <1>5
    <3>2. n < tx
      BY <3>1, <1>2, LaterBlockLaterTx
    <3> QED  BY <2>1, <3>2, <1>2, <1>4, <1>5
  <2>2. CASE t # s
    BY <2>2, <1>3 DEF Inv, NeverBehind
  <2> QED  BY <2>1, <2>2
<1>8. AtMostOneUnsafeBlock'
  <2> SUFFICES ASSUME NEW t \in Slots, raw'[t] # 0
               PROVE  <<raw'[t], t>> \in writes /\ BlockOf[raw'[t]] <= safe + 1
    BY <1>1 DEF Inv, AtMostOneUnsafeBlock
  <2>1. CASE t = s
    BY <2>1, <1>2, <1>4
  <2>2. CASE t # s
    BY <2>2, <1>3 DEF Inv, AtMostOneUnsafeBlock
  <2> QED  BY <2>1, <2>2
<1> QED  BY <1>6, <1>7, <1>8

\* The export's pointer: every slot's page is saved, and the delta starts over.
LEMMA FinishExportInv ==
  ASSUME TypeOK, Inv, FinishExport
  PROVE  NeverBehind' /\ AtMostOneUnsafeBlock'
<1> USE DEF Txs, Blocks
<1>1. /\ pointer' = from /\ exported' = from /\ pc = "pages" /\ rest = {} /\ todo = {}
      /\ UNCHANGED <<writes, safe, hashed, raw>>
  BY DEF FinishExport, chain
<1>2. NeverBehind'
  <2> SUFFICES ASSUME NEW t \in Slots, NEW n \in Txs, <<n, t>> \in writes
               PROVE  /\ BlockOf[n] < from => hashed[t] >= n
                      /\ BlockOf[n] \in from + 2 .. from + 1 => raw[t] >= n
    BY <1>1 DEF NeverBehind
  <2>1. BlockOf[n] \notin from + 2 .. from + 1
    BY ChainAssumption DEF TypeOK
  <2> QED  BY <2>1, <1>1 DEF Inv, PagesSaved
<1>3. AtMostOneUnsafeBlock'
  BY <1>1 DEF Inv, AtMostOneUnsafeBlock
<1> QED  BY <1>2, <1>3

\* The delta's pointer: the traced block's diffs are all saved.
LEMMA SavePointerInv ==
  ASSUME TypeOK, Inv, SavePointer
  PROVE  NeverBehind' /\ AtMostOneUnsafeBlock'
<1> USE DEF Txs, Blocks
<1>1. /\ pointer' = from /\ pc = "diffs" /\ todo = {} /\ \A n \in Traced : n <= tx
      /\ UNCHANGED <<writes, safe, hashed, raw, exported>>
  BY DEF SavePointer, chain
<1>2. from = pointer + 1 /\ pointer # 0 /\ pointer \in Nat /\ exported \in Nat
  BY <1>1 DEF Inv, Progress, TypeOK
<1>3. NeverBehind'
  <2> SUFFICES ASSUME NEW t \in Slots, NEW n \in Txs, <<n, t>> \in writes,
                      BlockOf[n] \in exported + 2 .. from + 1
               PROVE  raw[t] >= n
    BY <1>1 DEF Inv, NeverBehind
  <2>1. BlockOf[n] \in Nat
    BY ChainAssumption
  <2>2. CASE BlockOf[n] = from + 1
    BY <2>2, <1>1 DEF Inv, DiffsSaved, Traced
  <2>3. CASE BlockOf[n] # from + 1
    <3>1. BlockOf[n] \in exported + 2 .. pointer + 1
      BY <2>1, <2>3, <1>2
    <3> QED  BY <3>1 DEF Inv, NeverBehind
  <2> QED  BY <2>2, <2>3
<1>4. AtMostOneUnsafeBlock'
  BY <1>1 DEF Inv, AtMostOneUnsafeBlock
<1> QED  BY <1>3, <1>4

\* The scripts' claims about what they have saved, over the steps that save nothing.
LEMMA ClaimsStay ==
  ASSUME TypeOK, Inv, UNCHANGED <<writes, hashed, raw, pc, from, rest, tx, todo>>
  PROVE  DiffsSaved' /\ PagesSaved'
BY DEF Inv, DiffsSaved, PagesSaved, Traced

\* Every step keeps the invariant.
LEMMA NextInv ==
  ASSUME TypeOK, Inv, [Next]_vars
  PROVE  Inv'
<1>0. Progress'
  BY NextTypeOK DEF Inv
<1>1. safe \in Nat /\ safe + 1 \in Nat /\ safe + 1 >= safe
  BY ChainAssumption DEF TypeOK, Blocks
<1>2. CASE Import \/ MarkSafe
  <2>1. UNCHANGED <<writes, redis, script>> /\ safe' \in {safe, safe + 1}
    BY <1>2 DEF Import, MarkSafe
  <2>2. DiffsSaved' /\ PagesSaved'
    BY <2>1, ClaimsStay DEF redis, script
  <2> QED  BY <2>1, <2>2, <1>0, <1>1, QuietStep DEF Inv
<1>3. ASSUME UNCHANGED <<chain, redis>>, DiffsSaved', PagesSaved' PROVE Inv'
  BY <1>0, <1>1, <1>3, QuietStep DEF Inv, chain
<1>4. CASE SaveCode
  <2>1. UNCHANGED <<writes, safe, hashed, raw, pointer, exported>> /\ pc' = "number"
    BY <1>4 DEF SaveCode, Goto, chain
  <2> QED  BY <2>1, <1>0 DEF Inv, DiffsSaved, PagesSaved, NeverBehind, AtMostOneUnsafeBlock
<1>5. CASE ReadNumber
  <2>1. DiffsSaved' /\ PagesSaved'
    BY <1>5 DEF ReadNumber, Goto, DiffsSaved, PagesSaved
  <2> QED  BY <1>3, <1>5, <2>1 DEF ReadNumber
<1>6. ASSUME NEW page \in SUBSET Slots, FetchPage(page) PROVE Inv'
  <2>1. PagesSaved'
    <3> SUFFICES ASSUME NEW t \in Slots \ (rest' \cup todo'), NEW n \in Txs,
                        <<n, t>> \in writes, BlockOf[n] < from
                 PROVE  hashed[t] >= n
      BY <1>6 DEF FetchPage, chain, redis, PagesSaved
    <3>1. BlockOf[n] < safe
      BY ChainAssumption DEF TypeOK, Txs, Blocks
    <3>2. t \notin page
      BY <3>1, <1>6 DEF FetchPage
    <3>3. t \in Slots \ (rest \cup todo) /\ pc = "pages"
      BY <3>2, <1>6 DEF FetchPage
    <3> QED  BY <3>3 DEF Inv, PagesSaved
  <2>2. DiffsSaved'
    BY <1>6 DEF FetchPage, DiffsSaved
  <2> QED  BY <1>3, <1>6, <2>1, <2>2 DEF FetchPage
<1>7. ASSUME NEW s \in Slots, NEW v \in Txs, SaveSlot(s, v) PROVE Inv'
  <2>1. DiffsSaved'
    BY <1>7 DEF SaveSlot, DiffsSaved
  <2> QED  BY <1>0, <1>7, <2>1, SaveSlotInv DEF Inv
<1>8. CASE FinishExport
  <2>1. DiffsSaved' /\ PagesSaved'
    BY <1>8 DEF FinishExport, Exit, DiffsSaved, PagesSaved
  <2> QED  BY <1>0, <1>8, <2>1, FinishExportInv DEF Inv
<1>9. CASE StartDelta
  <2>1. DiffsSaved' /\ PagesSaved'
    BY <1>9 DEF StartDelta, Goto, DiffsSaved, PagesSaved
  <2> QED  BY <1>3, <1>9, <2>1 DEF StartDelta
<1>10. CASE TraceBlock
  <2>1. tx' = 0 /\ pc' = "diffs"
    BY <1>10 DEF TraceBlock, Goto
  <2>2. DiffsSaved' /\ PagesSaved'
    BY <2>1 DEF DiffsSaved, PagesSaved, Traced, Txs
  <2> QED  BY <1>3, <1>10, <2>2 DEF TraceBlock
<1>11. CASE TraceFails \/ FinishDelta \/ Die
  <2>1. Exit /\ UNCHANGED <<chain, redis>>
    BY <1>11 DEF TraceFails, FinishDelta, Die
  <2>2. DiffsSaved' /\ PagesSaved'
    BY <2>1 DEF Exit, DiffsSaved, PagesSaved
  <2> QED  BY <1>3, <2>1, <2>2
<1>12. ASSUME NEW n \in Txs, NextDiff(n) PROVE Inv'
  <2>1. /\ pc = "diffs" /\ todo = {} /\ n \in Traced /\ tx < n /\ tx' = n
        /\ \A m \in Traced : tx < m => n <= m
        /\ todo' = {s \in Slots : <<n, s>> \in writes}
        /\ UNCHANGED <<chain, redis, pc, from>>
    BY <1>12 DEF NextDiff
  <2>2. DiffsSaved'
    <3> SUFFICES ASSUME NEW s \in Slots, NEW m \in Traced, <<m, s>> \in writes, m <= n,
                        m = n => s \notin todo'
                 PROVE  raw[s] >= m
      BY <2>1 DEF DiffsSaved, Traced, chain, redis
    <3>1. m # n
      BY <2>1
    <3>2. m \in Nat /\ n \in Nat /\ tx \in Nat
      BY DEF Traced, Txs, TypeOK
    <3>3. m <= tx
      BY <3>1, <3>2, <2>1
    <3> QED  BY <3>3, <2>1 DEF Inv, DiffsSaved
  <2>3. PagesSaved'
    BY <2>1 DEF PagesSaved
  <2> QED  BY <1>3, <2>1, <2>2, <2>3
<1>13. ASSUME NEW s \in Slots, SaveDiff(s) PROVE Inv'
  <2>1. PagesSaved'
    BY <1>13 DEF SaveDiff, PagesSaved
  <2> QED  BY <1>0, <1>13, <2>1, SaveDiffInv DEF Inv
<1>14. CASE SavePointer
  <2>1. DiffsSaved' /\ PagesSaved'
    BY <1>14 DEF SavePointer, Goto, DiffsSaved, PagesSaved
  <2> QED  BY <1>0, <1>14, <2>1, SavePointerInv DEF Inv
<1>15. CASE UNCHANGED vars
  <2>1. DiffsSaved' /\ PagesSaved'
    BY <1>15, ClaimsStay DEF vars, chain, redis, script
  <2> QED  BY <1>3, <1>15, <2>1 DEF vars
<1> QED
  BY <1>2, <1>4, <1>5, <1>6, <1>7, <1>8, <1>9, <1>10, <1>11, <1>12, <1>13, <1>14, <1>15
  DEF Next, Node, Export, Delta

\* The invariant holds throughout.
LEMMA InvHolds == Spec => []Inv
<1>1. Init => Inv
  <2> SUFFICES ASSUME Init PROVE Inv
    OBVIOUS
  <2>1. \A n \in Txs : BlockOf[n] \in Nat
    BY ChainAssumption DEF Txs, Blocks
  <2>2. NeverBehind
    BY <2>1 DEF Init, NeverBehind
  <2>3. Progress /\ DiffsSaved /\ PagesSaved /\ AtMostOneUnsafeBlock
    BY DEF Init, Progress, DiffsSaved, PagesSaved, AtMostOneUnsafeBlock
  <2> QED
    BY <2>2, <2>3 DEF Inv
<1>2. TypeOK /\ Inv /\ [Next]_vars => Inv'
  BY NextInv
<1> QED
  BY <1>1, <1>2, ExportTypeCorrect, PTL DEF Spec

\* No death of either script, and no movement of the safe block between two pages, loses what
\* was there before the export's block or the changes of a block that some run traces.
THEOREM DeltaNeverBehind == Spec => []NeverBehind
<1>1. Inv => NeverBehind
  BY DEF Inv
<1> QED
  BY <1>1, InvHolds, PTL

\* Redis never holds a value from beyond the block after the safe one.
THEOREM DeltaHardlyAhead == Spec => []AtMostOneUnsafeBlock
<1>1. Inv => AtMostOneUnsafeBlock
  BY DEF Inv
<1> QED
  BY <1>1, InvHolds, PTL
=============================================================================
