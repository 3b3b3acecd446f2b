-------------------------- MODULE MemoryAgreement --------------------------
(***************************************************************************)
(* The memory of one frame, in evm.lua and in the reference, under the     *)
(* same opcodes with the same operands: the words and bytes that MLOAD,    *)
(* MSTORE and MSTORE8 move, MCOPY, the copies of calldata, code and return *)
(* data, what a call copies in and out, what KECCAK256, LOG, CREATE,       *)
(* RETURN and REVERT read, and MSIZE.                                      *)
(*                                                                         *)
(* evm.lua's memory is a table in which a missing index reads as 0         *)
(* everywhere; it is a function here, next to what MSIZE sees of the keys. *)
(* A wide word is a string, of which toNumber makes a double of the last   *)
(* bytes when it is stored; a short one is a double from the start.        *)
(* Lengths are cut by clamp_length.                                        *)
(***************************************************************************)
EXTENDS LuaDoubles, Sequences

CONSTANTS
  Base,           \* values of a byte, 256
  WordBytes,      \* bytes of a word, 32
  NumberBytes,    \* bytes of a word that is a number, and what toNumber keeps of a string, 7
  MAX_MEM_BYTES,  \* evm.lua's ceiling on a length, 4096
  LastPosition,   \* bound: the highest memory position that an operand reaches
  Offsets,        \* bound: operands that are positions
  Lengths,        \* bound: operands that are lengths
  Immediates,     \* what the program pushes, PUSH32 included
  Calldata, Code, ExtCode,  \* the bytes of the frame's data, of its code and of another account's
  Answers,        \* bytes that a callee may return
  MaxOps          \* bound on the length of the execution

Byte      == 0 .. Base - 1
Word      == 0 .. Base ^ WordBytes - 1
Positions == 0 .. LastPosition

ASSUME SizeAssumption ==
  /\ Base \in Nat \ {0, 1}
  /\ {NumberBytes, WordBytes, MAX_MEM_BYTES} \subseteq Nat \ {0}
  /\ NumberBytes <= WordBytes
  /\ {LastPosition, MaxOps} \subseteq Nat

\* Powers, as far as the widths of a word need them.
ASSUME PowerAssumption ==
  /\ Base ^ 0 = 1
  /\ \A n \in 0 .. WordBytes - 1 : Base ^ (n + 1) = Base * Base ^ n

ASSUME OperandAssumption ==
  /\ Offsets \subseteq Nat /\ Lengths \subseteq Nat
  /\ Immediates \subseteq Word
  /\ {Calldata, Code, ExtCode} \cup Answers \subseteq Seq(Byte)

VARIABLES
  memory,     \* state.memory: the bytes, 0 where the table has no entry
  size,       \* its highest index and one, which is what MSIZE finds
  rdata,      \* state.return_data
  word,       \* the word on top of evm.lua's stack
  number,     \* it is a Lua number, not a string
  evmMemory,  \* evm.memory
  evmRdata,   \* evm.return_data
  evmWord,    \* the word on top of the reference's stack
  read,       \* the last bytes handed out, to a hash, a log, an init frame, a callee or a caller
  halted,     \* RETURN, REVERT, or an error of the reference
  lost,       \* history: positions whose bytes evm.lua has cut or rounded
  wordLost,   \* history: the word was rounded, or made of such bytes
  spill,      \* history: the largest offset of an EXTCODECOPY of no bytes
  ops         \* how many opcodes were executed

lua     == <<memory, size, rdata, word, number>>
evm     == <<evmMemory, evmRdata, evmWord>>
history == <<lost, wordLost, spill>>
vars    == <<lua, evm, read, halted, history, ops>>

Larger(m, n) == IF m < n THEN n ELSE m
Smaller(m, n) == IF m < n THEN m ELSE n

BytesOf(v)  == [i \in 1 .. WordBytes |-> (v \div Base ^ (WordBytes - i)) % Base]

NumberOf(s) ==
  LET value[n \in 0 .. Len(s)] == IF n = 0 THEN 0 ELSE Base * value[n - 1] + s[n]
  IN  value[Len(s)]

Region(off, len) == off .. off + len - 1
------------------------------------------------------------------------------
(***************************************************************************)
(* evm.lua                                                                 *)
(***************************************************************************)
Kept(v) == v % Base ^ NumberBytes

\* What an opcode takes from the stack: a number as it is, a string's last bytes as a double,
\* which may be Base ^ NumberBytes itself.
ToNumber == IF number THEN word ELSE Double(Kept(word))

\* pushN and MLOAD: what is short enough becomes a double.
Pushes(v, short) == number' = short /\ word' = IF short THEN Double(v) ELSE v

Clamp(len) == Smaller(len, MAX_MEM_BYTES)

\* Bug: a buffer that counts from 1 is filled as if memory did, too.
BugReadFromOne(off, len) == [i \in 1 .. len |-> memory[off + i]]

\* read_memory_bytes and the loops that do the same.
LuaRead(off, len) == [i \in 1 .. len |-> memory[off + i - 1]]

\* An index beyond a byte table reads as 0.
At(d, i) == IF i \in DOMAIN d THEN d[i] ELSE 0
Padded(d, from, len) == [i \in 1 .. len |-> At(d, from + i)]

LuaStores(off, bytes) ==
  [p \in Positions |-> IF p - off + 1 \in DOMAIN bytes THEN bytes[p - off + 1] ELSE memory[p]]

SizeWith(off, len) == IF len = 0 THEN size ELSE Larger(size, off + len)

LuaWrites(off, bytes) ==
  /\ memory' = LuaStores(off, bytes)
  /\ size' = SizeWith(off, Len(bytes))

\* Bug: memory grows by whole words.
BugFillsWords(required) ==
  IF required = 0 THEN size ELSE Larger(size, required + WordBytes)

\* table.insert until #state.memory is the required size: # counts from 1 and memory from 0,
\* so the entry at the required size is made as well.
Filled(required) == IF required = 0 THEN size ELSE Larger(size, required + 1)

\* One byte after another, at the offsets that order lists.
Moved(dest, src, order) ==
  LET after[n \in 0 .. Len(order)] ==
        IF n = 0 THEN memory
        ELSE [after[n - 1] EXCEPT ![dest + order[n]] = after[n - 1][src + order[n]]]
  IN  after[Len(order)]

\* Bug: one direction for all, as memcpy.
BugCopiesForward(dest, src, len) == Moved(dest, src, [i \in 1 .. len |-> i - 1])

\* MCOPY's loops, forward or backward.
Copied(dest, src, len) ==
  Moved(dest, src, [i \in 1 .. len |-> IF dest <= src THEN i - 1 ELSE len - i])
------------------------------------------------------------------------------
(***************************************************************************)
(* The reference: memory_write, memory_read_bytes, buffer_read and         *)
(* calculate_gas_extend_memory, from how instructions/ uses them.          *)
(***************************************************************************)
\* Bug: memory grows to the last byte that is touched.
BugExact(n) == n

CeilWord(n) == ((n + WordBytes - 1) \div WordBytes) * WordBytes

Extended(off, len) ==
  LET wanted == IF len = 0 THEN 0 ELSE CeilWord(off + len)
  IN  evmMemory \o [i \in 1 .. Larger(wanted - Len(evmMemory), 0) |-> 0]

\* The larger of what two regions want.
ExtendedTwice(off1, len1, off2, len2) ==
  IF Len(Extended(off1, len1)) < Len(Extended(off2, len2)) THEN Extended(off2, len2)
  ELSE Extended(off1, len1)

Written(m, off, bytes) ==
  [i \in 1 .. Len(m) |-> IF i - off \in DOMAIN bytes THEN bytes[i - off] ELSE m[i]]

RefRead(m, off, len) == [i \in 1 .. len |-> m[off + i]]
------------------------------------------------------------------------------
\* A frame that runs, and operands within the bounds.
Opcode(off, len) ==
  /\ ~halted
  /\ ops < MaxOps
  /\ off + len <= LastPosition
  /\ ops' = ops + 1

\* Bytes the two sides agree on are no longer lost; bytes that only the reference wrote are.
Settled(luaRegion, evmRegion) == (lost \ luaRegion) \cup (evmRegion \ luaRegion)

\* PUSH of so many bytes that the word is a number, or of more.
Push(v, short) ==
  /\ Opcode(0, 0)
  /\ short => v < Base ^ NumberBytes
  /\ Pushes(v, short) /\ evmWord' = v
  /\ wordLost' = (short /\ Double(v) # v)
  /\ UNCHANGED <<memory, size, rdata, evmMemory, evmRdata, read, halted, lost, spill>>

MLoad(off) ==
  LET loaded == NumberOf(LuaRead(off, WordBytes))
      short == loaded < Base ^ NumberBytes
  IN
  /\ Opcode(off, WordBytes)
  /\ Pushes(loaded, short)
  /\ evmMemory' = Extended(off, WordBytes)
  /\ evmWord' = NumberOf(RefRead(Extended(off, WordBytes), off, WordBytes))
  /\ wordLost' = (Region(off, WordBytes) \cap lost # {} \/ (short /\ Double(loaded) # loaded))
  /\ UNCHANGED <<memory, size, rdata, evmRdata, read, halted, lost, spill>>

\* The last bytes of the word are not the reference's: they were lost, or no double holds them.
Inexact == wordLost \/ (~number /\ Double(Kept(word)) # Kept(word))

MStore(off) ==
  LET region == Region(off, WordBytes) IN
  /\ Opcode(off, WordBytes)
  /\ LuaWrites(off, BytesOf(ToNumber))
  /\ evmMemory' = Written(Extended(off, WordBytes), off, BytesOf(evmWord))
  /\ lost' = CASE Inexact -> lost \cup region
               [] ~Inexact /\ word # ToNumber ->
                    (lost \ region) \cup Region(off, WordBytes - NumberBytes)
               [] OTHER -> lost \ region
  /\ UNCHANGED <<rdata, word, number, evmRdata, evmWord, read, halted, wordLost, spill>>

MStore8(off) ==
  /\ Opcode(off, 1)
  /\ LuaWrites(off, <<ToNumber % Base>>)
  /\ evmMemory' = Written(Extended(off, 1), off, <<evmWord % Base>>)
  /\ lost' = IF Inexact THEN lost \cup {off} ELSE lost \ {off}
  /\ UNCHANGED <<rdata, word, number, evmRdata, evmWord, read, halted, wordLost, spill>>

\* evm.lua returns at once from a copy of nothing, and fills memory up to either region's end.
MCopy(dest, src, len) ==
  /\ Opcode(Larger(dest, src), len)
  /\ memory' = Copied(dest, src, Clamp(len))
  /\ size' = IF len = 0 THEN size ELSE Filled(Larger(src, dest) + Clamp(len))
  /\ LET m == ExtendedTwice(src, len, dest, len)
     IN  evmMemory' = Written(m, dest, RefRead(m, src, len))
  /\ lost' = Settled(Region(dest, Clamp(len)), Region(dest, len))
               \cup {dest + i - src : i \in lost \cap Region(src, Clamp(len))}
  /\ UNCHANGED <<rdata, word, number, evmRdata, evmWord, read, halted, wordLost, spill>>

\* The copies of d, padded with zeros; grown is evm.lua's new size.
CopyIn(d, dest, from, len, grown) ==
  /\ Opcode(dest, len)
  /\ memory' = LuaStores(dest, Padded(d, from, Clamp(len)))
  /\ size' = grown
  /\ evmMemory' = Written(Extended(dest, len), dest, Padded(d, from, len))
  /\ lost' = Settled(Region(dest, Clamp(len)), Region(dest, len))
  /\ UNCHANGED <<rdata, word, number, evmRdata, evmWord, read, halted, wordLost>>

CallDataCopy(dest, from, len) ==
  CopyIn(Calldata, dest, from, len, SizeWith(dest, Clamp(len))) /\ UNCHANGED spill

CodeCopy(dest, from, len) ==
  CopyIn(Code, dest, from, len, SizeWith(dest, Clamp(len))) /\ UNCHANGED spill

\* EXTCODECOPY fills memory first, also for a copy of nothing.
ExtCodeCopy(dest, from, len) ==
  /\ CopyIn(ExtCode, dest, from, len, Filled(dest + Clamp(len)))
  /\ spill' = IF len = 0 THEN Larger(spill, dest) ELSE spill

\* CALLDATALOAD adds up a double. Bound: one that is exact at every step.
CallDataLoad(from) ==
  LET loaded == NumberOf(Padded(Calldata, from, WordBytes)) IN
  /\ Opcode(0, 0)
  /\ loaded <= MaxExact
  /\ word' = loaded /\ number' = TRUE
  /\ evmWord' = loaded
  /\ wordLost' = FALSE
  /\ UNCHANGED <<memory, size, rdata, evmMemory, evmRdata, read, halted, lost, spill>>

\* Reading beyond the buffer is padded by evm.lua and an error for the reference.
ReturnDataCopy(dest, from, len) ==
  /\ Opcode(dest, len)
  /\ LuaWrites(dest, Padded(rdata, from, Clamp(len)))
  /\ IF from + len > Len(evmRdata)
       THEN halted' = TRUE /\ UNCHANGED <<evmMemory, lost>>
       ELSE /\ evmMemory' = Written(Extended(dest, len), dest, SubSeq(evmRdata, from + 1, from + len))
            /\ lost' = Settled(Region(dest, Clamp(len)), Region(dest, len))
                         \cup {dest + i : i \in {j \in 0 .. len - 1 : from + j >= Len(rdata)}}
            /\ UNCHANGED halted
  /\ UNCHANGED <<rdata, word, number, evmRdata, evmWord, read, wordLost, spill>>

HandOut(off, luaLen, len, m) ==
  read' = [off |-> off, lost |-> lost, lua |-> LuaRead(off, luaLen), evm |-> RefRead(m, off, len)]

\* The CALL family: arguments out, the callee answers d, and its first bytes come in. The
\* callee's own RETURN has cut what it answers.
Call(argsOff, argsLen, retOff, retLen, d) ==
  LET cut  == SubSeq(d, 1, Clamp(Len(d)))
      m    == ExtendedTwice(argsOff, argsLen, retOff, retLen)
      luaN == Smaller(retLen, Len(cut))
      evmN == Smaller(retLen, Len(d))
  IN
  /\ Opcode(argsOff, argsLen)
  /\ retOff + retLen <= LastPosition
  /\ HandOut(argsOff, argsLen, argsLen, m)
  /\ rdata' = cut /\ evmRdata' = d
  /\ LuaWrites(retOff, SubSeq(cut, 1, luaN))
  /\ evmMemory' = Written(m, retOff, SubSeq(d, 1, evmN))
  /\ lost' = Settled(Region(retOff, luaN), Region(retOff, evmN))
  /\ UNCHANGED <<word, number, evmWord, halted, wordLost, spill>>

\* KECCAK256, LOG0 to LOG4 and the init code of CREATE, which go on, and RETURN and REVERT.
Consume(off, len, halts) ==
  /\ Opcode(off, len)
  /\ evmMemory' = Extended(off, len)
  /\ HandOut(off, Clamp(len), len, Extended(off, len))
  /\ halted' = halts
  /\ UNCHANGED <<lua, evmRdata, evmWord, history>>

Init ==
  /\ memory = [p \in Positions |-> 0]
  /\ size = 0
  /\ rdata = <<>> /\ evmRdata = <<>>
  /\ word = 0 /\ number = TRUE /\ evmWord = 0
  /\ evmMemory = <<>>
  /\ read = [off |-> 0, lost |-> {}, lua |-> <<>>, evm |-> <<>>]
  /\ halted = FALSE
  /\ lost = {} /\ wordLost = FALSE /\ spill = 0
  /\ ops = 0

Next ==
  \/ \E v \in Immediates, short \in BOOLEAN : Push(v, short)
  \/ \E off \in Offsets : MLoad(off) \/ MStore(off) \/ MStore8(off)
  \/ \E from \in Offsets : CallDataLoad(from)
  \/ \E dest, src \in Offsets, len \in Lengths :
       \/ MCopy(dest, src, len)
       \/ ReturnDataCopy(dest, src, len)
       \/ CallDataCopy(dest, src, len)
       \/ CodeCopy(dest, src, len)
       \/ ExtCodeCopy(dest, src, len)
  \/ \E off1, off2 \in Offsets, len1, len2 \in Lengths, d \in Answers : Call(off1, len1, off2, len2, d)
  \/ \E off \in Offsets, len \in Lengths, halts \in BOOLEAN : Consume(off, len, halts)

Spec == Init /\ [][Next]_vars
------------------------------------------------------------------------------
(***************************************************************************)
(* Properties.                                                             *)
(***************************************************************************)
RefAt(p) == IF p + 1 \in DOMAIN evmMemory THEN evmMemory[p + 1] ELSE 0

\* The shape of both memories; the reference's is a whole number of words.
TypeOK ==
  /\ memory \in [Positions -> Byte]
  /\ size \in 0 .. LastPosition + 1
  /\ evmMemory \in Seq(Byte) /\ Len(evmMemory) % WordBytes = 0
  /\ word \in Nat /\ evmWord \in Word
  /\ rdata \in Seq(Byte) /\ evmRdata \in Seq(Byte)
  /\ read \in [off : Nat, lost : SUBSET Positions, lua : Seq(Byte), evm : Seq(Byte)]
  /\ lost \subseteq Positions
  /\ {number, halted, wordLost} \subseteq BOOLEAN
  /\ spill \in Nat /\ ops \in 0 .. MaxOps

\* Whatever stores, copies and calls overlap or follow each other in a frame, every byte of
\* memory is the reference's, but for those where toNumber cut a wide word, a double rounded a
\* word beyond 2^53 or clamp_length cut a long copy, and those that were moved from there
\* (evm.lua:95-109, 500-513, 1156-1291, 1740-1742).  So is a word that MLOAD made of such
\* bytes, unless a double rounded it.
MemoryAgrees ==
  ~halted =>
  /\ \A p \in Positions \ lost : memory[p] = RefAt(p)
  /\ ~wordLost => word = evmWord

\* What a hash, a log, an init frame, a callee or the caller is given is what the reference
\* gives, cut at the ceiling, but for bytes that were lost by then (evm.lua:500, 921, 1404).
HandedOutAgrees ==
  /\ Len(read.lua) \in {Len(read.evm), Clamp(Len(read.evm))}
  /\ \A i \in DOMAIN read.lua : read.off + i - 1 \notin read.lost => read.lua[i] = read.evm[i]

\* MSIZE is at most one more than the reference's: the table's length counts from 1 and its
\* indices from 0. An EXTCODECOPY of no bytes grows evm.lua's memory only (evm.lua:1301-1312,
\* 1270, 1478).
MsizeWithinOne == ~halted => size <= Larger(Len(evmMemory), spill) + 1
=============================================================================
