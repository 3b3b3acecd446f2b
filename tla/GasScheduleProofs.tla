-------------------------- MODULE GasScheduleProofs --------------------------
(***************************************************************************)
(* Proofs about GasSchedule, for every ceiling, cap, program and set of    *)
(* integer operands, negative ones included.                               *)
(***************************************************************************)
EXTENDS GasSchedule, FiniteSetTheorems, SequenceTheorems, TLAPS

\* A program without the handlers whose loop is not bounded by what they are charged for.
PaidProgram == Executed \cap Unpaid = {}

\* The opcodes that dynamic_gas bills for a length.
Billed == Hashing \cup Copies \cup {"EXTCODECOPY"}

------------------------------------------------------------------------------
\* An operand is a number, and clamping keeps it one, at most the ceiling.
LEMMA OperandFacts ==
  ASSUME NEW st \in Seq(Operands), NEW k \in Nat \ {0}
  PROVE  Operand(st, k) \in Int
<1> DEFINE v == st[Len(st) + 1 - k]
<1>1. CASE k <= Len(st)
  <2>1. v \in Operands
    <3> DEFINE i == Len(st) + 1 - k
    <3>1. i \in 1 .. Len(st)
      BY <1>1
    <3> HIDE DEF i
    <3>2. st[i] \in Operands
      BY <3>1
    <3> QED
      BY <3>2 DEF i
  <2>2. Operand(st, k) = v
    BY <1>1 DEF Operand
  <2> HIDE DEF v
  <2> QED
    BY <2>1, <2>2, ScheduleAssumption
<1>2. CASE ~(k <= Len(st))
  BY <1>2 DEF Operand
<1> QED
  BY <1>1, <1>2

LEMMA ClampFacts ==
  ASSUME NEW n \in Int
  PROVE  /\ Clamp(n) \in Int
         /\ Clamp(n) <= MAX_MEM_BYTES
         /\ AtLeastZero(Clamp(n)) \in 0 .. MAX_MEM_BYTES
         /\ Clamp(n) >= 0 => AtLeastZero(Clamp(n)) = Clamp(n)
         /\ Clamp(n) < 0 => AtLeastZero(Clamp(n)) = 0
BY ScheduleAssumption DEF Clamp, AtLeastZero

\* Enough words are billed for the bytes, and never more than for the ceiling.
LEMMA WordFacts ==
  ASSUME NEW n \in Int
  PROVE  /\ NumWords(n) \in Int
         /\ n <= 32 * NumWords(n)
         /\ n >= 0 => NumWords(n) >= 0
         /\ 32 * NumWords(n) <= n + 31
BY SMT DEF NumWords

\* An exponent has at most ExpBytes bytes.
LEMMA ByteCountFacts ==
  ASSUME NEW n \in Int
  PROVE  ByteCount(n) \in 0 .. ExpBytes
<1> DEFINE S == {k \in 1 .. ExpBytes : 256 ^ (k - 1) <= n}
<1>1. IsFiniteSet(1 .. ExpBytes) /\ Cardinality(1 .. ExpBytes) = ExpBytes
  BY FS_Interval, ScheduleAssumption
<1>2. S \subseteq 1 .. ExpBytes
  OBVIOUS
<1> HIDE DEF S
<1>3. IsFiniteSet(S) /\ Cardinality(S) <= ExpBytes
  BY <1>1, <1>2, FS_Subset
<1>4. Cardinality(S) \in Nat
  BY <1>3, FS_CardinalityType
<1> QED
  BY <1>3, <1>4, ScheduleAssumption DEF ByteCount, S

\* The static prices the dynamic part is added to.
LEMMA LogPrice == ASSUME NEW op \in Logs PROVE StaticCost(op) = 375
BY DEF StaticCost, Free, Tier1, Tier2, Tier3, Tier5, Tier8, Tier10, Calls, Creates, Logs,
       External

LEMMA CopyPrice == ASSUME NEW op \in Copies PROVE StaticCost(op) = 3
BY DEF StaticCost, Copies, Free, Tier1, Tier2, Tier3, Tier5, Tier8, Tier10, Calls, Creates, Logs,
       External

LEMMA CreatePrice == ASSUME NEW op \in Creates PROVE StaticCost(op) = 32000
BY DEF StaticCost, Free, Tier1, Tier2, Tier3, Tier5, Tier8, Tier10, Calls, Creates, Logs,
       External

LEMMA OtherPrices ==
  /\ StaticCost("EXTCODECOPY") = 2600
  /\ StaticCost("KECCAK256") = 30
  /\ StaticCost("EXP") = 10
  /\ StaticCost("MSTORE") = 3
  /\ StaticCost("MSTORE8") = 3
BY DEF StaticCost, Free, Tier1, Tier2, Tier3, Tier5, Tier8, Tier10, Calls, Creates, Logs,
       External

\* Every opcode has a static price, and only one that halts its frame has none.
LEMMA NotFree ==
  ASSUME NEW op \in Opcodes, op \notin Free
  PROVE  StaticCost(op) \in Nat /\ StaticCost(op) > 0 /\ StaticCost(op) <= 32000
<1>1. CASE op \in Tier1
  <2>1. StaticCost(op) = 1
    BY <1>1 DEF StaticCost, Free, Tier1, Tier2, Tier3, Tier5, Tier8, Tier10, Calls, Creates,
           Logs, External
  <2> QED
    BY <2>1
<1>2. CASE op \in Tier2
  <2>1. StaticCost(op) = 2
    BY <1>2 DEF StaticCost, Free, Tier1, Tier2, Tier3, Tier5, Tier8, Tier10, Calls, Creates,
           Logs, External
  <2> QED
    BY <2>1
<1>3. CASE op \in Tier3
  <2>1. StaticCost(op) = 3
    BY <1>3 DEF StaticCost, Free, Tier1, Tier2, Tier3, Tier5, Tier8, Tier10, Calls, Creates,
           Logs, External
  <2> QED
    BY <2>1
<1>4. CASE op \in Tier5
  <2>1. StaticCost(op) = 5
    BY <1>4 DEF StaticCost, Free, Tier1, Tier2, Tier3, Tier5, Tier8, Tier10, Calls, Creates,
           Logs, External
  <2> QED
    BY <2>1
<1>5. CASE op \in Tier8
  <2>1. StaticCost(op) = 8
    BY <1>5 DEF StaticCost, Free, Tier1, Tier2, Tier3, Tier5, Tier8, Tier10, Calls, Creates,
           Logs, External
  <2> QED
    BY <2>1
<1>6. CASE op \in Tier10
  <2>1. StaticCost(op) = 10
    BY <1>6 DEF StaticCost, Free, Tier1, Tier2, Tier3, Tier5, Tier8, Tier10, Calls, Creates,
           Logs, External
  <2> QED
    BY <2>1
<1>7. CASE op \in Calls \cup {"TLOAD", "TSTORE"}
  <2>1. StaticCost(op) = 100
    BY <1>7 DEF StaticCost, Free, Tier1, Tier2, Tier3, Tier5, Tier8, Tier10, Calls, Creates,
           Logs, External
  <2> QED
    BY <2>1
<1>8. CASE op \in Logs
  <2>1. StaticCost(op) = 375
    BY <1>8 DEF StaticCost, Free, Tier1, Tier2, Tier3, Tier5, Tier8, Tier10, Calls, Creates,
           Logs, External
  <2> QED
    BY <2>1
<1>9. CASE op \in External
  <2>1. StaticCost(op) = 2600
    BY <1>9 DEF StaticCost, Free, Tier1, Tier2, Tier3, Tier5, Tier8, Tier10, Calls, Creates,
           Logs, External
  <2> QED
    BY <2>1
<1>10. CASE op \in Creates
  <2>1. StaticCost(op) = 32000
    BY <1>10 DEF StaticCost, Free, Tier1, Tier2, Tier3, Tier5, Tier8, Tier10, Calls, Creates,
           Logs, External
  <2> QED
    BY <2>1
<1>11. CASE op = "BLOCKHASH"
  <2>1. StaticCost("BLOCKHASH") = 20
    BY DEF StaticCost, Free, Tier1, Tier2, Tier3, Tier5, Tier8, Tier10, Calls, Creates,
           Logs, External
  <2> QED
    BY <1>11, <2>1
<1>12. CASE op = "KECCAK256"
  <2>1. StaticCost("KECCAK256") = 30
    BY DEF StaticCost, Free, Tier1, Tier2, Tier3, Tier5, Tier8, Tier10, Calls, Creates,
           Logs, External
  <2> QED
    BY <1>12, <2>1
<1>13. CASE op = "SLOAD"
  <2>1. StaticCost("SLOAD") = 2100
    BY DEF StaticCost, Free, Tier1, Tier2, Tier3, Tier5, Tier8, Tier10, Calls, Creates,
           Logs, External
  <2> QED
    BY <1>13, <2>1
<1>14. CASE op = "SELFDESTRUCT"
  <2>1. StaticCost("SELFDESTRUCT") = 5000
    BY DEF StaticCost, Free, Tier1, Tier2, Tier3, Tier5, Tier8, Tier10, Calls, Creates,
           Logs, External
  <2> QED
    BY <1>14, <2>1
<1>15. CASE op = "SSTORE"
  <2>1. StaticCost("SSTORE") = 20000
    BY DEF StaticCost, Free, Tier1, Tier2, Tier3, Tier5, Tier8, Tier10, Calls, Creates,
           Logs, External
  <2> QED
    BY <1>15, <2>1
<1> QED
  BY <1>1, <1>2, <1>3, <1>4, <1>5, <1>6, <1>7, <1>8, <1>9, <1>10, <1>11, <1>12, <1>13, <1>14, <1>15
     DEF Opcodes

LEMMA StaticRange ==
  ASSUME NEW op \in Opcodes
  PROVE  StaticCost(op) \in Nat /\ StaticCost(op) <= 32000
<1>1. CASE op \in Free
  <2>1. StaticCost(op) = 0
    BY <1>1 DEF StaticCost, Free, Tier1, Tier2, Tier3, Tier5, Tier8, Tier10, Calls, Creates,
           Logs, External
  <2> QED
    BY <2>1
<1>2. CASE op \notin Free
  BY <1>2, NotFree
<1> QED
  BY <1>1, <1>2

\* dynamic_gas, opcode by opcode.
LEMMA DynamicFacts ==
  ASSUME NEW op \in Opcodes, NEW st \in Seq(Operands)
  PROVE  LET n == Clamp(Operand(st, BilledAt(op)))
         IN  /\ op = "KECCAK256" => DynamicGas(op, st) = 6 * NumWords(n)
             /\ op \in Copies \cup {"EXTCODECOPY"} => DynamicGas(op, st) = 3 * NumWords(n)
             /\ op \in Logs => DynamicGas(op, st) = 375 * Topics(op) + 8 * n
             /\ op = "EXP" => DynamicGas(op, st) = 50 * ByteCount(Operand(st, 2))
             /\ op \notin Copies \cup Logs \cup {"KECCAK256", "EXTCODECOPY", "EXP"}
                  => DynamicGas(op, st) = 0
BY DEF DynamicGas, Copies, Logs

LEMMA BilledFacts ==
  ASSUME NEW op \in Billed
  PROVE  /\ op \in Opcodes /\ op \notin Free
         /\ BilledAt(op) \in Nat \ {0}
         /\ BilledAt(op) = LengthAt(op)
         /\ op \in Lengthy \ (Calls \cup {"EXP"})
<1>1. op \in Opcodes /\ op \notin Free
  BY DEF Billed, Hashing, Copies, Logs, Opcodes, Free, Tier3, External
<1>2. BilledAt(op) \in Nat \ {0} /\ BilledAt(op) = LengthAt(op)
  BY DEF Billed, BilledAt, LengthAt, Logs, Copies, Hashing, Creates
<1>3. op \in Lengthy \ (Calls \cup {"EXP"})
  BY DEF Billed, Lengthy, Calls, Logs, Hashing, Copies
<1> QED
  BY <1>1, <1>2, <1>3

LEMMA TopicFacts == ASSUME NEW op \in Logs PROVE Topics(op) \in 0 .. 4
BY DEF Logs, Topics

LEMMA ClampedLength ==
  ASSUME NEW op \in Lengthy \ (Calls \cup {"EXP"}), NEW st
  PROVE  Length(op, st) = AtLeastZero(Clamp(Operand(st, LengthAt(op))))
<1>1. op \notin Calls \cup {"EXP"} /\ op # "MSTORE" /\ op # "MSTORE8"
  BY DEF Lengthy, Hashing, Copies, Creates, Logs
<1> QED
  BY <1>1 DEF Length

\* A length that is not negative pays for itself; a negative one makes the handler idle.
LEMMA BilledCost ==
  ASSUME NEW op \in Billed, NEW st \in Seq(Operands)
  PROVE  /\ Cost(op, st) \in Int /\ Cost(op, st) <= MaxCharge
         /\ Length(op, st) \in 0 .. MAX_MEM_BYTES
         /\ \/ Length(op, st) = 0
            \/ 3 * Length(op, st) <= 32 * Cost(op, st)
         /\ Cost(op, st) > 0 \/ Length(op, st) = 0
<1> DEFINE x == Operand(st, BilledAt(op))
           n == Clamp(x)
           s == StaticCost(op)
           d == DynamicGas(op, st)
           c == Cost(op, st)
           l == Length(op, st)
<1>0. op \in Opcodes
  BY BilledFacts
<1>1. x \in Int
  BY BilledFacts, OperandFacts
<1>2. l = AtLeastZero(n)
  <2>1. op \in Lengthy \ (Calls \cup {"EXP"}) /\ LengthAt(op) = BilledAt(op)
    BY BilledFacts
  <2> QED
    BY <2>1, ClampedLength
<1> HIDE DEF x
<1>3. /\ n \in Int /\ n <= MAX_MEM_BYTES
      /\ AtLeastZero(n) \in 0 .. MAX_MEM_BYTES
      /\ n >= 0 => AtLeastZero(n) = n
      /\ n < 0 => AtLeastZero(n) = 0
  BY <1>1, ClampFacts
<1> DEFINE w == NumWords(n)
<1>4. /\ w \in Int /\ 32 * w <= n + 31 /\ n <= 32 * w
      /\ n >= 0 => w >= 0
  BY <1>3, WordFacts
<1>5. c = s + d
  BY DEF Cost
<1>6. CASE op = "KECCAK256"
  <2>1. d = 6 * w /\ s = 30
    BY <1>0, <1>6, DynamicFacts, OtherPrices DEF x
  <2> HIDE DEF n, w, s, d, c, l
  <2>2. c \in Int /\ c <= MaxCharge
    BY <1>3, <1>4, <1>5, <2>1, ScheduleAssumption DEF MaxCharge
  <2>3. n >= 0 => c > 0 /\ 3 * l <= 32 * c
    BY <1>2, <1>3, <1>4, <1>5, <2>1
  <2> QED
    BY <1>2, <1>3, <2>2, <2>3 DEF n, c, l
<1>7. CASE op \in Copies
  <2>1. d = 3 * w /\ s = 3
    BY <1>0, <1>7, DynamicFacts, CopyPrice DEF x
  <2> HIDE DEF n, w, s, d, c, l
  <2>2. c \in Int /\ c <= MaxCharge
    BY <1>3, <1>4, <1>5, <2>1, ScheduleAssumption DEF MaxCharge
  <2>3. n >= 0 => c > 0 /\ 3 * l <= 32 * c
    BY <1>2, <1>3, <1>4, <1>5, <2>1
  <2> QED
    BY <1>2, <1>3, <2>2, <2>3 DEF n, c, l
<1>8. CASE op = "EXTCODECOPY"
  <2>1. d = 3 * w /\ s = 2600
    BY <1>0, <1>8, DynamicFacts, OtherPrices DEF x
  <2> HIDE DEF n, w, s, d, c, l
  <2>2. c \in Int /\ c <= MaxCharge
    BY <1>3, <1>4, <1>5, <2>1, ScheduleAssumption DEF MaxCharge
  <2>3. n >= 0 => c > 0 /\ 3 * l <= 32 * c
    BY <1>2, <1>3, <1>4, <1>5, <2>1
  <2> QED
    BY <1>2, <1>3, <2>2, <2>3 DEF n, c, l
<1>9. CASE op \in Logs
  <2>1. d = 375 * Topics(op) + 8 * n /\ s = 375
    BY <1>0, <1>9, DynamicFacts, LogPrice DEF x
  <2>2. Topics(op) \in 0 .. 4
    BY <1>9, TopicFacts
  <2> DEFINE t == Topics(op)
  <2> HIDE DEF n, s, d, c, l, t
  <2>3. d = 375 * t + 8 * n /\ t \in 0 .. 4
    BY <2>1, <2>2 DEF t
  <2>4. c \in Int /\ c <= MaxCharge
    BY <1>3, <1>5, <2>1, <2>3, ScheduleAssumption DEF MaxCharge
  <2>5. n >= 0 => c > 0 /\ 3 * l <= 32 * c
    BY <1>2, <1>3, <1>5, <2>1, <2>3
  <2> QED
    BY <1>2, <1>3, <2>4, <2>5 DEF n, c, l
<1> QED
  BY <1>6, <1>7, <1>8, <1>9 DEF Billed, Hashing

\* All other charges are positive, unless the opcode ends the frame.
LEMMA OtherCost ==
  ASSUME NEW op \in Opcodes, op \notin Billed, NEW st \in Seq(Operands)
  PROVE  /\ Cost(op, st) \in StaticCost(op) .. MaxCharge
         /\ op \notin Free => Cost(op, st) > 0
<1> DEFINE s == StaticCost(op)
           d == DynamicGas(op, st)
           c == Cost(op, st)
<1>0. c = s + d
  BY DEF Cost
<1>1. s \in Nat /\ s <= 32000 /\ (op \notin Free => s > 0)
  BY StaticRange, NotFree
<1>2. CASE op = "EXP"
  <2>1. Operand(st, 2) \in Int
    BY OperandFacts
  <2> DEFINE b == ByteCount(Operand(st, 2))
  <2>2. b \in 0 .. ExpBytes
    BY <2>1, ByteCountFacts
  <2>3. d = 50 * b /\ s = 10
    BY <1>2, DynamicFacts, OtherPrices
  <2> HIDE DEF b, s, d, c
  <2>4. c \in s .. MaxCharge /\ c > 0
    BY <1>0, <2>2, <2>3, ScheduleAssumption DEF MaxCharge
  <2> QED
    BY <2>4 DEF s, c
<1>3. CASE op # "EXP"
  <2>1. d = 0
    BY <1>3, DynamicFacts DEF Billed, Hashing
  <2> HIDE DEF s, d, c
  <2>2. c \in s .. MaxCharge /\ (op \notin Free => c > 0)
    BY <1>0, <1>1, <2>1, ScheduleAssumption DEF MaxCharge
  <2> QED
    BY <2>2 DEF s, c
<1> QED
  BY <1>2, <1>3

LEMMA CostIsInt ==
  ASSUME NEW op \in Opcodes, NEW st \in Seq(Operands)
  PROVE  Cost(op, st) \in Int /\ Cost(op, st) <= MaxCharge
<1>1. CASE op \in Billed
  BY <1>1, BilledCost
<1>2. CASE op \notin Billed
  <2>1. StaticCost(op) \in Nat /\ MaxCharge \in Int
    BY StaticRange, ScheduleAssumption DEF MaxCharge
  <2> QED
    BY <1>2, <2>1, OtherCost
<1> QED
  BY <1>1, <1>2

------------------------------------------------------------------------------
(***************************************************************************)
(* The loops.                                                              *)
(***************************************************************************)
LEMMA PopsFacts ==
  ASSUME NEW op \in Looping
  PROVE  /\ op \in Opcodes
         /\ Pops(op) \in Nat
         /\ op \notin Reporting => Pops(op) # 0
<1>1. op \in Opcodes
  BY DEF Looping, Lengthy, Storing, Walking, CalldataOps, CodeOps, ExternalOps, Opcodes, Hashing,
         Copies, Free, Tier2, Tier3, Tier10, External
<1>2. CASE op \in Logs
  <2>1. Topics(op) \in 0 .. 4
    BY <1>2, TopicFacts
  <2>2. Pops(op) = 2 + Topics(op)
    BY <1>2 DEF Pops, Reporting, Logs, Copies, Storing
  <2> QED
    BY <1>1, <2>1, <2>2
<1>3. CASE op \notin Logs
  <2>1. Pops(op) \in 1 .. 7 \/ (op \in Reporting /\ Pops(op) = 0)
    BY <1>3 DEF Pops, Reporting, Looping, Lengthy, Storing, Walking, CalldataOps, CodeOps,
                ExternalOps, Hashing, Copies, Creates, Calls
  <2> QED
    BY <1>1, <2>1
<1> QED
  BY <1>2, <1>3

\* Popping leaves operands, at most as many as there were.
LEMMA PoppedFacts ==
  ASSUME stack \in Seq(Operands), NEW n \in Nat
  PROVE  /\ Popped(n) \in Seq(Operands)
         /\ Len(Popped(n)) <= Len(stack)
         /\ n # 0 => Len(Popped(n)) = 0 \/ Len(Popped(n)) < Len(stack)
<1> DEFINE k == IF n < Len(stack) THEN Len(stack) - n ELSE 0
<1>1. k \in Nat /\ k <= Len(stack) /\ (n # 0 => k = 0 \/ k < Len(stack))
  OBVIOUS
<1> HIDE DEF k
<1>2. SubSeq(stack, 1, k) \in Seq(Operands) /\ Len(SubSeq(stack, 1, k)) = k
  BY <1>1
<1>3. Popped(n) = SubSeq(stack, 1, k)
  BY DEF Popped, k
<1> QED
  BY <1>1, <1>2, <1>3

LEMMA ZeroFacts == ASSUME NEW n \in Int PROVE AtLeastZero(n) \in Nat
BY DEF AtLeastZero

\* Lengths, sizes and positions are natural numbers.
LEMMA SizeFacts ==
  ASSUME NEW op \in Looping, NEW st \in Seq(Operands)
  PROVE  /\ Length(op, st) \in Nat
         /\ RequiredSize(op, st) \in Nat
         /\ Reach(op, st) \in Nat
         /\ Returned(op) \in Nat
<1>1. \A k \in 1 .. 6 : Operand(st, k) \in Int
  BY OperandFacts
<1>2. \A k \in 1 .. 6 : Clamp(Operand(st, k)) \in Int
  BY <1>1, ClampFacts
<1>3. Length(op, st) \in Nat
  <2>1. CASE op \in Lengthy
    <3>1. LengthAt(op) \in 1 .. 6
      BY <2>1 DEF LengthAt, Lengthy, Hashing, Copies, Creates, Calls
    <3>2. /\ AtLeastZero(Operand(st, LengthAt(op))) \in Nat
          /\ AtLeastZero(Clamp(Operand(st, LengthAt(op)))) \in Nat
      BY <1>1, <1>2, <3>1, ZeroFacts
    <3> QED
      BY <2>1, <3>2 DEF Length
  <2>2. CASE op \notin Lengthy
    BY <2>2 DEF Length, Lengthy
  <2> QED
    BY <2>1, <2>2
<1>4. RequiredSize(op, st) \in Nat
  <2>3. /\ Operand(st, 1) \in Int /\ Operand(st, 2) \in Int
        /\ Clamp(Operand(st, 3)) \in Int /\ Clamp(Operand(st, 4)) \in Int
    BY <1>1, <1>2
  <2>4. Larger(Operand(st, 1), Operand(st, 2)) \in Int
    BY <2>3 DEF Larger
  <2>1. /\ Larger(Operand(st, 1), Operand(st, 2)) + Clamp(Operand(st, 3)) \in Int
        /\ Operand(st, 2) + Clamp(Operand(st, 4)) \in Int
    BY <2>3, <2>4
  <2>2. /\ AtLeastZero(Larger(Operand(st, 1), Operand(st, 2)) + Clamp(Operand(st, 3))) \in Nat
        /\ AtLeastZero(Operand(st, 2) + Clamp(Operand(st, 4))) \in Nat
    BY <2>1, ZeroFacts
  <2> QED
    BY <2>2 DEF RequiredSize
<1>5. Reach(op, st) \in Nat
  <2>1. /\ Operand(st, 1) + Length(op, st) - 1 \in Int
        /\ Operand(st, 6) + MAX_MEM_BYTES - 1 \in Int
        /\ Operand(st, 5) + MAX_MEM_BYTES - 1 \in Int
    BY <1>1, <1>3, ScheduleAssumption, SMTT(30)
  <2>2. /\ AtLeastZero(Operand(st, 1) + Length(op, st) - 1) \in Nat
        /\ AtLeastZero(Operand(st, 6) + MAX_MEM_BYTES - 1) \in Nat
        /\ AtLeastZero(Operand(st, 5) + MAX_MEM_BYTES - 1) \in Nat
    BY <2>1, ZeroFacts
  <2> QED
    BY <1>4, <2>2 DEF Reach
<1> QED
  BY <1>3, <1>4, <1>5, ScheduleAssumption DEF Returned

LEMMA WalkFacts ==
  ASSUME NEW op \in Looping, work \in Nat
  PROVE  /\ LargestObject \in Nat
         /\ Walk(op) \in Nat
         /\ Walk(op) <= LargestObject \/ Walk(op) = work
BY ScheduleAssumption DEF Walk, LargestObject, Larger

LEMMA IterationsFacts ==
  ASSUME NEW op \in Looping, stack \in Seq(Operands)
  PROVE  Iterations(op) \in Nat
<1> DEFINE l == Length(op, stack)
           r == Returned(op)
           q == RequiredSize(op, stack)
<1>1. l \in Nat /\ r \in Nat /\ q \in Nat
  BY SizeFacts
<1>2. Iterations(op) = l + r + q
  BY DEF Iterations
<1> HIDE DEF l, r, q
<1> QED
  BY <1>1, <1>2

\* What an opcode adds to used and refunded together is never negative.
LEMMA ChargeFacts ==
  ASSUME NEW c \in Int
  PROVE  /\ c + AtLeastZero(-c) \in Nat
         /\ c >= 0 => c + AtLeastZero(-c) = c
BY DEF AtLeastZero

\* The bytes that a handler works on are paid for, except by the opcodes that end the frame.
LEMMA IterationsPaid ==
  ASSUME NEW op \in Looping, op \notin Unpaid, stack \in Seq(Operands)
  PROVE  LET c == Cost(op, stack) IN
         /\ Iterations(op) \in 0 .. 2 * MAX_MEM_BYTES
         /\ op \in Free => Iterations(op) <= MAX_MEM_BYTES
         /\ op \notin Free => 3 * Iterations(op) <= 32 * (c + AtLeastZero(-c))
<1> DEFINE c == Cost(op, stack)
           l == Length(op, stack)
           i == Iterations(op)
           b == c + AtLeastZero(-c)
<1>0. op \in Opcodes
  BY PopsFacts
<1>1. c \in Int
  BY <1>0, CostIsInt
<1>2. b \in Nat /\ (c >= 0 => b = c)
  BY <1>1, ChargeFacts
<1>3. RequiredSize(op, stack) = 0 /\ l \in Nat
  BY SizeFacts DEF RequiredSize, Unpaid
<1>4. i = l + Returned(op)
  BY <1>3, SizeFacts DEF Iterations
<1>5. CASE op \in Billed
  <2>1. Returned(op) = 0
    BY <1>5 DEF Returned, Billed, Hashing, Copies, Logs, Calls, Creates
  <2>2. /\ l \in 0 .. MAX_MEM_BYTES
        /\ l = 0 \/ 3 * l <= 32 * c
        /\ c > 0 \/ l = 0
        /\ op \notin Free
    BY <1>5, BilledCost, BilledFacts
  <2> HIDE DEF c, l, i, b
  <2>3. i \in 0 .. 2 * MAX_MEM_BYTES /\ 3 * i <= 32 * b
    BY <1>1, <1>2, <1>4, <2>1, <2>2, ScheduleAssumption
  <2> QED
    BY <2>2, <2>3 DEF c, i, b
<1>6. CASE op \in Creates
  <2>1. Returned(op) = MAX_MEM_BYTES /\ op \notin Free
    BY <1>6 DEF Returned, Creates, Free
  <2>2. c = 32000
    <3>1. op \notin Copies \cup Logs \cup {"KECCAK256", "EXTCODECOPY", "EXP"}
      BY <1>6 DEF Creates, Copies, Logs
    <3>2. StaticCost(op) = 32000 /\ DynamicGas(op, stack) = 0
      BY <1>0, <1>6, <3>1, CreatePrice, DynamicFacts
    <3> QED
      BY <3>2 DEF Cost
  <2>3. l \in 0 .. MAX_MEM_BYTES
    <3>1. l = AtLeastZero(Clamp(Operand(stack, 3)))
      BY <1>6 DEF Length, LengthAt, Creates, Calls, Hashing, Copies, Lengthy, Logs
    <3>2. Operand(stack, 3) \in Int
      BY OperandFacts
    <3> QED
      BY <3>1, <3>2, ClampFacts
  <2> HIDE DEF c, l, i, b
  <2>4. i \in 0 .. 2 * MAX_MEM_BYTES /\ 3 * i <= 32 * b
    BY <1>2, <1>4, <2>1, <2>2, <2>3, ScheduleAssumption
  <2> QED
    BY <2>1, <2>4 DEF c, i, b
<1>7. CASE op \in {"RETURN", "REVERT"}
  <2>1. Returned(op) = 0 /\ op \in Free
    BY <1>7 DEF Returned, Calls, Creates, Free
  <2>2. l \in 0 .. MAX_MEM_BYTES
    <3>1. op \in Lengthy \ (Calls \cup {"EXP"})
      BY <1>7 DEF Calls, Lengthy
    <3>4. LengthAt(op) = 2
      BY <1>7 DEF LengthAt, Hashing, Logs, Copies, Creates, Calls
    <3>3. l = AtLeastZero(Clamp(Operand(stack, 2)))
      BY <3>1, <3>4, ClampedLength
    <3>2. Operand(stack, 2) \in Int
      BY OperandFacts
    <3> QED
      BY <3>2, <3>3, ClampFacts
  <2> HIDE DEF c, l, i, b
  <2>3. i \in 0 .. 2 * MAX_MEM_BYTES /\ i <= MAX_MEM_BYTES
    BY <1>4, <2>1, <2>2, ScheduleAssumption
  <2> QED
    BY <2>1, <2>3 DEF i
<1>8. CASE op \in Storing
  <2>1. Returned(op) = 0 /\ op \notin Free /\ l \in 0 .. 32
    BY <1>8 DEF Returned, Storing, Calls, Creates, Free, Length, Lengthy, Hashing, Copies, Logs
  <2>2. c = 3
    <3>1. op \notin Copies \cup Logs \cup {"KECCAK256", "EXTCODECOPY", "EXP"}
      BY <1>8 DEF Storing, Copies, Logs
    <3>2. StaticCost(op) = 3 /\ DynamicGas(op, stack) = 0
      BY <1>0, <1>8, <3>1, OtherPrices, DynamicFacts DEF Storing
    <3> QED
      BY <3>2 DEF Cost
  <2> HIDE DEF c, l, i, b
  <2>3. i \in 0 .. 2 * MAX_MEM_BYTES /\ 3 * i <= 32 * b
    BY <1>2, <1>4, <2>1, <2>2, ScheduleAssumption
  <2> QED
    BY <2>1, <2>3 DEF c, i, b
<1>9. CASE op \notin Billed \cup Creates \cup {"RETURN", "REVERT"} \cup Storing
  <2>1. op \notin Lengthy \cup Storing \cup Calls \cup Creates
    BY <1>9 DEF Lengthy, Billed, Unpaid
  <2>2. l = 0 /\ Returned(op) = 0 /\ op \notin Free
    <3>1. op \in Walking
      BY <2>1 DEF Looping
    <3>2. op \notin Free
      BY <3>1 DEF Walking, CalldataOps, CodeOps, ExternalOps, Free, Calls
    <3> QED
      BY <2>1, <3>2 DEF Length, Returned, Storing, Lengthy
  <2> HIDE DEF c, l, i, b
  <2>3. i \in 0 .. 2 * MAX_MEM_BYTES /\ 3 * i <= 32 * b
    BY <1>2, <1>4, <2>2, ScheduleAssumption
  <2> QED
    BY <2>2, <2>3 DEF c, i, b
<1> QED
  BY <1>5, <1>6, <1>7, <1>8, <1>9

------------------------------------------------------------------------------
(***************************************************************************)
(* The state machine.                                                      *)
(***************************************************************************)
LEMMA BillFacts ==
  ASSUME NEW op \in Opcodes, TypeOK, Bill(op)
  PROVE  LET c == Cost(op, stack) IN
         /\ c \in Int
         /\ used' \in Int
         /\ refunded' \in Nat
         /\ used' + refunded' = used + refunded + (c + AtLeastZero(-c))
         /\ used' + refunded' >= used + refunded
         /\ status = "run"
<1> DEFINE c == Cost(op, stack)
           z == AtLeastZero(-c)
<1>1. stack \in Seq(Operands) /\ used \in Int /\ refunded \in Nat
  BY DEF TypeOK
<1>2. c \in Int
  BY <1>1, CostIsInt
<1>3. c + z \in Nat /\ z \in Nat
  BY <1>2, ChargeFacts, ZeroFacts
<1>4. used' = used + c /\ refunded' = refunded + z /\ status = "run"
  BY DEF Bill
<1> HIDE DEF c, z
<1>5. /\ c \in Int /\ used' \in Int /\ refunded' \in Nat
      /\ used' + refunded' = used + refunded + (c + z)
      /\ used' + refunded' >= used + refunded
  BY <1>1, <1>2, <1>3, <1>4
<1> QED
  BY <1>4, <1>5 DEF c, z

LEMMA OpsFacts ==
  ASSUME NEW op, TypeOK, Charged(op)
  PROVE  ops' \in 0 .. MaxOps
BY ScheduleAssumption DEF TypeOK, Charged

LEMMA NextTypeOK == TypeOK /\ [Next]_vars => TypeOK'
<1> SUFFICES ASSUME TypeOK, [Next]_vars PROVE TypeOK'
  OBVIOUS
<1>1. /\ stack \in Seq(Operands) /\ Len(stack) <= MaxStack /\ highest \in Nat
      /\ used \in Int /\ refunded \in Nat /\ work \in Nat /\ took \in Nat
      /\ ops \in 0 .. MaxOps /\ status \in {"run", "halted", "out"}
  BY DEF TypeOK
<1>2. ASSUME NEW op \in Executed \ (Looping \cup Free), Simple(op) PROVE TypeOK'
  <2>1. op \in Opcodes /\ Bill(op)
    BY <1>2, ScheduleAssumption DEF Simple, Charged
  <2>2. used' \in Int /\ refunded' \in Nat /\ ops' \in 0 .. MaxOps
    BY <1>2, <2>1, BillFacts, OpsFacts DEF Simple
  <2>3. Popped(1) \in Seq(Operands)
    BY <1>1, PoppedFacts
  <2>4. stack' \in Seq(Operands) /\ Len(stack') <= MaxStack
    BY <1>1, <1>2, <2>3 DEF Simple
  <2>5. highest' \in Nat /\ work' \in Nat /\ status' \in {"run", "halted", "out"}
    BY <1>1, <1>2 DEF Simple
  <2>6. took' \in Nat
    BY <1>2, <2>4, <2>5 DEF Simple, PrintState
  <2> QED
    BY <2>2, <2>4, <2>5, <2>6 DEF TypeOK
<1>3. ASSUME NEW op \in Executed \cap Looping, Execute(op) PROVE TypeOK'
  <2>1. op \in Opcodes /\ Bill(op)
    BY <1>3, PopsFacts DEF Execute, Charged
  <2>2. used' \in Int /\ refunded' \in Nat /\ ops' \in 0 .. MaxOps
    BY <1>3, <2>1, BillFacts, OpsFacts DEF Execute
  <2> DEFINE rest == Popped(Pops(op))
  <2>3. rest \in Seq(Operands)
    BY <1>1, PopsFacts, PoppedFacts
  <2>4. stack' = rest \/ \E v \in Operands : stack' = Append(rest, v)
    BY <1>3 DEF Execute
  <2>5. /\ Len(rest) <= Len(stack) /\ Len(rest) \in Nat
        /\ op \in Reporting => Len(stack) < MaxStack
        /\ op \notin Reporting => Len(rest) = 0 \/ Len(rest) < Len(stack)
    <3>1. Pops(op) \in Nat /\ (op \notin Reporting => Pops(op) # 0)
      BY PopsFacts
    <3>2. /\ Len(rest) <= Len(stack) /\ Len(rest) \in Nat
          /\ Pops(op) # 0 => Len(rest) = 0 \/ Len(rest) < Len(stack)
      <4>1. PICK n \in Nat : n = Pops(op)
        BY <3>1
      <4>2. stack \in Seq(Operands)
        BY <1>1
      <4>3. /\ Len(Popped(n)) <= Len(stack)
            /\ n # 0 => Len(Popped(n)) = 0 \/ Len(Popped(n)) < Len(stack)
        BY ONLY <4>1, <4>2, PoppedFacts, Zenon
      <4>4. rest = Popped(n)
        BY ONLY <4>1
      <4>5. Len(rest) \in Nat
        BY <2>3, LenProperties
      <4> QED
        BY ONLY <4>1, <4>3, <4>4, <4>5, Zenon
    <3>3. op \in Reporting => Len(stack) < MaxStack
      BY <1>3 DEF Execute
    <3> QED
      BY <3>1, <3>2, <3>3
  <2> HIDE DEF rest
  <2>6. stack' \in Seq(Operands) /\ Len(stack') <= MaxStack
    BY <1>1, <2>3, <2>4, <2>5, ScheduleAssumption, SMTT(30)
  <2>7. highest' \in Nat
    BY <1>1, <1>3, SizeFacts DEF Execute, Larger
  <2> DEFINE i == Iterations(op)
             w == Walk(op)
  <2>8. i \in Nat /\ w \in Nat /\ work' = work + i /\ took' = i + w + Len(stack') + highest'
    BY <1>1, <1>3, IterationsFacts, WalkFacts DEF Execute, PrintState
  <2> HIDE DEF i, w
  <2>9. work' \in Nat /\ took' \in Nat
    BY <1>1, <2>6, <2>7, <2>8
  <2>10. status' \in {"run", "halted", "out"}
    BY <1>3 DEF Execute
  <2> QED
    BY <2>2, <2>6, <2>7, <2>9, <2>10 DEF TypeOK
<1>4. ASSUME NEW op \in Executed, OutOfGas(op) PROVE TypeOK'
  <2>1. op \in Opcodes /\ Bill(op)
    BY <1>4, ScheduleAssumption DEF OutOfGas
  <2>2. used' \in Int /\ refunded' \in Nat
    BY <2>1, BillFacts
  <2> QED
    BY <1>1, <1>4, <2>2 DEF OutOfGas, TypeOK
<1>5. CASE UNCHANGED vars
  BY <1>1, <1>5 DEF vars, TypeOK
<1> QED
  BY <1>2, <1>3, <1>4, <1>5 DEF Next

\* The machine keeps its shape: whatever the operands, negative ones included, handlers pop
\* what they pop and the stack never outgrows its bound.
THEOREM TypeCorrect == Spec => []TypeOK
<1>1. Init => TypeOK
  BY ScheduleAssumption DEF Init, TypeOK
<1> QED
  BY <1>1, NextTypeOK, PTL DEF Spec

\* Whatever integers are on the stack, no charge exceeds MaxCharge, and one that is not
\* positive is a halting opcode's, or that of a hash, copy or log whose handler then works on
\* no byte: what EvmCallTree assumes of OpCosts and MaxCost (evm.lua:492, 1881-1911).
THEOREM ChargesAlwaysFit == Spec => []ChargesFit
<1>1. TypeOK => ChargesFit
  <2> SUFFICES ASSUME TypeOK, NEW op \in Executed \cap Looping
               PROVE  /\ Cost(op, stack) <= MaxCharge
                      /\ Cost(op, stack) <= 0 /\ op \notin Free =>
                           op \in Hashing \cup Copies \cup {"EXTCODECOPY"} /\ Length(op, stack) = 0
    BY DEF ChargesFit
  <2>1. stack \in Seq(Operands) /\ op \in Opcodes
    BY PopsFacts DEF TypeOK
  <2>2. Cost(op, stack) \in Int /\ Cost(op, stack) <= MaxCharge
    BY <2>1, CostIsInt
  <2>3. CASE op \in Billed
    <3>1. Cost(op, stack) > 0 \/ Length(op, stack) = 0
      BY <2>1, <2>3, BilledCost
    <3> QED
      BY <2>2, <2>3, <3>1 DEF Billed
  <2>4. CASE op \notin Billed
    <3>1. op \notin Free => Cost(op, stack) > 0
      BY <2>1, <2>4, OtherCost
    <3> QED
      BY <2>2, <3>1
  <2> QED
    BY <2>3, <2>4
<1> QED
  BY <1>1, TypeCorrect, PTL

(***************************************************************************)
(* The inductive invariant of paid programs: nothing is owed while the     *)
(* frame runs, and at most the last region afterwards; the last opcode     *)
(* walked no more than it says.                                            *)
(***************************************************************************)
PaidInv ==
  /\ 3 * work <= 32 * (used + refunded) + 3 * MAX_MEM_BYTES
  /\ status # "halted" => 3 * work <= 32 * (used + refunded)
  /\ OpcodeWorkBounded

\* The arithmetic of the step, on plain integers: w is worked on, b billed, i and c added.
LEMMA StillPaid ==
  ASSUME NEW w \in Int, NEW b \in Int, NEW e \in Int, 3 * w <= 32 * b, e >= b
  PROVE  3 * w <= 32 * e
  OBVIOUS

LEMMA WithSpare ==
  ASSUME NEW w \in Int, NEW e \in Int, NEW m \in Nat, 3 * w <= 32 * e
  PROVE  3 * w <= 32 * e + 3 * m
  OBVIOUS

LEMMA WorkPaid ==
  ASSUME NEW w \in Int, NEW b \in Int, NEW i \in Int, NEW c \in Nat, NEW m \in Nat,
         3 * w <= 32 * b
  PROVE  /\ 3 * i <= 32 * c => 3 * (w + i) <= 32 * (b + c)
         /\ i <= m => 3 * (w + i) <= 32 * (b + c) + 3 * m
  OBVIOUS

LEMMA TookPaid ==
  ASSUME NEW t \in Int, NEW i \in Int, NEW k \in Int, NEW w \in Int, NEW e \in Int, NEW m \in Nat,
         NEW o \in Nat, NEW n \in Nat, NEW h \in Nat,
         t = i + k + n + h, i <= 2 * m, k <= o \/ k = w, 3 * w <= 32 * e, 0 <= e
  PROVE  3 * t <= 3 * (2 * m + o + n + h) + 32 * e
  OBVIOUS

LEMMA PaidStep ==
  ASSUME PaidProgram, TypeOK, PaidInv, [Next]_vars
  PROVE  PaidInv'
<1> DEFINE b == used + refunded
           e == used' + refunded'
           o == LargestObject
           n == Len(stack')
<1>0. /\ used \in Int /\ refunded \in Nat /\ work \in Nat /\ took \in Nat /\ highest \in Nat
      /\ stack \in Seq(Operands) /\ MAX_MEM_BYTES \in Nat /\ LargestObject \in Nat
  BY ScheduleAssumption DEF TypeOK, LargestObject, Larger
<1>1. TypeOK'
  BY NextTypeOK
<1>2. /\ used' \in Int /\ refunded' \in Nat /\ work' \in Nat /\ took' \in Nat /\ highest' \in Nat
      /\ Len(stack') \in Nat
  BY <1>1, LenProperties DEF TypeOK
<1>7. b \in Int /\ e \in Int /\ o \in Nat /\ n \in Nat
  BY <1>0, <1>2
<1>10. work' \in Int /\ e \in Int /\ MAX_MEM_BYTES \in Nat
  BY <1>0, <1>2, <1>7
<1>8. ASSUME 3 * work' <= 32 * e + 3 * MAX_MEM_BYTES,
             status' # "halted" => 3 * work' <= 32 * e,
             3 * took' <= 3 * (2 * MAX_MEM_BYTES + o + n + highest') + 32 * e
      PROVE  PaidInv'
  BY <1>8 DEF PaidInv, OpcodeWorkBounded, LargestObject
<1>9. ASSUME status # "halted", e >= b, work' = work, took' = 0 \/ took' = 0 + n + highest'
      PROVE  PaidInv'
  <2>1. 3 * work <= 32 * b
    BY <1>9 DEF PaidInv
  <2> HIDE DEF b, e, o, n
  <2>2. 3 * work' <= 32 * e /\ 0 <= e
    BY <1>0, <1>7, <1>9, <2>1
  <2>3. 3 * work' <= 32 * e + 3 * MAX_MEM_BYTES
    BY <1>10, <2>2, WithSpare
  <2>4. 3 * took' <= 3 * (2 * MAX_MEM_BYTES + o + n + highest') + 32 * e
    <3>1. MAX_MEM_BYTES \in Nat /\ highest' \in Nat
      BY <1>0, <1>2
    <3> QED
      BY <1>7, <1>9, <2>2, <3>1
  <2> QED
    BY <1>8, <2>2, <2>3, <2>4
<1>3. ASSUME NEW op \in Executed \ (Looping \cup Free), Simple(op) PROVE PaidInv'
  <2>1. op \in Opcodes /\ Bill(op)
    BY <1>3, ScheduleAssumption DEF Simple, Charged
  <2>2. used' + refunded' >= used + refunded /\ status = "run"
    BY <2>1, BillFacts
  <2>3. work' = work /\ took' = 0 + n + highest'
    BY <1>3 DEF Simple, PrintState
  <2> QED
    BY <1>9, <2>2, <2>3
<1>4. ASSUME NEW op \in Executed \cap Looping, Execute(op) PROVE PaidInv'
  <2> DEFINE i == Iterations(op)
             w == Walk(op)
             c == Cost(op, stack) + AtLeastZero(-Cost(op, stack))
  <2>1. op \in Opcodes /\ Bill(op) /\ op \notin Unpaid
    BY <1>4, PopsFacts DEF Execute, Charged, PaidProgram
  <2>2. /\ used' + refunded' = used + refunded + c
        /\ used' + refunded' >= used + refunded /\ status = "run"
    BY <2>1, BillFacts
  <2>3. /\ i \in 0 .. 2 * MAX_MEM_BYTES
        /\ op \in Free => i <= MAX_MEM_BYTES
        /\ op \notin Free => 3 * i <= 32 * c
    BY <1>0, <2>1, IterationsPaid
  <2>4. w \in Nat /\ (w <= LargestObject \/ w = work)
    BY <1>0, WalkFacts
  <2>5. /\ work' = work + i /\ took' = i + w + n + highest'
        /\ op \notin Free => status' = "run"
        /\ op \in Free => status' = "halted"
    BY <1>4 DEF Execute, PrintState
  <2>6. c \in Nat
    <3>1. Cost(op, stack) \in Int
      BY <1>0, <2>1, CostIsInt
    <3> QED
      BY <3>1, ChargeFacts
  <2>7. 3 * work <= 32 * b
    BY <2>2 DEF PaidInv
  <2> HIDE DEF i, w, c
  <2>8. e = b + c /\ e >= b
    BY <2>2
  <2> HIDE DEF b, e, o, n
  <2>9. i \in Int /\ i <= 2 * MAX_MEM_BYTES /\ 0 <= e
    BY <1>0, <1>7, <2>2, <2>3, <2>7, <2>8
  <2>10. 3 * work' <= 32 * e + 3 * MAX_MEM_BYTES /\ (op \notin Free => 3 * work' <= 32 * e)
    <3>1. /\ 3 * i <= 32 * c => 3 * (work + i) <= 32 * (b + c)
          /\ i <= MAX_MEM_BYTES => 3 * (work + i) <= 32 * (b + c) + 3 * MAX_MEM_BYTES
      BY <1>0, <1>7, <2>6, <2>7, <2>9, WorkPaid
    <3>2. work' = work + i /\ work' \in Nat
      BY <1>2, <2>5
    <3>3. 3 * work' <= 32 * e => 3 * work' <= 32 * e + 3 * MAX_MEM_BYTES
      BY <1>10, WithSpare
    <3> QED
      BY <2>3, <2>8, <3>1, <3>2, <3>3
  <2>11. 3 * took' <= 3 * (2 * MAX_MEM_BYTES + o + n + highest') + 32 * e
    <3>1. 3 * work <= 32 * e
      BY <1>0, <1>7, <2>7, <2>8, StillPaid
    <3>2. took' = i + w + n + highest'
      BY <2>5
    <3>3. /\ took' \in Int /\ i \in Int /\ w \in Int /\ work \in Int /\ e \in Int
          /\ MAX_MEM_BYTES \in Nat /\ o \in Nat /\ n \in Nat /\ highest' \in Nat
      BY <1>0, <1>2, <1>7, <2>4, <2>9
    <3>4. w <= o \/ w = work
      BY <2>4 DEF o
    <3> QED
      BY <2>9, <3>1, <3>2, <3>3, <3>4, TookPaid, ZenonT(60)
  <2> QED
    BY <1>8, <2>5, <2>10, <2>11
<1>5. ASSUME NEW op \in Executed, OutOfGas(op) PROVE PaidInv'
  <2>1. op \in Opcodes /\ Bill(op)
    BY <1>5, ScheduleAssumption DEF OutOfGas
  <2>2. used' + refunded' >= used + refunded /\ status = "run"
    BY <2>1, BillFacts
  <2>3. work' = work /\ took' = 0
    BY <1>5 DEF OutOfGas
  <2> QED
    BY <1>9, <2>2, <2>3
<1>6. CASE UNCHANGED vars
  BY <1>6 DEF vars, PaidInv, OpcodeWorkBounded, LargestObject
<1> QED
  BY <1>3, <1>4, <1>5, <1>6 DEF Next

LEMMA PaidAlways == ASSUME PaidProgram PROVE Spec => []PaidInv
<1>1. Init => PaidInv
  BY ScheduleAssumption DEF Init, PaidInv, OpcodeWorkBounded, LargestObject, Larger
<1>2. TypeOK /\ PaidInv /\ [Next]_vars => PaidInv'
  BY PaidStep
<1> QED
  BY <1>1, <1>2, TypeCorrect, PTL DEF Spec

\* What the comment of MAX_MEM_BYTES (evm.lua:486) promises, as far as the code keeps to it:
\* in every program without the unpaid handlers an opcode loops at most over two regions of
\* MAX_MEM_BYTES, one object that it decodes, the stack, memory up to its highest index, and
\* as many entries of memory as have been paid for.
THEOREM PaidOpcodesBounded == ASSUME PaidProgram PROVE Spec => []OpcodeWorkBounded
<1>1. PaidInv => OpcodeWorkBounded
  BY DEF PaidInv
<1> QED
  BY <1>1, PaidAlways, PTL

\* The lengths that dynamic_gas bills and the ceiling cuts are paid for, in every program
\* without the unpaid handlers and with any integers as operands: 32 bytes for 3 gas, refunds
\* added back, and the region of the final RETURN or REVERT (evm.lua:1881-1911).
THEOREM WorkAlwaysPaid == ASSUME PaidProgram PROVE Spec => []WorkIsPaid
<1>1. TypeOK /\ PaidInv => WorkIsPaid
  BY ScheduleAssumption DEF TypeOK, PaidInv, WorkIsPaid
<1> QED
  BY <1>1, PaidAlways, TypeCorrect, PTL
=============================================================================
