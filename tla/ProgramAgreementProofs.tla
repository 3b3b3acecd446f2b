------------------------ MODULE ProgramAgreementProofs ------------------------
(***************************************************************************)
(* Theorems about ProgramAgreement, for every program, every limit on the  *)
(* stack, and every precision of toNumber and of doubles: the shape of     *)
(* both frames, and where evm.lua and the reference part.                  *)
(***************************************************************************)
EXTENDS ProgramAgreement, SequenceTheorems, WellFoundedInduction, TLAPS

(***************************************************************************)
(* Induction on a set of numbers, from the well-foundedness of <.          *)
(***************************************************************************)
LEMMA Least ==
  ASSUME NEW T, T \subseteq Nat, T # {}
  PROVE  \E m \in T : \A n \in T : m <= n
<1>1. IsWellFoundedOn(OpToRel(<, Nat), Nat)
  BY NatLessThanWellFounded
<1>2. PICK m \in T : \A n \in T : <<n, m>> \notin OpToRel(<, Nat)
  BY <1>1, WFMin
<1>3. ASSUME NEW n \in T, n < m
      PROVE  FALSE
  <2>1. <<n, m>> \in OpToRel(<, Nat)
    BY <1>3 DEF OpToRel
  <2> QED  BY <1>2, <2>1
<1> QED  BY <1>3

LEMMA Induction ==
  ASSUME NEW T \in SUBSET Nat, 0 \in T, \A n \in T : n + 1 \in T
  PROVE  T = Nat
<1> SUFFICES ASSUME Nat \ T # {} PROVE FALSE
  OBVIOUS
<1>1. PICK m \in Nat \ T : \A n \in Nat \ T : m <= n
  BY Least
<1>2. m # 0 /\ m - 1 \in Nat /\ m - 1 \in T
  BY <1>1
<1> QED  BY <1>1, <1>2

\* The recursive function that NumberOf takes its result from is defined, and counts.
LEMMA ValueDefined ==
  ASSUME NEW s
  PROVE  \A m \in Nat :
           \E f : f = [n \in 0 .. m |-> IF n = 0 THEN 0 ELSE 256 * f[n - 1] + s[n]]
<1> DEFINE Value(f, m) == f = [n \in 0 .. m |-> IF n = 0 THEN 0 ELSE 256 * f[n - 1] + s[n]]
           T == {m \in Nat : \E f : Value(f, m)}
<1>1. 0 \in T
  <2> DEFINE f == [n \in 0 .. 0 |-> 0]
  <2>1. Value(f, 0)
    OBVIOUS
  <2> HIDE DEF f, Value
  <2> QED  BY <2>1
<1>2. ASSUME NEW m \in T
      PROVE  m + 1 \in T
  <2>1. PICK f : Value(f, m)
    BY <1>2
  <2> DEFINE g == [n \in 0 .. m + 1 |-> IF n = m + 1 THEN 256 * f[m] + s[m + 1] ELSE f[n]]
  <2>2. \A n \in 0 .. m + 1 : g[n] = IF n = 0 THEN 0 ELSE 256 * g[n - 1] + s[n]
    BY <2>1
  <2>3. Value(g, m + 1)
    BY <2>2
  <2> HIDE DEF g, Value
  <2> QED  BY <2>3
<1> HIDE DEF T
<1>3. T = Nat
  <2>1. T \subseteq Nat
    BY DEF T
  <2> QED  BY <1>1, <1>2, <2>1, Induction
<1> QED  BY <1>3 DEF T

LEMMA NumberOfNat ==
  ASSUME NEW s \in Seq(Nat)
  PROVE  NumberOf(s) \in Nat
<1> DEFINE Value(f) == f = [n \in 0 .. Len(s) |-> IF n = 0 THEN 0 ELSE 256 * f[n - 1] + s[n]]
           value == CHOOSE f : Value(f)
<1>0. Len(s) \in Nat /\ \A n \in 1 .. Len(s) : s[n] \in Nat
  BY ElementOfSeq
<1>1. Value(value)
  <2>1. \E f : Value(f)
    BY <1>0, ValueDefined
  <2> QED  BY <2>1
<1>2. value = [n \in 0 .. Len(s) |-> IF n = 0 THEN 0 ELSE 256 * value[n - 1] + s[n]]
  BY <1>1
<1>3. NumberOf(s) = value[Len(s)]
  BY DEF NumberOf
<1> HIDE DEF value
<1> DEFINE T == {n \in Nat : n <= Len(s) => value[n] \in Nat}
<1>4. 0 \in T
  BY <1>0, <1>2
<1>5. ASSUME NEW n \in T
      PROVE  n + 1 \in T
  BY <1>0, <1>2, <1>5
<1> HIDE DEF T
<1>6. T = Nat
  <2>1. T \subseteq Nat
    BY DEF T
  <2> QED  BY <1>4, <1>5, <2>1, Induction
<1> QED  BY <1>0, <1>3, <1>6 DEF T

------------------------------------------------------------------------------
\* Stacks: an item taken, items removed, one pushed, two exchanged.
LEMMA ItemNat ==
  ASSUME NEW s \in Seq(Nat), NEW n \in 1 .. Len(s)
  PROVE  s[n] \in Nat
BY ElementOfSeq

LEMMA RemovedFacts ==
  ASSUME NEW s \in Seq(Nat), NEW n \in Nat
  PROVE  /\ Removed(s, n) \in Seq(Nat)
         /\ Len(Removed(s, n)) <= Len(s)
         /\ n <= Len(s) => Len(Removed(s, n)) = Len(s) - n
<1>1. Len(s) \in Nat /\ \A i \in 1 .. Len(s) : s[i] \in Nat
  BY ElementOfSeq
<1>2. CASE n <= Len(s)
  <2>1. /\ SubSeq(s, 1, Len(s) - n) \in Seq(Nat)
        /\ Len(SubSeq(s, 1, Len(s) - n)) = Len(s) - n
    BY <1>1, <1>2, SubSeqProperties
  <2> QED  BY <1>1, <1>2, <2>1 DEF Removed
<1>3. CASE ~(n <= Len(s))
  <2>1. Removed(s, n) = <<>>
    BY <1>1, <1>3 DEF Removed
  <2> QED  BY <1>1, <1>3, <2>1
<1> QED  BY <1>2, <1>3

LEMMA PushedFacts ==
  ASSUME NEW s \in Seq(Nat), NEW v \in Nat
  PROVE  Append(s, v) \in Seq(Nat) /\ Len(Append(s, v)) = Len(s) + 1
BY AppendProperties

LEMMA ExchangedFacts ==
  ASSUME NEW s \in Seq(Nat), NEW n \in Nat, n < Len(s),
         NEW r, r = [s EXCEPT ![Len(s)] = s[Len(s) - n], ![Len(s) - n] = s[Len(s)]]
  PROVE  r \in Seq(Nat) /\ Len(r) = Len(s)
<1> DEFINE top == Len(s)
           low == Len(s) - n
           t == [s EXCEPT ![top] = s[low]]
<1>1. top \in 1 .. Len(s) /\ low \in 1 .. Len(s) /\ s[top] \in Nat /\ s[low] \in Nat
  BY ElementOfSeq, LenProperties
<1>2. t \in Seq(Nat) /\ Len(t) = Len(s)
  BY <1>1, ExceptSeq
<1>3. r = [t EXCEPT ![low] = s[top]]
  BY DEF t, low
<1> HIDE DEF t
<1> QED  BY <1>1, <1>2, <1>3, ExceptSeq

\* Bytes of the code, and the operands that toNumber makes of a stack.
LEMMA CodeFacts ==
  ASSUME TypeOK, NEW pc \in Int
  PROVE  /\ Len(code) \in Nat
         /\ LuaByte(pc) = RefByte(pc - 1)
         /\ OrZero(LuaByte(pc)) \in Nat /\ OrZero(RefByte(pc)) \in Nat
         /\ LuaByte(pc) # -1 => pc \in 1 .. Len(code)
         /\ RefByte(pc) # -1 => pc \in 0 .. Len(code) - 1
<1>1. code \in Seq(Byte)
  BY DEF TypeOK
<1>2. Len(code) \in Nat /\ DOMAIN code = 1 .. Len(code)
  BY <1>1, LenProperties
<1>3. \A i \in 1 .. Len(code) : code[i] \in Nat
  <2>1. \A i \in 1 .. Len(code) : code[i] \in Byte
    BY <1>1, ElementOfSeq
  <2>2. Byte \subseteq Nat
    BY DEF Byte
  <2> QED  BY <2>1, <2>2
<1>4. ASSUME NEW p \in Int
      PROVE  /\ LuaByte(p) # -1 => p \in 1 .. Len(code)
             /\ OrZero(LuaByte(p)) \in Nat
             /\ LuaByte(p) = RefByte(p - 1)
  <2>1. CASE p \in 1 .. Len(code)
    <3>1. LuaByte(p) = code[p] /\ code[p] \in Nat
      BY <1>2, <1>3, <2>1 DEF LuaByte
    <3>2. p - 1 + 1 = p
      OBVIOUS
    <3>3. RefByte(p - 1) = code[p]
      BY <1>2, <2>1, <3>2 DEF RefByte
    <3> QED  BY <2>1, <3>1, <3>3 DEF OrZero
  <2>2. CASE p \notin 1 .. Len(code)
    <3>1. LuaByte(p) = -1
      BY <1>2, <2>2 DEF LuaByte
    <3>2. p - 1 + 1 = p
      OBVIOUS
    <3>3. RefByte(p - 1) = -1
      BY <1>2, <2>2, <3>2 DEF RefByte
    <3> QED  BY <3>1, <3>3 DEF OrZero
  <2> QED  BY <2>1, <2>2
<1>5. /\ LuaByte(pc + 1) = RefByte(pc)
      /\ LuaByte(pc + 1) # -1 => pc + 1 \in 1 .. Len(code)
      /\ OrZero(LuaByte(pc + 1)) \in Nat
  <2>1. pc + 1 \in Int /\ pc + 1 - 1 = pc
    OBVIOUS
  <2> DEFINE q == pc + 1
  <2>2. q - 1 = pc /\ q \in Int
    BY <2>1
  <2> HIDE DEF q
  <2>3. /\ LuaByte(q) = RefByte(q - 1)
        /\ LuaByte(q) # -1 => q \in 1 .. Len(code)
        /\ OrZero(LuaByte(q)) \in Nat
    BY <1>4, <2>2
  <2> QED  BY <2>2, <2>3 DEF q
<1>6. RefByte(pc) # -1 => pc \in 0 .. Len(code) - 1
  BY <1>2, <1>5
<1> QED  BY <1>2, <1>4, <1>5, <1>6

LEMMA QuotientNat ==
  ASSUME NEW a \in Nat, NEW b \in Nat \ {0}
  PROVE  a \div b \in Nat
OBVIOUS

\* The double of a natural number is one, and is the number itself up to MaxExact.
LEMMA SpacingFacts ==
  ASSUME NEW v \in 0 .. MaxLong - 1
  PROVE  Spacing(v) \in Spacings /\ (v <= MaxExact => Spacing(v) = 1)
<1>1. MaxExact \in Nat /\ MaxExact >= 2 /\ v \in Int /\ v <= 1024 * MaxExact
  BY ExactAssumption DEF MaxLong
<1> DEFINE Fits(u) == v <= u * MaxExact
<1>2. \E u \in Spacings : Fits(u) /\ \A w \in Spacings : Fits(w) => u <= w
  <2>1. Fits(1024)
    BY <1>1
  <2> HIDE DEF Fits
  <2> QED  BY <2>1 DEF Spacings
<1>3. v <= MaxExact => \A u \in Spacings : (Fits(u) /\ \A w \in Spacings : Fits(w) => u <= w) => u = 1
  BY <1>1 DEF Spacings
<1>4. /\ Spacing(v) \in Spacings
      /\ Fits(Spacing(v)) /\ \A w \in Spacings : Fits(w) => Spacing(v) <= w
  BY <1>2 DEF Spacing
<1> QED  BY <1>3, <1>4

LEMMA DoubleNat ==
  ASSUME NEW v \in Nat
  PROVE  Double(v) \in Nat /\ (v <= MaxExact => Double(v) = v)
<1>1. MaxExact \in Nat /\ MaxExact >= 2 /\ MaxLong \in Nat /\ MaxLong > MaxExact
  BY ExactAssumption DEF MaxLong
<1>2. CASE v >= MaxLong
  BY <1>1, <1>2 DEF Double
<1>3. CASE v \in 0 .. MaxLong - 1
  <2>1. Double(v) = Nearest(v)
    BY <1>1, <1>3 DEF Double
  <2>2. Spacing(v) \in Spacings /\ (v <= MaxExact => Spacing(v) = 1)
    BY <1>3, SpacingFacts
  <2>3. Nearest(v) \in Nat
    BY <2>2 DEF Nearest, Spacings
  <2>4. v \div 1 = v /\ v % 1 = 0
    OBVIOUS
  <2>5. v <= MaxExact => Nearest(v) = v
    BY <2>2, <2>4 DEF Nearest
  <2> QED  BY <2>1, <2>3, <2>5
<1> QED  BY <1>1, <1>2, <1>3

LEMMA ToNumberNat == ASSUME NEW v \in Nat PROVE ToNumber(v) \in Nat
<1> DEFINE k == 256 ^ NumberBytes
<1>1. k \in Nat \ {0}
  BY PowerAssumption
<1> HIDE DEF k
<1>2. v % k \in Nat
  BY <1>1
<1> QED  BY <1>2, DoubleNat DEF ToNumber, k

LEMMA QuotientsNat ==
  ASSUME NEW a \in Nat, NEW b \in Nat, NEW q \in LuaQuotients(a, b)
  PROVE  q \in Nat
<1>1. CASE b = 0
  BY <1>1 DEF LuaQuotients
<1>2. CASE b # 0
  <2> DEFINE d == a \div b
  <2>1. d \in Nat
    BY <1>2, QuotientNat
  <2>2. q \in {d, Double(d), Double(d + 1)}
    BY <1>2 DEF LuaQuotients
  <2> HIDE DEF d
  <2>3. d + 1 \in Nat
    BY <2>1
  <2> QED  BY <2>1, <2>2, <2>3, DoubleNat
<1> QED  BY <1>1, <1>2

LEMMA OperandNat ==
  ASSUME TypeOK, NEW n \in Nat \ {0}
  PROVE  Operand(n) \in Nat
<1>1. lua.stack \in Seq(Nat)
  BY DEF TypeOK
<1>2. ASSUME n <= Len(lua.stack)
      PROVE  lua.stack[Len(lua.stack) + 1 - n] \in Nat
  BY <1>1, <1>2, ItemNat, LenProperties
<1> QED  BY <1>2, ToNumberNat DEF Operand

LEMMA ImmediateFacts ==
  ASSUME TypeOK, NEW n \in Nat
  PROVE  /\ LuaImmediate(n) \in Nat /\ RefImmediate(n) \in Nat
         /\ lua.pc = ref.pc + 1
            => LuaImmediate(n) = IF n <= NumberBytes THEN Double(RefImmediate(n)) ELSE RefImmediate(n)
<1> DEFINE ls == [i \in 1 .. n |-> OrZero(LuaByte(lua.pc + i))]
           rs == [i \in 1 .. n |-> OrZero(RefByte(ref.pc + i))]
<1>1. lua.pc \in Nat /\ ref.pc \in Nat
  BY CodeFacts DEF TypeOK
<1>2. ls \in Seq(Nat) /\ rs \in Seq(Nat)
  <2>1. \A i \in 1 .. n : lua.pc + i \in Int /\ ref.pc + i \in Int
    BY <1>1
  <2>2. \A i \in 1 .. n : OrZero(LuaByte(lua.pc + i)) \in Nat /\ OrZero(RefByte(ref.pc + i)) \in Nat
    BY <2>1, CodeFacts
  <2> QED  BY <2>2
<1>3. ASSUME lua.pc = ref.pc + 1
      PROVE  ls = rs
  <2>1. ASSUME NEW i \in 1 .. n
        PROVE  LuaByte(lua.pc + i) = RefByte(ref.pc + i)
    <3> DEFINE q == lua.pc + i
    <3>1. q \in Int /\ q - 1 = ref.pc + i
      BY <1>1, <1>3
    <3> HIDE DEF q
    <3>2. LuaByte(q) = RefByte(q - 1)
      BY <3>1, CodeFacts
    <3> QED  BY <3>1, <3>2 DEF q
  <2> QED  BY <2>1
<1>4. LuaBytes(n) = NumberOf(ls) /\ RefImmediate(n) = NumberOf(rs)
  BY DEF LuaBytes, RefImmediate
<1> HIDE DEF ls, rs
<1>5. LuaBytes(n) \in Nat /\ RefImmediate(n) \in Nat
  BY <1>2, <1>4, NumberOfNat
<1>6. lua.pc = ref.pc + 1 => LuaBytes(n) = RefImmediate(n)
  BY <1>3, <1>4
<1> QED  BY <1>5, <1>6, DoubleNat DEF LuaImmediate
------------------------------------------------------------------------------
\* What TypeOK says of each side.
LuaTyped == lua \in [pc : 1 .. Len(code) + 33, stack : Seq(Nat), status : Statuses]

RefTyped ==
  /\ ref \in [pc : 0 .. Len(code) + 32, stack : Seq(Nat), status : Statuses]
  /\ Len(ref.stack) <= STACK_LIMIT

LEMMA LuaFrame ==
  ASSUME TypeOK, UNCHANGED code, NEW pc \in 1 .. Len(code) + 33, NEW s \in Seq(Nat),
         NEW st \in Statuses, lua' = Frame(pc, s, st)
  PROVE  LuaTyped'
BY DEF LuaTyped, Frame

LEMMA RefFrame ==
  ASSUME TypeOK, UNCHANGED code, NEW pc \in 0 .. Len(code) + 32, NEW s \in Seq(Nat),
         Len(s) <= STACK_LIMIT, NEW st \in Statuses, ref' = Frame(pc, s, st)
  PROVE  RefTyped'
BY DEF RefTyped, Frame

LEMMA EndsTyped ==
  ASSUME TypeOK, UNCHANGED code, NEW st \in Statuses
  PROVE  /\ LuaEnds(st) => LuaTyped'
         /\ RefEnds(st) => RefTyped'
BY DEF TypeOK, LuaEnds, RefEnds, LuaTyped, RefTyped

LEMMA FrameFacts ==
  ASSUME TypeOK
  PROVE  /\ lua.pc \in 1 .. Len(code) + 33 /\ lua.stack \in Seq(Nat) /\ Len(lua.stack) \in Nat
         /\ ref.pc \in 0 .. Len(code) + 32 /\ ref.stack \in Seq(Nat) /\ Len(ref.stack) \in Nat
         /\ Len(code) \in Nat /\ Len(ref.stack) <= STACK_LIMIT /\ STACK_LIMIT \in Nat \ {0}
         /\ "run" \in Statuses /\ "stopped" \in Statuses /\ "failed" \in Statuses
<1>1. lua.stack \in Seq(Nat) /\ ref.stack \in Seq(Nat) /\ code \in Seq(Byte)
  BY DEF TypeOK
<1>2. Len(lua.stack) \in Nat /\ Len(ref.stack) \in Nat /\ Len(code) \in Nat
  BY <1>1, LenProperties
<1> QED  BY <1>1, <1>2, ProgramAssumption DEF TypeOK, Statuses

\* Every handler of evm.lua keeps the frame's shape.
LEMMA LuaHandlers ==
  ASSUME TypeOK, UNCHANGED code, lua.pc \in 1 .. Len(code)
  PROVE  /\ \A s \in Seq(Nat) : LuaNext(s) => LuaTyped'
         /\ \A n \in 0 .. 32 : LuaPush(n) => LuaTyped'
         /\ \A n \in 1 .. 16 : LuaDup(n) => LuaTyped'
         /\ \A n \in 1 .. 16 : LuaSwap(n) => LuaTyped'
         /\ LuaJump => LuaTyped'
         /\ LuaJumpI => LuaTyped'
         /\ LuaPc => LuaTyped'
         /\ LuaIsZero => LuaTyped'
         /\ LuaDiv => LuaTyped'
<1>a. /\ lua.pc \in 1 .. Len(code) + 33 /\ lua.stack \in Seq(Nat) /\ Len(lua.stack) \in Nat
      /\ ref.pc \in 0 .. Len(code) + 32 /\ ref.stack \in Seq(Nat) /\ Len(ref.stack) \in Nat
      /\ Len(code) \in Nat /\ Len(ref.stack) <= STACK_LIMIT /\ STACK_LIMIT \in Nat \ {0}
      /\ "run" \in Statuses /\ "stopped" \in Statuses /\ "failed" \in Statuses
  BY FrameFacts
<1>1. ASSUME NEW s \in Seq(Nat), LuaNext(s)
      PROVE  LuaTyped'
  BY <1>a, <1>1 DEF LuaNext, LuaGoes, Frame, LuaTyped
<1>2. ASSUME NEW n \in 0 .. 32, LuaPush(n)
      PROVE  LuaTyped'
  <2>0. n \in Nat
    OBVIOUS
  <2>1. LuaImmediate(n) \in Nat
    BY <2>0, ImmediateFacts
  <2>2. Append(lua.stack, LuaImmediate(n)) \in Seq(Nat)
    BY <1>a, <2>1, PushedFacts
  <2>3. lua.pc + 1 + n \in 1 .. Len(code) + 33
    BY <1>a
  <2> QED  BY <1>a, <1>2, <2>2, <2>3, LuaFrame DEF LuaPush, LuaGoes
<1>3. ASSUME NEW n \in 1 .. 16, LuaDup(n)
      PROVE  LuaTyped'
  <2>1. CASE n <= Len(lua.stack)
    <3>0. Len(lua.stack) + 1 - n \in 1 .. Len(lua.stack)
      BY <1>a, <2>1
    <3>1. lua.stack[Len(lua.stack) + 1 - n] \in Nat
      BY <1>a, <3>0, ItemNat
    <3>2. Append(lua.stack, lua.stack[Len(lua.stack) + 1 - n]) \in Seq(Nat)
      BY <1>a, <3>1, PushedFacts
    <3> QED  BY <1>a, <1>1, <1>3, <2>1, <3>2 DEF LuaDup
  <2>2. CASE ~(n <= Len(lua.stack))
    BY <1>a, <1>1, <1>3, <2>2 DEF LuaDup
  <2> QED  BY <1>a, <2>1, <2>2
<1>4. ASSUME NEW n \in 1 .. 16, LuaSwap(n)
      PROVE  LuaTyped'
  <2> DEFINE s == lua.stack
             r == [s EXCEPT ![Len(s)] = s[Len(s) - n], ![Len(s) - n] = s[Len(s)]]
  <2>0. s \in Seq(Nat) /\ n \in Nat /\ r = r
    BY <1>a
  <2>1. ASSUME n < Len(s)
        PROVE  r \in Seq(Nat)
    BY <2>0, <2>1, ExchangedFacts, SMTT(30)
  <2>2. Removed(s, 1) \in Seq(Nat)
    BY <1>a, RemovedFacts
  <2>3. LuaNext(IF n < Len(s) THEN r ELSE Removed(s, 1))
    BY <1>a, <1>4 DEF LuaSwap
  <2> HIDE DEF r
  <2> QED  BY <1>a, <1>1, <2>1, <2>2, <2>3
<1>5. ASSUME NEW k \in Nat, lua' = Frame(lua.pc, Removed(lua.stack, k), "stopped")
      PROVE  LuaTyped'
  <2>1. Removed(lua.stack, k) \in Seq(Nat)
    BY <1>a, RemovedFacts
  <2> QED  BY <1>a, <1>5, <2>1 DEF Frame, LuaTyped
<1>13. ASSUME NEW k \in Nat, NEW d \in Nat, LuaAccepts(d), LuaGoes(d + 1, Removed(lua.stack, k))
       PROVE  LuaTyped'
  <2>1. Removed(lua.stack, k) \in Seq(Nat)
    BY <1>a, RemovedFacts
  <2>2. d + 1 \in 1 .. Len(code) + 33
    <3>1. d \in Int /\ LuaByte(d) # -1
      BY <1>13 DEF LuaAccepts, JUMPDEST
    <3>2. d \in 1 .. Len(code)
      BY <3>1, CodeFacts
    <3> QED  BY <1>a, <3>2
  <2> QED  BY <1>a, <1>13, <2>1, <2>2 DEF LuaGoes, Frame, LuaTyped
<1>6. Operand(1) \in Nat /\ Operand(2) \in Nat
  BY <1>a, OperandNat
<1>7. ASSUME LuaJump
      PROVE  LuaTyped'
  <2>1. CASE LuaAccepts(Operand(1))
    <3>1. LuaGoes(Operand(1) + 1, Removed(lua.stack, 1))
      BY <1>7, <2>1 DEF LuaJump
    <3> QED  BY <1>6, <1>13, <2>1, <3>1
  <2>2. CASE ~LuaAccepts(Operand(1))
    <3>1. lua' = Frame(lua.pc, Removed(lua.stack, 1), "stopped")
      BY <1>7, <2>2 DEF LuaJump
    <3> QED  BY <1>5, <3>1
  <2> QED  BY <2>1, <2>2
<1>8. ASSUME LuaJumpI
      PROVE  LuaTyped'
  <2>1. CASE Operand(2) = 0
    <3>1. LuaNext(Removed(lua.stack, 2)) /\ Removed(lua.stack, 2) \in Seq(Nat)
      BY <1>a, <1>8, <2>1, RemovedFacts DEF LuaJumpI
    <3> QED  BY <1>1, <3>1
  <2>2. CASE Operand(2) # 0 /\ LuaAccepts(Operand(1))
    <3>1. LuaGoes(Operand(1) + 1, Removed(lua.stack, 2))
      BY <1>8, <2>2 DEF LuaJumpI
    <3> QED  BY <1>6, <1>13, <2>2, <3>1
  <2>3. CASE Operand(2) # 0 /\ ~LuaAccepts(Operand(1))
    <3>1. lua' = Frame(lua.pc, Removed(lua.stack, 2), "stopped")
      BY <1>8, <2>3 DEF LuaJumpI
    <3> QED  BY <1>5, <3>1
  <2> QED  BY <2>1, <2>2, <2>3
<1>9. ASSUME NEW k \in Nat, NEW v \in Nat, LuaNext(Append(Removed(lua.stack, k), v))
      PROVE  LuaTyped'
  <2>1. Removed(lua.stack, k) \in Seq(Nat)
    BY <1>a, RemovedFacts
  <2>2. Append(Removed(lua.stack, k), v) \in Seq(Nat)
    BY <1>a, <2>1, PushedFacts
  <2> QED  BY <1>a, <1>1, <1>9, <2>2
<1>10. LuaPc => LuaTyped'
  <2>1. Append(lua.stack, lua.pc - 1) \in Seq(Nat)
    BY <1>a, PushedFacts
  <2> QED  BY <1>a, <1>1, <2>1 DEF LuaPc
<1>11. LuaIsZero => LuaTyped'
  BY <1>a, <1>9 DEF LuaIsZero
<1>12. LuaDiv => LuaTyped'
  <2> SUFFICES ASSUME NEW q \in LuaQuotients(Operand(1), Operand(2)),
                      LuaNext(Append(Removed(lua.stack, 2), q))
               PROVE  LuaTyped'
    BY DEF LuaDiv
  <2>1. q \in Nat
    BY <1>6, QuotientsNat
  <2> QED  BY <1>9, <2>1
<1> QED  BY <1>1, <1>2, <1>3, <1>4, <1>7, <1>8, <1>10, <1>11, <1>12

LEMMA ItemTyped ==
  ASSUME TypeOK, NEW n \in Nat \ {0}, ~Underflows(n)
  PROVE  Item(n) \in Nat
BY FrameFacts, ItemNat DEF Underflows, Item

\* Every handler of the reference does.
LEMMA RefHandlers ==
  ASSUME TypeOK, UNCHANGED code, ref.pc \in 0 .. Len(code) - 1
  PROVE  /\ \A s \in Seq(Nat) : Len(s) <= STACK_LIMIT /\ RefNext(s) => RefTyped'
         /\ \A n \in 0 .. 32 : RefPush(n) => RefTyped'
         /\ \A n \in 1 .. 16 : RefDup(n) => RefTyped'
         /\ \A n \in 1 .. 16 : RefSwap(n) => RefTyped'
         /\ RefPop => RefTyped'
         /\ RefJump => RefTyped'
         /\ RefJumpI => RefTyped'
         /\ RefPc => RefTyped'
         /\ RefIsZero => RefTyped'
         /\ RefDiv => RefTyped'
<1>a. /\ lua.pc \in 1 .. Len(code) + 33 /\ lua.stack \in Seq(Nat) /\ Len(lua.stack) \in Nat
      /\ ref.pc \in 0 .. Len(code) + 32 /\ ref.stack \in Seq(Nat) /\ Len(ref.stack) \in Nat
      /\ Len(code) \in Nat /\ Len(ref.stack) <= STACK_LIMIT /\ STACK_LIMIT \in Nat \ {0}
      /\ "run" \in Statuses /\ "stopped" \in Statuses /\ "failed" \in Statuses
  BY FrameFacts
<1>0. RefRaises => RefTyped'
  BY <1>a, EndsTyped DEF RefRaises
<1>1. ASSUME NEW s \in Seq(Nat), Len(s) <= STACK_LIMIT, RefNext(s)
      PROVE  RefTyped'
  <2>1. ref.pc + 1 \in 0 .. Len(code) + 32
    BY <1>a
  <2> QED  BY <1>a, <1>1, <2>1, RefFrame DEF RefNext, RefGoes
<1>2. ASSUME NEW pc \in 0 .. Len(code) + 32, NEW v \in Nat, RefPushValue(pc, v)
      PROVE  RefTyped'
  <2>1. CASE Overflows
    BY <1>a, <1>0, <1>2, <2>1 DEF RefPushValue
  <2>2. CASE ~Overflows
    <3>1. Append(ref.stack, v) \in Seq(Nat) /\ Len(Append(ref.stack, v)) <= STACK_LIMIT
      BY <1>a, <2>2, PushedFacts DEF Overflows
    <3> QED  BY <1>a, <1>2, <2>2, <3>1, RefFrame DEF RefPushValue, RefGoes
  <2> QED  BY <1>a, <2>1, <2>2
<1>3. ASSUME NEW n \in 0 .. 32, RefPush(n)
      PROVE  RefTyped'
  <2>0. n \in Nat
    OBVIOUS
  <2>1. RefImmediate(n) \in Nat
    BY <2>0, ImmediateFacts
  <2>2. ref.pc + 1 + n \in 0 .. Len(code) + 32
    <3>1. ref.pc \in Nat /\ ref.pc <= Len(code) - 1 /\ Len(code) \in Nat
      BY <1>a
    <3> QED  BY <2>0, <3>1
  <2> QED  BY <1>2, <1>3, <2>1, <2>2 DEF RefPush
<1>4. ASSUME NEW n \in 1 .. 16, RefDup(n)
      PROVE  RefTyped'
  <2>1. ref.pc + 1 \in 0 .. Len(code) + 32
    BY <1>a
  <2> QED  BY <1>a, <1>0, <1>2, <1>4, <2>1, ItemTyped, SMTT(30) DEF RefDup
<1>5. ASSUME NEW n \in 1 .. 16, RefSwap(n)
      PROVE  RefTyped'
  <2> DEFINE s == ref.stack
             r == [s EXCEPT ![Len(s)] = s[Len(s) - n], ![Len(s) - n] = s[Len(s)]]
  <2>0. s \in Seq(Nat) /\ n \in Nat /\ (~Underflows(n + 1) => n < Len(s))
    BY <1>a DEF Underflows
  <2>1. ASSUME ~Underflows(n + 1)
        PROVE  r \in Seq(Nat) /\ Len(r) = Len(s)
    BY <2>0, <2>1, ExchangedFacts
  <2>2. IF Underflows(n + 1) THEN RefRaises ELSE RefNext(r)
    BY <1>a, <1>5 DEF RefSwap
  <2> HIDE DEF r
  <2> QED  BY <1>a, <1>0, <1>1, <2>1, <2>2
<1>6. ASSUME NEW k \in Nat
      PROVE  Removed(ref.stack, k) \in Seq(Nat) /\ Len(Removed(ref.stack, k)) <= STACK_LIMIT
  <2>1. Removed(ref.stack, k) \in Seq(Nat) /\ Len(Removed(ref.stack, k)) <= Len(ref.stack)
    BY <1>a, RemovedFacts
  <2> QED  BY <1>a, <2>1, LenProperties
<1>7. RefPop => RefTyped'
  BY <1>a, <1>0, <1>1, <1>6 DEF RefPop
<1>8. ASSUME NEW k \in Nat, NEW d, Valid(d), RefGoes(d, Removed(ref.stack, k)), d \in Nat
      PROVE  RefTyped'
  <2>1. d \in 0 .. Len(code) + 32
    <3>1. d \in Int /\ RefByte(d) # -1
      BY <1>8 DEF Valid, JUMPDEST
    <3>2. d \in 0 .. Len(code) - 1
      BY <3>1, CodeFacts
    <3> QED  BY <1>a, <3>2
  <2> QED  BY <1>a, <1>6, <1>8, <2>1, RefFrame DEF RefGoes
<1>9. RefJump => RefTyped'
  BY <1>a, <1>0, <1>8, ItemTyped DEF RefJump
<1>10. RefJumpI => RefTyped'
  <2>1. ~Underflows(2) => ~Underflows(1)
    BY <1>a DEF Underflows
  <2> QED  BY <1>a, <1>0, <1>1, <1>6, <1>8, <2>1, ItemTyped DEF RefJumpI
<1>11. RefPc => RefTyped'
  <2>1. ref.pc + 1 \in 0 .. Len(code) + 32
    BY <1>a
  <2> QED  BY <1>a, <1>2, <2>1 DEF RefPc
<1>12. ASSUME NEW k \in Nat \ {0}, ~Underflows(k), NEW v \in Nat,
              RefNext(Append(Removed(ref.stack, k), v))
       PROVE  RefTyped'
  <2>1. Removed(ref.stack, k) \in Seq(Nat) /\ Len(Removed(ref.stack, k)) = Len(ref.stack) - k
    <3>1. k \in Nat /\ k <= Len(ref.stack)
      BY <1>a, <1>12 DEF Underflows
    <3> QED  BY <1>a, <3>1, RemovedFacts
  <2> DEFINE s == Append(Removed(ref.stack, k), v)
  <2>2. s \in Seq(Nat) /\ Len(s) <= STACK_LIMIT
    BY <1>a, <2>1, PushedFacts
  <2> HIDE DEF s
  <2> QED  BY <1>a, <1>1, <1>12, <2>2 DEF s
<1>13. RefIsZero => RefTyped'
  BY <1>a, <1>0, <1>12 DEF RefIsZero
<1>14. RefDiv => RefTyped'
  <2>1. ~Underflows(2) => ~Underflows(1)
    BY <1>a DEF Underflows
  <2>2. ~Underflows(2) => (IF Item(2) = 0 THEN 0 ELSE Item(1) \div Item(2)) \in Nat
    BY <2>1, ItemTyped, QuotientNat
  <2> QED  BY <1>a, <1>0, <1>12, <2>2 DEF RefDiv
<1> QED  BY <1>1, <1>3, <1>4, <1>5, <1>7, <1>9, <1>10, <1>11, <1>13, <1>14
\* A byte that is read is in the code, for either side.
LEMMA ReadsFacts ==
  ASSUME TypeOK, NEW op, Reads(op), op # -1
  PROVE  lua.pc \in 1 .. Len(code) /\ ref.pc \in 0 .. Len(code) - 1 /\ UNCHANGED code
<1>1. lua.pc \in Int /\ ref.pc \in Int
  BY FrameFacts
<1>2. LuaByte(lua.pc) # -1 /\ RefByte(ref.pc) # -1
  BY DEF Reads, LuaReads, RefReads
<1>3. lua.pc \in 1 .. Len(code)
  BY <1>1, <1>2, CodeFacts
<1>4. ref.pc \in 0 .. Len(code) - 1
  BY <1>1, <1>2, CodeFacts
<1> QED  BY <1>3, <1>4 DEF Reads

LEMMA InitTyped == Init => TypeOK
<1> SUFFICES ASSUME Init PROVE TypeOK
  OBVIOUS
<1>1. code \in Seq(Byte)
  <2>1. PICK n \in DOMAIN Alphabets : code \in [1 .. n -> Alphabets[n]]
    BY DEF Init
  <2>2. n \in Nat /\ Alphabets[n] \subseteq Byte
    BY ProgramAssumption, ElementOfSeq, LenProperties
  <2>3. code \in [1 .. n -> Byte]
    BY <2>1, <2>2
  <2> QED  BY <2>2, <2>3
<1>2. Len(code) \in Nat
  BY <1>1, LenProperties
<1>3. <<>> \in Seq(Nat) /\ Len(<<>>) = 0
  OBVIOUS
<1>4. lua \in [pc : 1 .. Len(code) + 33, stack : Seq(Nat), status : Statuses]
  BY <1>2, <1>3 DEF Init, Frame, Statuses
<1>5. ref \in [pc : 0 .. Len(code) + 32, stack : Seq(Nat), status : Statuses]
  BY <1>2, <1>3 DEF Init, Frame, Statuses
<1>6. Len(ref.stack) <= STACK_LIMIT
  BY <1>3, ProgramAssumption DEF Init, Frame
<1> QED  BY <1>1, <1>4, <1>5, <1>6 DEF TypeOK

LEMMA BothTyped ==
  ASSUME TypeOK, UNCHANGED code, LuaTyped', RefTyped'
  PROVE  TypeOK'
BY DEF TypeOK, LuaTyped, RefTyped

LEMMA NextTyped ==
  ASSUME TypeOK, [Next]_vars
  PROVE  TypeOK'
<1>a. ASSUME NEW op, op # -1, Reads(op)
      PROVE  lua.pc \in 1 .. Len(code) /\ ref.pc \in 0 .. Len(code) - 1 /\ UNCHANGED code
  BY <1>a, ReadsFacts
<1>b. lua.stack \in Seq(Nat) /\ ref.stack \in Seq(Nat) /\ Len(ref.stack) <= STACK_LIMIT
      /\ "stopped" \in Statuses /\ "failed" \in Statuses
  BY FrameFacts
<1>1. ASSUME Stop PROVE TypeOK'
  BY <1>1, <1>b, EndsTyped, BothTyped DEF Stop, Reads
<1>2. ASSUME Pop PROVE TypeOK'
  <2>1. lua.pc \in 1 .. Len(code) /\ ref.pc \in 0 .. Len(code) - 1 /\ UNCHANGED code
    BY <1>2, <1>a DEF Pop, POP
  <2>2. Removed(lua.stack, 1) \in Seq(Nat)
    BY <1>b, RemovedFacts
  <2> QED  BY <1>2, <2>1, <2>2, LuaHandlers, RefHandlers, BothTyped DEF Pop
<1>3. ASSUME NEW op \in {PUSH0} \cup PUSH, Push(op) PROVE TypeOK'
  <2>1. lua.pc \in 1 .. Len(code) /\ ref.pc \in 0 .. Len(code) - 1 /\ UNCHANGED code
    BY <1>3, <1>a DEF Push, PUSH, PUSH0
  <2>2. op - PUSH0 \in 0 .. 32
    BY DEF PUSH, PUSH0
  <2> QED  BY <1>3, <2>1, <2>2, LuaHandlers, RefHandlers, BothTyped DEF Push
<1>4. ASSUME Push0 PROVE TypeOK'
  <2>1. Push(PUSH0)
    BY <1>4 DEF Push0, Push, PUSH0
  <2> QED  BY <1>3, <2>1
<1>5. ASSUME NEW op \in DUP, Dup(op) PROVE TypeOK'
  <2>1. lua.pc \in 1 .. Len(code) /\ ref.pc \in 0 .. Len(code) - 1 /\ UNCHANGED code
    BY <1>5, <1>a DEF Dup, DUP
  <2>2. op - 127 \in 1 .. 16
    BY DEF DUP
  <2> QED  BY <1>5, <2>1, <2>2, LuaHandlers, RefHandlers, BothTyped DEF Dup
<1>6. ASSUME NEW op \in SWAP, Swap(op) PROVE TypeOK'
  <2>1. lua.pc \in 1 .. Len(code) /\ ref.pc \in 0 .. Len(code) - 1 /\ UNCHANGED code
    BY <1>6, <1>a DEF Swap, SWAP
  <2>2. op - 143 \in 1 .. 16
    BY DEF SWAP
  <2> QED  BY <1>6, <2>1, <2>2, LuaHandlers, RefHandlers, BothTyped DEF Swap
<1>7. ASSUME Jump PROVE TypeOK'
  <2>1. lua.pc \in 1 .. Len(code) /\ ref.pc \in 0 .. Len(code) - 1 /\ UNCHANGED code
    BY <1>7, <1>a DEF Jump, JUMP
  <2> QED  BY <1>7, <2>1, LuaHandlers, RefHandlers, BothTyped DEF Jump
<1>8. ASSUME JumpI PROVE TypeOK'
  <2>1. lua.pc \in 1 .. Len(code) /\ ref.pc \in 0 .. Len(code) - 1 /\ UNCHANGED code
    BY <1>8, <1>a DEF JumpI, JUMPI
  <2> QED  BY <1>8, <2>1, LuaHandlers, RefHandlers, BothTyped DEF JumpI
<1>9. ASSUME Pc PROVE TypeOK'
  <2>1. lua.pc \in 1 .. Len(code) /\ ref.pc \in 0 .. Len(code) - 1 /\ UNCHANGED code
    BY <1>9, <1>a DEF Pc, PC
  <2> QED  BY <1>9, <2>1, LuaHandlers, RefHandlers, BothTyped DEF Pc
<1>10. ASSUME JumpDest PROVE TypeOK'
  <2>1. lua.pc \in 1 .. Len(code) /\ ref.pc \in 0 .. Len(code) - 1 /\ UNCHANGED code
    BY <1>10, <1>a DEF JumpDest, JUMPDEST
  <2> QED  BY <1>10, <1>b, <2>1, LuaHandlers, RefHandlers, BothTyped DEF JumpDest
<1>11. ASSUME IsZero PROVE TypeOK'
  <2>1. lua.pc \in 1 .. Len(code) /\ ref.pc \in 0 .. Len(code) - 1 /\ UNCHANGED code
    BY <1>11, <1>a DEF IsZero, ISZERO
  <2> QED  BY <1>11, <2>1, LuaHandlers, RefHandlers, BothTyped DEF IsZero
<1>12. ASSUME Div PROVE TypeOK'
  <2>1. lua.pc \in 1 .. Len(code) /\ ref.pc \in 0 .. Len(code) - 1 /\ UNCHANGED code
    BY <1>12, <1>a DEF Div, DIV
  <2> QED  BY <1>12, <2>1, LuaHandlers, RefHandlers, BothTyped DEF Div
<1>13. ASSUME Unknown PROVE TypeOK'
  BY <1>13, <1>b, EndsTyped, BothTyped DEF Unknown, Reads, RefRaises
<1>14. ASSUME EndOfCode PROVE TypeOK'
  BY <1>14, <1>b, EndsTyped, BothTyped DEF EndOfCode, Reads
<1>15. ASSUME UNCHANGED vars PROVE TypeOK'
  BY <1>15 DEF vars, TypeOK
<1> QED  BY <1>1, <1>2, <1>3, <1>4, <1>5, <1>6, <1>7, <1>8, <1>9, <1>10, <1>11, <1>12, <1>13,
            <1>14, <1>15 DEF Next, Over

\* Both frames keep their shape, whatever bytes the program is made of: the counters stay
\* within the code, its end and the data of a last PUSH, every item is a natural number,
\* and the reference's stack never passes its limit.
THEOREM ProgramTypeCorrect == Spec => []TypeOK
<1>1. TypeOK /\ [Next]_vars => TypeOK'
  BY NextTyped
<1> QED  BY <1>1, InitTyped, PTL DEF Spec
------------------------------------------------------------------------------
(***************************************************************************)
(* Where the two sides part.                                               *)
(***************************************************************************)
\* What a step from equal frames may do.
Parting ==
  \/ InStep'
  \/ /\ ListedDifference
     /\ ChangesWord \/ lua'.status # "run" \/ ref'.status # "run"

LEMMA NeedsFacts ==
  /\ Needs(POP) = 1 /\ Needs(JUMP) = 1 /\ Needs(ISZERO) = 1
  /\ Needs(JUMPI) = 2 /\ Needs(DIV) = 2
  /\ \A op \in DUP : Needs(op) = op - 127
  /\ \A op \in SWAP : Needs(op) = op - 142
BY DEF Needs, POP, JUMP, ISZERO, JUMPI, DIV, DUP, SWAP

\* The same stack, read by either side, unless toNumber changes what an opcode takes.
LEMMA SameItem ==
  ASSUME TypeOK, InStep, NEW n \in Nat \ {0}, ~Underflows(n), Item(n) = ToNumber(Item(n))
  PROVE  Operand(n) = Item(n)
BY FrameFacts DEF InStep, Underflows, Item, Operand

LEMMA Uncut ==
  ASSUME At({JUMP, JUMPI, ISZERO, DIV}), ~CutsOperand, NEW n \in 1 .. Needs(RefByte(ref.pc))
  PROVE  Item(n) = ToNumber(Item(n))
BY DEF CutsOperand

\* Frames that go on alike stay in step, and so do frames that end alike.
LEMMA GoOnAlike ==
  ASSUME NEW pc \in Int, NEW s, LuaGoes(pc + 1, s), RefGoes(pc, s)
  PROVE  InStep'
BY DEF LuaGoes, RefGoes, Frame, InStep

LEMMA NextAlike ==
  ASSUME TypeOK, InStep, lua.status = "run", NEW s, LuaNext(s), RefNext(s)
  PROVE  InStep'
<1> DEFINE pc == ref.pc + 1
<1>1. pc \in Int /\ lua.pc = pc
  BY FrameFacts DEF InStep
<1> HIDE DEF pc
<1>2. LuaGoes(pc + 1, s)
  BY <1>1 DEF LuaNext
<1>3. RefGoes(pc, s)
  BY DEF RefNext, pc
<1> QED  BY <1>1, <1>2, <1>3, GoOnAlike

LEMMA EndAlike ==
  ASSUME TypeOK, InStep, NEW st, st # "run", LuaEnds(st), RefEnds(st)
  PROVE  InStep'
BY DEF TypeOK, LuaEnds, RefEnds, InStep

LEMMA RaisesEnds == ASSUME TypeOK, RefRaises PROVE ref'.status # "run"
BY DEF TypeOK, RefRaises, RefEnds

LEMMA PushAlike ==
  ASSUME TypeOK, InStep, lua.status = "run", NEW n \in Nat, NEW v,
         LuaGoes(lua.pc + 1 + n, Append(lua.stack, v)), RefPushValue(ref.pc + 1 + n, v)
  PROVE  InStep' \/ (Overflows /\ ref'.status # "run")
<1>1. CASE Overflows
  BY <1>1, RaisesEnds DEF RefPushValue
<1>2. CASE ~Overflows
  <2> DEFINE pc == ref.pc + 1 + n
  <2>1. pc \in Int /\ lua.pc + 1 + n = pc + 1 /\ lua.stack = ref.stack
    BY FrameFacts, SMTT(30) DEF InStep
  <2>2. RefGoes(pc, Append(ref.stack, v))
    BY <1>2 DEF RefPushValue
  <2> HIDE DEF pc
  <2> QED  BY <2>1, <2>2, GoOnAlike
<1> QED  BY <1>1, <1>2

\* A destination that both sides take is the same place, and one that they dispute ends one.
LEMMA JumpAlike ==
  ASSUME TypeOK, InStep, lua.status = "run", NEW d \in Nat, NEW s,
         IF LuaAccepts(d) THEN LuaGoes(d + 1, s) ELSE lua' = Frame(lua.pc, s, "stopped"),
         IF Valid(d) THEN RefGoes(d, s) ELSE RefRaises
  PROVE  InStep' \/ (Disputed(d) /\ (lua'.status # "run" \/ ref'.status # "run"))
<1>1. LuaByte(d) = RefByte(d - 1)
  BY CodeFacts
<1>2. CASE Valid(d) /\ LuaAccepts(d)
  BY <1>2, GoOnAlike
<1>3. CASE ~Valid(d)
  BY <1>3, RaisesEnds DEF Disputed
<1>4. CASE Valid(d) /\ ~LuaAccepts(d)
  BY <1>1, <1>4 DEF Disputed, LuaAccepts, Frame
<1> QED  BY <1>2, <1>3, <1>4

LEMMA NoBytes == RefImmediate(0) = Double(RefImmediate(0))
<1> DEFINE s == [i \in 1 .. 0 |-> OrZero(RefByte(ref.pc + i))]
<1>1. s = <<>>
  OBVIOUS
<1>2. ASSUME NEW t, Len(t) = 0
      PROVE  NumberOf(t) = 0
  <2> DEFINE Value(f) == f = [n \in 0 .. Len(t) |-> IF n = 0 THEN 0 ELSE 256 * f[n - 1] + t[n]]
             value == CHOOSE f : Value(f)
  <2>0. Len(t) \in Nat
    BY <1>2
  <2>1. \E f : Value(f)
    BY <2>0, ValueDefined
  <2>2. Value(value)
    BY <2>1
  <2>3. value[0] = 0
    BY <1>2, <2>2
  <2> QED  BY <1>2, <2>3 DEF NumberOf
<1>3. RefImmediate(0) = 0
  BY <1>1, <1>2 DEF RefImmediate
<1> QED  BY <1>3, DoubleNat, ExactAssumption

LEMMA StepParts ==
  ASSUME TypeOK, InStep, Next
  PROVE  Parting
<1>a. /\ lua.stack = ref.stack /\ lua.status = ref.status
      /\ ref.stack \in Seq(Nat) /\ Len(ref.stack) \in Nat /\ ref.pc \in Int
  BY FrameFacts DEF InStep
<1>b. ASSUME NEW op, Reads(op)
      PROVE  RefByte(ref.pc) = op /\ ref.status = "run" /\ lua.status = "run"
  BY <1>b DEF Reads, LuaReads, RefReads
<1>c. ASSUME NEW op, Reads(op), NEW n \in Nat, Needs(op) = n, Underflows(n), RefRaises
      PROVE  Parting
  BY <1>b, <1>c, RaisesEnds DEF Parting, ListedDifference
<1>d. ASSUME NEW op \in {PUSH0, PC} \cup PUSH \cup DUP, Reads(op), Overflows, ref'.status # "run"
      PROVE  Parting
  BY <1>b, <1>d DEF Parting, ListedDifference, At
<1>e. ASSUME ChangesWord PROVE Parting
  BY <1>e DEF Parting, ListedDifference
<1>g. ASSUME CutsOperand PROVE Parting
  BY <1>e, <1>g DEF ChangesWord
<1>f. ASSUME NEW op \in {JUMP, JUMPI, ISZERO, DIV}, Reads(op), ~CutsOperand,
             NEW n \in 1 .. Needs(op), n \in Nat \ {0}, ~Underflows(n)
      PROVE  Operand(n) = Item(n) /\ Item(n) \in Nat
  <2>1. At({JUMP, JUMPI, ISZERO, DIV}) /\ RefByte(ref.pc) = op
    BY <1>b, <1>f DEF At
  <2>2. Item(n) = ToNumber(Item(n))
    BY <1>f, <2>1, Uncut
  <2> QED  BY <1>f, <2>2, SameItem, ItemTyped
<1>1. ASSUME Stop PROVE Parting
  BY <1>1, EndAlike DEF Stop, Parting
<1>2. ASSUME Pop PROVE Parting
  <2>1. CASE Underflows(1)
    BY <1>2, <1>c, <2>1, NeedsFacts DEF Pop, RefPop
  <2>2. CASE ~Underflows(1)
    BY <1>2, <1>a, <1>b, <2>2, NextAlike DEF Pop, RefPop, Parting
  <2> QED  BY <2>1, <2>2
<1>3. ASSUME NEW op \in {PUSH0} \cup PUSH, Push(op) PROVE Parting
  <2> DEFINE n == op - PUSH0
  <2>1. n \in 0 .. 32 /\ n \in Nat /\ op = PUSH0 + n
    BY DEF PUSH, PUSH0
  <2>3. LuaPush(n) /\ RefPush(n) /\ lua.status = "run" /\ Reads(op)
    BY <1>3, <1>b DEF Push
  <2> HIDE DEF n
  <2>2. LuaImmediate(n) = IF n <= NumberBytes THEN Double(RefImmediate(n)) ELSE RefImmediate(n)
    <3>1. lua.pc = ref.pc + 1
      BY <2>3 DEF InStep
    <3> QED  BY <2>1, <3>1, ImmediateFacts
  <2>4. CASE LuaImmediate(n) = RefImmediate(n)
    <3>1. InStep' \/ (Overflows /\ ref'.status # "run")
      BY <2>1, <2>3, <2>4, PushAlike DEF LuaPush, RefPush
    <3> QED  BY <1>d, <2>3, <3>1 DEF Parting
  <2>5. CASE LuaImmediate(n) # RefImmediate(n)
    <3>1. n <= NumberBytes /\ RefImmediate(n) # Double(RefImmediate(n))
      BY <2>2, <2>5
    <3>2. n \in 1 .. 32
      <4>1. ASSUME n = 0 PROVE FALSE
        BY <4>1, <3>1, NoBytes
      <4> QED  BY <2>1, <4>1
    <3>3. At({PUSH0 + n})
      BY <1>b, <2>1, <2>3 DEF At
    <3> QED  BY <1>e, <3>1, <3>2, <3>3 DEF ChangesWord, RoundsImmediate
  <2> QED  BY <2>4, <2>5
<1>4. ASSUME Push0 PROVE Parting
  <2>1. Push(PUSH0)
    BY <1>4 DEF Push0, Push, PUSH0
  <2> QED  BY <1>3, <2>1
<1>5. ASSUME NEW op \in DUP, Dup(op) PROVE Parting
  <2> DEFINE n == op - 127
  <2>1. n \in Nat \ {0} /\ Needs(op) = n
    BY NeedsFacts DEF DUP
  <2>2. LuaDup(n) /\ RefDup(n) /\ lua.status = "run" /\ Reads(op)
    BY <1>5, <1>b DEF Dup
  <2> HIDE DEF n
  <2>3. CASE Underflows(n)
    BY <1>c, <2>1, <2>2, <2>3 DEF RefDup
  <2>4. CASE ~Underflows(n)
    <3>1. LuaNext(Append(lua.stack, Item(n)))
      BY <1>a, <2>1, <2>2, <2>4 DEF LuaDup, Underflows, Item
    <3>2. RefPushValue(ref.pc + 1, Item(n))
      BY <2>2, <2>4 DEF RefDup
    <3>3. lua.pc + 1 + 0 = lua.pc + 1 /\ ref.pc + 1 + 0 = ref.pc + 1
      BY FrameFacts
    <3>4. LuaGoes(lua.pc + 1 + 0, Append(lua.stack, Item(n))) /\ RefPushValue(ref.pc + 1 + 0, Item(n))
      BY <3>1, <3>2, <3>3 DEF LuaNext
    <3>5. InStep' \/ (Overflows /\ ref'.status # "run")
      BY <2>2, <3>4, PushAlike
    <3> QED  BY <1>d, <2>2, <3>5 DEF Parting
  <2> QED  BY <2>3, <2>4
<1>6. ASSUME NEW op \in SWAP, Swap(op) PROVE Parting
  <2> DEFINE n == op - 143
  <2>1. n \in Nat \ {0} /\ Needs(op) = n + 1
    BY NeedsFacts DEF SWAP
  <2>2. LuaSwap(n) /\ RefSwap(n) /\ lua.status = "run" /\ Reads(op)
    BY <1>6, <1>b DEF Swap
  <2> HIDE DEF n
  <2>3. CASE Underflows(n + 1)
    BY <1>c, <2>1, <2>2, <2>3 DEF RefSwap
  <2>4. CASE ~Underflows(n + 1)
    <3> DEFINE s == ref.stack
               r == [s EXCEPT ![Len(s)] = s[Len(s) - n], ![Len(s) - n] = s[Len(s)]]
    <3>1. n < Len(s)
      BY <1>a, <2>1, <2>4 DEF Underflows
    <3>2. LuaNext(r)
      BY <1>a, <2>2, <3>1 DEF LuaSwap
    <3>3. RefNext(r)
      BY <2>2, <2>4 DEF RefSwap
    <3> HIDE DEF r
    <3> QED  BY <2>2, <3>2, <3>3, NextAlike DEF Parting
  <2> QED  BY <2>3, <2>4
<1>7. ASSUME Jump PROVE Parting
  <2>1. Reads(JUMP) /\ LuaJump /\ RefJump /\ lua.status = "run"
    BY <1>7, <1>b DEF Jump
  <2>2. CASE Underflows(1)
    BY <1>c, <2>1, <2>2, NeedsFacts DEF RefJump
  <2>3. CASE ~Underflows(1) /\ ~CutsOperand
    <3> DEFINE d == Item(1)
    <3>1. Operand(1) = d /\ d \in Nat
      BY <1>f, <2>1, <2>3, NeedsFacts
    <3>2. IF LuaAccepts(d) THEN LuaGoes(d + 1, Removed(ref.stack, 1))
          ELSE lua' = Frame(lua.pc, Removed(ref.stack, 1), "stopped")
      BY <1>a, <2>1, <3>1 DEF LuaJump
    <3>3. IF Valid(d) THEN RefGoes(d, Removed(ref.stack, 1)) ELSE RefRaises
      BY <2>1, <2>3 DEF RefJump
    <3>4. Disputed(d) => ListedDifference
      BY <1>b, <2>1 DEF ListedDifference, At
    <3> HIDE DEF d
    <3>5. InStep' \/ (Disputed(d) /\ (lua'.status # "run" \/ ref'.status # "run"))
      BY <2>1, <3>1, <3>2, <3>3, JumpAlike
    <3> QED  BY <3>4, <3>5 DEF Parting
  <2> QED  BY <1>g, <2>2, <2>3
<1>8. ASSUME JumpI PROVE Parting
  <2>1. Reads(JUMPI) /\ LuaJumpI /\ RefJumpI /\ lua.status = "run"
    BY <1>8, <1>b DEF JumpI
  <2>2. CASE Underflows(2)
    BY <1>c, <2>1, <2>2, NeedsFacts DEF RefJumpI
  <2>3. CASE ~Underflows(2) /\ ~CutsOperand
    <3> DEFINE d == Item(1)
               s == Removed(ref.stack, 2)
    <3>0. ~Underflows(1)
      BY <1>a, <2>3 DEF Underflows
    <3>1. Operand(1) = d /\ d \in Nat
      BY <1>f, <2>1, <2>3, <3>0, NeedsFacts
    <3>2. Operand(2) = Item(2)
      BY <1>f, <2>1, <2>3, NeedsFacts
    <3>3. CASE Item(2) = 0
      <4>1. LuaNext(s) /\ RefNext(s)
        BY <1>a, <2>1, <2>3, <3>2, <3>3 DEF LuaJumpI, RefJumpI
      <4> QED  BY <2>1, <4>1, NextAlike DEF Parting
    <3>4. CASE Item(2) # 0
      <4>1. IF LuaAccepts(d) THEN LuaGoes(d + 1, s) ELSE lua' = Frame(lua.pc, s, "stopped")
        BY <1>a, <2>1, <3>1, <3>2, <3>4 DEF LuaJumpI
      <4>2. IF Valid(d) THEN RefGoes(d, s) ELSE RefRaises
        BY <2>1, <2>3, <3>4 DEF RefJumpI
      <4>3. Disputed(d) => ListedDifference
        BY <1>b, <2>1, <3>4 DEF ListedDifference, At
      <4> HIDE DEF d, s
      <4>4. InStep' \/ (Disputed(d) /\ (lua'.status # "run" \/ ref'.status # "run"))
        BY <2>1, <3>1, <4>1, <4>2, JumpAlike
      <4> QED  BY <4>3, <4>4 DEF Parting
    <3> QED  BY <3>3, <3>4
  <2> QED  BY <1>g, <2>2, <2>3
<1>9. ASSUME Pc PROVE Parting
  <2>1. LuaPc /\ RefPc /\ lua.status = "run" /\ Reads(PC)
    BY <1>9, <1>b DEF Pc
  <2>2. lua.pc - 1 = ref.pc /\ lua.pc + 1 + 0 = lua.pc + 1 /\ ref.pc + 1 + 0 = ref.pc + 1
    BY <2>1, FrameFacts DEF InStep
  <2>3. LuaGoes(lua.pc + 1 + 0, Append(lua.stack, ref.pc)) /\ RefPushValue(ref.pc + 1 + 0, ref.pc)
    BY <2>1, <2>2 DEF LuaPc, RefPc, LuaNext
  <2>4. InStep' \/ (Overflows /\ ref'.status # "run")
    BY <2>1, <2>3, PushAlike
  <2> QED  BY <1>d, <2>1, <2>4 DEF Parting
<1>10. ASSUME JumpDest PROVE Parting
  BY <1>10, <1>a, <1>b, NextAlike DEF JumpDest, Parting
<1>11. ASSUME IsZero PROVE Parting
  <2>1. Reads(ISZERO) /\ LuaIsZero /\ RefIsZero /\ lua.status = "run"
    BY <1>11, <1>b DEF IsZero
  <2>2. CASE Underflows(1)
    BY <1>c, <2>1, <2>2, NeedsFacts DEF RefIsZero
  <2>3. CASE ~Underflows(1) /\ ~CutsOperand
    <3>1. Operand(1) = Item(1)
      BY <1>f, <2>1, <2>3, NeedsFacts
    <3> QED  BY <1>a, <2>1, <2>3, <3>1, NextAlike DEF LuaIsZero, RefIsZero, Parting
  <2> QED  BY <1>g, <2>2, <2>3
<1>12. ASSUME Div PROVE Parting
  <2>1. Reads(DIV) /\ LuaDiv /\ RefDiv /\ lua.status = "run"
    BY <1>12, <1>b DEF Div
  <2>2. CASE Underflows(2)
    BY <1>c, <2>1, <2>2, NeedsFacts DEF RefDiv
  <2>3. CASE ~Underflows(2) /\ ~CutsOperand
    <3>0. ~Underflows(1)
      BY <1>a, <2>3 DEF Underflows
    <3>1. Operand(1) = Item(1) /\ Operand(2) = Item(2) /\ Item(1) \in Nat
      BY <1>f, <2>1, <2>3, <3>0, NeedsFacts
    <3> DEFINE q == IF Item(2) = 0 THEN 0 ELSE Item(1) \div Item(2)
    <3>2. CASE Item(1) > MaxExact
      <4>1. RoundsQuotient
        BY <1>b, <2>1, <3>2 DEF RoundsQuotient, At
      <4> QED  BY <1>e, <4>1 DEF ChangesWord
    <3>3. CASE Item(1) <= MaxExact
      <4>1. LuaQuotients(Item(1), Item(2)) = {q}
        BY <3>3 DEF LuaQuotients
      <4>2. RefNext(Append(Removed(ref.stack, 2), q))
        BY <2>1, <2>3 DEF RefDiv
      <4> HIDE DEF q
      <4>3. LuaNext(Append(Removed(ref.stack, 2), q))
        BY <1>a, <2>1, <3>1, <4>1 DEF LuaDiv
      <4> QED  BY <2>1, <4>2, <4>3, NextAlike DEF Parting
    <3> QED  BY <3>1, <3>2, <3>3, ExactAssumption
  <2> QED  BY <1>g, <2>2, <2>3
<1>13. ASSUME Unknown PROVE Parting
  BY <1>13, EndAlike DEF Unknown, RefRaises, Parting
<1>14. ASSUME EndOfCode PROVE Parting
  <2>1. ListedDifference
    BY <1>14, <1>b DEF EndOfCode, ListedDifference, At
  <2>2. lua'.status # "run"
    BY <1>14 DEF EndOfCode, LuaEnds, TypeOK
  <2> QED  BY <2>1, <2>2 DEF Parting
<1>15. ASSUME UNCHANGED vars PROVE Parting
  BY <1>15 DEF vars, InStep, Parting
<1> QED  BY <1>1, <1>2, <1>3, <1>4, <1>5, <1>6, <1>7, <1>8, <1>9, <1>10, <1>11, <1>12, <1>13,
            <1>14, <1>15 DEF Next, Over

LEMMA StutterParts ==
  ASSUME InStep, UNCHANGED vars
  PROVE  Parting
BY DEF vars, InStep, Parting

\* Whatever the program, equal frames stay equal until its stack under- or overflows, its code
\* ends, a jump has a disputed destination, or a double does not hold a word: an operand, a
\* PUSH7 or a quotient.
THEOREM PartOnlyWhereListed == Spec => PartOnlyAsListed
<1>1. TypeOK /\ [Next]_vars => [InStep => InStep' \/ ListedDifference]_vars
  BY StepParts, StutterParts DEF Parting
<1> QED  BY <1>1, ProgramTypeCorrect, PTL DEF Spec, PartOnlyAsListed

\* Whatever the program, when the frames part one of them has ended, unless a double did not
\* hold a word: only then does evm.lua run on beside the reference with other words.
THEOREM OnlyDoublesRunElsewhere == Spec => NeverElsewhere
<1>1. TypeOK /\ [Next]_vars
      => [InStep /\ lua'.status = "run" /\ ref'.status = "run" => InStep' \/ ChangesWord]_vars
  BY StepParts, StutterParts DEF Parting
<1> QED  BY <1>1, ProgramTypeCorrect, PTL DEF Spec, NeverElsewhere
==============================================================================
