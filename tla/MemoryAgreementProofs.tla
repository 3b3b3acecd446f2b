------------------------ MODULE MemoryAgreementProofs ------------------------
(***************************************************************************)
(* The two memories agree for every base, word size, precision of doubles, *)
(* ceiling, set of operands and answers, and length of the execution.      *)
(*                                                                         *)
(* IInv is the conjunction of the checked invariants and of AnswersCut:    *)
(* RETURNDATACOPY writes what was kept of an answer, so the memories agree *)
(* after it only if the two buffers did.  Every opcode that writes is      *)
(* shown to be one write of bytes by each side (Wrote), and WriteKeeps     *)
(* says what such a write must do; MCOPY is one because its loops leave    *)
(* what a copy through a buffer would (CopiedFacts).                       *)
(***************************************************************************)
EXTENDS MemoryAgreement, SequenceTheorems, WellFoundedInduction, TLAPS

LEMMA Least ==
  ASSUME NEW T, T \subseteq Nat, T # {}
  PROVE  \E m \in T : \A n \in T : m <= n
<1>1. IsWellFoundedOn(OpToRel(<, Nat), Nat)
  BY NatLessThanWellFounded
<1>2. PICK m \in T : \A n \in T : <<n, m>> \notin OpToRel(<, Nat)
  BY <1>1, WFMin
<1>3. ASSUME NEW n \in T, n < m
      PROVE  FALSE
  <2>1. <<n, m>> \in OpToRel(<, Nat)
    BY <1>3 DEF OpToRel
  <2> QED  BY <1>2, <2>1
<1> QED  BY <1>3

LEMMA Induction ==
  ASSUME NEW T \in SUBSET Nat, 0 \in T, \A n \in T : n + 1 \in T
  PROVE  T = Nat
<1> SUFFICES ASSUME Nat \ T # {} PROVE FALSE
  OBVIOUS
<1>1. PICK m \in Nat \ T : \A n \in Nat \ T : m <= n
  BY Least
<1>2. m # 0 /\ m - 1 \in Nat /\ m - 1 \in T
  BY <1>1
<1> QED  BY <1>1, <1>2

------------------------------------------------------------------------------
(***************************************************************************)
(* Division with a divisor that is not a number, powers of the base, and   *)
(* the digits of a number that was cut.                                    *)
(***************************************************************************)
LEMMA TimesNat == ASSUME NEW a \in Nat, NEW b \in Nat PROVE a * b \in Nat
OBVIOUS

LEMMA TimesMonotone ==
  ASSUME NEW a \in Nat, NEW b \in Nat, NEW d \in Nat, a <= b
  PROVE  d * a <= d * b
<1>1. b - a \in Nat /\ b = a + (b - a)
  OBVIOUS
<1>2. d * (b - a) \in Nat
  BY <1>1, TimesNat
<1>3. d * b = d * a + d * (b - a)
  OBVIOUS
<1> QED  BY <1>2, <1>3

LEMMA QuotientFacts ==
  ASSUME NEW x \in Nat, NEW d \in Nat \ {0}
  PROVE  /\ x \div d \in Nat /\ x % d \in 0 .. d - 1
         /\ x = d * (x \div d) + (x % d)
<1>1. x \div d \in Nat
  OBVIOUS
<1>2. x % d \in 0 .. d - 1
  OBVIOUS
<1>3. x = d * (x \div d) + (x % d)
  OBVIOUS
<1> QED  BY <1>1, <1>2, <1>3

LEMMA QuotientUnique ==
  ASSUME NEW d \in Nat \ {0}, NEW c \in Nat, NEW r \in 0 .. d - 1
  PROVE  (d * c + r) \div d = c /\ (d * c + r) % d = r
<1> DEFINE x == d * c + r
           q == x \div d
           s == x % d
<1>1. x \in Nat
  BY TimesNat
<1>2. q \in Nat /\ s \in 0 .. d - 1 /\ x = d * q + s
  BY <1>1, QuotientFacts
<1>3. x = d * c + r
  OBVIOUS
<1> HIDE DEF x, q, s
<1>4. ASSUME q < c
      PROVE  FALSE
  <2>1. d * (q + 1) <= d * c
    BY <1>2, <1>4, TimesMonotone
  <2>2. d * (q + 1) = d * q + d
    BY <1>2
  <2> QED  BY <1>2, <1>3, <2>1, <2>2
<1>5. ASSUME c < q
      PROVE  FALSE
  <2>1. d * (c + 1) <= d * q
    BY <1>2, <1>5, TimesMonotone
  <2>2. d * (c + 1) = d * c + d
    BY <1>2
  <2> QED  BY <1>2, <1>3, <2>1, <2>2
<1>6. q = c
  BY <1>2, <1>4, <1>5
<1>7. s = r
  BY <1>2, <1>3, <1>6
<1> QED  BY <1>6, <1>7 DEF x, q, s

LEMMA ShiftedQuotient ==
  ASSUME NEW d \in Nat \ {0}, NEW c \in Nat, NEW r \in Nat
  PROVE  (d * c + r) \div d = c + r \div d /\ (d * c + r) % d = r % d
<1> DEFINE q == r \div d
           s == r % d
<1>1. q \in Nat /\ s \in 0 .. d - 1 /\ r = d * q + s
  BY QuotientFacts
<1>2. d * c + r = d * (c + q) + s
  <2> HIDE DEF q, s
  <2> QED  BY <1>1
<1> HIDE DEF q, s
<1>3. (d * (c + q) + s) \div d = c + q /\ (d * (c + q) + s) % d = s
  BY <1>1, QuotientUnique
<1> QED  BY <1>2, <1>3 DEF q, s

LEMMA Powers == \A n \in 0 .. WordBytes : Base ^ n \in Nat \ {0}
<1> DEFINE T == {n \in Nat : n <= WordBytes => Base ^ n \in Nat \ {0}}
<1>0. WordBytes \in Nat /\ Base \in Nat \ {0}
  BY SizeAssumption
<1>1. 0 \in T
  BY PowerAssumption
<1>2. ASSUME NEW n \in T
      PROVE  n + 1 \in T
  <2>1. SUFFICES ASSUME n + 1 <= WordBytes PROVE Base ^ (n + 1) \in Nat \ {0}
    BY <1>0
  <2>2. n \in 0 .. WordBytes - 1 /\ Base ^ n \in Nat \ {0}
    BY <1>0, <1>2, <2>1
  <2>3. Base ^ (n + 1) = Base * Base ^ n
    BY <2>2, PowerAssumption
  <2> DEFINE p == Base ^ n
  <2> HIDE DEF p
  <2>4. p \in Nat \ {0} /\ Base ^ (n + 1) = Base * p
    BY <2>2, <2>3 DEF p
  <2> QED  BY <1>0, <2>4, TimesNat
<1> HIDE DEF T
<1>3. T = Nat
  <2>1. T \in SUBSET Nat
    BY DEF T
  <2> QED  BY <1>1, <1>2, <2>1, Induction
<1> QED  BY <1>0, <1>3 DEF T

LEMMA PowerOfSum ==
  ASSUME NEW a \in Nat
  PROVE  \A b \in Nat : a + b <= WordBytes => Base ^ (a + b) = Base ^ a * Base ^ b
<1> DEFINE T == {b \in Nat : a + b <= WordBytes => Base ^ (a + b) = Base ^ a * Base ^ b}
<1>0. WordBytes \in Nat /\ Base \in Nat \ {0}
  BY SizeAssumption
<1>1. 0 \in T
  <2>1. SUFFICES ASSUME a <= WordBytes PROVE Base ^ (a + 0) = Base ^ a * Base ^ 0
    OBVIOUS
  <2>2. a + 0 = a /\ Base ^ 0 = 1
    BY PowerAssumption
  <2> DEFINE p == Base ^ a
  <2>3. p \in Nat
    BY <1>0, <2>1, Powers
  <2> HIDE DEF p
  <2>4. p = p * 1
    BY <2>3
  <2> QED  BY <2>2, <2>4 DEF p
<1>2. ASSUME NEW b \in T
      PROVE  b + 1 \in T
  <2>1. SUFFICES ASSUME a + (b + 1) <= WordBytes
                 PROVE  Base ^ (a + (b + 1)) = Base ^ a * Base ^ (b + 1)
    BY <1>0
  <2>2. b \in Nat /\ a + (b + 1) = (a + b) + 1 /\ a + b \in 0 .. WordBytes - 1 /\ b \in 0 .. WordBytes - 1
    BY <1>0, <2>1
  <2> DEFINE p == Base ^ a
             q == Base ^ b
             r == Base ^ (b + 1)
             s == Base ^ (a + b)
             t == Base ^ ((a + b) + 1)
  <2>3. p \in Nat /\ q \in Nat
    BY <1>0, <2>1, <2>2, Powers
  <2>4. t = Base * s /\ r = Base * q
    BY <2>2, PowerAssumption
  <2>5. s = p * q
    <3>1. a + b <= WordBytes
      BY <1>0, <2>2
    <3> QED  BY <1>2, <3>1
  <2> HIDE DEF p, q, r, s, t
  <2>6. t = p * r
    BY <1>0, <2>3, <2>4, <2>5
  <2>7. Base ^ (a + (b + 1)) = t
    BY <2>2 DEF t
  <2> QED  BY <2>6, <2>7 DEF p, r
<1> HIDE DEF T
<1>3. T = Nat
  <2>1. T \in SUBSET Nat
    BY DEF T
  <2> QED  BY <1>1, <1>2, <2>1, Induction
<1> QED  BY <1>0, <1>3 DEF T

\* A byte that toNumber keeps is the word's.
LEMMA KeptDigit ==
  ASSUME NEW v \in Nat, NEW k \in 0 .. NumberBytes - 1
  PROVE  (Kept(v) \div Base ^ k) % Base = (v \div Base ^ k) % Base
<1> DEFINE p == Base ^ k
           all == Base ^ NumberBytes
           m == Base ^ (NumberBytes - k - 1)
           q == v \div all
           r == v % all
<1>0. /\ NumberBytes \in Nat \ {0} /\ NumberBytes <= WordBytes /\ WordBytes \in Nat
      /\ Base \in Nat \ {0}
  BY SizeAssumption
<1>1. /\ k \in 0 .. WordBytes - 1 /\ k + 1 \in 0 .. WordBytes /\ NumberBytes \in 0 .. WordBytes
      /\ NumberBytes - k - 1 \in 0 .. WordBytes /\ (k + 1) + (NumberBytes - k - 1) = NumberBytes
  BY <1>0
<1>2. p \in Nat \ {0} /\ all \in Nat \ {0} /\ m \in Nat \ {0}
  BY <1>0, <1>1, Powers
<1>3. all = (Base * p) * m
  <2> DEFINE u == Base ^ (k + 1)
  <2>1. u = Base * p
    BY <1>1, PowerAssumption
  <2> DEFINE j == NumberBytes - k - 1
  <2>2. k + 1 \in Nat /\ j \in Nat /\ (k + 1) + j = NumberBytes
    BY <1>1
  <2> HIDE DEF j
  <2>3. Base ^ ((k + 1) + j) = Base ^ (k + 1) * Base ^ j
    BY <1>0, <2>2, PowerOfSum
  <2> QED  BY <2>1, <2>2, <2>3 DEF j
<1>4. q \in Nat /\ r \in Nat /\ v = all * q + r
  <2> HIDE DEF all
  <2>1. q \in Nat /\ r \in 0 .. all - 1 /\ v = all * q + r
    BY <1>2, QuotientFacts
  <2> QED  BY <1>2, <2>1
<1>5. Kept(v) = r
  BY DEF Kept
<1> HIDE DEF p, all, m, q, r
<1> DEFINE c == Base * (m * q)
           x == r \div p
<1>6. v = p * c + r /\ m * q \in Nat /\ c \in Nat
  BY <1>0, <1>2, <1>3, <1>4, TimesNat
<1>7. v \div p = c + x
  <2> HIDE DEF c, x
  <2>1. (p * c + r) \div p = c + r \div p
    BY <1>2, <1>4, <1>6, ShiftedQuotient
  <2> QED  BY <1>6, <2>1 DEF x
<1>8. x \in Nat
  BY <1>2, <1>4, QuotientFacts
<1> HIDE DEF x
<1>9. (Base * (m * q) + x) % Base = x % Base
  <2> DEFINE n == m * q
  <2> HIDE DEF n
  <2>1. n \in Nat
    BY <1>6 DEF n
  <2>2. (Base * n + x) % Base = x % Base
    BY <1>0, <1>8, <2>1, ShiftedQuotient
  <2> QED  BY <2>2 DEF n
<1> QED  BY <1>5, <1>7, <1>9 DEF p, x

------------------------------------------------------------------------------
(***************************************************************************)
(* Bytes of words and words of bytes.                                      *)
(***************************************************************************)
LEMMA Sizes ==
  /\ Base \in Nat /\ Base >= 2
  /\ NumberBytes \in Nat \ {0} /\ WordBytes \in Nat \ {0} /\ MAX_MEM_BYTES \in Nat \ {0}
  /\ NumberBytes <= WordBytes /\ LastPosition \in Nat /\ MaxOps \in Nat
  /\ 0 \in Byte /\ Byte \subseteq Nat /\ 0 \in Word /\ Word \subseteq Nat
<1>1. /\ Base \in Nat /\ Base >= 2
      /\ NumberBytes \in Nat \ {0} /\ WordBytes \in Nat \ {0} /\ MAX_MEM_BYTES \in Nat \ {0}
      /\ NumberBytes <= WordBytes /\ LastPosition \in Nat /\ MaxOps \in Nat
  BY SizeAssumption
<1>2. 0 \in Byte /\ Byte \subseteq Nat
  BY <1>1 DEF Byte
<1> DEFINE k == Base ^ WordBytes
<1>3. k \in Nat \ {0}
  BY <1>1, Powers
<1>4. Word = 0 .. k - 1
  BY DEF Word
<1> HIDE DEF k
<1>5. 0 \in Word /\ Word \subseteq Nat
  BY <1>3, <1>4
<1> QED  BY <1>1, <1>2, <1>5

\* A list of n members of S.
LEMMA Listed ==
  ASSUME NEW S, NEW n \in Nat, NEW f, DOMAIN f = 1 .. n, f = [i \in DOMAIN f |-> f[i]],
         \A i \in 1 .. n : f[i] \in S
  PROVE  f \in Seq(S) /\ Len(f) = n
<1>1. f \in [1 .. n -> S]
  OBVIOUS
<1>2. f \in Seq(S)
  BY <1>1
<1> QED  BY <1>2, LenProperties

LEMMA Remainder ==
  ASSUME NEW x \in Nat
  PROVE  x % Base \in Byte
BY Sizes, QuotientFacts DEF Byte

LEMMA KeptNat == ASSUME NEW v \in Nat PROVE Kept(v) \in Nat
<1> DEFINE k == Base ^ NumberBytes
<1>1. k \in Nat \ {0}
  BY Sizes, Powers
<1>2. Kept(v) = v % k
  BY DEF Kept
<1> HIDE DEF k
<1>3. v % k \in 0 .. k - 1
  BY <1>1, QuotientFacts
<1> QED  BY <1>1, <1>2, <1>3

\* The double of a natural number is one, and is the number itself up to MaxExact.
LEMMA SpacingFacts ==
  ASSUME NEW v \in 0 .. MaxLong - 1
  PROVE  Spacing(v) \in Spacings /\ (v <= MaxExact => Spacing(v) = 1)
<1>1. MaxExact \in Nat /\ MaxExact >= 2 /\ v \in Int /\ v <= 1024 * MaxExact
  BY ExactAssumption DEF MaxLong
<1> DEFINE Fits(u) == v <= u * MaxExact
<1>2. \E u \in Spacings : Fits(u) /\ \A w \in Spacings : Fits(w) => u <= w
  <2>1. Fits(1024)
    BY <1>1
  <2> HIDE DEF Fits
  <2> QED  BY <2>1 DEF Spacings
<1>3. v <= MaxExact => \A u \in Spacings : (Fits(u) /\ \A w \in Spacings : Fits(w) => u <= w) => u = 1
  BY <1>1 DEF Spacings
<1>4. /\ Spacing(v) \in Spacings
      /\ Fits(Spacing(v)) /\ \A w \in Spacings : Fits(w) => Spacing(v) <= w
  BY <1>2 DEF Spacing
<1> QED  BY <1>3, <1>4

LEMMA DoubleNat ==
  ASSUME NEW v \in Nat
  PROVE  Double(v) \in Nat /\ (v <= MaxExact => Double(v) = v)
<1>1. MaxExact \in Nat /\ MaxExact >= 2 /\ MaxLong \in Nat /\ MaxLong > MaxExact
  BY ExactAssumption DEF MaxLong
<1>2. CASE v >= MaxLong
  BY <1>1, <1>2 DEF Double
<1>3. CASE v \in 0 .. MaxLong - 1
  <2>1. Double(v) = Nearest(v)
    BY <1>1, <1>3 DEF Double
  <2>2. Spacing(v) \in Spacings /\ (v <= MaxExact => Spacing(v) = 1)
    BY <1>3, SpacingFacts
  <2>3. Nearest(v) \in Nat
    BY <2>2 DEF Nearest, Spacings
  <2>4. v \div 1 = v /\ v % 1 = 0
    OBVIOUS
  <2>5. v <= MaxExact => Nearest(v) = v
    BY <2>2, <2>4 DEF Nearest
  <2> QED  BY <2>1, <2>3, <2>5
<1> QED  BY <1>1, <1>2, <1>3

LEMMA BytesOfWord ==
  ASSUME NEW v \in Nat
  PROVE  BytesOf(v) \in Seq(Byte) /\ Len(BytesOf(v)) = WordBytes
<1> DEFINE b == BytesOf(v)
<1>1. DOMAIN b = 1 .. WordBytes /\ b = [i \in DOMAIN b |-> b[i]]
  BY DEF BytesOf
<1>2. ASSUME NEW i \in 1 .. WordBytes
      PROVE  b[i] \in Byte
  <2> DEFINE k == Base ^ (WordBytes - i)
  <2>1. WordBytes - i \in 0 .. WordBytes
    BY Sizes
  <2>2. k \in Nat \ {0}
    BY <2>1, Powers
  <2>3. b[i] = (v \div k) % Base
    BY DEF BytesOf
  <2> HIDE DEF k, b
  <2>4. v \div k \in Nat
    BY <2>2, QuotientFacts
  <2> QED  BY <2>3, <2>4, Remainder
<1> HIDE DEF b
<1>3. b \in Seq(Byte) /\ Len(b) = WordBytes
  BY <1>1, <1>2, Sizes, Listed
<1> QED  BY <1>3 DEF b

LEMMA KeptBytes ==
  ASSUME NEW v \in Nat, NEW i \in WordBytes - NumberBytes + 1 .. WordBytes
  PROVE  BytesOf(Kept(v))[i] = BytesOf(v)[i]
<1> DEFINE k == WordBytes - i
<1>1. k \in 0 .. NumberBytes - 1 /\ i \in 1 .. WordBytes
  BY Sizes
<1>2. /\ BytesOf(v)[i] = (v \div Base ^ k) % Base
      /\ BytesOf(Kept(v))[i] = (Kept(v) \div Base ^ k) % Base
  BY <1>1 DEF BytesOf
<1> HIDE DEF k
<1> QED  BY <1>1, <1>2, KeptDigit

LEMMA KeptByte ==
  ASSUME NEW v \in Nat
  PROVE  Kept(v) % Base = v % Base
<1> DEFINE t == Kept(v)
<1>1. 0 \in 0 .. NumberBytes - 1
  BY Sizes
<1>2. (t \div Base ^ 0) % Base = (v \div Base ^ 0) % Base
  BY <1>1, KeptDigit
<1>3. t \in Nat
  BY KeptNat
<1> HIDE DEF t
<1>4. t \div 1 = t /\ v \div 1 = v
  BY <1>3
<1> QED  BY <1>2, <1>4, PowerAssumption DEF t

\* The recursive function that NumberOf takes its result from is defined, and bounded.
LEMMA ValueDefined ==
  ASSUME NEW s
  PROVE  \A m \in Nat :
           \E f : f = [n \in 0 .. m |-> IF n = 0 THEN 0 ELSE Base * f[n - 1] + s[n]]
<1> DEFINE Value(f, m) == f = [n \in 0 .. m |-> IF n = 0 THEN 0 ELSE Base * f[n - 1] + s[n]]
           T == {m \in Nat : \E f : Value(f, m)}
<1>1. 0 \in T
  <2> DEFINE f == [n \in 0 .. 0 |-> 0]
  <2>1. Value(f, 0)
    OBVIOUS
  <2> HIDE DEF f, Value
  <2> QED  BY <2>1
<1>2. ASSUME NEW m \in T
      PROVE  m + 1 \in T
  <2>1. PICK f : Value(f, m)
    BY <1>2
  <2> DEFINE g == [n \in 0 .. m + 1 |-> IF n = m + 1 THEN Base * f[m] + s[m + 1] ELSE f[n]]
  <2>2. ASSUME NEW n \in 0 .. m + 1
        PROVE  g[n] = IF n = 0 THEN 0 ELSE Base * g[n - 1] + s[n]
    <3>1. CASE n = 0
      <4>0. 0 \in 0 .. m /\ 0 \in 0 .. m + 1 /\ 0 # m + 1
        BY <1>2
      <4>1. f[0] = 0 /\ g[0] = f[0]
        BY <2>1, <4>0
      <4> QED  BY <3>1, <4>1
    <3>2. CASE n = m + 1
      <4>1. m \in 0 .. m + 1 /\ m # m + 1 /\ m + 1 # 0 /\ (m + 1) - 1 = m /\ m + 1 \in 0 .. m + 1
        BY <1>2
      <4>2. g[m] = f[m] /\ g[m + 1] = Base * f[m] + s[m + 1]
        BY <4>1
      <4> HIDE DEF g
      <4> QED  BY <3>2, <4>1, <4>2
    <3>3. CASE n \in 1 .. m
      <4>1. n \in 0 .. m /\ n - 1 \in 0 .. m /\ n # 0 /\ n # m + 1 /\ n - 1 # m + 1 /\ n - 1 \in 0 .. m + 1
        BY <3>3
      <4>2. g[n] = f[n] /\ g[n - 1] = f[n - 1]
        BY <4>1
      <4>3. f[n] = Base * f[n - 1] + s[n]
        BY <2>1, <4>1
      <4> HIDE DEF g
      <4> QED  BY <4>1, <4>2, <4>3
    <3>4. n = 0 \/ n = m + 1 \/ n \in 1 .. m
      BY <1>2
    <3> QED  BY <3>1, <3>2, <3>3, <3>4
  <2>3. Value(g, m + 1)
    <3>1. m + 1 \in Nat /\ DOMAIN g = 0 .. m + 1 /\ g = [n \in 0 .. m + 1 |-> g[n]]
      BY <1>2
    <3> HIDE DEF g
    <3> QED  BY <2>2, <3>1
  <2> HIDE DEF g, Value
  <2> QED  BY <2>3
<1> HIDE DEF T
<1>3. T = Nat
  <2>1. T \in SUBSET Nat
    BY DEF T
  <2> QED  BY <1>1, <1>2, <2>1, Induction
<1> QED  BY <1>3 DEF T

LEMMA NumberOfBytes ==
  ASSUME NEW s \in Seq(Byte), Len(s) = WordBytes
  PROVE  NumberOf(s) \in Word
<1> DEFINE Value(f) == f = [n \in 0 .. Len(s) |-> IF n = 0 THEN 0 ELSE Base * f[n - 1] + s[n]]
           value == CHOOSE f : Value(f)
<1>0. Len(s) \in Nat /\ \A n \in 1 .. Len(s) : s[n] \in Byte
  BY ElementOfSeq
<1>1. Value(value)
  <2>1. \E f : Value(f)
    BY <1>0, ValueDefined
  <2> QED  BY <2>1
<1>2. value = [n \in 0 .. Len(s) |-> IF n = 0 THEN 0 ELSE Base * value[n - 1] + s[n]]
  BY <1>1
<1>3. NumberOf(s) = value[Len(s)]
  BY DEF NumberOf
<1> HIDE DEF value
<1> DEFINE T == {n \in Nat : n <= WordBytes => value[n] \in 0 .. Base ^ n - 1}
<1>4. 0 \in T
  <2>1. value[0] = 0 /\ Base ^ 0 = 1
    BY <1>0, <1>2, PowerAssumption
  <2> QED  BY <2>1
<1>5. ASSUME NEW n \in T
      PROVE  n + 1 \in T
  <2>1. SUFFICES ASSUME n + 1 <= WordBytes PROVE value[n + 1] \in 0 .. Base ^ (n + 1) - 1
    OBVIOUS
  <2> DEFINE p == Base ^ n
             x == value[n]
             d == s[n + 1]
  <2>2. n \in 0 .. WordBytes - 1 /\ n \in 0 .. WordBytes /\ n + 1 \in 1 .. Len(s)
    BY <2>1, Sizes
  <2>3. p \in Nat \ {0} /\ Base ^ (n + 1) = Base * p
    BY <2>2, Powers, PowerAssumption
  <2>4. x \in 0 .. p - 1
    BY <1>5, <2>2
  <2>5. value[n + 1] = Base * x + d
    <3>1. n + 1 \in 0 .. Len(s) /\ n + 1 # 0 /\ (n + 1) - 1 = n
      BY <2>2
    <3> QED  BY <1>2, <3>1
  <2>6. d \in 0 .. Base - 1
    BY <1>0, <2>2 DEF Byte
  <2> HIDE DEF p, x, d
  <2>7. Base * x <= Base * (p - 1)
    BY <2>3, <2>4, Sizes, TimesMonotone
  <2>8. Base * (p - 1) = Base * p - Base /\ Base * x \in Nat /\ Base * p \in Nat
    BY <2>3, <2>4, Sizes, TimesNat
  <2>9. Base * x + d \in 0 .. Base * p - 1
    BY <2>6, <2>7, <2>8, Sizes
  <2> QED  BY <2>3, <2>5, <2>9
<1> HIDE DEF T
<1>6. T = Nat
  <2>1. T \in SUBSET Nat
    BY DEF T
  <2> QED  BY <1>4, <1>5, <2>1, Induction
<1>7. WordBytes \in T
  BY <1>6, Sizes
<1> QED  BY <1>3, <1>7 DEF T, Word

------------------------------------------------------------------------------
(***************************************************************************)
(* Reads and writes of both memories.                                      *)
(***************************************************************************)
ByteAt(m, p) == IF p + 1 \in DOMAIN m THEN m[p + 1] ELSE 0

LEMMA ClampFacts ==
  ASSUME NEW n \in Nat
  PROVE  Clamp(n) \in Nat /\ Clamp(n) <= n /\ (n > 0 => Clamp(n) > 0)
BY Sizes DEF Clamp, Smaller

LEMMA LuaReadFacts ==
  ASSUME memory \in [Positions -> Byte], NEW off \in Nat, NEW len \in Nat, off + len <= LastPosition
  PROVE  /\ LuaRead(off, len) \in Seq(Byte) /\ Len(LuaRead(off, len)) = len
         /\ \A i \in 1 .. len : LuaRead(off, len)[i] = memory[off + i - 1]
<1> DEFINE r == LuaRead(off, len)
<1>1. DOMAIN r = 1 .. len /\ r = [i \in DOMAIN r |-> r[i]]
  BY DEF LuaRead
<1>2. \A i \in 1 .. len : r[i] = memory[off + i - 1]
  BY DEF LuaRead
<1>3. \A i \in 1 .. len : off + i - 1 \in Positions
  BY Sizes DEF Positions
<1> HIDE DEF r
<1>4. \A i \in 1 .. len : r[i] \in Byte
  BY <1>2, <1>3
<1>5. r \in Seq(Byte) /\ Len(r) = len
  BY <1>1, <1>4, Listed
<1> QED  BY <1>2, <1>5 DEF r

LEMMA RefReadFacts ==
  ASSUME NEW m \in Seq(Byte), NEW off \in Nat, NEW len \in Nat, len > 0 => off + len <= Len(m)
  PROVE  /\ RefRead(m, off, len) \in Seq(Byte) /\ Len(RefRead(m, off, len)) = len
         /\ \A i \in 1 .. len : RefRead(m, off, len)[i] = ByteAt(m, off + i - 1)
<1> DEFINE r == RefRead(m, off, len)
<1>1. DOMAIN r = 1 .. len /\ r = [i \in DOMAIN r |-> r[i]]
  BY DEF RefRead
<1>2. \A i \in 1 .. len : r[i] = m[off + i]
  BY DEF RefRead
<1>3. Len(m) \in Nat /\ DOMAIN m = 1 .. Len(m)
  BY LenProperties
<1>4. \A i \in 1 .. len : off + i \in 1 .. Len(m) /\ (off + i - 1) + 1 = off + i
  BY <1>3
<1> HIDE DEF r
<1>5. \A i \in 1 .. len : r[i] \in Byte
  BY <1>2, <1>4, ElementOfSeq
<1>6. r \in Seq(Byte) /\ Len(r) = len
  BY <1>1, <1>5, Listed
<1>7. \A i \in 1 .. len : r[i] = ByteAt(m, off + i - 1)
  BY <1>2, <1>3, <1>4 DEF ByteAt
<1> QED  BY <1>6, <1>7 DEF r

LEMMA PaddedFacts ==
  ASSUME NEW d \in Seq(Byte), NEW from \in Nat, NEW len \in Nat
  PROVE  /\ Padded(d, from, len) \in Seq(Byte) /\ Len(Padded(d, from, len)) = len
         /\ \A i \in 1 .. len : Padded(d, from, len)[i] = At(d, from + i)
<1> DEFINE r == Padded(d, from, len)
<1>1. DOMAIN r = 1 .. len /\ r = [i \in DOMAIN r |-> r[i]]
  BY DEF Padded
<1>2. \A i \in 1 .. len : r[i] = At(d, from + i)
  BY DEF Padded
<1>3. \A i \in 1 .. len : At(d, from + i) \in Byte
  BY Sizes, LenProperties, ElementOfSeq DEF At
<1> HIDE DEF r
<1>4. \A i \in 1 .. len : r[i] \in Byte
  BY <1>2, <1>3
<1>5. r \in Seq(Byte) /\ Len(r) = len
  BY <1>1, <1>4, Listed
<1> QED  BY <1>2, <1>5 DEF r

LEMMA PrefixFacts ==
  ASSUME NEW d \in Seq(Byte), NEW from \in Nat, NEW len \in Nat, from + len <= Len(d)
  PROVE  /\ SubSeq(d, from + 1, from + len) \in Seq(Byte)
         /\ Len(SubSeq(d, from + 1, from + len)) = len
         /\ \A i \in 1 .. len : SubSeq(d, from + 1, from + len)[i] = d[from + i]
<1> DEFINE r == SubSeq(d, from + 1, from + len)
<1>1. DOMAIN d = 1 .. Len(d) /\ Len(d) \in Nat
  BY LenProperties
<1>2. r = [i \in 1 .. len |-> d[from + i]]
  OBVIOUS
<1>3. \A i \in 1 .. len : from + i \in 1 .. Len(d)
  BY <1>1
<1> HIDE DEF r
<1>4. DOMAIN r = 1 .. len /\ r = [i \in DOMAIN r |-> r[i]]
  BY <1>2
<1>5. \A i \in 1 .. len : r[i] \in Byte /\ r[i] = d[from + i]
  BY <1>2, <1>3, ElementOfSeq
<1>6. r \in Seq(Byte) /\ Len(r) = len
  BY <1>4, <1>5, Listed
<1> QED  BY <1>5, <1>6 DEF r

LEMMA LuaStoresFacts ==
  ASSUME memory \in [Positions -> Byte], NEW off \in Nat, NEW b \in Seq(Byte)
  PROVE  LuaStores(off, b) \in [Positions -> Byte]
<1>1. DOMAIN b = 1 .. Len(b) /\ \A i \in DOMAIN b : b[i] \in Byte
  BY LenProperties, ElementOfSeq
<1> QED  BY <1>1 DEF LuaStores

LEMMA WrittenFacts ==
  ASSUME NEW m \in Seq(Byte), NEW off \in Nat, NEW b \in Seq(Byte),
         Len(b) > 0 => off + Len(b) <= Len(m)
  PROVE  /\ Written(m, off, b) \in Seq(Byte) /\ Len(Written(m, off, b)) = Len(m)
         /\ \A p \in Nat : ByteAt(Written(m, off, b), p) =
                             IF p - off + 1 \in DOMAIN b THEN b[p - off + 1] ELSE ByteAt(m, p)
<1> DEFINE r == Written(m, off, b)
<1>1. /\ Len(m) \in Nat /\ DOMAIN m = 1 .. Len(m) /\ \A i \in 1 .. Len(m) : m[i] \in Byte
      /\ Len(b) \in Nat /\ DOMAIN b = 1 .. Len(b) /\ \A i \in 1 .. Len(b) : b[i] \in Byte
  BY LenProperties, ElementOfSeq
<1>2. DOMAIN r = 1 .. Len(m) /\ r = [i \in DOMAIN r |-> r[i]]
  BY DEF Written
<1>3. \A i \in 1 .. Len(m) : r[i] = IF i - off \in DOMAIN b THEN b[i - off] ELSE m[i]
  BY DEF Written
<1> HIDE DEF r
<1>4. \A i \in 1 .. Len(m) : r[i] \in Byte
  BY <1>1, <1>3
<1>5. r \in Seq(Byte) /\ Len(r) = Len(m)
  BY <1>1, <1>2, <1>4, Listed
<1>6. ASSUME NEW p \in Nat
      PROVE  ByteAt(r, p) = IF p - off + 1 \in DOMAIN b THEN b[p - off + 1] ELSE ByteAt(m, p)
  <2>1. (p + 1) - off = p - off + 1
    OBVIOUS
  <2>2. CASE p + 1 \in 1 .. Len(m)
    <3>1. r[p + 1] = IF (p + 1) - off \in DOMAIN b THEN b[(p + 1) - off] ELSE m[p + 1]
      BY <1>3, <2>2
    <3> QED  BY <1>1, <1>2, <2>1, <2>2, <3>1 DEF ByteAt
  <2>3. CASE p + 1 \notin 1 .. Len(m)
    <3>1. p - off + 1 \notin 1 .. Len(b)
      BY <1>1, <2>3
    <3> QED  BY <1>1, <1>2, <2>3, <3>1 DEF ByteAt
  <2> QED  BY <2>2, <2>3
<1> QED  BY <1>5, <1>6 DEF r

LEMMA CeilWordFacts ==
  ASSUME NEW n \in Nat
  PROVE  CeilWord(n) \in Nat /\ n <= CeilWord(n) /\ CeilWord(n) % WordBytes = 0
<1> DEFINE w == WordBytes
           x == n + w - 1
           q == x \div w
           r == x % w
<1>1. w \in Nat \ {0} /\ x \in Nat
  BY Sizes
<1>2. q \in Nat /\ r \in 0 .. w - 1 /\ x = w * q + r
  <2> HIDE DEF x, w
  <2> QED  BY <1>1, QuotientFacts
<1>3. CeilWord(n) = w * q
  <2>1. CeilWord(n) = q * w
    BY DEF CeilWord
  <2> HIDE DEF q, w
  <2> QED  BY <1>1, <1>2, <2>1
<1>4. x = n + w - 1
  OBVIOUS
<1> HIDE DEF w, x, q, r
<1>5. w * q \in Nat
  BY <1>1, <1>2, TimesNat
<1>6. n <= w * q
  <2> DEFINE c == w * q
  <2> HIDE DEF c
  <2>1. c \in Nat /\ x = c + r
    BY <1>2, <1>5 DEF c
  <2>2. n <= c
    BY <1>1, <1>2, <1>4, <2>1
  <2> QED  BY <2>2 DEF c
<1>7. (w * q) % w = 0
  <2>1. 0 \in 0 .. w - 1
    BY <1>1
  <2>2. (w * q + 0) % w = 0
    BY <1>1, <1>2, <2>1, QuotientUnique
  <2>3. w * q + 0 = w * q
    BY <1>5
  <2> QED  BY <2>2, <2>3
<1> QED  BY <1>3, <1>5, <1>6, <1>7 DEF w

\* What the reference's memory is after it has grown.
Grown(m, off, len) ==
  /\ m \in Seq(Byte) /\ Len(m) % WordBytes = 0
  /\ Len(evmMemory) <= Len(m)
  /\ len > 0 => off + len <= Len(m)
  /\ \A p \in Nat : ByteAt(m, p) = RefAt(p)

LEMMA ExtendedFacts ==
  ASSUME evmMemory \in Seq(Byte), Len(evmMemory) % WordBytes = 0, NEW off \in Nat, NEW len \in Nat
  PROVE  Grown(Extended(off, len), off, len)
<1> DEFINE wanted == IF len = 0 THEN 0 ELSE CeilWord(off + len)
           more == Larger(wanted - Len(evmMemory), 0)
           zeros == [i \in 1 .. more |-> 0]
           m == Extended(off, len)
<1>1. /\ Len(evmMemory) \in Nat /\ DOMAIN evmMemory = 1 .. Len(evmMemory)
      /\ WordBytes \in Nat \ {0} /\ 0 \in Byte /\ 0 % WordBytes = 0
  BY LenProperties, Sizes
<1>2. wanted \in Nat /\ wanted % WordBytes = 0 /\ (len > 0 => off + len <= wanted)
  <2>1. CASE len = 0
    BY <1>1, <2>1
  <2>2. CASE len # 0
    BY <2>2, CeilWordFacts
  <2> QED  BY <2>1, <2>2
<1>3. m = evmMemory \o zeros
  BY DEF Extended
<1> HIDE DEF wanted, m
<1>4. more \in Nat /\ Len(evmMemory) + more = Larger(wanted, Len(evmMemory))
  BY <1>1, <1>2 DEF Larger
<1> HIDE DEF more
<1>5. zeros \in Seq(Byte) /\ Len(zeros) = more /\ \A i \in 1 .. more : zeros[i] = 0
  <2>1. DOMAIN zeros = 1 .. more /\ zeros = [i \in DOMAIN zeros |-> zeros[i]]
    OBVIOUS
  <2>2. \A i \in 1 .. more : zeros[i] = 0
    OBVIOUS
  <2> HIDE DEF zeros
  <2>3. \A i \in 1 .. more : zeros[i] \in Byte
    BY <1>1, <2>2
  <2> QED  BY <1>4, <2>1, <2>2, <2>3, Listed
<1> HIDE DEF zeros
<1>6. m \in Seq(Byte) /\ Len(m) = Larger(wanted, Len(evmMemory))
  BY <1>3, <1>4, <1>5, ConcatProperties
<1>7. Len(m) % WordBytes = 0
  BY <1>2, <1>6 DEF Larger
<1>8. Len(evmMemory) <= Len(m) /\ (len > 0 => off + len <= Len(m))
  BY <1>1, <1>2, <1>6 DEF Larger
<1>9. ASSUME NEW p \in Nat
      PROVE  ByteAt(m, p) = RefAt(p)
  <2>0. DOMAIN m = 1 .. Len(m) /\ Len(m) = Len(evmMemory) + more
    BY <1>4, <1>6, LenProperties
  <2>1. CASE p + 1 <= Len(evmMemory)
    <3>1. p + 1 \in 1 .. Len(evmMemory) /\ p + 1 \in 1 .. Len(m)
      BY <1>1, <1>4, <2>0, <2>1
    <3>2. m[p + 1] = evmMemory[p + 1]
      BY <1>1, <1>3, <1>4, <1>5, <3>1, <2>0, <2>1, ConcatProperties
    <3> QED  BY <1>1, <2>0, <3>1, <3>2 DEF ByteAt, RefAt
  <2>2. CASE p + 1 > Len(evmMemory)
    <3>1. p + 1 \notin DOMAIN evmMemory
      BY <1>1, <2>2
    <3>2. CASE p + 1 \in 1 .. Len(m)
      <4>1. m[p + 1] = zeros[p + 1 - Len(evmMemory)] /\ p + 1 - Len(evmMemory) \in 1 .. more
        BY <1>1, <1>3, <1>4, <1>5, <2>0, <2>2, <3>2, ConcatProperties
      <4>2. m[p + 1] = 0
        BY <1>5, <4>1
      <4> QED  BY <2>0, <3>1, <3>2, <4>2 DEF ByteAt, RefAt
    <3>3. CASE p + 1 \notin 1 .. Len(m)
      BY <2>0, <3>1, <3>3 DEF ByteAt, RefAt
    <3> QED  BY <3>2, <3>3
  <2> QED  BY <1>1, <2>1, <2>2
<1>10. Grown(m, off, len)
  BY <1>6, <1>7, <1>8, <1>9 DEF Grown
<1> QED  BY <1>10 DEF m

LEMMA ExtendedTwiceFacts ==
  ASSUME evmMemory \in Seq(Byte), Len(evmMemory) % WordBytes = 0,
         NEW off1 \in Nat, NEW len1 \in Nat, NEW off2 \in Nat, NEW len2 \in Nat
  PROVE  /\ Grown(ExtendedTwice(off1, len1, off2, len2), off1, len1)
         /\ Grown(ExtendedTwice(off1, len1, off2, len2), off2, len2)
<1> DEFINE a == Extended(off1, len1)
           b == Extended(off2, len2)
<1>1. Grown(a, off1, len1) /\ Grown(b, off2, len2)
  BY ExtendedFacts
<1>2. ExtendedTwice(off1, len1, off2, len2) = IF Len(a) < Len(b) THEN b ELSE a
  BY DEF ExtendedTwice
<1> HIDE DEF a, b
<1>3. Len(a) \in Nat /\ Len(b) \in Nat
  BY <1>1, LenProperties DEF Grown
<1>4. CASE Len(a) < Len(b)
  BY <1>1, <1>2, <1>3, <1>4 DEF Grown
<1>5. CASE ~(Len(a) < Len(b))
  BY <1>1, <1>2, <1>3, <1>5 DEF Grown
<1> QED  BY <1>4, <1>5

------------------------------------------------------------------------------
(***************************************************************************)
(* MCOPY's loops, whatever their regions: as through a buffer.             *)
(***************************************************************************)
Step(after, order, dest, src, n) ==
  IF n = 0 THEN memory
  ELSE [after[n - 1] EXCEPT ![dest + order[n]] = after[n - 1][src + order[n]]]

Run(f, order, dest, src, m) == f = [n \in 0 .. m |-> Step(f, order, dest, src, n)]

LEMMA MovedDefined ==
  ASSUME NEW order, NEW dest, NEW src
  PROVE  \A m \in Nat : \E f : Run(f, order, dest, src, m)
<1> DEFINE Value(f, m) == f = [n \in 0 .. m |-> Step(f, order, dest, src, n)]
           T == {m \in Nat : \E f : Value(f, m)}
<1>1. 0 \in T
  <2> DEFINE f == [n \in 0 .. 0 |-> memory]
  <2>1. \A n \in 0 .. 0 : Step(f, order, dest, src, n) = memory
    BY DEF Step
  <2>2. Value(f, 0)
    BY <2>1
  <2> HIDE DEF f, Value
  <2> QED  BY <2>2
<1>2. ASSUME NEW m \in T
      PROVE  m + 1 \in T
  <2>1. PICK f : Value(f, m)
    BY <1>2
  <2>2. m \in Nat
    BY <1>2
  <2> DEFINE g == [n \in 0 .. m + 1 |-> IF n = m + 1 THEN Step(f, order, dest, src, m + 1) ELSE f[n]]
  <2>3. ASSUME NEW n \in 0 .. m + 1
        PROVE  g[n] = Step(g, order, dest, src, n)
    <3>1. n = 0 \/ g[n - 1] = f[n - 1]
      <4>1. CASE n # 0
        <5>1. n - 1 \in 0 .. m + 1 /\ n - 1 # m + 1
          BY <2>2, <4>1
        <5> QED  BY <5>1
      <4> QED  BY <4>1
    <3>2. g[n] = Step(f, order, dest, src, n)
      <4>1. CASE n = m + 1
        BY <4>1
      <4>2. CASE n # m + 1
        <5>1. n \in 0 .. m
          BY <2>2, <4>2
        <5>2. f[n] = Step(f, order, dest, src, n)
          BY <2>1, <5>1
        <5> QED  BY <4>2, <5>2
      <4> QED  BY <4>1, <4>2
    <3> HIDE DEF g
    <3> QED  BY <3>1, <3>2 DEF Step
  <2>4. Value(g, m + 1)
    <3>1. DOMAIN g = 0 .. m + 1 /\ g = [n \in 0 .. m + 1 |-> g[n]]
      OBVIOUS
    <3> HIDE DEF g
    <3> QED  BY <2>3, <3>1
  <2> HIDE DEF g, Value
  <2> QED  BY <2>2, <2>4
<1> HIDE DEF T
<1>3. T = Nat
  <2>1. T \in SUBSET Nat
    BY DEF T
  <2> QED  BY <1>1, <1>2, <2>1, Induction
<1> QED  BY <1>3 DEF T, Run

\* MCOPY (evm.lua:1274): the loop runs forward or backward so that no byte is overwritten
\* before it is read; what it leaves is what reading the whole region first would.
LEMMA CopiedFacts ==
  ASSUME memory \in [Positions -> Byte],
         NEW dest \in Nat, NEW src \in Nat, NEW len \in Nat,
         dest + len <= LastPosition, src + len <= LastPosition
  PROVE  Copied(dest, src, len) = LuaStores(dest, LuaRead(src, len))
<1> DEFINE order == [i \in 1 .. len |-> IF dest <= src THEN i - 1 ELSE len - i]
           Value(f) == f = [n \in 0 .. Len(order) |-> Step(f, order, dest, src, n)]
           after == CHOOSE f : Value(f)
           Done(p, n) == IF dest <= src THEN dest <= p /\ p < dest + n
                         ELSE dest + len - n <= p /\ p < dest + len
           Now(n) == [p \in Positions |-> IF Done(p, n) THEN memory[p - dest + src] ELSE memory[p]]
           T == {n \in Nat : n <= len => after[n] = Now(n)}
<1>1. Len(order) = len
  <2>1. DOMAIN order = 1 .. len /\ order = [i \in DOMAIN order |-> order[i]]
    OBVIOUS
  <2>2. \A i \in 1 .. len : order[i] \in Int
    OBVIOUS
  <2> HIDE DEF order
  <2> QED  BY <2>1, <2>2, Listed
<1>2. \A i \in 1 .. len : order[i] = IF dest <= src THEN i - 1 ELSE len - i
  OBVIOUS
<1>3. Copied(dest, src, len) = Moved(dest, src, order)
  BY DEF Copied
<1> HIDE DEF order
<1>4. Value(after)
  <2>1. PICK f : Run(f, order, dest, src, len)
    BY MovedDefined
  <2>2. \E g : Value(g)
    <3>1. Value(f)
      BY <1>1, <2>1 DEF Run
    <3> QED  BY <3>1
  <2> QED  BY <2>2
<1>5. Moved(dest, src, order) = after[len]
  BY <1>1 DEF Moved, Step
<1>6. after = [n \in 0 .. len |-> Step(after, order, dest, src, n)]
  BY <1>1, <1>4
<1> HIDE DEF after, Value
<1>7. 0 \in T
  <2>1. after[0] = memory
    BY <1>6 DEF Step
  <2>2. Now(0) = memory
    <3>1. \A p \in Positions : ~Done(p, 0)
      BY DEF Positions
    <3> HIDE DEF Done
    <3> QED  BY <3>1
  <2> QED  BY <2>1, <2>2
<1>8. ASSUME NEW n \in T
      PROVE  n + 1 \in T
  <2>1. SUFFICES ASSUME n + 1 <= len PROVE after[n + 1] = Now(n + 1)
    OBVIOUS
  <2>2. n \in Nat /\ n + 1 \in 0 .. len /\ n + 1 # 0 /\ (n + 1) - 1 = n /\ n + 1 \in 1 .. len
    BY <2>1
  <2>3. after[n] = Now(n)
    BY <1>8, <2>1, <2>2
  <2> DEFINE q == order[n + 1]
  <2>4. q = IF dest <= src THEN n ELSE len - (n + 1)
    BY <1>2, <2>2
  <2>5. after[n + 1] = [after[n] EXCEPT ![dest + q] = after[n][src + q]]
    BY <1>6, <2>2 DEF Step
  <2> HIDE DEF q
  <2>6. dest + q \in Positions /\ src + q \in Positions /\ q \in Nat
    BY <2>1, <2>2, <2>4, Sizes DEF Positions
  <2>7. /\ ~Done(src + q, n) /\ Done(dest + q, n + 1)
        /\ (dest + q) - dest + src = src + q
    BY <2>1, <2>2, <2>4
  <2>8. \A p \in Positions \ {dest + q} : Done(p, n + 1) <=> Done(p, n)
    BY <2>1, <2>2, <2>4 DEF Positions
  <2> HIDE DEF Done
  <2>9. after[n][src + q] = memory[src + q]
    BY <2>3, <2>6, <2>7
  <2>10. after[n + 1] = [p \in Positions |-> IF p = dest + q THEN memory[src + q] ELSE after[n][p]]
    BY <2>3, <2>5, <2>6, <2>9
  <2> QED  BY <2>3, <2>6, <2>7, <2>8, <2>10
<1> HIDE DEF T
<1>9. T = Nat
  <2>1. T \in SUBSET Nat
    BY DEF T
  <2> QED  BY <1>7, <1>8, <2>1, Induction
<1>10. after[len] = Now(len)
  BY <1>9 DEF T
<1> DEFINE b == LuaRead(src, len)
<1>11. b \in Seq(Byte) /\ DOMAIN b = 1 .. len /\ \A i \in 1 .. len : b[i] = memory[src + i - 1]
  <2>1. b \in Seq(Byte) /\ Len(b) = len /\ \A i \in 1 .. len : b[i] = memory[src + i - 1]
    BY LuaReadFacts
  <2> HIDE DEF b
  <2> QED  BY <2>1, LenProperties
<1>12. LuaStores(dest, b) = [p \in Positions |-> IF p - dest + 1 \in DOMAIN b THEN b[p - dest + 1] ELSE memory[p]]
  BY DEF LuaStores
<1> HIDE DEF b
<1>13. ASSUME NEW p \in Positions
       PROVE  Now(len)[p] = LuaStores(dest, b)[p]
  <2>1. Done(p, len) <=> p - dest + 1 \in 1 .. len
    BY DEF Positions
  <2>2. Now(len)[p] = IF Done(p, len) THEN memory[p - dest + src] ELSE memory[p]
    OBVIOUS
  <2> HIDE DEF Now, Done
  <2>3. CASE p - dest + 1 \in 1 .. len
    <3>1. b[p - dest + 1] = memory[src + (p - dest + 1) - 1]
      BY <1>11, <2>3
    <3>2. src + (p - dest + 1) - 1 = p - dest + src
      BY DEF Positions
    <3> QED  BY <1>11, <1>12, <2>1, <2>2, <2>3, <3>1, <3>2
  <2>4. CASE p - dest + 1 \notin 1 .. len
    BY <1>11, <1>12, <2>1, <2>2, <2>4
  <2> QED  BY <2>3, <2>4
<1>14. Now(len) = [p \in Positions |-> Now(len)[p]]
  OBVIOUS
<1> HIDE DEF Now
<1>15. Now(len) = LuaStores(dest, b)
  BY <1>12, <1>13, <1>14
<1> QED  BY <1>3, <1>5, <1>10, <1>15 DEF b

------------------------------------------------------------------------------
(***************************************************************************)
(* The inductive invariant.                                                *)
(***************************************************************************)
\* What evm.lua keeps of an answer is the beginning of what the reference keeps.
AnswersCut ==
  /\ Len(rdata) <= Len(evmRdata)
  /\ \A i \in DOMAIN rdata : rdata[i] = evmRdata[i]

IInv == TypeOK /\ MemoryAgrees /\ AnswersCut /\ HandedOutAgrees /\ MsizeWithinOne

LEMMA Operands ==
  /\ Offsets \subseteq Nat /\ Lengths \subseteq Nat /\ Immediates \subseteq Word
  /\ Calldata \in Seq(Byte) /\ Code \in Seq(Byte) /\ ExtCode \in Seq(Byte)
  /\ Answers \subseteq Seq(Byte)
BY OperandAssumption

LEMMA InvFacts ==
  ASSUME IInv
  PROVE  /\ memory \in [Positions -> Byte] /\ size \in 0 .. LastPosition + 1
         /\ evmMemory \in Seq(Byte) /\ Len(evmMemory) % WordBytes = 0 /\ Len(evmMemory) \in Nat
         /\ word \in Nat /\ evmWord \in Word /\ evmWord \in Nat
         /\ rdata \in Seq(Byte) /\ evmRdata \in Seq(Byte)
         /\ Len(rdata) \in Nat /\ Len(evmRdata) \in Nat
         /\ lost \subseteq Positions /\ wordLost \in BOOLEAN /\ number \in BOOLEAN
         /\ spill \in Nat /\ ops \in 0 .. MaxOps
         /\ ~halted => \A p \in Positions \ lost : memory[p] = RefAt(p)
         /\ ~halted /\ ~wordLost => word = evmWord
<1>1. TypeOK /\ MemoryAgrees
  BY DEF IInv
<1>2. word \in Nat /\ evmWord \in Nat
  BY <1>1, Sizes DEF TypeOK
<1>3. Len(evmMemory) \in Nat /\ Len(rdata) \in Nat /\ Len(evmRdata) \in Nat
  BY <1>1, LenProperties DEF TypeOK
<1>4. /\ ~halted => \A p \in Positions \ lost : memory[p] = RefAt(p)
      /\ ~halted /\ ~wordLost => word = evmWord
  BY <1>1 DEF MemoryAgrees
<1> QED  BY <1>1, <1>2, <1>3, <1>4 DEF TypeOK

\* What is stored of a word: a number, exact unless it is lost or a double has rounded it.
LEMMA TakenFacts ==
  ASSUME IInv, ~halted
  PROVE  /\ ToNumber \in Nat
         /\ ~Inexact => /\ ~wordLost /\ word = evmWord
                        /\ word # ToNumber => ToNumber = Kept(evmWord)
<1>1. word \in Nat /\ number \in BOOLEAN /\ wordLost \in BOOLEAN
  BY InvFacts
<1>2. Kept(word) \in Nat
  BY <1>1, KeptNat
<1>3. ToNumber \in Nat
  BY <1>1, <1>2, DoubleNat DEF ToNumber
<1>4. ASSUME ~Inexact
      PROVE  ~wordLost /\ word = evmWord
  BY <1>4, InvFacts DEF Inexact
<1>5. ASSUME ~Inexact, word # ToNumber
      PROVE  ToNumber = Kept(evmWord)
  <2>1. ~number
    BY <1>5 DEF ToNumber
  <2>2. Double(Kept(word)) = Kept(word)
    BY <1>5, <2>1 DEF Inexact
  <2>3. ToNumber = Kept(word)
    BY <2>1, <2>2 DEF ToNumber
  <2> QED  BY <1>4, <1>5, <2>3
<1> QED  BY <1>3, <1>4, <1>5

LEMMA Initially == Init => IInv
<1> SUFFICES ASSUME Init PROVE IInv
  OBVIOUS
<1>1. /\ 0 \in Byte /\ 0 \in Word /\ 0 % WordBytes = 0 /\ LastPosition \in Nat /\ MaxOps \in Nat
  BY Sizes
<1>2. << >> \in Seq(Byte) /\ Len(<< >>) = 0 /\ DOMAIN << >> = {}
  OBVIOUS
<1>3. TypeOK
  <2>1. /\ memory \in [Positions -> Byte] /\ size \in 0 .. LastPosition + 1
        /\ word \in Nat /\ evmWord \in Word /\ lost \subseteq Positions
        /\ {number, halted, wordLost} \subseteq BOOLEAN /\ spill \in Nat /\ ops \in 0 .. MaxOps
    <3>1. memory \in [Positions -> Byte]
      BY <1>1 DEF Init
    <3>2. size = 0 /\ word = 0 /\ evmWord = 0 /\ ops = 0 /\ spill = 0 /\ halted = FALSE
      BY DEF Init
    <3>3. lost = {} /\ wordLost = FALSE /\ number = TRUE
      BY DEF Init
    <3>4. {number, halted, wordLost} \subseteq BOOLEAN
      BY <3>2, <3>3
    <3>5. size \in 0 .. LastPosition + 1 /\ spill \in Nat /\ ops \in 0 .. MaxOps
      BY <1>1, <3>2
    <3>6. word \in Nat /\ evmWord \in Word /\ lost \subseteq Positions
      BY <1>1, <3>2, <3>3
    <3> QED  BY <3>1, <3>4, <3>5, <3>6
  <2>2. /\ evmMemory \in Seq(Byte) /\ Len(evmMemory) % WordBytes = 0
        /\ rdata \in Seq(Byte) /\ evmRdata \in Seq(Byte)
    BY <1>1, <1>2 DEF Init
  <2>3. read \in [off : Nat, lost : SUBSET Positions, lua : Seq(Byte), evm : Seq(Byte)]
    BY <1>2 DEF Init
  <2> QED  BY <2>1, <2>2, <2>3 DEF TypeOK
<1>4. MemoryAgrees
  <2>1. \A p \in Positions : RefAt(p) = 0
    BY <1>2 DEF Init, RefAt
  <2> QED  BY <2>1 DEF Init, MemoryAgrees
<1>5. AnswersCut
  BY <1>2 DEF Init, AnswersCut
<1>6. HandedOutAgrees
  <2>1. read.lua = << >> /\ read.evm = << >>
    BY DEF Init
  <2> QED  BY <1>2, <2>1 DEF HandedOutAgrees
<1>7. MsizeWithinOne
  BY <1>1, <1>2 DEF Init, MsizeWithinOne, Larger
<1> QED  BY <1>3, <1>4, <1>5, <1>6, <1>7 DEF IInv

LEMMA GrownWritten ==
  ASSUME NEW m, NEW off \in Nat, NEW e \in Seq(Byte), Grown(m, off, Len(e))
  PROVE  /\ Written(m, off, e) \in Seq(Byte) /\ Len(Written(m, off, e)) = Len(m)
         /\ Len(m) % WordBytes = 0
         /\ \A p \in Nat : ByteAt(Written(m, off, e), p) =
                             IF p - off + 1 \in DOMAIN e THEN e[p - off + 1] ELSE RefAt(p)
<1> DEFINE w == Written(m, off, e)
<1>1. /\ m \in Seq(Byte) /\ Len(m) % WordBytes = 0 /\ \A p \in Nat : ByteAt(m, p) = RefAt(p)
      /\ (Len(e) > 0 => off + Len(e) <= Len(m))
  BY DEF Grown
<1>2. /\ w \in Seq(Byte) /\ Len(w) = Len(m)
      /\ \A p \in Nat : ByteAt(w, p) = IF p - off + 1 \in DOMAIN e THEN e[p - off + 1] ELSE ByteAt(m, p)
  BY <1>1, WrittenFacts
<1> HIDE DEF w
<1>3. \A p \in Nat : ByteAt(w, p) = IF p - off + 1 \in DOMAIN e THEN e[p - off + 1] ELSE RefAt(p)
  BY <1>1, <1>2
<1> QED  BY <1>1, <1>2, <1>3 DEF w

\* What a write of b by evm.lua and of e by the reference has to do for the invariant.
Wrote(off, b, e, m) ==
  /\ ~halted /\ ops < MaxOps /\ ops' = ops + 1
  /\ Grown(m, off, Len(e))
  /\ memory' = LuaStores(off, b) /\ evmMemory' = Written(m, off, e)
  /\ size' \in 0 .. LastPosition + 1 /\ spill' \in Nat
  /\ size' <= Larger(Len(m), spill') + 1
  /\ lost' \subseteq Positions
  /\ \A p \in Positions \ lost' :
       \/ /\ p - off + 1 \in DOMAIN b /\ p - off + 1 \in DOMAIN e
          /\ b[p - off + 1] = e[p - off + 1]
       \/ p - off + 1 \notin DOMAIN b /\ p - off + 1 \notin DOMAIN e /\ p \notin lost
  /\ rdata' \in Seq(Byte) /\ evmRdata' \in Seq(Byte) /\ AnswersCut'
  /\ read' \in [off : Nat, lost : SUBSET Positions, lua : Seq(Byte), evm : Seq(Byte)]
  /\ HandedOutAgrees'
  /\ UNCHANGED <<word, number, evmWord, halted, wordLost>>

LEMMA WriteKeeps ==
  ASSUME IInv, NEW off \in Nat, NEW b \in Seq(Byte), NEW e \in Seq(Byte), NEW m, Wrote(off, b, e, m)
  PROVE  IInv'
<1>0. /\ ~halted /\ ops < MaxOps /\ ops' = ops + 1
      /\ Grown(m, off, Len(e))
      /\ memory' = LuaStores(off, b) /\ evmMemory' = Written(m, off, e)
      /\ size' \in 0 .. LastPosition + 1 /\ spill' \in Nat
      /\ size' <= Larger(Len(m), spill') + 1
      /\ lost' \subseteq Positions
      /\ rdata' \in Seq(Byte) /\ evmRdata' \in Seq(Byte) /\ AnswersCut'
      /\ read' \in [off : Nat, lost : SUBSET Positions, lua : Seq(Byte), evm : Seq(Byte)]
      /\ HandedOutAgrees'
      /\ UNCHANGED <<word, number, evmWord, halted, wordLost>>
  BY DEF Wrote
<1>1. /\ evmMemory' \in Seq(Byte) /\ Len(evmMemory') = Len(m) /\ Len(m) % WordBytes = 0
      /\ \A p \in Nat : ByteAt(evmMemory', p) =
                          IF p - off + 1 \in DOMAIN e THEN e[p - off + 1] ELSE RefAt(p)
  <2> DEFINE w == Written(m, off, e)
  <2>1. off \in Nat /\ e \in Seq(Byte) /\ Grown(m, off, Len(e)) /\ evmMemory' = w
    BY <1>0
  <2>2. /\ w \in Seq(Byte) /\ Len(w) = Len(m) /\ Len(m) % WordBytes = 0
        /\ \A p \in Nat : ByteAt(w, p) = IF p - off + 1 \in DOMAIN e THEN e[p - off + 1] ELSE RefAt(p)
    BY ONLY <2>1, GrownWritten
  <2> HIDE DEF w
  <2> QED  BY ONLY <2>1, <2>2
<1>3. memory' \in [Positions -> Byte]
  BY <1>0, InvFacts, LuaStoresFacts
<1>4. TypeOK'
  <2>1. /\ word' \in Nat /\ evmWord' \in Word /\ {number', halted', wordLost'} \subseteq BOOLEAN
        /\ ops' \in 0 .. MaxOps
    BY <1>0, InvFacts, Sizes DEF IInv, TypeOK
  <2> QED  BY <1>0, <1>1, <1>3, <2>1 DEF TypeOK
<1>5. MemoryAgrees'
  <2>1. ASSUME NEW p \in Positions \ lost'
        PROVE  memory'[p] = RefAt(p)'
    <3>1. RefAt(p)' = ByteAt(evmMemory', p)
      BY DEF RefAt, ByteAt
    <3>2. p \in Nat /\ p \in Positions
      BY DEF Positions
    <3>3. memory'[p] = IF p - off + 1 \in DOMAIN b THEN b[p - off + 1] ELSE memory[p]
      BY <1>0, <3>2 DEF LuaStores
    <3>4. RefAt(p)' = IF p - off + 1 \in DOMAIN e THEN e[p - off + 1] ELSE RefAt(p)
      BY <1>1, <3>1, <3>2
    <3>5. p \notin lost => memory[p] = RefAt(p)
      BY <1>0, <3>2, InvFacts
    <3>6. \/ /\ p - off + 1 \in DOMAIN b /\ p - off + 1 \in DOMAIN e
             /\ b[p - off + 1] = e[p - off + 1]
          \/ p - off + 1 \notin DOMAIN b /\ p - off + 1 \notin DOMAIN e /\ p \notin lost
      BY DEF Wrote
    <3> QED  BY <3>3, <3>4, <3>5, <3>6
  <2>2. ~wordLost' => word' = evmWord'
    BY <1>0, InvFacts
  <2> QED  BY <2>1, <2>2 DEF MemoryAgrees
<1>6. MsizeWithinOne'
  BY <1>0, <1>1 DEF MsizeWithinOne, Larger
<1> QED  BY <1>0, <1>4, <1>5, <1>6 DEF IInv

\* What the steps that leave both buffers, and what was handed out, alone need of them.
LEMMA BuffersKept ==
  ASSUME IInv, UNCHANGED <<rdata, evmRdata, read>>
  PROVE  /\ rdata' \in Seq(Byte) /\ evmRdata' \in Seq(Byte) /\ AnswersCut' /\ HandedOutAgrees'
         /\ read' \in [off : Nat, lost : SUBSET Positions, lua : Seq(Byte), evm : Seq(Byte)]
<1>1. TypeOK /\ AnswersCut /\ HandedOutAgrees
  BY DEF IInv
<1>2. AnswersCut'
  BY <1>1 DEF AnswersCut
<1>3. HandedOutAgrees'
  BY <1>1 DEF HandedOutAgrees
<1> QED  BY <1>1, <1>2, <1>3 DEF TypeOK

LEMMA GrownLess ==
  ASSUME NEW m, NEW off \in Nat, NEW len \in Nat, NEW n \in Nat, n <= len, Grown(m, off, len)
  PROVE  Grown(m, off, n)
<1>1. Len(m) \in Nat
  BY LenProperties DEF Grown
<1>2. n > 0 => off + n <= Len(m)
  BY <1>1 DEF Grown
<1> QED  BY <1>2 DEF Grown

LEMMA SizeWithFacts ==
  ASSUME IInv, ~halted, NEW m, NEW off \in Nat, NEW n \in Nat, NEW s \in Nat, spill <= s,
         Grown(m, off, n), off + n <= LastPosition
  PROVE  SizeWith(off, n) \in 0 .. LastPosition + 1 /\ SizeWith(off, n) <= Larger(Len(m), s) + 1
<1>1. /\ size \in 0 .. LastPosition + 1 /\ Len(evmMemory) \in Nat /\ spill \in Nat
      /\ LastPosition \in Nat
  BY InvFacts, Sizes
<1>2. Len(m) \in Nat /\ Len(evmMemory) <= Len(m) /\ (n > 0 => off + n <= Len(m))
  BY LenProperties DEF Grown
<1>3. size <= Larger(Len(evmMemory), spill) + 1
  BY DEF IInv, MsizeWithinOne
<1>4. CASE n = 0
  <2>1. SizeWith(off, n) = size
    BY <1>4 DEF SizeWith
  <2> QED  BY <1>1, <1>2, <1>3, <2>1 DEF Larger
<1>5. CASE n # 0
  <2>1. SizeWith(off, n) = Larger(size, off + n)
    BY <1>5 DEF SizeWith
  <2> QED  BY <1>1, <1>2, <1>3, <1>5, <2>1 DEF Larger
<1> QED  BY <1>4, <1>5

LEMMA FilledFacts ==
  ASSUME IInv, ~halted, NEW m, NEW off, NEW len, Grown(m, off, len),
         NEW s \in Nat, spill <= s, NEW r \in 0 .. LastPosition, r <= Len(m) \/ r <= s
  PROVE  Filled(r) \in 0 .. LastPosition + 1 /\ Filled(r) <= Larger(Len(m), s) + 1
<1>1. /\ size \in 0 .. LastPosition + 1 /\ Len(evmMemory) \in Nat /\ spill \in Nat
      /\ LastPosition \in Nat
  BY InvFacts, Sizes
<1>2. Len(m) \in Nat /\ Len(evmMemory) <= Len(m)
  BY LenProperties DEF Grown
<1>3. size <= Larger(Len(evmMemory), spill) + 1
  BY DEF IInv, MsizeWithinOne
<1>4. size <= Larger(Len(m), s) + 1
  BY <1>1, <1>2, <1>3 DEF Larger
<1>5. r <= Larger(Len(m), s)
  BY <1>2 DEF Larger
<1> DEFINE c == Larger(Len(m), s)
<1>6. c \in Nat
  BY <1>2 DEF Larger
<1> HIDE DEF c
<1>7. CASE r = 0
  <2>1. Filled(r) = size
    BY <1>7 DEF Filled
  <2> QED  BY <1>1, <1>4, <2>1
<1>8. CASE r # 0
  <2>1. Filled(r) = IF size < r + 1 THEN r + 1 ELSE size
    BY <1>8 DEF Filled, Larger
  <2> QED  BY <1>1, <1>4, <1>5, <1>6, <2>1 DEF c
<1> QED  BY <1>7, <1>8

LEMMA SettledFacts ==
  ASSUME lost \subseteq Positions, NEW off \in Nat, NEW luaN \in Nat, NEW evmN \in Nat,
         off + evmN <= LastPosition
  PROVE  /\ Settled(Region(off, luaN), Region(off, evmN)) \subseteq Positions
         /\ \A p \in Positions :
              p \notin Settled(Region(off, luaN), Region(off, evmN)) =>
                \/ p - off + 1 \in 1 .. luaN
                \/ p - off + 1 \notin 1 .. luaN /\ p - off + 1 \notin 1 .. evmN /\ p \notin lost
<1>1. \A n \in Nat : \A p \in Positions : p \in Region(off, n) <=> p - off + 1 \in 1 .. n
  BY DEF Region, Positions
<1>2. Region(off, evmN) \subseteq Positions
  BY Sizes DEF Region, Positions
<1> QED  BY <1>1, <1>2 DEF Settled

LEMMA HandOutKeeps ==
  ASSUME IInv, ~halted, NEW off \in Nat, NEW len \in Nat, off + len <= LastPosition,
         NEW luaLen \in {len, Clamp(len)}, NEW m, Grown(m, off, len), HandOut(off, luaLen, len, m)
  PROVE  /\ HandedOutAgrees'
         /\ read' \in [off : Nat, lost : SUBSET Positions, lua : Seq(Byte), evm : Seq(Byte)]
<1> DEFINE a == LuaRead(off, luaLen)
           b == RefRead(m, off, len)
<1>1. luaLen \in Nat /\ luaLen <= len
  BY ClampFacts
<1>2. a \in Seq(Byte) /\ Len(a) = luaLen /\ \A i \in 1 .. luaLen : a[i] = memory[off + i - 1]
  <2>1. off + luaLen <= LastPosition
    BY <1>1, Sizes
  <2> QED  BY <1>1, <2>1, InvFacts, LuaReadFacts
<1>3. b \in Seq(Byte) /\ Len(b) = len /\ \A i \in 1 .. len : b[i] = ByteAt(m, off + i - 1)
  BY RefReadFacts DEF Grown
<1>4. read' = [off |-> off, lost |-> lost, lua |-> a, evm |-> b]
  BY DEF HandOut
<1> HIDE DEF a, b
<1>5. /\ read'.off = off /\ read'.lost = lost /\ read'.lua = a /\ read'.evm = b
      /\ lost \subseteq Positions
  BY <1>4, InvFacts
<1>6. ASSUME NEW i \in 1 .. luaLen, off + i - 1 \notin lost
      PROVE  a[i] = b[i]
  <2>1. i \in 1 .. len /\ off + i - 1 \in Positions \ lost /\ off + i - 1 \in Nat
    BY <1>1, <1>6, Sizes DEF Positions
  <2>2. memory[off + i - 1] = RefAt(off + i - 1)
    BY <2>1, InvFacts
  <2>3. ByteAt(m, off + i - 1) = RefAt(off + i - 1)
    BY <2>1 DEF Grown
  <2> QED  BY <1>2, <1>3, <2>1, <2>2, <2>3
<1>7. DOMAIN a = 1 .. luaLen
  BY <1>2, LenProperties
<1>8. HandedOutAgrees'
  BY <1>2, <1>3, <1>5, <1>6, <1>7 DEF HandedOutAgrees
<1> QED  BY <1>2, <1>3, <1>4, <1>5, <1>8

------------------------------------------------------------------------------
(***************************************************************************)
(* Each opcode keeps the invariant.                                        *)
(***************************************************************************)
LEMMA OpcodeFacts ==
  ASSUME IInv, NEW off \in Nat, NEW len \in Nat, Opcode(off, len)
  PROVE  /\ ~halted /\ ops < MaxOps /\ ops' = ops + 1 /\ ops' \in 0 .. MaxOps
         /\ off + len <= LastPosition
BY InvFacts, Sizes DEF Opcode

LEMMA StorePreserves ==
  ASSUME IInv, NEW off \in Offsets, MStore(off)
  PROVE  IInv'
<1> DEFINE b == BytesOf(ToNumber)
           e == BytesOf(evmWord)
           m == Extended(off, WordBytes)
<1>0. off \in Nat /\ WordBytes \in Nat /\ NumberBytes \in Nat /\ NumberBytes <= WordBytes
  BY Operands, Sizes
<1>1. ~halted /\ ops < MaxOps /\ ops' = ops + 1 /\ off + WordBytes <= LastPosition
  <2>1. Opcode(off, WordBytes)
    BY DEF MStore
  <2> QED  BY <1>0, <2>1, OpcodeFacts
<1>2. b \in Seq(Byte) /\ Len(b) = WordBytes /\ e \in Seq(Byte) /\ Len(e) = WordBytes
  <2>1. evmWord \in Nat /\ ToNumber \in Nat
    BY <1>1, InvFacts, TakenFacts
  <2> QED  BY <2>1, BytesOfWord
<1>3. DOMAIN b = 1 .. WordBytes /\ DOMAIN e = 1 .. WordBytes
  BY DEF BytesOf
<1>4. Grown(m, off, WordBytes)
  BY <1>0, InvFacts, ExtendedFacts
<1>5. /\ memory' = LuaStores(off, b) /\ size' = SizeWith(off, Len(b))
      /\ evmMemory' = Written(m, off, e)
      /\ lost' = CASE Inexact -> lost \cup Region(off, WordBytes)
                   [] ~Inexact /\ word # ToNumber ->
                        (lost \ Region(off, WordBytes)) \cup Region(off, WordBytes - NumberBytes)
                   [] OTHER -> lost \ Region(off, WordBytes)
      /\ UNCHANGED <<rdata, word, number, evmRdata, evmWord, read, halted, wordLost, spill>>
  BY DEF MStore, LuaWrites
<1>6. ASSUME ~Inexact, word # ToNumber
      PROVE  \A i \in WordBytes - NumberBytes + 1 .. WordBytes : b[i] = e[i]
  <2>1. evmWord \in Nat /\ ToNumber = Kept(evmWord)
    BY <1>1, <1>6, InvFacts, TakenFacts
  <2> QED  BY <2>1, KeptBytes
<1>7. ~Inexact /\ word = ToNumber => b = e
  BY <1>1, TakenFacts
<1> HIDE DEF b, e, m
<1>8. size' \in 0 .. LastPosition + 1 /\ size' <= Larger(Len(m), spill) + 1
  <2>1. spill \in Nat /\ spill <= spill
    BY InvFacts
  <2>2. /\ SizeWith(off, WordBytes) \in 0 .. LastPosition + 1
        /\ SizeWith(off, WordBytes) <= Larger(Len(m), spill) + 1
    BY <1>0, <1>1, <1>4, <2>1, SizeWithFacts
  <2> QED  BY <1>2, <1>5, <2>2
<1>9. \A n \in Nat : \A p \in Positions : p \in Region(off, n) <=> p - off + 1 \in 1 .. n
  BY <1>0 DEF Region, Positions
<1>10. WordBytes - NumberBytes \in Nat
  BY <1>0
<1>11. lost' \subseteq Positions
  <2>1. \A n \in Nat : n <= WordBytes => Region(off, n) \subseteq Positions
    BY <1>0, <1>1, Sizes DEF Region, Positions
  <2>2. /\ Region(off, WordBytes) \subseteq Positions
        /\ Region(off, WordBytes - NumberBytes) \subseteq Positions
    BY <1>0, <1>10, <2>1
  <2> QED  BY <1>5, <2>2, InvFacts
<1>12. ASSUME NEW p \in Positions \ lost'
       PROVE  \/ /\ p - off + 1 \in DOMAIN b /\ p - off + 1 \in DOMAIN e
                 /\ b[p - off + 1] = e[p - off + 1]
              \/ p - off + 1 \notin DOMAIN b /\ p - off + 1 \notin DOMAIN e /\ p \notin lost
  <2>1. /\ p \in Region(off, WordBytes) <=> p - off + 1 \in 1 .. WordBytes
        /\ p \in Region(off, WordBytes - NumberBytes) <=> p - off + 1 \in 1 .. WordBytes - NumberBytes
    BY <1>0, <1>9, <1>10
  <2>2. CASE Inexact
    BY <1>3, <1>5, <2>1, <2>2
  <2>3. CASE ~Inexact /\ word # ToNumber
    <3>1. lost' = (lost \ Region(off, WordBytes)) \cup Region(off, WordBytes - NumberBytes)
      BY <1>5, <2>3
    <3>2. CASE p - off + 1 \in 1 .. WordBytes
      <4>1. p - off + 1 \in WordBytes - NumberBytes + 1 .. WordBytes
        BY <1>0, <2>1, <3>1, <3>2 DEF Positions
      <4> QED  BY <1>3, <1>6, <2>3, <3>2, <4>1
    <3>3. CASE p - off + 1 \notin 1 .. WordBytes
      BY <1>3, <2>1, <3>1, <3>3
    <3> QED  BY <3>2, <3>3
  <2>4. CASE ~Inexact /\ word = ToNumber
    <3>1. lost' = lost \ Region(off, WordBytes)
      BY <1>5, <2>4
    <3> QED  BY <1>3, <1>7, <2>1, <2>4, <3>1
  <2> QED  BY <2>2, <2>3, <2>4
<1>13. /\ rdata' \in Seq(Byte) /\ evmRdata' \in Seq(Byte) /\ AnswersCut' /\ HandedOutAgrees'
       /\ read' \in [off : Nat, lost : SUBSET Positions, lua : Seq(Byte), evm : Seq(Byte)]
  BY <1>5, BuffersKept
<1>14. spill' \in Nat /\ size' <= Larger(Len(m), spill') + 1 /\ Grown(m, off, Len(e))
  BY <1>2, <1>4, <1>5, <1>8, InvFacts
<1>15. Wrote(off, b, e, m)
  BY <1>1, <1>5, <1>8, <1>11, <1>12, <1>13, <1>14 DEF Wrote
<1> QED  BY <1>0, <1>2, <1>15, WriteKeeps

LEMMA StoreBytePreserves ==
  ASSUME IInv, NEW off \in Offsets, MStore8(off)
  PROVE  IInv'
<1> DEFINE b == <<ToNumber % Base>>
           e == <<evmWord % Base>>
           m == Extended(off, 1)
<1>0. off \in Nat /\ 1 \in Nat
  BY Operands
<1>1. ~halted /\ ops < MaxOps /\ ops' = ops + 1 /\ off + 1 <= LastPosition
  <2>1. Opcode(off, 1)
    BY DEF MStore8
  <2> QED  BY <1>0, <2>1, OpcodeFacts
<1>2. b \in Seq(Byte) /\ Len(b) = 1 /\ e \in Seq(Byte) /\ Len(e) = 1
  <2>1. evmWord \in Nat /\ ToNumber \in Nat
    BY <1>1, InvFacts, TakenFacts
  <2>2. ToNumber % Base \in Byte /\ evmWord % Base \in Byte
    BY <2>1, Remainder
  <2> QED  BY <2>2
<1>3. DOMAIN b = 1 .. 1 /\ DOMAIN e = 1 .. 1
  BY <1>2, LenProperties
<1>4. Grown(m, off, 1)
  BY <1>0, InvFacts, ExtendedFacts
<1>5. /\ memory' = LuaStores(off, b) /\ size' = SizeWith(off, Len(b))
      /\ evmMemory' = Written(m, off, e)
      /\ lost' = IF Inexact THEN lost \cup {off} ELSE lost \ {off}
      /\ UNCHANGED <<rdata, word, number, evmRdata, evmWord, read, halted, wordLost, spill>>
  BY DEF MStore8, LuaWrites
<1>6. ASSUME ~Inexact
      PROVE  b = e
  <2>1. evmWord \in Nat /\ (ToNumber = evmWord \/ ToNumber = Kept(evmWord))
    BY <1>1, <1>6, InvFacts, TakenFacts
  <2>2. Kept(evmWord) % Base = evmWord % Base
    BY <2>1, KeptByte
  <2> QED  BY <2>1, <2>2
<1> HIDE DEF b, e, m
<1>8. size' \in 0 .. LastPosition + 1 /\ size' <= Larger(Len(m), spill) + 1
  <2>1. spill \in Nat /\ spill <= spill
    BY InvFacts
  <2>2. SizeWith(off, 1) \in 0 .. LastPosition + 1 /\ SizeWith(off, 1) <= Larger(Len(m), spill) + 1
    BY <1>0, <1>1, <1>4, <2>1, SizeWithFacts
  <2> QED  BY <1>2, <1>5, <2>2
<1>11. lost' \subseteq Positions
  <2>1. off \in Positions
    BY <1>0, <1>1, Sizes DEF Positions
  <2> QED  BY <1>5, <2>1, InvFacts
<1>12. ASSUME NEW p \in Positions \ lost'
       PROVE  \/ /\ p - off + 1 \in DOMAIN b /\ p - off + 1 \in DOMAIN e
                 /\ b[p - off + 1] = e[p - off + 1]
              \/ p - off + 1 \notin DOMAIN b /\ p - off + 1 \notin DOMAIN e /\ p \notin lost
  <2>1. p = off <=> p - off + 1 \in 1 .. 1
    BY <1>0 DEF Positions
  <2>2. CASE Inexact
    BY <1>3, <1>5, <2>1, <2>2
  <2>3. CASE ~Inexact
    BY <1>3, <1>5, <1>6, <2>1, <2>3
  <2> QED  BY <2>2, <2>3
<1>13. /\ rdata' \in Seq(Byte) /\ evmRdata' \in Seq(Byte) /\ AnswersCut' /\ HandedOutAgrees'
       /\ read' \in [off : Nat, lost : SUBSET Positions, lua : Seq(Byte), evm : Seq(Byte)]
  BY <1>5, BuffersKept
<1>14. spill' \in Nat /\ size' <= Larger(Len(m), spill') + 1 /\ Grown(m, off, Len(e))
  BY <1>2, <1>4, <1>5, <1>8, InvFacts
<1>15. Wrote(off, b, e, m)
  BY <1>1, <1>5, <1>8, <1>11, <1>12, <1>13, <1>14 DEF Wrote
<1> QED  BY <1>0, <1>2, <1>15, WriteKeeps

LEMMA LargerFacts ==
  ASSUME NEW x \in Nat, NEW y \in Nat
  PROVE  Larger(x, y) \in {x, y} /\ x <= Larger(x, y) /\ y <= Larger(x, y)
BY DEF Larger

LEMMA CopyPreserves ==
  ASSUME IInv, NEW dest \in Offsets, NEW src \in Offsets, NEW len \in Lengths, MCopy(dest, src, len)
  PROVE  IInv'
<1> DEFINE n == Clamp(len)
           b == LuaRead(src, n)
           m == ExtendedTwice(src, len, dest, len)
           e == RefRead(m, src, len)
           r == Larger(src, dest) + n
<1>0. dest \in Nat /\ src \in Nat /\ len \in Nat
  BY Operands
<1>1. /\ ~halted /\ ops < MaxOps /\ ops' = ops + 1
      /\ dest + len <= LastPosition /\ src + len <= LastPosition
  <2>1. Opcode(Larger(dest, src), len)
    BY DEF MCopy
  <2>2. Larger(dest, src) \in Nat /\ dest <= Larger(dest, src) /\ src <= Larger(dest, src)
    BY <1>0, LargerFacts
  <2>3. Larger(dest, src) + len <= LastPosition
    BY <1>0, <2>1, <2>2, OpcodeFacts
  <2> QED  BY <1>0, <2>1, <2>2, <2>3, OpcodeFacts, Sizes
<1>2. n \in Nat /\ n <= len /\ (len = 0 => n = 0)
  BY <1>0, ClampFacts
<1>3. Grown(m, src, len) /\ Grown(m, dest, len)
  BY <1>0, InvFacts, ExtendedTwiceFacts
<1>4. /\ memory' = Copied(dest, src, n)
      /\ size' = IF len = 0 THEN size ELSE Filled(r)
      /\ evmMemory' = Written(m, dest, e)
      /\ lost' = Settled(Region(dest, n), Region(dest, len))
                   \cup {dest + i - src : i \in lost \cap Region(src, n)}
      /\ UNCHANGED <<rdata, word, number, evmRdata, evmWord, read, halted, wordLost, spill>>
  BY DEF MCopy
<1>5. r \in 0 .. LastPosition /\ (len # 0 => r <= Len(m))
  <2>1. Larger(src, dest) \in {src, dest}
    BY <1>0, LargerFacts
  <2>2. len # 0 => src + len <= Len(m) /\ dest + len <= Len(m)
    BY <1>0, <1>3 DEF Grown
  <2>3. Len(m) \in Nat
    BY <1>3, LenProperties DEF Grown
  <2> HIDE DEF n, m
  <2> QED  BY <1>0, <1>1, <1>2, <2>1, <2>2, <2>3, Sizes
<1> HIDE DEF n, m, r
<1>6. b \in Seq(Byte) /\ Len(b) = n /\ \A i \in 1 .. n : b[i] = memory[src + i - 1]
  <2>1. src + n <= LastPosition /\ memory \in [Positions -> Byte]
    BY <1>0, <1>1, <1>2, InvFacts, Sizes
  <2> QED  BY <1>0, <1>2, <2>1, LuaReadFacts
<1>7. e \in Seq(Byte) /\ Len(e) = len /\ \A i \in 1 .. len : e[i] = ByteAt(m, src + i - 1)
  <2>1. m \in Seq(Byte) /\ (len > 0 => src + len <= Len(m))
    BY <1>3 DEF Grown
  <2> QED  BY <1>0, <2>1, RefReadFacts
<1>8. memory' = LuaStores(dest, b)
  <2>1. src + n <= LastPosition /\ dest + n <= LastPosition /\ memory \in [Positions -> Byte]
    BY <1>0, <1>1, <1>2, InvFacts, Sizes, SMTT(30)
  <2> QED  BY <1>0, <1>2, <1>4, <2>1, CopiedFacts
<1> HIDE DEF b, e
<1>9. DOMAIN b = 1 .. n /\ DOMAIN e = 1 .. len
  BY <1>6, <1>7, LenProperties
<1>10. size' \in 0 .. LastPosition + 1 /\ size' <= Larger(Len(m), spill) + 1
  <2>1. spill \in Nat /\ spill <= spill
    BY InvFacts
  <2>2. CASE len = 0
    <3>1. Grown(m, dest, 0) /\ dest + 0 <= LastPosition
      BY <1>0, <1>1, <1>3, <2>2
    <3>2. SizeWith(dest, 0) \in 0 .. LastPosition + 1 /\ SizeWith(dest, 0) <= Larger(Len(m), spill) + 1
      BY <1>0, <1>1, <2>1, <3>1, SizeWithFacts
    <3> QED  BY <1>4, <2>2, <3>2 DEF SizeWith
  <2>3. CASE len # 0
    <3>1. Filled(r) \in 0 .. LastPosition + 1 /\ Filled(r) <= Larger(Len(m), spill) + 1
      BY <1>1, <1>3, <1>5, <2>1, <2>3, FilledFacts
    <3> QED  BY <1>4, <2>3, <3>1
  <2> QED  BY <2>2, <2>3
<1>11. /\ Settled(Region(dest, n), Region(dest, len)) \subseteq Positions
       /\ \A p \in Positions :
            p \notin Settled(Region(dest, n), Region(dest, len)) =>
              \/ p - dest + 1 \in 1 .. n
              \/ p - dest + 1 \notin 1 .. n /\ p - dest + 1 \notin 1 .. len /\ p \notin lost
  BY <1>0, <1>1, <1>2, InvFacts, SettledFacts
<1>12. lost' \subseteq Positions
  <2>1. \A i \in Region(src, n) : dest + i - src \in Positions
    BY <1>0, <1>1, <1>2, Sizes DEF Region, Positions
  <2> QED  BY <1>4, <1>11, <2>1
<1>13. ASSUME NEW p \in Positions \ lost'
       PROVE  \/ /\ p - dest + 1 \in DOMAIN b /\ p - dest + 1 \in DOMAIN e
                 /\ b[p - dest + 1] = e[p - dest + 1]
              \/ p - dest + 1 \notin DOMAIN b /\ p - dest + 1 \notin DOMAIN e /\ p \notin lost
  <2>1. p \notin Settled(Region(dest, n), Region(dest, len))
    BY <1>4
  <2>2. CASE p - dest + 1 \in 1 .. n
    <3> DEFINE i == p - dest + 1
               q == src + i - 1
    <3>1. i \in 1 .. len /\ i \in 1 .. n /\ q \in Region(src, n) /\ q \in Positions /\ q \in Nat
      BY <1>0, <1>1, <1>2, <2>2, Sizes DEF Region, Positions
    <3>2. dest + q - src = p
      BY <1>0 DEF Positions
    <3> HIDE DEF i, q
    <3>3. q \notin lost
      BY <1>4, <3>1, <3>2
    <3>4. memory[q] = RefAt(q)
      BY <1>1, <3>1, <3>3, InvFacts
    <3>5. ByteAt(m, q) = RefAt(q)
      BY <1>3, <3>1 DEF Grown
    <3>6. b[i] = memory[q] /\ e[i] = ByteAt(m, q)
      BY <1>6, <1>7, <3>1 DEF q
    <3>7. i \in DOMAIN b /\ i \in DOMAIN e /\ b[i] = e[i]
      BY <1>9, <3>1, <3>4, <3>5, <3>6
    <3> QED  BY <3>7 DEF i
  <2>3. CASE p - dest + 1 \notin 1 .. n
    BY <1>9, <1>11, <2>1, <2>3
  <2> QED  BY <2>2, <2>3
<1>14. /\ rdata' \in Seq(Byte) /\ evmRdata' \in Seq(Byte) /\ AnswersCut' /\ HandedOutAgrees'
       /\ read' \in [off : Nat, lost : SUBSET Positions, lua : Seq(Byte), evm : Seq(Byte)]
  BY <1>4, BuffersKept
<1>15. spill' \in Nat /\ size' <= Larger(Len(m), spill') + 1 /\ Grown(m, dest, Len(e))
  BY <1>3, <1>4, <1>7, <1>10, InvFacts
<1>16. Wrote(dest, b, e, m)
  BY <1>1, <1>4, <1>8, <1>10, <1>12, <1>13, <1>14, <1>15 DEF Wrote
<1> QED  BY <1>0, <1>6, <1>7, <1>16, WriteKeeps

\* The copies of calldata and code: spill is the caller's business.
LEMMA CopyInPreserves ==
  ASSUME IInv, NEW d \in Seq(Byte), NEW dest \in Offsets, NEW from \in Offsets, NEW len \in Lengths,
         NEW grown, CopyIn(d, dest, from, len, grown), spill' \in Nat,
         grown \in 0 .. LastPosition + 1,
         grown <= Larger(Len(Extended(dest, len)), spill') + 1
  PROVE  IInv'
<1> DEFINE n == Clamp(len)
           b == Padded(d, from, n)
           e == Padded(d, from, len)
           m == Extended(dest, len)
<1>0. dest \in Nat /\ from \in Nat /\ len \in Nat
  BY Operands
<1>1. ~halted /\ ops < MaxOps /\ ops' = ops + 1 /\ dest + len <= LastPosition
  <2>1. Opcode(dest, len)
    BY DEF CopyIn
  <2> QED  BY <1>0, <2>1, OpcodeFacts
<1>2. n \in Nat /\ n <= len
  BY <1>0, ClampFacts
<1>3. Grown(m, dest, len)
  BY <1>0, InvFacts, ExtendedFacts
<1>4. /\ memory' = LuaStores(dest, b) /\ size' = grown
      /\ evmMemory' = Written(m, dest, e)
      /\ lost' = Settled(Region(dest, n), Region(dest, len))
      /\ UNCHANGED <<rdata, word, number, evmRdata, evmWord, read, halted, wordLost>>
  BY DEF CopyIn
<1>5. grown \in 0 .. LastPosition + 1 /\ grown <= Larger(Len(m), spill') + 1
  OBVIOUS
<1> HIDE DEF n, m
<1>6. b \in Seq(Byte) /\ Len(b) = n /\ \A i \in 1 .. n : b[i] = At(d, from + i)
  BY <1>0, <1>2, PaddedFacts
<1>7. e \in Seq(Byte) /\ Len(e) = len /\ \A i \in 1 .. len : e[i] = At(d, from + i)
  BY <1>0, PaddedFacts
<1> HIDE DEF b, e
<1>9. DOMAIN b = 1 .. n /\ DOMAIN e = 1 .. len
  BY <1>6, <1>7, LenProperties
<1>11. /\ Settled(Region(dest, n), Region(dest, len)) \subseteq Positions
       /\ \A p \in Positions :
            p \notin Settled(Region(dest, n), Region(dest, len)) =>
              \/ p - dest + 1 \in 1 .. n
              \/ p - dest + 1 \notin 1 .. n /\ p - dest + 1 \notin 1 .. len /\ p \notin lost
  BY <1>0, <1>1, <1>2, InvFacts, SettledFacts
<1>13. ASSUME NEW p \in Positions \ lost'
       PROVE  \/ /\ p - dest + 1 \in DOMAIN b /\ p - dest + 1 \in DOMAIN e
                 /\ b[p - dest + 1] = e[p - dest + 1]
              \/ p - dest + 1 \notin DOMAIN b /\ p - dest + 1 \notin DOMAIN e /\ p \notin lost
  <2>1. p \notin Settled(Region(dest, n), Region(dest, len))
    BY <1>4
  <2>2. CASE p - dest + 1 \in 1 .. n
    <3>1. p - dest + 1 \in 1 .. len
      BY <1>0, <1>2, <2>2
    <3> QED  BY <1>6, <1>7, <1>9, <2>2, <3>1
  <2>3. CASE p - dest + 1 \notin 1 .. n
    BY <1>9, <1>11, <2>1, <2>3
  <2> QED  BY <2>2, <2>3
<1>14. /\ rdata' \in Seq(Byte) /\ evmRdata' \in Seq(Byte) /\ AnswersCut' /\ HandedOutAgrees'
       /\ read' \in [off : Nat, lost : SUBSET Positions, lua : Seq(Byte), evm : Seq(Byte)]
  BY <1>4, BuffersKept
<1>15. /\ size' \in 0 .. LastPosition + 1 /\ size' <= Larger(Len(m), spill') + 1
       /\ lost' \subseteq Positions /\ Grown(m, dest, Len(e))
  BY <1>3, <1>4, <1>5, <1>7, <1>11
<1>16. Wrote(dest, b, e, m)
  BY <1>1, <1>4, <1>13, <1>14, <1>15 DEF Wrote
<1> QED  BY <1>0, <1>6, <1>7, <1>16, WriteKeeps

LEMMA CopyInSize ==
  ASSUME IInv, ~halted, NEW dest \in Nat, NEW len \in Nat, dest + len <= LastPosition
  PROVE  /\ SizeWith(dest, Clamp(len)) \in 0 .. LastPosition + 1
         /\ SizeWith(dest, Clamp(len)) <= Larger(Len(Extended(dest, len)), spill) + 1
<1> DEFINE m == Extended(dest, len)
           n == Clamp(len)
<1>1. n \in Nat /\ n <= len
  BY ClampFacts
<1>2. Grown(m, dest, len)
  BY InvFacts, ExtendedFacts
<1> HIDE DEF m, n
<1>3. Grown(m, dest, n)
  BY <1>1, <1>2, GrownLess
<1>4. dest + n <= LastPosition /\ spill \in Nat /\ spill <= spill
  BY <1>1, InvFacts, Sizes
<1>5. SizeWith(dest, n) \in 0 .. LastPosition + 1 /\ SizeWith(dest, n) <= Larger(Len(m), spill) + 1
  BY <1>1, <1>3, <1>4, SizeWithFacts
<1> QED  BY <1>5 DEF m, n

LEMMA CallDataCopyPreserves ==
  ASSUME IInv, NEW dest \in Offsets, NEW from \in Offsets, NEW len \in Lengths,
         CallDataCopy(dest, from, len)
  PROVE  IInv'
<1>0. dest \in Nat /\ len \in Nat /\ Calldata \in Seq(Byte)
  BY Operands
<1>1. CopyIn(Calldata, dest, from, len, SizeWith(dest, Clamp(len))) /\ spill' = spill
  BY DEF CallDataCopy
<1>2. ~halted /\ dest + len <= LastPosition
  BY <1>0, <1>1, OpcodeFacts DEF CopyIn
<1> DEFINE grown == SizeWith(dest, Clamp(len))
<1>3. /\ grown \in 0 .. LastPosition + 1
      /\ grown <= Larger(Len(Extended(dest, len)), spill') + 1
  BY <1>0, <1>1, <1>2, CopyInSize
<1>4. spill' \in Nat /\ CopyIn(Calldata, dest, from, len, grown)
  BY <1>1, InvFacts
<1> HIDE DEF grown
<1> QED  BY <1>0, <1>3, <1>4, CopyInPreserves

LEMMA CodeCopyPreserves ==
  ASSUME IInv, NEW dest \in Offsets, NEW from \in Offsets, NEW len \in Lengths,
         CodeCopy(dest, from, len)
  PROVE  IInv'
<1>0. dest \in Nat /\ len \in Nat /\ Code \in Seq(Byte)
  BY Operands
<1>1. CopyIn(Code, dest, from, len, SizeWith(dest, Clamp(len))) /\ spill' = spill
  BY DEF CodeCopy
<1>2. ~halted /\ dest + len <= LastPosition
  BY <1>0, <1>1, OpcodeFacts DEF CopyIn
<1> DEFINE grown == SizeWith(dest, Clamp(len))
<1>3. /\ grown \in 0 .. LastPosition + 1
      /\ grown <= Larger(Len(Extended(dest, len)), spill') + 1
  BY <1>0, <1>1, <1>2, CopyInSize
<1>4. spill' \in Nat /\ CopyIn(Code, dest, from, len, grown)
  BY <1>1, InvFacts
<1> HIDE DEF grown
<1> QED  BY <1>0, <1>3, <1>4, CopyInPreserves

LEMMA ExtCodeCopyPreserves ==
  ASSUME IInv, NEW dest \in Offsets, NEW from \in Offsets, NEW len \in Lengths,
         ExtCodeCopy(dest, from, len)
  PROVE  IInv'
<1> DEFINE n == Clamp(len)
           m == Extended(dest, len)
           grown == Filled(dest + n)
<1>0. dest \in Nat /\ len \in Nat /\ ExtCode \in Seq(Byte)
  BY Operands
<1>1. /\ CopyIn(ExtCode, dest, from, len, grown)
      /\ spill' = IF len = 0 THEN Larger(spill, dest) ELSE spill
  BY DEF ExtCodeCopy
<1>2. ~halted /\ dest + len <= LastPosition
  BY <1>0, <1>1, OpcodeFacts DEF CopyIn
<1>3. n \in Nat /\ n <= len
  BY <1>0, ClampFacts
<1>4. Grown(m, dest, len)
  BY <1>0, InvFacts, ExtendedFacts
<1>5. spill \in Nat /\ spill' \in Nat /\ spill <= spill' /\ (len = 0 => dest <= spill')
  <2>1. spill \in Nat
    BY InvFacts
  <2>2. Larger(spill, dest) \in {spill, dest} /\ spill <= Larger(spill, dest) /\ dest <= Larger(spill, dest)
    BY <1>0, <2>1, LargerFacts
  <2> QED  BY <1>0, <1>1, <2>1, <2>2
<1> HIDE DEF n, m
<1>6. dest + n \in 0 .. LastPosition
  BY <1>0, <1>2, <1>3, Sizes
<1>7. dest + n <= Len(m) \/ dest + n <= spill'
  <2>1. len > 0 => dest + len <= Len(m)
    BY <1>4 DEF Grown
  <2>2. Len(m) \in Nat
    BY <1>4, LenProperties DEF Grown
  <2>3. CASE len = 0
    <3>1. dest + n = dest
      BY <1>0, <1>3, <2>3
    <3> QED  BY <1>5, <2>3, <3>1
  <2>4. CASE len # 0
    BY <1>0, <1>3, <2>1, <2>2, <2>4
  <2> QED  BY <2>3, <2>4
<1>8. grown \in 0 .. LastPosition + 1 /\ grown <= Larger(Len(m), spill') + 1
  BY <1>2, <1>4, <1>5, <1>6, <1>7, FilledFacts
<1> HIDE DEF grown
<1> QED  BY <1>0, <1>1, <1>5, <1>8, CopyInPreserves DEF m

LEMMA ReturnDataCopyPreserves ==
  ASSUME IInv, NEW dest \in Offsets, NEW from \in Offsets, NEW len \in Lengths,
         ReturnDataCopy(dest, from, len)
  PROVE  IInv'
<1> DEFINE n == Clamp(len)
           b == Padded(rdata, from, n)
           m == Extended(dest, len)
           e == SubSeq(evmRdata, from + 1, from + len)
<1>0. dest \in Nat /\ from \in Nat /\ len \in Nat
  BY Operands
<1>1. ~halted /\ ops < MaxOps /\ ops' = ops + 1 /\ dest + len <= LastPosition /\ ops' \in 0 .. MaxOps
  <2>1. Opcode(dest, len)
    BY DEF ReturnDataCopy
  <2> QED  BY <1>0, <2>1, OpcodeFacts
<1>2. n \in Nat /\ n <= len
  BY <1>0, ClampFacts
<1>3. Grown(m, dest, len)
  BY <1>0, InvFacts, ExtendedFacts
<1>4. /\ memory' = LuaStores(dest, b) /\ size' = SizeWith(dest, Len(b))
      /\ UNCHANGED <<rdata, word, number, evmRdata, evmWord, read, wordLost, spill>>
  BY DEF ReturnDataCopy, LuaWrites
<1>5. \/ from + len > Len(evmRdata) /\ halted' = TRUE /\ UNCHANGED <<evmMemory, lost>>
      \/ /\ ~(from + len > Len(evmRdata))
         /\ evmMemory' = Written(m, dest, e)
         /\ lost' = Settled(Region(dest, n), Region(dest, len))
                      \cup {dest + i : i \in {j \in 0 .. len - 1 : from + j >= Len(rdata)}}
         /\ UNCHANGED halted
  BY DEF ReturnDataCopy
<1>6. b \in Seq(Byte) /\ Len(b) = n /\ \A i \in 1 .. n : b[i] = At(rdata, from + i)
  <2> HIDE DEF n
  <2>1. rdata \in Seq(Byte)
    BY InvFacts
  <2> QED  BY <1>0, <1>2, <2>1, PaddedFacts
<1>7. size' \in 0 .. LastPosition + 1 /\ size' <= Larger(Len(m), spill) + 1
  BY <1>0, <1>1, <1>4, <1>6, CopyInSize
<1> HIDE DEF n, b, m
<1>8. /\ rdata' \in Seq(Byte) /\ evmRdata' \in Seq(Byte) /\ AnswersCut' /\ HandedOutAgrees'
      /\ read' \in [off : Nat, lost : SUBSET Positions, lua : Seq(Byte), evm : Seq(Byte)]
  BY <1>4, BuffersKept
<1>9. CASE from + len > Len(evmRdata)
  <2>1. halted' = TRUE /\ evmMemory' = evmMemory /\ lost' = lost
    BY <1>5, <1>9
  <2>2. memory' \in [Positions -> Byte]
    BY <1>0, <1>4, <1>6, InvFacts, LuaStoresFacts
  <2>3. TypeOK'
    <3>1. /\ evmMemory' \in Seq(Byte) /\ Len(evmMemory') % WordBytes = 0
          /\ word' \in Nat /\ evmWord' \in Word /\ lost' \subseteq Positions /\ spill' \in Nat
      BY <1>4, <2>1, InvFacts
    <3>2. {number', halted', wordLost'} \subseteq BOOLEAN
      BY <1>4, <2>1, InvFacts
    <3> QED  BY <1>1, <1>7, <1>8, <2>2, <3>1, <3>2 DEF TypeOK
  <2>4. MemoryAgrees' /\ MsizeWithinOne'
    BY <2>1 DEF MemoryAgrees, MsizeWithinOne
  <2> QED  BY <1>8, <2>3, <2>4 DEF IInv
<1>10. CASE ~(from + len > Len(evmRdata))
  <2>0. /\ evmMemory' = Written(m, dest, e) /\ halted' = halted
        /\ lost' = Settled(Region(dest, n), Region(dest, len))
                     \cup {dest + i : i \in {j \in 0 .. len - 1 : from + j >= Len(rdata)}}
    BY <1>5, <1>10
  <2>1. e \in Seq(Byte) /\ Len(e) = len /\ \A i \in 1 .. len : e[i] = evmRdata[from + i]
    <3>1. evmRdata \in Seq(Byte) /\ from + len <= Len(evmRdata)
      BY <1>0, <1>10, InvFacts
    <3> QED  BY <1>0, <3>1, PrefixFacts
  <2> HIDE DEF e
  <2>2. DOMAIN b = 1 .. n /\ DOMAIN e = 1 .. len
    BY <1>6, <2>1, LenProperties
  <2>3. /\ Settled(Region(dest, n), Region(dest, len)) \subseteq Positions
        /\ \A p \in Positions :
             p \notin Settled(Region(dest, n), Region(dest, len)) =>
               \/ p - dest + 1 \in 1 .. n
               \/ p - dest + 1 \notin 1 .. n /\ p - dest + 1 \notin 1 .. len /\ p \notin lost
    BY <1>0, <1>1, <1>2, InvFacts, SettledFacts
  <2>4. lost' \subseteq Positions
    <3>1. \A i \in 0 .. len - 1 : dest + i \in Positions
      BY <1>0, <1>1, Sizes DEF Positions
    <3> QED  BY <2>0, <2>3, <3>1
  <2>5. ASSUME NEW p \in Positions \ lost'
        PROVE  \/ /\ p - dest + 1 \in DOMAIN b /\ p - dest + 1 \in DOMAIN e
                  /\ b[p - dest + 1] = e[p - dest + 1]
               \/ p - dest + 1 \notin DOMAIN b /\ p - dest + 1 \notin DOMAIN e /\ p \notin lost
    <3>1. p \notin Settled(Region(dest, n), Region(dest, len))
      BY <2>0
    <3>2. CASE p - dest + 1 \in 1 .. n
      <4> DEFINE i == p - dest + 1
      <4>1. i \in 1 .. len /\ i \in 1 .. n /\ i - 1 \in 0 .. len - 1 /\ dest + (i - 1) = p
        BY <1>0, <1>2, <3>2 DEF Positions
      <4> HIDE DEF i
      <4>2. ~(from + (i - 1) >= Len(rdata))
        BY <2>0, <4>1
      <4>3. from + i \in 1 .. Len(rdata)
        BY <1>0, <4>1, <4>2, InvFacts
      <4>4. from + i \in DOMAIN rdata
        BY <4>3, InvFacts, LenProperties
      <4>5. rdata[from + i] = evmRdata[from + i]
        BY <4>4 DEF IInv, AnswersCut
      <4>6. b[i] = At(rdata, from + i) /\ e[i] = evmRdata[from + i]
        BY <1>6, <2>1, <4>1
      <4>7. i \in DOMAIN b /\ i \in DOMAIN e /\ b[i] = e[i]
        BY <2>2, <4>1, <4>4, <4>5, <4>6 DEF At
      <4> QED  BY <4>7 DEF i
    <3>3. CASE p - dest + 1 \notin 1 .. n
      BY <2>2, <2>3, <3>1, <3>3
    <3> QED  BY <3>2, <3>3
  <2>6. /\ spill' \in Nat /\ size' <= Larger(Len(m), spill') + 1 /\ Grown(m, dest, Len(e))
        /\ UNCHANGED <<word, number, evmWord, halted, wordLost>>
    BY <1>3, <1>4, <1>7, <2>0, <2>1, InvFacts
  <2>7. Wrote(dest, b, e, m)
    BY <1>1, <1>4, <1>7, <1>8, <2>0, <2>4, <2>5, <2>6 DEF Wrote
  <2> QED  BY <1>0, <1>6, <2>1, <2>7, WriteKeeps
<1> QED  BY <1>9, <1>10

LEMMA TakeFacts ==
  ASSUME NEW d \in Seq(Byte), NEW n \in Nat, n <= Len(d)
  PROVE  /\ SubSeq(d, 1, n) \in Seq(Byte) /\ Len(SubSeq(d, 1, n)) = n
         /\ \A i \in 1 .. n : SubSeq(d, 1, n)[i] = d[i]
<1> DEFINE z == 0
<1>1. z \in Nat /\ z + 1 = 1 /\ z + n = n /\ \A i \in 1 .. n : z + i = i
  OBVIOUS
<1> HIDE DEF z
<1>2. /\ SubSeq(d, z + 1, z + n) \in Seq(Byte) /\ Len(SubSeq(d, z + 1, z + n)) = n
      /\ \A i \in 1 .. n : SubSeq(d, z + 1, z + n)[i] = d[z + i]
  BY <1>1, PrefixFacts
<1> QED  BY <1>1, <1>2

LEMMA SmallerFacts ==
  ASSUME NEW x \in Nat, NEW y \in Nat
  PROVE  /\ Smaller(x, y) \in Nat /\ Smaller(x, y) <= x /\ Smaller(x, y) <= y
         /\ \A z \in Nat : y <= z => Smaller(x, y) <= Smaller(x, z)
BY DEF Smaller

LEMMA CallPreserves ==
  ASSUME IInv, NEW argsOff \in Offsets, NEW argsLen \in Lengths,
         NEW retOff \in Offsets, NEW retLen \in Lengths, NEW d \in Answers,
         Call(argsOff, argsLen, retOff, retLen, d)
  PROVE  IInv'
<1> DEFINE k == Clamp(Len(d))
           cut == SubSeq(d, 1, k)
           m == ExtendedTwice(argsOff, argsLen, retOff, retLen)
           luaN == Smaller(retLen, Len(cut))
           evmN == Smaller(retLen, Len(d))
           b == SubSeq(cut, 1, luaN)
           e == SubSeq(d, 1, evmN)
<1>0. /\ argsOff \in Nat /\ argsLen \in Nat /\ retOff \in Nat /\ retLen \in Nat
      /\ d \in Seq(Byte) /\ Len(d) \in Nat /\ DOMAIN d = 1 .. Len(d)
  BY Operands, LenProperties
<1>1. /\ Opcode(argsOff, argsLen) /\ retOff + retLen <= LastPosition
      /\ HandOut(argsOff, argsLen, argsLen, m)
      /\ rdata' = cut /\ evmRdata' = d
      /\ memory' = LuaStores(retOff, b) /\ size' = SizeWith(retOff, Len(b))
      /\ evmMemory' = Written(m, retOff, e)
      /\ lost' = Settled(Region(retOff, luaN), Region(retOff, evmN))
      /\ UNCHANGED <<word, number, evmWord, halted, wordLost, spill>>
  BY DEF Call, LuaWrites
<1>2. ~halted /\ ops < MaxOps /\ ops' = ops + 1 /\ argsOff + argsLen <= LastPosition
  BY <1>0, <1>1, OpcodeFacts
<1>3. Grown(m, argsOff, argsLen) /\ Grown(m, retOff, retLen)
  BY <1>0, InvFacts, ExtendedTwiceFacts
<1> HIDE DEF m
<1>4. k \in Nat /\ k <= Len(d)
  BY <1>0, ClampFacts
<1> HIDE DEF k
<1>5. cut \in Seq(Byte) /\ Len(cut) = k /\ \A i \in 1 .. k : cut[i] = d[i]
  BY <1>0, <1>4, TakeFacts
<1> HIDE DEF cut
<1>6. DOMAIN cut = 1 .. k
  BY <1>5, LenProperties
<1>7. luaN \in Nat /\ luaN <= retLen /\ luaN <= k /\ evmN \in Nat /\ evmN <= retLen /\ evmN <= Len(d)
  BY <1>0, <1>4, <1>5, SmallerFacts
<1>8. luaN <= evmN
  BY <1>0, <1>4, <1>5, SmallerFacts
<1> HIDE DEF luaN, evmN
<1>9. b \in Seq(Byte) /\ Len(b) = luaN /\ \A i \in 1 .. luaN : b[i] = cut[i]
  <2>1. luaN <= Len(cut)
    BY <1>5, <1>7
  <2> QED  BY <1>5, <1>7, <2>1, TakeFacts
<1>10. e \in Seq(Byte) /\ Len(e) = evmN /\ \A i \in 1 .. evmN : e[i] = d[i]
  BY <1>0, <1>7, TakeFacts
<1> HIDE DEF b, e
<1>11. DOMAIN b = 1 .. luaN /\ DOMAIN e = 1 .. evmN
  BY <1>9, <1>10, LenProperties
<1>12. AnswersCut' /\ rdata' \in Seq(Byte) /\ evmRdata' \in Seq(Byte)
  BY <1>0, <1>1, <1>4, <1>5, <1>6 DEF AnswersCut
<1>13. /\ HandedOutAgrees'
       /\ read' \in [off : Nat, lost : SUBSET Positions, lua : Seq(Byte), evm : Seq(Byte)]
  <2>1. argsLen \in {argsLen, Clamp(argsLen)}
    OBVIOUS
  <2> QED  BY <1>0, <1>1, <1>2, <1>3, <2>1, HandOutKeeps
<1>14. retOff + luaN <= LastPosition /\ retOff + evmN <= LastPosition
  BY <1>0, <1>1, <1>7, Sizes
<1>15. Grown(m, retOff, luaN) /\ Grown(m, retOff, evmN)
  BY <1>0, <1>3, <1>7, GrownLess
<1>16. size' \in 0 .. LastPosition + 1 /\ size' <= Larger(Len(m), spill) + 1
  <2>1. spill \in Nat /\ spill <= spill
    BY InvFacts
  <2>2. SizeWith(retOff, luaN) \in 0 .. LastPosition + 1 /\ SizeWith(retOff, luaN) <= Larger(Len(m), spill) + 1
    BY <1>0, <1>2, <1>7, <1>14, <1>15, <2>1, SizeWithFacts
  <2> QED  BY <1>1, <1>9, <2>2
<1>17. /\ Settled(Region(retOff, luaN), Region(retOff, evmN)) \subseteq Positions
       /\ \A p \in Positions :
            p \notin Settled(Region(retOff, luaN), Region(retOff, evmN)) =>
              \/ p - retOff + 1 \in 1 .. luaN
              \/ p - retOff + 1 \notin 1 .. luaN /\ p - retOff + 1 \notin 1 .. evmN /\ p \notin lost
  BY <1>0, <1>7, <1>14, InvFacts, SettledFacts
<1>18. ASSUME NEW p \in Positions \ lost'
       PROVE  \/ /\ p - retOff + 1 \in DOMAIN b /\ p - retOff + 1 \in DOMAIN e
                 /\ b[p - retOff + 1] = e[p - retOff + 1]
              \/ p - retOff + 1 \notin DOMAIN b /\ p - retOff + 1 \notin DOMAIN e /\ p \notin lost
  <2>1. p \notin Settled(Region(retOff, luaN), Region(retOff, evmN))
    BY <1>1
  <2>2. CASE p - retOff + 1 \in 1 .. luaN
    <3>1. p - retOff + 1 \in 1 .. evmN /\ p - retOff + 1 \in 1 .. k
      BY <1>4, <1>7, <1>8, <2>2
    <3> QED  BY <1>5, <1>9, <1>10, <1>11, <2>2, <3>1
  <2>3. CASE p - retOff + 1 \notin 1 .. luaN
    BY <1>11, <1>17, <2>1, <2>3
  <2> QED  BY <2>2, <2>3
<1>19. /\ spill' \in Nat /\ size' <= Larger(Len(m), spill') + 1 /\ Grown(m, retOff, Len(e))
       /\ lost' \subseteq Positions
  BY <1>1, <1>10, <1>15, <1>16, <1>17, InvFacts
<1>20. Wrote(retOff, b, e, m)
  BY <1>1, <1>2, <1>12, <1>13, <1>16, <1>18, <1>19 DEF Wrote
<1> QED  BY <1>0, <1>9, <1>10, <1>20, WriteKeeps

\* KECCAK256, the logs, the init code of a creation, RETURN and REVERT: only the reference's
\* memory grows.
LEMMA ConsumePreserves ==
  ASSUME IInv, NEW off \in Offsets, NEW len \in Lengths, NEW halts \in BOOLEAN, Consume(off, len, halts)
  PROVE  IInv'
<1> DEFINE m == Extended(off, len)
<1>0. off \in Nat /\ len \in Nat
  BY Operands
<1>1. /\ Opcode(off, len) /\ evmMemory' = m /\ HandOut(off, Clamp(len), len, m) /\ halted' = halts
      /\ UNCHANGED <<memory, size, rdata, word, number, evmRdata, evmWord, lost, wordLost, spill>>
  BY DEF Consume, lua, history
<1>2. ~halted /\ ops' \in 0 .. MaxOps /\ off + len <= LastPosition
  BY <1>0, <1>1, OpcodeFacts
<1>3. Grown(m, off, len)
  BY <1>0, InvFacts, ExtendedFacts
<1> HIDE DEF m
<1>4. /\ HandedOutAgrees'
      /\ read' \in [off : Nat, lost : SUBSET Positions, lua : Seq(Byte), evm : Seq(Byte)]
  <2>1. Clamp(len) \in {len, Clamp(len)}
    OBVIOUS
  <2> QED  BY <1>0, <1>1, <1>2, <1>3, <2>1, HandOutKeeps
<1>5. /\ m \in Seq(Byte) /\ Len(m) % WordBytes = 0 /\ Len(m) \in Nat /\ Len(evmMemory) <= Len(m)
      /\ \A p \in Nat : ByteAt(m, p) = RefAt(p)
  BY <1>3, LenProperties DEF Grown
<1>6. TypeOK'
  <2>1. word' \in Nat /\ evmWord' \in Word /\ lost' \subseteq Positions /\ spill' \in Nat
    BY <1>1, InvFacts
  <2>2. {number', halted', wordLost'} \subseteq BOOLEAN
    BY <1>1, InvFacts
  <2>3. /\ memory' \in [Positions -> Byte] /\ size' \in 0 .. LastPosition + 1
        /\ rdata' \in Seq(Byte) /\ evmRdata' \in Seq(Byte)
    BY <1>1, InvFacts
  <2> QED  BY <1>1, <1>2, <1>4, <1>5, <2>1, <2>2, <2>3 DEF TypeOK
<1>7. MemoryAgrees'
  <2>1. ASSUME NEW p \in Positions \ lost'
        PROVE  memory'[p] = RefAt(p)'
    <3>1. RefAt(p)' = ByteAt(m, p)
      BY <1>1 DEF RefAt, ByteAt
    <3>2. p \in Nat /\ p \in Positions \ lost
      BY <1>1 DEF Positions
    <3>3. memory[p] = RefAt(p)
      BY <1>2, <3>2, InvFacts
    <3> QED  BY <1>1, <1>5, <3>1, <3>2, <3>3
  <2>2. ~wordLost' => word' = evmWord'
    BY <1>1, <1>2, InvFacts
  <2> QED  BY <2>1, <2>2 DEF MemoryAgrees
<1>8. AnswersCut'
  <2>1. AnswersCut
    BY DEF IInv
  <2> QED  BY <1>1, <2>1 DEF AnswersCut
<1>9. MsizeWithinOne'
  <2>1. size <= Larger(Len(evmMemory), spill) + 1
    BY <1>2 DEF IInv, MsizeWithinOne
  <2>2. size \in 0 .. LastPosition + 1 /\ LastPosition \in Nat /\ spill \in Nat /\ Len(evmMemory) \in Nat
    BY InvFacts, Sizes
  <2>3. size <= Larger(Len(m), spill) + 1
    BY <1>5, <2>1, <2>2 DEF Larger
  <2> QED  BY <1>1, <2>3 DEF MsizeWithinOne
<1> QED  BY <1>4, <1>6, <1>7, <1>8, <1>9 DEF IInv

\* A new word on top of both stacks; at most the reference's memory grows.
LEMMA PushedWord ==
  ASSUME IInv, ~halted, ops' \in 0 .. MaxOps, word' \in Nat, number' \in BOOLEAN, evmWord' \in Word,
         wordLost' \in BOOLEAN, ~wordLost' => word' = evmWord',
         evmMemory' \in Seq(Byte), Len(evmMemory') % WordBytes = 0,
         Len(evmMemory) <= Len(evmMemory'), \A p \in Nat : ByteAt(evmMemory', p) = RefAt(p),
         UNCHANGED <<memory, size, rdata, evmRdata, read, halted, lost, spill>>
  PROVE  IInv'
<1>1. /\ rdata' \in Seq(Byte) /\ evmRdata' \in Seq(Byte) /\ AnswersCut' /\ HandedOutAgrees'
      /\ read' \in [off : Nat, lost : SUBSET Positions, lua : Seq(Byte), evm : Seq(Byte)]
  BY BuffersKept
<1>2. TypeOK'
  <2>1. word' \in Nat /\ evmWord' \in Word /\ lost' \subseteq Positions /\ spill' \in Nat
    BY InvFacts
  <2>2. {number', halted', wordLost'} \subseteq BOOLEAN
    <3>1. halted \in BOOLEAN
      BY DEF IInv, TypeOK
    <3> QED  BY <3>1
  <2>3. memory' \in [Positions -> Byte] /\ size' \in 0 .. LastPosition + 1
    BY InvFacts
  <2> QED  BY <1>1, <2>1, <2>2, <2>3 DEF TypeOK
<1>3. MemoryAgrees'
  <2>1. ASSUME NEW p \in Positions \ lost'
        PROVE  memory'[p] = RefAt(p)'
    <3>1. RefAt(p)' = ByteAt(evmMemory', p)
      BY DEF RefAt, ByteAt
    <3>2. p \in Nat /\ p \in Positions \ lost
      BY DEF Positions
    <3>3. memory[p] = RefAt(p)
      BY <3>2, InvFacts
    <3> QED  BY <3>1, <3>2, <3>3
  <2> QED  BY <2>1 DEF MemoryAgrees
<1>4. MsizeWithinOne'
  <2>1. size <= Larger(Len(evmMemory), spill) + 1
    BY DEF IInv, MsizeWithinOne
  <2>2. /\ size \in 0 .. LastPosition + 1 /\ LastPosition \in Nat /\ spill \in Nat
        /\ Len(evmMemory) \in Nat /\ Len(evmMemory') \in Nat
    BY InvFacts, Sizes, LenProperties
  <2>3. size <= Larger(Len(evmMemory'), spill) + 1
    BY <2>1, <2>2 DEF Larger
  <2> QED  BY <2>3 DEF MsizeWithinOne
<1> QED  BY <1>1, <1>2, <1>3, <1>4 DEF IInv

LEMMA MemoryAsItIs ==
  ASSUME IInv, UNCHANGED evmMemory
  PROVE  /\ evmMemory' \in Seq(Byte) /\ Len(evmMemory') % WordBytes = 0
         /\ Len(evmMemory) <= Len(evmMemory') /\ \A p \in Nat : ByteAt(evmMemory', p) = RefAt(p)
<1>1. evmMemory \in Seq(Byte) /\ Len(evmMemory) % WordBytes = 0 /\ Len(evmMemory) \in Nat
  BY InvFacts
<1>2. \A p \in Nat : ByteAt(evmMemory, p) = RefAt(p)
  BY DEF RefAt, ByteAt
<1> QED  BY <1>1, <1>2

LEMMA PushesFacts ==
  ASSUME NEW v \in Nat, NEW short \in BOOLEAN, Pushes(v, short)
  PROVE  /\ word' \in Nat /\ number' \in BOOLEAN
         /\ ~(short /\ Double(v) # v) => word' = v
BY DoubleNat DEF Pushes

LEMMA PushPreserves ==
  ASSUME IInv, NEW v \in Immediates, NEW short \in BOOLEAN, Push(v, short)
  PROVE  IInv'
<1>1. /\ Opcode(0, 0) /\ Pushes(v, short) /\ evmWord' = v
      /\ wordLost' = (short /\ Double(v) # v)
      /\ UNCHANGED <<memory, size, rdata, evmMemory, evmRdata, read, halted, lost, spill>>
  BY DEF Push
<1>2. ~halted /\ ops' \in 0 .. MaxOps
  BY <1>1, OpcodeFacts
<1>3. v \in Word /\ v \in Nat
  BY Operands, Sizes
<1>5. word' \in Nat /\ number' \in BOOLEAN /\ wordLost' \in BOOLEAN /\ (~wordLost' => word' = evmWord')
  BY <1>1, <1>3, PushesFacts
<1>4. /\ evmMemory' \in Seq(Byte) /\ Len(evmMemory') % WordBytes = 0
      /\ Len(evmMemory) <= Len(evmMemory') /\ \A p \in Nat : ByteAt(evmMemory', p) = RefAt(p)
  BY <1>1, MemoryAsItIs
<1> QED  BY <1>1, <1>2, <1>3, <1>4, <1>5, PushedWord

LEMMA CallDataLoadPreserves ==
  ASSUME IInv, NEW from \in Offsets, CallDataLoad(from)
  PROVE  IInv'
<1> DEFINE loaded == NumberOf(Padded(Calldata, from, WordBytes))
<1>0. from \in Nat /\ Calldata \in Seq(Byte) /\ WordBytes \in Nat
  BY Operands, Sizes
<1>1. /\ Opcode(0, 0) /\ word' = loaded /\ number' = TRUE /\ evmWord' = loaded /\ wordLost' = FALSE
      /\ UNCHANGED <<memory, size, rdata, evmMemory, evmRdata, read, halted, lost, spill>>
  BY DEF CallDataLoad
<1>2. ~halted /\ ops' \in 0 .. MaxOps
  BY <1>1, OpcodeFacts
<1>3. loaded \in Word /\ loaded \in Nat
  <2>1. /\ Padded(Calldata, from, WordBytes) \in Seq(Byte)
        /\ Len(Padded(Calldata, from, WordBytes)) = WordBytes
    BY <1>0, PaddedFacts
  <2> QED  BY <2>1, NumberOfBytes, Sizes
<1> HIDE DEF loaded
<1>4. /\ evmMemory' \in Seq(Byte) /\ Len(evmMemory') % WordBytes = 0
      /\ Len(evmMemory) <= Len(evmMemory') /\ \A p \in Nat : ByteAt(evmMemory', p) = RefAt(p)
  BY <1>1, MemoryAsItIs
<1> QED  BY <1>1, <1>2, <1>3, <1>4, PushedWord

LEMMA LoadPreserves ==
  ASSUME IInv, NEW off \in Offsets, MLoad(off)
  PROVE  IInv'
<1> DEFINE m == Extended(off, WordBytes)
           a == LuaRead(off, WordBytes)
           e == RefRead(m, off, WordBytes)
           short == NumberOf(a) < Base ^ NumberBytes
<1>0. off \in Nat /\ WordBytes \in Nat /\ WordBytes > 0
  BY Operands, Sizes
<1>1. /\ Opcode(off, WordBytes)
      /\ Pushes(NumberOf(a), short) /\ evmMemory' = m /\ evmWord' = NumberOf(e)
      /\ wordLost' = (Region(off, WordBytes) \cap lost # {} \/ (short /\ Double(NumberOf(a)) # NumberOf(a)))
      /\ short \in BOOLEAN
      /\ UNCHANGED <<memory, size, rdata, evmRdata, read, halted, lost, spill>>
  BY DEF MLoad
<1>2. ~halted /\ ops' \in 0 .. MaxOps /\ off + WordBytes <= LastPosition
  BY <1>0, <1>1, OpcodeFacts
<1>3. Grown(m, off, WordBytes)
  BY <1>0, InvFacts, ExtendedFacts
<1>4. a = [i \in 1 .. WordBytes |-> a[i]] /\ e = [i \in 1 .. WordBytes |-> e[i]]
  BY DEF LuaRead, RefRead
<1> HIDE DEF m
<1>5. a \in Seq(Byte) /\ Len(a) = WordBytes /\ \A i \in 1 .. WordBytes : a[i] = memory[off + i - 1]
  BY <1>0, <1>2, InvFacts, LuaReadFacts
<1>6. e \in Seq(Byte) /\ Len(e) = WordBytes /\ \A i \in 1 .. WordBytes : e[i] = ByteAt(m, off + i - 1)
  <2>1. m \in Seq(Byte) /\ off + WordBytes <= Len(m)
    BY <1>0, <1>3 DEF Grown
  <2> QED  BY <1>0, <2>1, RefReadFacts
<1> HIDE DEF a, e, short
<1>7. NumberOf(a) \in Nat /\ NumberOf(e) \in Word
  BY <1>5, <1>6, NumberOfBytes, Sizes
<1>8. ASSUME Region(off, WordBytes) \cap lost = {}
      PROVE  a = e
  <2>1. ASSUME NEW i \in 1 .. WordBytes
        PROVE  a[i] = e[i]
    <3>1. off + i - 1 \in Region(off, WordBytes) /\ off + i - 1 \in Positions /\ off + i - 1 \in Nat
      BY <1>0, <1>2, Sizes DEF Region, Positions
    <3>2. memory[off + i - 1] = RefAt(off + i - 1)
      BY <1>2, <1>8, <3>1, InvFacts
    <3>3. ByteAt(m, off + i - 1) = RefAt(off + i - 1)
      BY <1>3, <3>1 DEF Grown
    <3> QED  BY <1>5, <1>6, <3>2, <3>3
  <2> QED  BY <1>4, <2>1
<1>9. ~wordLost' => word' = evmWord'
  BY <1>1, <1>7, <1>8, PushesFacts
<1>10. wordLost' \in BOOLEAN
  BY <1>1
<1>11. /\ evmMemory' \in Seq(Byte) /\ Len(evmMemory') % WordBytes = 0
       /\ Len(evmMemory) <= Len(evmMemory') /\ \A p \in Nat : ByteAt(evmMemory', p) = RefAt(p)
  BY <1>1, <1>3 DEF Grown
<1>12. word' \in Nat /\ number' \in BOOLEAN /\ evmWord' \in Word
  BY <1>1, <1>7, PushesFacts
<1> QED  BY <1>1, <1>2, <1>9, <1>10, <1>11, <1>12, PushedWord

LEMMA Stuttering == IInv /\ UNCHANGED vars => IInv'
<1> SUFFICES ASSUME IInv, UNCHANGED vars PROVE IInv'
  OBVIOUS
<1>1. /\ UNCHANGED <<memory, size, rdata, word, number, evmMemory, evmRdata, evmWord>>
      /\ UNCHANGED <<read, halted, lost, wordLost, spill, ops>>
  BY DEF vars, lua, evm, history
<1>2. TypeOK /\ MemoryAgrees /\ AnswersCut /\ HandedOutAgrees /\ MsizeWithinOne
  BY DEF IInv
<1>3. TypeOK'
  BY <1>1, <1>2 DEF TypeOK
<1>4. MemoryAgrees'
  BY <1>1, <1>2 DEF MemoryAgrees, RefAt
<1>5. AnswersCut' /\ HandedOutAgrees' /\ MsizeWithinOne'
  BY <1>1, <1>2 DEF AnswersCut, HandedOutAgrees, MsizeWithinOne
<1> QED  BY <1>3, <1>4, <1>5 DEF IInv

LEMMA Inductive == IInv /\ [Next]_vars => IInv'
<1> SUFFICES ASSUME IInv, [Next]_vars PROVE IInv'
  OBVIOUS
<1>1. CASE \E v \in Immediates, short \in BOOLEAN : Push(v, short)
  BY <1>1, PushPreserves
<1>2. CASE \E off \in Offsets : MLoad(off) \/ MStore(off) \/ MStore8(off)
  BY <1>2, LoadPreserves, StorePreserves, StoreBytePreserves
<1>3. CASE \E from \in Offsets : CallDataLoad(from)
  BY <1>3, CallDataLoadPreserves
<1>4. ASSUME NEW dest \in Offsets, NEW src \in Offsets, NEW len \in Lengths,
             \/ MCopy(dest, src, len)
             \/ ReturnDataCopy(dest, src, len)
             \/ CallDataCopy(dest, src, len)
             \/ CodeCopy(dest, src, len)
             \/ ExtCodeCopy(dest, src, len)
      PROVE  IInv'
  <2>1. CASE MCopy(dest, src, len)
    BY <2>1, CopyPreserves
  <2>2. CASE ReturnDataCopy(dest, src, len)
    BY <2>2, ReturnDataCopyPreserves
  <2>3. CASE CallDataCopy(dest, src, len)
    BY <2>3, CallDataCopyPreserves
  <2>4. CASE CodeCopy(dest, src, len)
    BY <2>4, CodeCopyPreserves
  <2>5. CASE ExtCodeCopy(dest, src, len)
    BY <2>5, ExtCodeCopyPreserves
  <2> QED  BY <1>4, <2>1, <2>2, <2>3, <2>4, <2>5
<1>5. ASSUME NEW off1 \in Offsets, NEW off2 \in Offsets, NEW len1 \in Lengths, NEW len2 \in Lengths,
             NEW d \in Answers, Call(off1, len1, off2, len2, d)
      PROVE  IInv'
  BY <1>5, CallPreserves
<1>6. ASSUME NEW off \in Offsets, NEW len \in Lengths, NEW halts \in BOOLEAN, Consume(off, len, halts)
      PROVE  IInv'
  BY <1>6, ConsumePreserves
<1>7. CASE UNCHANGED vars
  BY <1>7, Stuttering
<1> QED  BY <1>1, <1>2, <1>3, <1>4, <1>5, <1>6, <1>7 DEF Next
------------------------------------------------------------------------------
(***************************************************************************)
(* The theorems.                                                           *)
(***************************************************************************)
\* Both memories keep their shapes, whatever opcodes follow each other (evm.lua:500-513): every
\* index holds a byte, the reference's memory is a whole number of words, and its word is no
\* wider than one.
THEOREM MemoryTypeCorrect == Spec => []TypeOK
<1>1. IInv => TypeOK
  BY DEF IInv
<1> QED  BY <1>1, Initially, Inductive, PTL DEF Spec

\* Whatever stores, copies and calls overlap or follow each other, every byte of memory that
\* toNumber or clamp_length did not cut and no double rounded, or that was not moved from such
\* a place, is the reference's, and so is a word that MLOAD made of such bytes, unless a double
\* rounded it (evm.lua:95-109, 500-513, 1156-1291).
THEOREM MemoryAgreesThroughout == Spec => []MemoryAgrees
<1>1. IInv => MemoryAgrees
  BY DEF IInv
<1> QED  BY <1>1, Initially, Inductive, PTL DEF Spec

\* What a hash, a log, an init frame, a callee or the caller is given agrees with what the
\* reference gives, up to the ceiling on lengths (evm.lua:500, 921, 1404).
THEOREM HandedOutThroughout == Spec => []HandedOutAgrees
<1>1. IInv => HandedOutAgrees
  BY DEF IInv
<1> QED  BY <1>1, Initially, Inductive, PTL DEF Spec

\* MSIZE is never more than one above the larger of the reference's memory and the highest
\* offset of an EXTCODECOPY of no bytes (evm.lua:1270, 1301-1312, 1478).
THEOREM MsizeThroughout == Spec => []MsizeWithinOne
<1>1. IInv => MsizeWithinOne
  BY DEF IInv
<1> QED  BY <1>1, Initially, Inductive, PTL DEF Spec
=============================================================================
