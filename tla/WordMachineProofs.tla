--------------------------- MODULE WordMachineProofs ---------------------------
(***************************************************************************)
(* Theorems about WordMachine, for every width of byte, limb, mantissa and *)
(* word: one by one the opcodes take operands that represent words to a    *)
(* result that represents the reference's (ResultAgrees), so that the two  *)
(* stacks stay in step however long the program.                           *)
(*                                                                         *)
(* Below the opcodes there are four layers: division of numbers that may   *)
(* be negative; powers of two up to 2^BITS; the bits of a number, which    *)
(* determine it, and the number made of a set of bits, which evm.lua's     *)
(* loops and the reference sum up in the same way; and what it means for a *)
(* number to represent a word (Agree).                                     *)
(***************************************************************************)
EXTENDS WordMachine, SequenceTheorems, FiniteSetTheorems, WellFoundedInduction, TLAPS

------------------------------------------------------------------------------
(***************************************************************************)
(* Induction over sets of numbers, which needs no operator as parameter.   *)
(***************************************************************************)
LEMMA Least ==
  ASSUME NEW T, T \subseteq Nat, T # {}
  PROVE  \E m \in T : \A n \in T : m <= n
<1>1. IsWellFoundedOn(OpToRel(<, Nat), Nat)
  BY NatLessThanWellFounded
<1>2. PICK m \in T : \A n \in T : <<n, m>> \notin OpToRel(<, Nat)
  BY <1>1, WFMin
<1>3. ASSUME NEW n \in T, n < m
      PROVE  FALSE
  <2>1. <<n, m>> \in OpToRel(<, Nat)
    BY <1>3 DEF OpToRel
  <2> QED  BY <1>2, <2>1
<1> QED  BY <1>3

LEMMA Induction ==
  ASSUME NEW T \in SUBSET Nat, 0 \in T, \A n \in T : n + 1 \in T
  PROVE  T = Nat
<1> SUFFICES ASSUME Nat \ T # {} PROVE FALSE
  OBVIOUS
<1>1. PICK m \in Nat \ T : \A n \in Nat \ T : m <= n
  BY Least
<1>2. m # 0 /\ m - 1 \in Nat /\ m - 1 \in T
  BY <1>1
<1> QED  BY <1>1, <1>2

------------------------------------------------------------------------------
(***************************************************************************)
(* Products, quotients and remainders of integers that may be negative.    *)
(***************************************************************************)
LEMMA TimesInt == ASSUME NEW a \in Int, NEW b \in Int PROVE a * b \in Int
OBVIOUS

LEMMA TimesNat == ASSUME NEW a \in Nat, NEW b \in Nat PROVE a * b \in Nat
OBVIOUS

LEMMA TimesMonotone ==
  ASSUME NEW a \in Int, NEW b \in Int, NEW d \in Nat, a <= b
  PROVE  d * a <= d * b
<1>1. b - a \in Nat /\ b = a + (b - a)
  OBVIOUS
<1>2. d * (b - a) \in Nat
  BY <1>1, TimesNat
<1>3. d * b = d * a + d * (b - a) /\ d * a \in Int
  OBVIOUS
<1> QED  BY <1>2, <1>3

LEMMA QuotientFacts ==
  ASSUME NEW v \in Int, NEW d \in Nat \ {0}
  PROVE  /\ v \div d \in Int /\ v % d \in 0 .. d - 1 /\ v % d \in Nat
         /\ v = d * (v \div d) + (v % d)
<1>1. v \div d \in Int
  OBVIOUS
<1>2. v % d \in 0 .. d - 1
  OBVIOUS
<1>3. v = d * (v \div d) + (v % d)
  OBVIOUS
<1> QED  BY <1>1, <1>2, <1>3

LEMMA QuotientUnique ==
  ASSUME NEW d \in Nat \ {0}, NEW c \in Int, NEW r \in 0 .. d - 1
  PROVE  (d * c + r) \div d = c /\ (d * c + r) % d = r
<1> DEFINE v == d * c + r
           q == v \div d
           s == v % d
<1>1. v \in Int
  BY TimesInt
<1>2. q \in Int /\ s \in 0 .. d - 1 /\ v = d * q + s
  BY <1>1, QuotientFacts
<1>3. v = d * c + r
  OBVIOUS
<1> HIDE DEF v, q, s
<1>4. ASSUME q < c
      PROVE  FALSE
  <2>1. d * (q + 1) <= d * c
    BY <1>2, <1>4, TimesMonotone
  <2>2. d * (q + 1) = d * q + d
    BY <1>2
  <2> QED  BY <1>2, <1>3, <2>1, <2>2
<1>5. ASSUME c < q
      PROVE  FALSE
  <2>1. d * (c + 1) <= d * q
    BY <1>2, <1>5, TimesMonotone
  <2>2. d * (c + 1) = d * c + d
    BY <1>2
  <2> QED  BY <1>2, <1>3, <2>1, <2>2
<1>6. q = c
  BY <1>2, <1>4, <1>5
<1>7. s = r
  BY <1>2, <1>3, <1>6
<1> QED  BY <1>6, <1>7 DEF v, q, s

LEMMA ShiftedQuotient ==
  ASSUME NEW d \in Nat \ {0}, NEW c \in Int, NEW r \in Int
  PROVE  (d * c + r) \div d = c + r \div d /\ (d * c + r) % d = r % d
<1> DEFINE q == r \div d
           s == r % d
<1>1. q \in Int /\ s \in 0 .. d - 1 /\ r = d * q + s
  BY QuotientFacts
<1>2. d * c + r = d * (c + q) + s
  <2> HIDE DEF q, s
  <2> QED  BY <1>1
<1> HIDE DEF q, s
<1>3. (d * (c + q) + s) \div d = c + q /\ (d * (c + q) + s) % d = s
  BY <1>1, QuotientUnique
<1> QED  BY <1>2, <1>3 DEF q, s

\* A number is its own remainder below the divisor.
LEMMA SmallRemainder ==
  ASSUME NEW d \in Nat \ {0}, NEW r \in 0 .. d - 1
  PROVE  r \div d = 0 /\ r % d = r
<1>1. (d * 0 + r) \div d = 0 /\ (d * 0 + r) % d = r
  BY QuotientUnique
<1>2. d * 0 + r = r
  OBVIOUS
<1> QED  BY <1>1, <1>2

\* The number before 0 in each residue class.
LEMMA NegativeRemainder ==
  ASSUME NEW d \in Nat \ {0}, NEW r \in 1 .. d
  PROVE  (-r) \div d = -1 /\ (-r) % d = d - r
<1>1. d - r \in 0 .. d - 1
  OBVIOUS
<1>2. (d * (-1) + (d - r)) \div d = -1 /\ (d * (-1) + (d - r)) % d = d - r
  BY <1>1, QuotientUnique
<1>3. d * (-1) + (d - r) = -r
  OBVIOUS
<1> QED  BY <1>2, <1>3

\* Dividing twice is dividing by the product.
LEMMA QuotientOfQuotient ==
  ASSUME NEW v \in Int, NEW d \in Nat \ {0}, NEW e \in Nat \ {0}
  PROVE  v \div (d * e) = (v \div d) \div e
<1> DEFINE q == v \div d
           r == v % d
           t == q \div e
           u == q % e
<1>1. q \in Int /\ r \in 0 .. d - 1 /\ v = d * q + r
  BY QuotientFacts
<1> HIDE DEF q, r
<1>2. t \in Int /\ u \in 0 .. e - 1 /\ q = e * t + u
  BY <1>1, QuotientFacts
<1> HIDE DEF t, u
<1>3. d * (e * t + u) = (d * e) * t + d * u
  BY <1>2
<1>4. v = (d * e) * t + (d * u + r)
  BY <1>1, <1>2, <1>3
<1>5. d * u + r \in 0 .. d * e - 1 /\ d * e \in Nat \ {0}
  <2>1. d * u <= d * (e - 1)
    BY <1>2, TimesMonotone
  <2>2. d * (e - 1) = d * e - d /\ d * u \in Nat /\ d * e \in Nat
    BY <1>2, TimesNat
  <2> QED  BY <1>1, <2>1, <2>2
<1> DEFINE k == d * e
           z == d * u + r
<1> HIDE DEF k, z
<1>6. (k * t + z) \div k = t
  BY <1>2, <1>5, QuotientUnique DEF k, z
<1> QED  BY <1>4, <1>6 DEF k, z, t, q

\* The remainder by a multiple of d has the same remainder by d, and quotients by d
\* that differ by a multiple of the factor.
LEMMA RemainderOfRemainder ==
  ASSUME NEW v \in Int, NEW d \in Nat \ {0}, NEW e \in Nat \ {0}
  PROVE  /\ (v % (d * e)) % d = v % d
         /\ ((v % (d * e)) \div d) % e = (v \div d) % e
<1> DEFINE k == d * e
           q == v \div k
           r == v % k
<1>0. k \in Nat \ {0}
  BY TimesNat
<1> HIDE DEF k
<1>1. q \in Int /\ r \in Int /\ v = k * q + r
  BY <1>0, QuotientFacts
<1> HIDE DEF q, r
<1>2. v = d * (e * q) + r
  BY <1>1 DEF k
<1> DEFINE c == e * q
           x == r \div d
<1>3. c \in Int /\ v = d * c + r
  BY <1>1, <1>2, TimesInt
<1> HIDE DEF c
<1>4. v \div d = c + r \div d /\ v % d = r % d
  <2>1. (d * c + r) \div d = c + r \div d /\ (d * c + r) % d = r % d
    BY <1>1, <1>3, ShiftedQuotient
  <2> QED  BY <1>3, <2>1
<1>5. x \in Int
  BY <1>1, QuotientFacts
<1> HIDE DEF x
<1>6. (e * q + x) % e = x % e
  BY <1>1, <1>5, ShiftedQuotient
<1> QED  BY <1>4, <1>6 DEF c, x, r, k

------------------------------------------------------------------------------
(***************************************************************************)
(* Powers of two.                                                          *)
(***************************************************************************)
LEMMA Widths ==
  /\ BITS \in Nat /\ BYTEBITS \in Nat \ {0} /\ LIMB \in Nat \ {0} /\ MANTISSA \in Nat \ {0}
  /\ MaxDepth \in Nat /\ BITS % BYTEBITS = 0
  /\ BYTEBITS <= MANTISSA /\ LIMB < MANTISSA /\ MANTISSA <= 2 * LIMB
  /\ MANTISSA + 2 <= BITS /\ 2 * LIMB <= BITS
BY WidthAssumption

LEMMA Powers == \A n \in 0 .. BITS : 2 ^ n \in Nat \ {0}
<1> DEFINE T == {n \in Nat : n <= BITS => 2 ^ n \in Nat \ {0}}
<1>1. 0 \in T
  BY PowerAssumption
<1>2. ASSUME NEW n \in T
      PROVE  n + 1 \in T
  <2>1. SUFFICES ASSUME n + 1 <= BITS PROVE 2 ^ (n + 1) \in Nat \ {0}
    BY Widths
  <2>2. n \in 0 .. BITS - 1 /\ 2 ^ n \in Nat \ {0}
    BY <1>2, <2>1, Widths
  <2>3. 2 ^ (n + 1) = 2 * 2 ^ n
    BY <2>2, PowerAssumption
  <2> QED  BY <2>2, <2>3
<1> HIDE DEF T
<1>3. T = Nat
  <2>1. T \in SUBSET Nat
    BY DEF T
  <2> QED  BY <1>1, <1>2, <2>1, Induction
<1>4. \A n \in 0 .. BITS : n \in T /\ n <= BITS
  BY <1>3, Widths
<1> QED  BY <1>4 DEF T

LEMMA PowerOfSum ==
  ASSUME NEW a \in Nat
  PROVE  \A b \in Nat : a + b <= BITS => 2 ^ (a + b) = 2 ^ a * 2 ^ b
<1> DEFINE T == {b \in Nat : a + b <= BITS => 2 ^ (a + b) = 2 ^ a * 2 ^ b}
<1>1. 0 \in T
  <2>1. SUFFICES ASSUME a <= BITS PROVE 2 ^ (a + 0) = 2 ^ a * 2 ^ 0
    OBVIOUS
  <2> DEFINE p == 2 ^ a
  <2>2. p \in Nat
    BY <2>1, Powers, Widths
  <2> HIDE DEF p
  <2>3. p = p * 1
    BY <2>2
  <2> QED  BY <2>3, PowerAssumption DEF p
<1>2. ASSUME NEW b \in T
      PROVE  b + 1 \in T
  <2>1. SUFFICES ASSUME a + (b + 1) <= BITS
                 PROVE  2 ^ (a + (b + 1)) = 2 ^ a * 2 ^ (b + 1)
    BY Widths
  <2>2. /\ b \in Nat /\ a + (b + 1) = (a + b) + 1
        /\ a + b \in 0 .. BITS - 1 /\ b \in 0 .. BITS - 1
    BY <2>1, Widths
  <2> DEFINE p == 2 ^ a
             q == 2 ^ b
             r == 2 ^ (b + 1)
             s == 2 ^ (a + b)
             t == 2 ^ ((a + b) + 1)
  <2>3. p \in Nat /\ q \in Nat
    BY <2>1, <2>2, Powers, Widths
  <2>4. t = 2 * s /\ r = 2 * q
    BY <2>2, PowerAssumption
  <2>5. s = p * q
    <3>1. a + b <= BITS
      BY <2>2, Widths
    <3> QED  BY <1>2, <3>1
  <2>6. 2 ^ (a + (b + 1)) = t
    BY <2>2
  <2> HIDE DEF p, q, r, s, t
  <2>7. t = p * r
    BY <2>3, <2>4, <2>5
  <2> QED  BY <2>6, <2>7 DEF p, r
<1> HIDE DEF T
<1>3. T = Nat
  <2>1. T \in SUBSET Nat
    BY DEF T
  <2> QED  BY <1>1, <1>2, <2>1, Induction
<1> QED  BY <1>3, Widths DEF T

\* A power is a multiple of any smaller one.
LEMMA PowerSplit ==
  ASSUME NEW m \in Nat, NEW n \in Nat, m <= n, n <= BITS
  PROVE  /\ 2 ^ m \in Nat \ {0} /\ 2 ^ (n - m) \in Nat \ {0} /\ 2 ^ n \in Nat \ {0}
         /\ 2 ^ n = 2 ^ m * 2 ^ (n - m)
<1> DEFINE j == n - m
<1>1. j \in Nat /\ m + j = n /\ m \in 0 .. BITS /\ j \in 0 .. BITS /\ n \in 0 .. BITS
  BY Widths
<1> HIDE DEF j
<1>2. 2 ^ (m + j) = 2 ^ m * 2 ^ j
  BY <1>1, PowerOfSum
<1> QED  BY <1>1, <1>2, Powers DEF j

LEMMA PowersGrow ==
  ASSUME NEW m \in Nat, NEW n \in Nat, m <= n, n <= BITS
  PROVE  /\ 2 ^ m \in Nat \ {0} /\ 2 ^ n \in Nat \ {0}
         /\ 2 ^ m <= 2 ^ n /\ (m < n => 2 * 2 ^ m <= 2 ^ n)
<1> DEFINE p == 2 ^ m
           q == 2 ^ (n - m)
           r == 2 ^ n
<1>1. p \in Nat \ {0} /\ q \in Nat \ {0} /\ r \in Nat \ {0} /\ r = p * q
  BY PowerSplit
<1>2. m < n => q >= 2
  <2>1. SUFFICES ASSUME m < n PROVE q >= 2
    OBVIOUS
  <2> DEFINE j == n - m - 1
  <2>2. j \in 0 .. BITS - 1 /\ j \in 0 .. BITS /\ j + 1 = n - m
    BY <2>1, Widths
  <2> HIDE DEF j
  <2>3. 2 ^ (j + 1) = 2 * 2 ^ j /\ 2 ^ j \in Nat \ {0}
    BY <2>2, Powers, PowerAssumption
  <2> QED  BY <2>2, <2>3
<1> HIDE DEF p, q, r
<1>3. p * 1 <= p * q /\ (m < n => p * 2 <= p * q)
  BY <1>1, <1>2, TimesMonotone
<1>4. p * 1 = p /\ p * 2 = 2 * p
  BY <1>1
<1> QED  BY <1>1, <1>3, <1>4 DEF p, r

\* There are more words than bits.
LEMMA PowersExceed == \A n \in 0 .. BITS : n < 2 ^ n
<1> DEFINE T == {n \in Nat : n <= BITS => n < 2 ^ n}
<1>1. 0 \in T
  BY PowerAssumption
<1>2. ASSUME NEW n \in T
      PROVE  n + 1 \in T
  <2>1. SUFFICES ASSUME n + 1 <= BITS PROVE n + 1 < 2 ^ (n + 1)
    BY Widths
  <2>2. n \in Nat /\ n \in 0 .. BITS - 1 /\ n \in 0 .. BITS /\ n < 2 ^ n
    BY <1>2, <2>1, Widths
  <2>3. 2 ^ (n + 1) = 2 * 2 ^ n /\ 2 ^ n \in Nat
    BY <2>2, Powers, PowerAssumption
  <2> QED  BY <2>2, <2>3
<1> HIDE DEF T
<1>3. T = Nat
  <2>1. T \in SUBSET Nat
    BY DEF T
  <2> QED  BY <1>1, <1>2, <2>1, Induction
<1>4. \A n \in 0 .. BITS : n \in T /\ n <= BITS
  BY <1>3, Widths
<1> QED  BY <1>4 DEF T

\* The powers that the widths of a double and a word are made of.
LEMMA Moduli ==
  /\ 2 ^ MANTISSA \in Nat \ {0} /\ 2 ^ (BITS - 1) \in Nat \ {0} /\ 2 ^ BITS \in Nat \ {0}
  /\ 2 ^ BITS = 2 * 2 ^ (BITS - 1) /\ 2 * 2 ^ MANTISSA <= 2 ^ (BITS - 1)
  /\ BITS < 2 ^ BITS /\ BITS <= 2 ^ (BITS - 1)
  /\ Ref!Modulus = 2 ^ BITS /\ Ref!Word = 0 .. 2 ^ BITS - 1
<1>1. MANTISSA \in Nat /\ BITS - 1 \in Nat /\ MANTISSA < BITS - 1 /\ BITS - 1 <= BITS
      /\ BITS - 1 \in 0 .. BITS - 1 /\ BITS - 1 \in 0 .. BITS /\ BITS \in 0 .. BITS /\ (BITS - 1) + 1 = BITS
  BY Widths
<1>2. 2 ^ ((BITS - 1) + 1) = 2 * 2 ^ (BITS - 1)
  BY <1>1, PowerAssumption
<1>3. BITS - 1 < 2 ^ (BITS - 1) /\ BITS < 2 ^ BITS
  BY <1>1, PowersExceed
<1>4. 2 ^ MANTISSA \in Nat \ {0} /\ 2 ^ (BITS - 1) \in Nat \ {0} /\ 2 * 2 ^ MANTISSA <= 2 ^ (BITS - 1)
  BY <1>1, PowersGrow
<1>5. 2 ^ BITS \in Nat \ {0}
  BY <1>1, Powers
<1>6. BITS <= 2 ^ (BITS - 1)
  BY <1>3, <1>4, Widths
<1> QED  BY <1>1, <1>2, <1>3, <1>4, <1>5, <1>6 DEF Ref!Modulus, Ref!Word

------------------------------------------------------------------------------
(***************************************************************************)
(* Bits.  A negative number has those of its remainder: infinitely many    *)
(* ones above.                                                             *)
(***************************************************************************)
Bit(v, k) == (v \div 2 ^ k) % 2

LEMMA BitFacts ==
  ASSUME NEW v \in Int, NEW k \in 0 .. BITS
  PROVE  /\ Bit(v, k) \in {0, 1} /\ v \div 2 ^ k \in Int
         /\ Lua!BitOf(v, k) = Bit(v, k) /\ Ref!BitOf(v, k) = Bit(v, k)
<1>1. v \div 2 ^ k \in Int
  BY Powers, QuotientFacts
<1>2. Bit(v, k) \in {0, 1}
  BY <1>1 DEF Bit
<1> QED  BY <1>1, <1>2 DEF Bit, Lua!BitOf, Ref!BitOf

\* A digit of b bits above e others does not depend on what is above them.
LEMMA DigitOfRemainder ==
  ASSUME NEW v \in Int, NEW n \in 0 .. BITS, NEW e \in Nat, NEW b \in Nat, e + b <= n
  PROVE  ((v % 2 ^ n) \div 2 ^ e) % 2 ^ b = (v \div 2 ^ e) % 2 ^ b
<1> DEFINE p == 2 ^ e
           q == 2 ^ (n - e)
           d == 2 ^ b
           c == 2 ^ ((n - e) - b)
           w == v % 2 ^ n
           s == v \div p
           t == w \div p
<1>1. e \in Nat /\ n \in Nat /\ e <= n /\ n <= BITS /\ b <= n - e /\ n - e \in Nat /\ n - e <= BITS
  BY Widths
<1>2. p \in Nat \ {0} /\ q \in Nat \ {0} /\ 2 ^ n \in Nat \ {0} /\ 2 ^ n = p * q
  BY <1>1, PowerSplit
<1>3. d \in Nat \ {0} /\ c \in Nat \ {0} /\ q = d * c
  BY <1>1, PowerSplit
<1>4. w \in Int
  BY <1>2, QuotientFacts
<1>5. s \in Int /\ t \in Int
  BY <1>2, <1>4, QuotientFacts
<1>6. t % q = s % q
  <2> HIDE DEF p, q
  <2>1. ((v % (p * q)) \div p) % q = (v \div p) % q
    BY <1>2, RemainderOfRemainder
  <2> QED  BY <1>2, <2>1
<1> HIDE DEF p, q, d, c, w, s, t
<1>7. (t % (d * c)) % d = t % d /\ (s % (d * c)) % d = s % d
  BY <1>3, <1>5, RemainderOfRemainder
<1> QED  BY <1>3, <1>6, <1>7 DEF d, s, t, w, p

LEMMA BitOfRemainder ==
  ASSUME NEW v \in Int, NEW n \in 0 .. BITS, NEW k \in 0 .. n - 1
  PROVE  Bit(v % 2 ^ n, k) = Bit(v, k)
<1>1. k \in Nat /\ 1 \in Nat /\ k + 1 <= n
  OBVIOUS
<1>2. ((v % 2 ^ n) \div 2 ^ k) % 2 ^ 1 = (v \div 2 ^ k) % 2 ^ 1
  BY <1>1, DigitOfRemainder
<1>3. 2 ^ 1 = 2
  <2>1. 0 \in 0 .. BITS - 1 /\ 0 + 1 = 1
    BY Widths
  <2>2. 2 ^ (0 + 1) = 2 * 2 ^ 0
    BY <2>1, PowerAssumption
  <2> QED  BY <2>1, <2>2, PowerAssumption
<1> QED  BY <1>2, <1>3 DEF Bit

LEMMA BitOfQuotient ==
  ASSUME NEW v \in Int, NEW e \in Nat, NEW k \in Nat, e + k <= BITS
  PROVE  Bit(v \div 2 ^ e, k) = Bit(v, e + k)
<1> DEFINE p == 2 ^ e
           q == 2 ^ k
<1>1. p \in Nat \ {0} /\ q \in Nat \ {0} /\ 2 ^ (e + k) = p * q
  BY Powers, PowerOfSum, Widths
<1> HIDE DEF p, q
<1>2. v \div (p * q) = (v \div p) \div q
  BY <1>1, QuotientOfQuotient
<1> QED  BY <1>1, <1>2 DEF Bit, p, q

\* Above its highest bit a number has none, and a negative one has all.
LEMMA HighBits ==
  ASSUME NEW v \in Int, NEW n \in 0 .. BITS, NEW k \in n .. BITS
  PROVE  /\ v \in 0 .. 2 ^ n - 1 => Bit(v, k) = 0
         /\ -v \in 1 .. 2 ^ n => Bit(v, k) = 1
<1>1. n \in Nat /\ k \in Nat /\ n <= k /\ k <= BITS
  BY Widths
<1> DEFINE p == 2 ^ n
           q == 2 ^ k
<1>2. p \in Nat \ {0} /\ q \in Nat \ {0} /\ p <= q
  BY <1>1, PowersGrow
<1>3. Bit(v, k) = (v \div q) % 2
  BY DEF Bit
<1> HIDE DEF p, q
<1>4. ASSUME v \in 0 .. p - 1
      PROVE  Bit(v, k) = 0
  <2>1. v \in 0 .. q - 1
    BY <1>2, <1>4
  <2>2. v \div q = 0
    BY <1>2, <2>1, SmallRemainder
  <2> QED  BY <1>3, <2>2
<1>5. ASSUME -v \in 1 .. p
      PROVE  Bit(v, k) = 1
  <2> DEFINE r == -v
  <2>1. r \in 1 .. q /\ -r = v
    BY <1>2, <1>5
  <2> HIDE DEF r
  <2>2. (-r) \div q = -1
    BY <1>2, <2>1, NegativeRemainder
  <2> QED  BY <1>3, <2>1, <2>2
<1> QED  BY <1>4, <1>5 DEF p

\* The bits of a number determine it.
LEMMA BitsDetermine ==
  \A n \in 0 .. BITS : \A v, w \in 0 .. 2 ^ n - 1 :
    (\A k \in 0 .. n - 1 : Bit(v, k) = Bit(w, k)) => v = w
<1> DEFINE Determined(n) == \A v, w \in 0 .. 2 ^ n - 1 :
             (\A k \in 0 .. n - 1 : Bit(v, k) = Bit(w, k)) => v = w
           T == {n \in Nat : n <= BITS => Determined(n)}
<1>1. 0 \in T
  <2>1. Determined(0)
    BY PowerAssumption
  <2> QED  BY <2>1
<1>2. ASSUME NEW n \in T
      PROVE  n + 1 \in T
  <2>0. SUFFICES ASSUME n + 1 <= BITS PROVE Determined(n + 1)
    BY Widths
  <2>1. n \in Nat /\ n \in 0 .. BITS - 1 /\ n \in 0 .. BITS /\ (n + 1) - 1 = n /\ Determined(n)
    BY <1>2, <2>0, Widths
  <2>2. SUFFICES ASSUME NEW v \in 0 .. 2 ^ (n + 1) - 1, NEW w \in 0 .. 2 ^ (n + 1) - 1,
                        \A k \in 0 .. n : Bit(v, k) = Bit(w, k)
                 PROVE  v = w
    BY <2>1
  <2> DEFINE p == 2 ^ n
  <2>3. p \in Nat \ {0} /\ 2 ^ (n + 1) = 2 * p
    BY <2>1, Powers, PowerAssumption
  <2>4. v \in Int /\ w \in Int
    OBVIOUS
  <2> HIDE DEF p
  <2>5. ASSUME NEW z \in 0 .. 2 * p - 1
        PROVE  z \div p \in {0, 1} /\ z % p \in 0 .. p - 1 /\ z = p * (z \div p) + (z % p)
    <3> DEFINE c == z \div p
               r == z % p
    <3>1. c \in Int /\ r \in 0 .. p - 1 /\ z = p * c + r
      BY <2>3, QuotientFacts
    <3> HIDE DEF c, r
    <3>2. ASSUME c >= 2
          PROVE  FALSE
      <4>1. p * 2 <= p * c
        BY <2>3, <3>1, <3>2, TimesMonotone
      <4> QED  BY <2>3, <3>1, <4>1
    <3>3. ASSUME c <= -1
          PROVE  FALSE
      <4>1. p * c <= p * (-1)
        BY <2>3, <3>1, <3>3, TimesMonotone
      <4> QED  BY <2>3, <3>1, <4>1
    <3>4. c \in {0, 1}
      BY <3>1, <3>2, <3>3
    <3> QED  BY <3>1, <3>4 DEF c, r
  <2>6. v \in 0 .. 2 * p - 1 /\ w \in 0 .. 2 * p - 1
    BY <2>2, <2>3
  <2>7. v \div p = w \div p
    <3>1. Bit(v, n) = Bit(w, n)
      BY <2>1, <2>2
    <3>2. (v \div p) % 2 = (w \div p) % 2
      BY <3>1 DEF Bit, p
    <3>3. v \div p \in {0, 1} /\ w \div p \in {0, 1}
      BY <2>5, <2>6
    <3> DEFINE x == v \div p
               y == w \div p
    <3> HIDE DEF x, y
    <3>4. x \in {0, 1} /\ y \in {0, 1} /\ x % 2 = y % 2
      BY <3>2, <3>3 DEF x, y
    <3>5. x = y
      BY <3>4
    <3> QED  BY <3>5 DEF x, y
  <2>8. v % p = w % p
    <3>1. \A k \in 0 .. n - 1 : Bit(v % p, k) = Bit(w % p, k)
      <4> TAKE k \in 0 .. n - 1
      <4>1. k \in 0 .. n
        BY <2>1
      <4>2. Bit(v % 2 ^ n, k) = Bit(v, k) /\ Bit(w % 2 ^ n, k) = Bit(w, k)
        BY <2>1, <2>4, BitOfRemainder
      <4> QED  BY <2>2, <4>1, <4>2 DEF p
    <3>2. v % p \in 0 .. 2 ^ n - 1 /\ w % p \in 0 .. 2 ^ n - 1
      BY <2>5, <2>6 DEF p
    <3> QED  BY <2>1, <3>1, <3>2
  <2> QED  BY <2>5, <2>6, <2>7, <2>8
<1> HIDE DEF T
<1>3. T = Nat
  <2>1. T \in SUBSET Nat
    BY DEF T
  <2> QED  BY <1>1, <1>2, <2>1, Induction
<1>4. \A n \in 0 .. BITS : n \in T /\ n <= BITS
  BY <1>3, Widths
<1> QED  BY <1>4 DEF T

------------------------------------------------------------------------------
(***************************************************************************)
(* Sets of bits.  FromBits folds over a set, one member at a time; the     *)
(* recursive function it is made of is defined (SumDefined), and adding a  *)
(* power that a number does not have sets that bit and no other (BitAdded).*)
(***************************************************************************)
LEMMA BitAdded ==
  ASSUME NEW n \in 0 .. BITS, NEW v \in 0 .. 2 ^ n - 1, NEW x \in 0 .. n - 1, Bit(v, x) = 0
  PROVE  /\ v + 2 ^ x \in 0 .. 2 ^ n - 1
         /\ \A k \in 0 .. n - 1 : Bit(v + 2 ^ x, k) = IF k = x THEN 1 ELSE Bit(v, k)
<1> DEFINE p == 2 ^ x
           two == 2 ^ (x + 1)
           c == v \div p
           q == c \div 2
           r == v % p
           w == v + p
           rest == 2 ^ (n - (x + 1))
<1>0. /\ n \in Nat /\ x \in Nat /\ x \in 0 .. BITS - 1 /\ x \in 0 .. BITS
      /\ x + 1 \in Nat /\ x + 1 <= n /\ n <= BITS /\ x + 1 \in 0 .. BITS
  BY Widths
<1>1. p \in Nat \ {0} /\ two \in Nat \ {0} /\ two = 2 * p /\ v \in Int /\ v \in Nat
  BY <1>0, Powers, PowerAssumption
<1>2. rest \in Nat \ {0} /\ 2 ^ n \in Nat \ {0} /\ 2 ^ n = two * rest
  BY <1>0, PowerSplit
<1>3. c \in Int /\ r \in 0 .. p - 1 /\ v = p * c + r /\ c % 2 = 0
  <2>1. c % 2 = 0
    BY DEF Bit
  <2> HIDE DEF p
  <2> QED  BY <1>1, <2>1, QuotientFacts
<1> HIDE DEF p, c, r, rest, two
<1>4. q \in Int /\ c = 2 * q
  BY <1>3
<1> HIDE DEF q
<1> DEFINE o == 2 * q + 1
<1>5. /\ v = two * q + r /\ w = two * q + (p + r)
      /\ w = p * o + r /\ o \in Int /\ o % 2 = 1
  BY <1>1, <1>3, <1>4
<1> HIDE DEF o
<1>o. (p * o + r) \div p = o /\ (p * o + r) % p = r
  <2>1. p \in Nat \ {0} /\ o \in Int /\ r \in 0 .. p - 1
    BY <1>1, <1>3, <1>5
  <2> QED  BY <2>1, QuotientUnique
<1>6. r \in 0 .. two - 1 /\ p + r \in 0 .. two - 1
  BY <1>1, <1>3
<1>7. w \in 0 .. 2 ^ n - 1
  <2>1. q < rest
    <3>1. SUFFICES ASSUME rest <= q PROVE FALSE
      BY <1>2, <1>4
    <3>2. two * rest <= two * q
      BY <1>1, <1>2, <1>4, <3>1, TimesMonotone
    <3> QED  BY <1>1, <1>2, <1>4, <1>5, <1>6, <3>2
  <2>2. two * (q + 1) <= two * rest
    BY <1>1, <1>2, <1>4, <2>1, TimesMonotone
  <2>3. two * (q + 1) = two * q + two /\ two * q \in Int
    BY <1>1, <1>4
  <2> QED  BY <1>1, <1>2, <1>5, <1>6, <2>2, <2>3
<1>8. w \in Int
  BY <1>1
<1>9. ASSUME NEW k \in 0 .. n - 1
      PROVE  Bit(w, k) = IF k = x THEN 1 ELSE Bit(v, k)
  <2>1. CASE k = x
    <3>1. w \div p = o
      BY <1>5, <1>o
    <3> QED  BY <1>5, <2>1, <3>1 DEF Bit, p
  <2>2. CASE k < x
    <3>1. k \in 0 .. x - 1
      BY <1>0, <2>2
    <3>2. Bit(w % 2 ^ x, k) = Bit(w, k) /\ Bit(v % 2 ^ x, k) = Bit(v, k)
      BY <1>0, <1>1, <1>8, <3>1, BitOfRemainder
    <3>3. w % p = r /\ v % p = r
      <4>1. w % p = r
        BY <1>5, <1>o
      <4> QED  BY <4>1 DEF r
    <3> QED  BY <2>2, <3>2, <3>3 DEF p
  <2>3. CASE k > x
    <3> DEFINE j == k - (x + 1)
    <3>0. k \in Nat /\ k <= n
      BY <1>0
    <3>1. j \in Nat /\ (x + 1) + j = k /\ (x + 1) + j <= BITS
      BY <1>0, <2>3, <3>0, Widths
    <3> HIDE DEF j, w
    <3>2. /\ Bit(w \div 2 ^ (x + 1), j) = Bit(w, (x + 1) + j)
          /\ Bit(v \div 2 ^ (x + 1), j) = Bit(v, (x + 1) + j)
      BY <1>0, <1>1, <1>8, <3>1, BitOfQuotient
    <3>3. (two * q + r) \div two = q /\ (two * q + (p + r)) \div two = q
      BY <1>1, <1>4, <1>6, QuotientUnique, SMTT(30)
    <3>4. v \div two = q /\ w \div two = q
      BY <1>5, <3>3
    <3> QED  BY <2>3, <3>1, <3>2, <3>4 DEF two
  <2> QED  BY <1>0, <2>1, <2>2, <2>3
<1> QED  BY <1>7, <1>9 DEF w, p

First(s) == CHOOSE y \in s : TRUE
IsSum(g, S) == g = [s \in SUBSET S |-> IF s = {} THEN 0 ELSE 2 ^ First(s) + g[s \ {First(s)}]]
SumOver(S) == CHOOSE g : IsSum(g, S)

LEMMA SumUnfolds ==
  ASSUME NEW S
  PROVE  Lua!FromBits(S) = SumOver(S)[S] /\ Ref!FromBits(S) = SumOver(S)[S]
<1>1. Lua!FromBits(S) = SumOver(S)[S]
  BY DEF Lua!FromBits, Lua!MapThenSumSet, Lua!MapThenFoldSet, SumOver, IsSum, First
<1>2. Ref!FromBits(S) = SumOver(S)[S]
  BY DEF Ref!FromBits, Ref!MapThenSumSet, Ref!MapThenFoldSet, SumOver, IsSum, First
<1> QED  BY <1>1, <1>2

\* A member taken out of a finite set.
LEMMA Smaller ==
  ASSUME NEW S, IsFiniteSet(S), NEW s \in SUBSET S
  PROVE  /\ Cardinality(s) \in Nat /\ (Cardinality(s) <= 0 => s = {})
         /\ s # {} => /\ First(s) \in s /\ s \ {First(s)} \in SUBSET S
                      /\ Cardinality(s \ {First(s)}) = Cardinality(s) - 1
<1>1. s # {} => First(s) \in s
  BY DEF First
<1>2. IsFiniteSet(s)
  BY FS_Subset
<1>3. Cardinality(s) \in Nat /\ (Cardinality(s) = 0 <=> s = {})
  BY <1>2, FS_CardinalityType, FS_EmptySet
<1>4. s # {} => Cardinality(s \ {First(s)}) = Cardinality(s) - 1
  BY <1>1, <1>2, FS_RemoveElement
<1> QED  BY <1>1, <1>3, <1>4

Sized(S, n) == {s \in SUBSET S : Cardinality(s) <= n}
SumTo(g, S, n) ==
  g = [s \in Sized(S, n) |-> IF s = {} THEN 0 ELSE 2 ^ First(s) + g[s \ {First(s)}]]

LEMMA AllSized ==
  ASSUME NEW S, IsFiniteSet(S)
  PROVE  Cardinality(S) \in Nat /\ Sized(S, Cardinality(S)) = SUBSET S
<1>1. Cardinality(S) \in Nat /\ \A s \in SUBSET S : Cardinality(s) <= Cardinality(S)
  BY FS_Subset, FS_CardinalityType
<1> QED  BY <1>1 DEF Sized

LEMMA SumDefined ==
  ASSUME NEW S, IsFiniteSet(S)
  PROVE  IsSum(SumOver(S), S)
<1> DEFINE T == {n \in Nat : \E g : SumTo(g, S, n)}
<1>1. 0 \in T
  <2> DEFINE g == [s \in Sized(S, 0) |-> 0]
  <2>1. \A s \in Sized(S, 0) : s = {}
    BY Smaller DEF Sized
  <2>2. SumTo(g, S, 0)
    BY <2>1 DEF SumTo
  <2> HIDE DEF g
  <2> QED  BY <2>2
<1>2. ASSUME NEW n \in T
      PROVE  n + 1 \in T
  <2>1. PICK g : SumTo(g, S, n)
    BY <1>2
  <2>2. n \in Nat
    BY <1>2
  <2> DEFINE h == [s \in Sized(S, n + 1) |-> IF s = {} THEN 0 ELSE 2 ^ First(s) + g[s \ {First(s)}]]
  <2>3. ASSUME NEW s \in Sized(S, n + 1), s # {}
        PROVE  h[s \ {First(s)}] = g[s \ {First(s)}]
    <3> DEFINE r == s \ {First(s)}
    <3>1. s \in SUBSET S /\ Cardinality(s) <= n + 1
      BY DEF Sized
    <3>2. r \in SUBSET S /\ Cardinality(s) \in Nat /\ Cardinality(r) = Cardinality(s) - 1
      BY <2>3, <3>1, Smaller
    <3> HIDE DEF r
    <3>3. r \in Sized(S, n) /\ r \in Sized(S, n + 1)
      BY <2>2, <3>1, <3>2 DEF Sized
    <3>4. g[r] = IF r = {} THEN 0 ELSE 2 ^ First(r) + g[r \ {First(r)}]
      BY <2>1, <3>3 DEF SumTo
    <3> QED  BY <3>3, <3>4 DEF r
  <2>4. SumTo(h, S, n + 1)
    <3>1. \A s \in Sized(S, n + 1) : h[s] = IF s = {} THEN 0 ELSE 2 ^ First(s) + h[s \ {First(s)}]
      BY <2>3
    <3>2. h = [s \in Sized(S, n + 1) |-> h[s]]
      OBVIOUS
    <3> HIDE DEF h
    <3> QED  BY <3>1, <3>2 DEF SumTo
  <2> HIDE DEF h
  <2> QED  BY <2>2, <2>4
<1> HIDE DEF T
<1>3. T = Nat
  <2>1. T \in SUBSET Nat
    BY DEF T
  <2> QED  BY <1>1, <1>2, <2>1, Induction
<1>4. PICK g : SumTo(g, S, Cardinality(S))
  BY <1>3, AllSized DEF T
<1>5. IsSum(g, S)
  BY <1>4, AllSized DEF SumTo, IsSum
<1> QED  BY <1>5 DEF SumOver

\* The number made of a set of bits, on either side, has them and no other.
LEMMA FromBitsFacts ==
  ASSUME NEW n \in 0 .. BITS, NEW S \in SUBSET (0 .. n - 1)
  PROVE  /\ Lua!FromBits(S) \in 0 .. 2 ^ n - 1
         /\ \A k \in 0 .. n - 1 : Bit(Lua!FromBits(S), k) = IF k \in S THEN 1 ELSE 0
         /\ Ref!FromBits(S) = Lua!FromBits(S)
<1> DEFINE G == SumOver(S)
           Has(s) == /\ G[s] \in 0 .. 2 ^ n - 1
                     /\ \A k \in 0 .. n - 1 : Bit(G[s], k) = IF k \in s THEN 1 ELSE 0
           T == {m \in Nat : \A s \in Sized(S, m) : Has(s)}
<1>0. n \in Nat /\ 2 ^ n \in Nat \ {0}
  BY Powers, Widths
<1>1. IsFiniteSet(S)
  <2>1. IsFiniteSet(0 .. n - 1)
    BY <1>0, FS_Interval
  <2> QED  BY <2>1, FS_Subset
<1>2. \A s \in SUBSET S : G[s] = IF s = {} THEN 0 ELSE 2 ^ First(s) + G[s \ {First(s)}]
  BY <1>1, SumDefined DEF IsSum
<1> HIDE DEF G
<1>3. Has({})
  <2>1. G[{}] = 0
    BY <1>2
  <2>2. \A k \in 0 .. n - 1 : Bit(0, k) = 0
    <3> TAKE k \in 0 .. n - 1
    <3> DEFINE q == 2 ^ k
    <3>1. q \in Nat \ {0}
      BY <1>0, Powers, Widths
    <3> HIDE DEF q
    <3>2. 0 \in 0 .. q - 1
      BY <3>1
    <3>3. 0 \div q = 0
      BY <3>1, <3>2, SmallRemainder
    <3>4. Bit(0, k) = (0 \div q) % 2
      BY DEF Bit, q
    <3> QED  BY <3>3, <3>4
  <2> QED  BY <1>0, <2>1, <2>2
<1>4. 0 \in T
  <2>1. \A s \in Sized(S, 0) : s = {}
    BY <1>1, Smaller DEF Sized
  <2> HIDE DEF Has
  <2> QED  BY <1>3, <2>1
<1>5. ASSUME NEW m \in T
      PROVE  m + 1 \in T
  <2>0. m \in Nat /\ \A s \in Sized(S, m) : Has(s)
    BY <1>5
  <2>1. ASSUME NEW s \in Sized(S, m + 1), s # {}
        PROVE  Has(s)
    <3> DEFINE x == First(s)
               r == s \ {First(s)}
               v == G[r]
    <3>1. s \in SUBSET S /\ Cardinality(s) <= m + 1
      BY DEF Sized
    <3>2. x \in s /\ r \in SUBSET S /\ Cardinality(s) \in Nat /\ Cardinality(r) = Cardinality(s) - 1
      BY <1>1, <2>1, <3>1, Smaller
    <3>3. x \in 0 .. n - 1 /\ r = s \ {x}
      BY <3>1, <3>2
    <3>4. G[s] = 2 ^ x + v
      BY <1>2, <2>1, <3>1
    <3> HIDE DEF x, r
    <3>5. r \in Sized(S, m)
      BY <2>0, <3>1, <3>2 DEF Sized
    <3>6. Has(r)
      BY <2>0, <3>5
    <3>7. v \in 0 .. 2 ^ n - 1 /\ Bit(v, x) = 0
      BY <3>3, <3>6
    <3>8. 2 ^ x \in Nat
      BY <1>0, <3>3, Powers, Widths
    <3> HIDE DEF v
    <3>9. G[s] = v + 2 ^ x
      <4> DEFINE p == 2 ^ x
      <4>1. p \in Nat /\ v \in Int /\ G[s] = p + v
        BY <1>0, <3>4, <3>7, <3>8
      <4> HIDE DEF p
      <4>2. G[s] = v + p
        BY <4>1
      <4> QED  BY <4>2 DEF p
    <3>10. /\ v + 2 ^ x \in 0 .. 2 ^ n - 1
           /\ \A k \in 0 .. n - 1 : Bit(v + 2 ^ x, k) = IF k = x THEN 1 ELSE Bit(v, k)
      BY <3>3, <3>7, BitAdded
    <3>11. \A k \in 0 .. n - 1 : Bit(v, k) = IF k \in r THEN 1 ELSE 0
      BY <3>6 DEF v
    <3> QED  BY <3>2, <3>3, <3>9, <3>10, <3>11
  <2> HIDE DEF Has
  <2>2. \A s \in Sized(S, m + 1) : Has(s)
    BY <1>3, <2>1
  <2> QED  BY <2>0, <2>2
<1> HIDE DEF T
<1>6. T = Nat
  <2>1. T \in SUBSET Nat
    BY DEF T
  <2> QED  BY <1>4, <1>5, <2>1, Induction
<1>7. Has(S)
  <2>1. Cardinality(S) \in T /\ S \in Sized(S, Cardinality(S))
    BY <1>1, <1>6, AllSized
  <2> HIDE DEF Has
  <2> QED  BY <2>1 DEF T
<1>8. Lua!FromBits(S) = G[S] /\ Ref!FromBits(S) = G[S]
  BY SumUnfolds DEF G
<1> QED  BY <1>7, <1>8

------------------------------------------------------------------------------
(***************************************************************************)
(* Numbers that represent words.                                           *)
(***************************************************************************)
Agree(v, w) == v \in Lua!Exact /\ w \in Ref!Word /\ Represents(v, w)

LEMMA ExactFacts ==
  ASSUME NEW v \in Int
  PROVE  /\ v \in Lua!Exact <=> -(2 ^ MANTISSA) < v /\ v < 2 ^ MANTISSA
         /\ Lua!Double(v) # Rounded => Lua!Double(v) = v /\ v \in Lua!Exact
<1> DEFINE m == 2 ^ MANTISSA
<1>1. m \in Nat \ {0}
  BY Moduli
<1>2. /\ Lua!Exact = {u \in -m .. m : u # -m /\ u # m}
      /\ Lua!Double(v) = IF -m < v /\ v < m THEN v ELSE Rounded
  BY DEF Lua!Exact, Lua!Double
<1> HIDE DEF m
<1>3. v \in Lua!Exact <=> -m < v /\ v < m
  BY <1>1, <1>2
<1>4. Lua!Double(v) # Rounded => Lua!Double(v) = v /\ -m < v /\ v < m
  BY <1>2
<1> QED  BY <1>3, <1>4 DEF m

LEMMA ExactInt == Lua!Exact \subseteq Int
<1>1. -(2 ^ MANTISSA) \in Int /\ 2 ^ MANTISSA \in Int
  BY Moduli
<1> QED  BY <1>1 DEF Lua!Exact

LEMMA AgreeFacts ==
  ASSUME NEW v, NEW w, Agree(v, w)
  PROVE  /\ v \in Int /\ -(2 ^ MANTISSA) < v /\ v < 2 ^ MANTISSA
         /\ w \in Nat /\ w < 2 ^ BITS /\ w = v % 2 ^ BITS
         /\ v >= 0 => w = v
         /\ v < 0 => w = v + 2 ^ BITS /\ w >= 2 ^ (BITS - 1)
         /\ Ref!ToSigned(w) = v /\ Lua!SignedArithmetic(v) = v
         /\ \E q \in Int : v = 2 ^ BITS * q + w
<1> DEFINE m == 2 ^ MANTISSA
           half == 2 ^ (BITS - 1)
           mod == 2 ^ BITS
<1>1. m \in Nat \ {0} /\ half \in Nat \ {0} /\ mod \in Nat \ {0} /\ mod = 2 * half /\ 2 * m <= half
  BY Moduli
<1>2. v \in Int
  BY ExactInt DEF Agree
<1>3. -m < v /\ v < m
  BY <1>2, ExactFacts DEF Agree
<1>4. w = v % mod
  BY Moduli DEF Agree, Represents
<1>5. /\ Ref!ToSigned(w) = IF w >= half THEN w - mod ELSE w
      /\ Lua!SignedArithmetic(v) = IF v >= half THEN v - mod ELSE v
  BY Moduli DEF Ref!ToSigned, Lua!SignedArithmetic
<1> HIDE DEF m, half, mod
<1>6. v >= 0 => w = v
  <2>1. SUFFICES ASSUME v >= 0 PROVE w = v
    OBVIOUS
  <2>2. v \in 0 .. mod - 1
    BY <1>1, <1>2, <1>3, <2>1
  <2> QED  BY <1>1, <1>4, <2>2, SmallRemainder
<1>7. v < 0 => w = v + mod
  <2>1. SUFFICES ASSUME v < 0 PROVE w = v + mod
    OBVIOUS
  <2> DEFINE r == -v
  <2>2. r \in 1 .. mod /\ v = -r /\ mod - r = v + mod
    BY <1>1, <1>2, <1>3, <2>1
  <2> HIDE DEF r
  <2>3. (-r) % mod = mod - r
    BY <1>1, <2>2, NegativeRemainder
  <2> QED  BY <1>4, <2>2, <2>3
<1>8. w \in Nat /\ w < mod
  BY <1>1, <1>2, <1>3, <1>6, <1>7
<1>9. v = mod * 0 + w \/ v = mod * (-1) + w
  BY <1>1, <1>2, <1>6, <1>7, <1>8
<1>10. \E q \in Int : v = mod * q + w
  <2>1. 0 \in Int /\ -1 \in Int
    OBVIOUS
  <2> QED  BY <1>9, <2>1
<1>11. v < 0 => w >= half
  BY <1>1, <1>2, <1>3, <1>7
<1>12. Ref!ToSigned(w) = v /\ Lua!SignedArithmetic(v) = v
  BY <1>1, <1>2, <1>3, <1>5, <1>6, <1>7, <1>11
<1> QED  BY <1>2, <1>3, <1>4, <1>6, <1>7, <1>8, <1>10, <1>11, <1>12 DEF m, half, mod

\* A result is right when it differs from the one that is wrapped by a multiple of 2^BITS.
LEMMA WrapAgrees ==
  ASSUME NEW v \in Lua!Exact, NEW w \in Int, NEW q \in Int, v = 2 ^ BITS * q + w
  PROVE  Agree(v, Ref!Wrap(w))
<1> DEFINE mod == 2 ^ BITS
<1>1. mod \in Nat \ {0} /\ Ref!Wrap(w) = w % mod /\ Ref!Word = 0 .. mod - 1 /\ Ref!Modulus = mod
  BY Moduli DEF Ref!Wrap
<1> HIDE DEF mod
<1>2. (mod * q + w) % mod = w % mod
  BY <1>1, ShiftedQuotient
<1>3. v = mod * q + w
  BY DEF mod
<1>4. w % mod \in 0 .. mod - 1
  BY <1>1, QuotientFacts
<1> QED  BY <1>1, <1>2, <1>3, <1>4 DEF Agree, Represents

LEMMA SameWrapped ==
  ASSUME NEW v \in Lua!Exact
  PROVE  Agree(v, Ref!Wrap(v))
<1>1. v \in Int /\ 2 ^ BITS \in Nat
  BY ExactInt, Moduli
<1>2. v = 2 ^ BITS * 0 + v /\ 0 \in Int
  BY <1>1
<1> QED  BY <1>1, <1>2, WrapAgrees

LEMMA SameNatural ==
  ASSUME NEW v \in Nat, v < 2 ^ MANTISSA
  PROVE  Agree(v, v)
<1> DEFINE m == 2 ^ MANTISSA
           half == 2 ^ (BITS - 1)
           mod == 2 ^ BITS
<1>1. m \in Nat \ {0} /\ half \in Nat /\ mod \in Nat \ {0} /\ mod = 2 * half /\ 2 * m <= half
  BY Moduli
<1>2. Ref!Word = 0 .. mod - 1 /\ Ref!Modulus = mod /\ v < m
  BY Moduli
<1>3. v \in Lua!Exact
  <2>1. v \in Int /\ -m < v
    BY <1>1
  <2> QED  BY <2>1, ExactFacts
<1> HIDE DEF m, half, mod
<1>4. v \in 0 .. mod - 1
  BY <1>1, <1>2
<1>5. v % mod = v
  BY <1>1, <1>4, SmallRemainder
<1> QED  BY <1>2, <1>3, <1>4, <1>5 DEF Agree, Represents

LEMMA TruthAgrees == \A b \in BOOLEAN : Agree(Lua!Pushed(b), Ref!U256(b))
<1>1. 0 < 2 ^ MANTISSA /\ 1 < 2 ^ MANTISSA
  <2>1. 0 \in Nat /\ MANTISSA \in 0 .. BITS /\ 1 <= MANTISSA
    BY Widths
  <2>2. MANTISSA < 2 ^ MANTISSA /\ 2 ^ MANTISSA \in Nat
    BY <2>1, PowersExceed, Moduli
  <2> QED  BY <2>1, <2>2, Widths
<1>2. Agree(0, 0) /\ Agree(1, 1)
  BY <1>1, SameNatural
<1> QED  BY <1>2 DEF Lua!Pushed, Ref!U256

------------------------------------------------------------------------------
(***************************************************************************)
(* The opcodes, one by one: from operands that represent words to a result *)
(* that does.                                                              *)
(***************************************************************************)
LEMMA ADDAgrees ==
  ASSUME NEW a, NEW x, Agree(a, x), NEW b, NEW y, Agree(b, y), Lua!ADD(a, b) # Rounded
  PROVE  Agree(Lua!ADD(a, b), Ref!Add(x, y))
<1> DEFINE mod == 2 ^ BITS
<1>1. PICK q \in Int : a = mod * q + x
  BY AgreeFacts
<1>2. PICK r \in Int : b = mod * r + y
  BY AgreeFacts
<1>3. a \in Int /\ b \in Int /\ x \in Int /\ y \in Int /\ mod \in Nat
  BY AgreeFacts, Moduli
<1>4. Lua!ADD(a, b) = a + b /\ a + b \in Lua!Exact
  BY <1>3, ExactFacts DEF Lua!ADD
<1> HIDE DEF mod
<1>5. a + b = mod * (q + r) + (x + y) /\ q + r \in Int /\ x + y \in Int
  BY <1>1, <1>2, <1>3
<1> QED  BY <1>4, <1>5, WrapAgrees DEF Ref!Add, mod

LEMMA SUBAgrees ==
  ASSUME NEW a, NEW x, Agree(a, x), NEW b, NEW y, Agree(b, y), Lua!SUB(a, b) # Rounded
  PROVE  Agree(Lua!SUB(a, b), Ref!Sub(x, y))
<1> DEFINE mod == 2 ^ BITS
<1>1. PICK q \in Int : a = mod * q + x
  BY AgreeFacts
<1>2. PICK r \in Int : b = mod * r + y
  BY AgreeFacts
<1>3. a \in Int /\ b \in Int /\ x \in Int /\ y \in Int /\ mod \in Nat
  BY AgreeFacts, Moduli
<1>4. Lua!SUB(a, b) = a - b /\ a - b \in Lua!Exact
  BY <1>3, ExactFacts DEF Lua!SUB
<1> HIDE DEF mod
<1>5. a - b = mod * (q - r) + (x - y) /\ q - r \in Int /\ x - y \in Int
  BY <1>1, <1>2, <1>3
<1> QED  BY <1>4, <1>5, WrapAgrees DEF Ref!Sub, mod

\* Numbers that differ by a multiple of 2^BITS.
Congruent(v, w) == \E t \in Int : v = 2 ^ BITS * t + w

LEMMA AgreeCongruent ==
  ASSUME NEW v, NEW w, Agree(v, w)
  PROVE  Congruent(v, w)
BY AgreeFacts DEF Congruent

LEMMA CongruentAgrees ==
  ASSUME NEW v \in Lua!Exact, NEW w \in Int, Congruent(v, w)
  PROVE  Agree(v, Ref!Wrap(w))
<1>1. PICK t \in Int : v = 2 ^ BITS * t + w
  BY DEF Congruent
<1> QED  BY <1>1, WrapAgrees

\* The product of two numbers is that of the words they stand for, and a multiple.
LEMMA Products ==
  ASSUME NEW a \in Int, NEW x \in Int, Congruent(a, x), NEW b \in Int, NEW y \in Int,
         Congruent(b, y)
  PROVE  Congruent(a * b, x * y)
<1> DEFINE mod == 2 ^ BITS
<1>1. mod \in Int
  BY Moduli
<1>2. PICK q \in Int : a = mod * q + x
  BY DEF Congruent
<1>3. PICK r \in Int : b = mod * r + y
  BY DEF Congruent
<1> HIDE DEF mod
<1> DEFINE u == q * b
           w == x * r
<1>4. u \in Int /\ w \in Int
  BY TimesInt
<1>5. a * b = (mod * q) * b + x * b
  BY <1>1, <1>2
<1>6. (mod * q) * b = mod * u
  BY <1>1
<1>7. x * b = x * (mod * r) + x * y
  BY <1>1, <1>3
<1>8. x * (mod * r) = mod * w
  BY <1>1
<1>9. x * y \in Int /\ mod * u \in Int /\ mod * w \in Int
  BY <1>1, <1>4, TimesInt
<1> HIDE DEF u, w
<1>10. a * b = mod * (u + w) + x * y /\ u + w \in Int
  BY <1>1, <1>4, <1>5, <1>6, <1>7, <1>8, <1>9
<1> QED  BY <1>10 DEF Congruent, mod

LEMMA MULAgrees ==
  ASSUME NEW a, NEW x, Agree(a, x), NEW b, NEW y, Agree(b, y), Lua!MUL(a, b) # Rounded
  PROVE  Agree(Lua!MUL(a, b), Ref!Mul(x, y))
<1>1. a \in Int /\ b \in Int /\ x \in Int /\ y \in Int
  BY AgreeFacts
<1>2. a * b \in Int /\ x * y \in Int
  BY <1>1, TimesInt
<1>3. Lua!MUL(a, b) = a * b /\ a * b \in Lua!Exact
  BY <1>2, ExactFacts DEF Lua!MUL
<1>4. Congruent(a, x) /\ Congruent(b, y)
  BY AgreeCongruent
<1>5. Congruent(a * b, x * y)
  BY <1>1, <1>4, Products
<1> QED  BY <1>2, <1>3, <1>5, CongruentAgrees DEF Ref!Mul

\* A number that is not negative is the word it represents.
LEMMA AgreeNatural ==
  ASSUME NEW a, NEW x, Agree(a, x), a >= 0
  PROVE  a \in Nat /\ x = a /\ a < 2 ^ MANTISSA
BY AgreeFacts

LEMMA NaturalQuotient ==
  ASSUME NEW a \in Nat, NEW b \in Nat \ {0}
  PROVE  a \div b \in Nat /\ a \div b <= a /\ a % b \in Nat /\ a % b <= a
<1> DEFINE q == a \div b
           r == a % b
<1>1. q \in Int /\ r \in Nat /\ r < b /\ a = b * q + r
  BY QuotientFacts
<1> HIDE DEF q, r
<1>2. q \in Nat
  <2> SUFFICES ASSUME q <= -1 PROVE FALSE
    BY <1>1
  <2>1. b * q <= b * (-1)
    BY <1>1, TimesMonotone
  <2>2. b * (-1) = -b
    OBVIOUS
  <2> QED  BY <1>1, <2>1, <2>2
<1>3. q <= b * q /\ b * q \in Nat
  <2>1. q * 1 <= q * b
    BY <1>2, TimesMonotone
  <2>2. q * b = b * q /\ b * q \in Nat
    BY <1>2, TimesNat
  <2> QED  BY <1>2, <2>1, <2>2
<1> QED  BY <1>1, <1>2, <1>3 DEF q, r

\* Lua's remainder by a positive number, and by a negative one.
LEMMA LuaRemainder ==
  ASSUME NEW a \in Int, NEW b \in Int \ {0}
  PROVE  /\ b > 0 => Lua!FloorDiv(a, b) = a \div b /\ Lua!LuaMod(a, b) = a % b
         /\ b < 0 => Lua!FloorDiv(a, b) = (-a) \div (-b) /\ Lua!LuaMod(a, b) = -((-a) % (-b))
<1>1. ASSUME b > 0
      PROVE  Lua!FloorDiv(a, b) = a \div b /\ Lua!LuaMod(a, b) = a % b
  <2>1. b \in Nat \ {0}
    BY <1>1
  <2>2. a \div b \in Int /\ a % b \in Nat /\ a = b * (a \div b) + (a % b)
    BY <2>1, QuotientFacts
  <2>3. Lua!FloorDiv(a, b) = a \div b
    BY <1>1 DEF Lua!FloorDiv
  <2>4. a - (a \div b) * b = a % b
    BY <2>2
  <2> QED  BY <2>3, <2>4 DEF Lua!LuaMod
<1>2. ASSUME b < 0
      PROVE  Lua!FloorDiv(a, b) = (-a) \div (-b) /\ Lua!LuaMod(a, b) = -((-a) % (-b))
  <2> DEFINE q == (-a) \div (-b)
             r == (-a) % (-b)
  <2>1. -b \in Nat \ {0} /\ -a \in Int
    BY <1>2
  <2>2. q \in Int /\ r \in Nat /\ -a = (-b) * q + r
    BY <2>1, QuotientFacts
  <2>3. Lua!FloorDiv(a, b) = q
    BY <1>2 DEF Lua!FloorDiv
  <2> HIDE DEF q, r
  <2>4. a - q * b = -r
    BY <2>2
  <2> QED  BY <2>3, <2>4 DEF Lua!LuaMod, q, r
<1> QED  BY <1>1, <1>2

LEMMA DIVAgrees ==
  ASSUME NEW a, NEW x, Agree(a, x), NEW b, NEW y, Agree(b, y), a >= 0, b >= 0
  PROVE  Agree(Lua!DIV(a, b), Ref!Div(x, y))
<1>1. a \in Nat /\ x = a /\ a < 2 ^ MANTISSA /\ b \in Nat /\ y = b /\ 2 ^ MANTISSA \in Nat
  BY AgreeNatural, Moduli
<1>2. CASE b = 0
  <2>1. Lua!DIV(a, b) = Lua!Pushed(FALSE) /\ Ref!Div(x, y) = Ref!U256(FALSE)
    BY <1>1, <1>2 DEF Lua!DIV, Ref!Div, Lua!Pushed, Ref!U256
  <2> QED  BY <2>1, TruthAgrees
<1>3. CASE b # 0
  <2>1. a \div b \in Nat /\ a \div b <= a
    BY <1>1, <1>3, NaturalQuotient
  <2>2. Lua!DIV(a, b) = a \div b /\ Ref!Div(x, y) = a \div b
    BY <1>1, <1>3 DEF Lua!DIV, Ref!Div, Lua!FloorDiv
  <2>3. a \div b < 2 ^ MANTISSA
    BY <1>1, <2>1
  <2>4. Agree(a \div b, a \div b)
    BY <2>1, <2>3, SameNatural
  <2> QED  BY <2>2, <2>4
<1> QED  BY <1>2, <1>3

\* What MOD, SMOD, ADDMOD and MULMOD leave of numbers that are not negative.
LEMMA RemainderAgrees ==
  ASSUME NEW v \in Nat, NEW n \in Nat \ {0}, n < 2 ^ MANTISSA
  PROVE  Lua!LuaMod(v, n) = v % n /\ Agree(v % n, v % n)
<1>1. v \in Int /\ n \in Int \ {0} /\ n > 0 /\ 2 ^ MANTISSA \in Nat
  BY Moduli
<1>2. v % n \in Nat /\ v % n < n
  <2>1. v % n \in 0 .. n - 1
    BY <1>1, QuotientFacts
  <2> QED  BY <2>1
<1>3. v % n < 2 ^ MANTISSA
  BY <1>1, <1>2
<1> QED  BY <1>1, <1>2, <1>3, LuaRemainder, SameNatural

LEMMA MODAgrees ==
  ASSUME NEW a, NEW x, Agree(a, x), NEW b, NEW y, Agree(b, y), a >= 0, b >= 0
  PROVE  Agree(Lua!MOD(a, b), Ref!Mod(x, y))
<1>1. a \in Nat /\ x = a /\ b \in Nat /\ y = b /\ b < 2 ^ MANTISSA
  BY AgreeNatural
<1>2. Agree(0, 0)
  BY TruthAgrees DEF Lua!Pushed, Ref!U256
<1>3. ASSUME b # 0
      PROVE  Lua!LuaMod(a, b) = a % b /\ Agree(a % b, a % b)
  BY <1>1, <1>3, RemainderAgrees
<1> QED  BY <1>1, <1>2, <1>3 DEF Lua!MOD, Ref!Mod

LEMMA ModuloAgrees ==
  ASSUME NEW v \in Nat, NEW c, NEW z, Agree(c, z), c >= 0,
         Lua!Modulo(Lua!Double(v), c) # Rounded
  PROVE  Agree(Lua!Modulo(Lua!Double(v), c), IF z = 0 THEN 0 ELSE v % z)
<1>1. c \in Nat /\ z = c /\ c < 2 ^ MANTISSA
  BY AgreeNatural
<1>2. Agree(0, 0)
  BY TruthAgrees DEF Lua!Pushed, Ref!U256
<1>3. ASSUME c # 0
      PROVE  Lua!Modulo(Lua!Double(v), c) = v % c /\ Agree(v % c, v % c)
  <2>1. Lua!Double(v) # Rounded
    BY <1>3 DEF Lua!Modulo
  <2>2. Lua!Double(v) = v
    BY <2>1, ExactFacts
  <2>3. Lua!LuaMod(v, c) = v % c /\ Agree(v % c, v % c)
    BY <1>1, <1>3, RemainderAgrees
  <2> QED  BY <1>3, <2>1, <2>2, <2>3 DEF Lua!Modulo
<1> QED  BY <1>1, <1>2, <1>3 DEF Lua!Modulo

LEMMA ADDMODAgrees ==
  ASSUME NEW a, NEW x, Agree(a, x), NEW b, NEW y, Agree(b, y), NEW c, NEW z, Agree(c, z),
         a >= 0, b >= 0, c >= 0, Lua!ADDMOD(a, b, c) # Rounded
  PROVE  Agree(Lua!ADDMOD(a, b, c), Ref!AddMod(x, y, z))
<1>1. a \in Nat /\ x = a /\ b \in Nat /\ y = b /\ a + b \in Nat
  BY AgreeNatural
<1>2. Agree(Lua!Modulo(Lua!Double(a + b), c), IF z = 0 THEN 0 ELSE (a + b) % z)
  BY <1>1, ModuloAgrees DEF Lua!ADDMOD
<1> QED  BY <1>1, <1>2 DEF Lua!ADDMOD, Ref!AddMod

LEMMA MULMODAgrees ==
  ASSUME NEW a, NEW x, Agree(a, x), NEW b, NEW y, Agree(b, y), NEW c, NEW z, Agree(c, z),
         a >= 0, b >= 0, c >= 0, Lua!MULMOD(a, b, c) # Rounded
  PROVE  Agree(Lua!MULMOD(a, b, c), Ref!MulMod(x, y, z))
<1>1. a \in Nat /\ x = a /\ b \in Nat /\ y = b /\ a * b \in Nat
  BY AgreeNatural, TimesNat
<1>2. Agree(Lua!Modulo(Lua!Double(a * b), c), IF z = 0 THEN 0 ELSE (a * b) % z)
  BY <1>1, ModuloAgrees DEF Lua!MULMOD
<1> QED  BY <1>1, <1>2 DEF Lua!MULMOD, Ref!MulMod

LEMMA SMODAgrees ==
  ASSUME NEW a, NEW x, Agree(a, x), NEW b, NEW y, Agree(b, y), a >= 0, b >= 0
  PROVE  Agree(Lua!SMOD(a, b), Ref!SMod(x, y))
<1>1. /\ a \in Nat /\ b \in Nat /\ b < 2 ^ MANTISSA
      /\ Lua!SignedArithmetic(a) = a /\ Lua!SignedArithmetic(b) = b
      /\ Ref!ToSigned(x) = a /\ Ref!ToSigned(y) = b
  BY AgreeNatural, AgreeFacts
<1>2. ~ (a < 0) /\ ~ (b < 0) /\ Ref!Abs(a) = a /\ Ref!Abs(b) = b
  BY <1>1 DEF Ref!Abs
<1>3. CASE b = 0
  <2>1. Lua!SMOD(a, b) = 0 /\ Ref!SMod(x, y) = 0
    BY <1>1, <1>3 DEF Lua!SMOD, Ref!SMod
  <2>2. Agree(0, 0)
    BY TruthAgrees DEF Lua!Pushed, Ref!U256
  <2> QED  BY <2>1, <2>2
<1>4. CASE b # 0
  <2> DEFINE r == a % b
  <2>1. Lua!LuaMod(a, b) = r /\ Agree(r, r)
    BY <1>1, <1>4, RemainderAgrees
  <2>2. Lua!SMOD(a, b) = r
    BY <1>1, <1>2, <1>4, <2>1 DEF Lua!SMOD
  <2>3. r \in Int /\ r \in Lua!Exact
    BY <2>1, AgreeFacts DEF Agree
  <2>4. Ref!Sign(a) * r = r
    <3>1. CASE a = 0
      <4>1. b \in Nat \ {0} /\ a \in 0 .. b - 1
        BY <1>1, <1>4, <3>1
      <4>2. r = 0
        BY <3>1, <4>1, SmallRemainder
      <4> QED  BY <3>1, <4>2 DEF Ref!Sign
    <3>2. CASE a # 0
      <4>1. Ref!Sign(a) = 1
        BY <1>1, <3>2 DEF Ref!Sign
      <4> HIDE DEF r
      <4> QED  BY <2>3, <4>1
    <3> QED  BY <3>1, <3>2
  <2>5. Ref!SMod(x, y) = Ref!Wrap(r)
    BY <1>1, <1>2, <1>4, <2>4 DEF Ref!SMod
  <2> QED  BY <2>2, <2>3, <2>5, SameWrapped
<1> QED  BY <1>3, <1>4

\* The sign of a product.
LEMMA SignOfProduct ==
  ASSUME NEW a \in Int \ {0}, NEW b \in Int \ {0}
  PROVE  Ref!Sign(a * b) = IF (a < 0) # (b < 0) THEN -1 ELSE 1
<1>1. \A u, v \in Nat \ {0} : u * v \in Nat \ {0}
  <2> TAKE u, v \in Nat \ {0}
  <2>1. u * 1 <= u * v
    BY TimesMonotone
  <2>2. u * v \in Int
    BY TimesInt
  <2> QED  BY <2>1, <2>2
<1> DEFINE p == IF a < 0 THEN -a ELSE a
           q == IF b < 0 THEN -b ELSE b
<1>2. p \in Nat \ {0} /\ q \in Nat \ {0}
  OBVIOUS
<1>3. p * q \in Nat \ {0}
  BY <1>1, <1>2
<1>4. a * b = IF (a < 0) # (b < 0) THEN -(p * q) ELSE p * q
  <2>1. \A u, v \in Int : (-u) * v = -(u * v) /\ u * (-v) = -(u * v) /\ (-u) * (-v) = u * v
    OBVIOUS
  <2>2. a = (IF a < 0 THEN -p ELSE p) /\ b = (IF b < 0 THEN -q ELSE q)
    OBVIOUS
  <2> HIDE DEF p, q
  <2> QED  BY <1>2, <2>1, <2>2
<1> HIDE DEF p, q
<1> QED  BY <1>3, <1>4 DEF Ref!Sign

LEMMA SDIVAgrees ==
  ASSUME NEW a, NEW x, Agree(a, x), NEW b, NEW y, Agree(b, y)
  PROVE  Agree(Lua!SDIV(a, b), Ref!SDiv(x, y))
<1>1. /\ a \in Int /\ b \in Int /\ -(2 ^ MANTISSA) < a /\ a < 2 ^ MANTISSA
      /\ Ref!ToSigned(x) = a /\ Ref!ToSigned(y) = b
  BY AgreeFacts
<1>2. CASE b = 0
  <2>1. Lua!SDIV(a, b) = 0 /\ Ref!SDiv(x, y) = 0
    BY <1>1, <1>2 DEF Lua!SDIV, Ref!SDiv
  <2>2. Agree(0, 0)
    BY TruthAgrees DEF Lua!Pushed, Ref!U256
  <2> QED  BY <2>1, <2>2
<1>3. CASE b # 0
  <2> DEFINE p == Ref!Abs(a)
             q == p \div Ref!Abs(b)
             s == IF (a < 0) # (b < 0) THEN -1 ELSE 1
  <2>1. p \in Nat /\ p < 2 ^ MANTISSA /\ Ref!Abs(b) \in Nat \ {0} /\ 2 ^ MANTISSA \in Nat
    BY <1>1, <1>3, Moduli DEF Ref!Abs
  <2>2. q \in Nat /\ q <= p
    BY <2>1, NaturalQuotient
  <2>3. Lua!SDIV(a, b) = IF (a < 0) # (b < 0) THEN -q ELSE q
    <3>1. -a \in Int /\ b \in Int \ {0}
      BY <1>1, <1>3
    <3>2. CASE a < 0 /\ b < 0
      <4>1. Lua!SDIV(a, b) = Lua!FloorDiv(a, b)
        BY <1>3, <3>2 DEF Lua!SDIV
      <4> QED  BY <1>1, <3>1, <3>2, <4>1 DEF Lua!FloorDiv, Ref!Abs
    <3>3. CASE a < 0 /\ ~ (b < 0)
      <4>1. Lua!SDIV(a, b) = -Lua!FloorDiv(-a, b)
        BY <1>3, <3>3 DEF Lua!SDIV
      <4> QED  BY <1>1, <3>1, <3>3, <4>1 DEF Lua!FloorDiv, Ref!Abs
    <3>4. CASE ~ (a < 0) /\ b < 0
      <4>1. Lua!SDIV(a, b) = -Lua!FloorDiv(-a, b)
        BY <1>3, <3>4 DEF Lua!SDIV
      <4>2. Lua!FloorDiv(-a, b) = (-(-a)) \div (-b)
        BY <1>1, <3>4 DEF Lua!FloorDiv
      <4>3. -(-a) = a
        BY <1>1
      <4> QED  BY <1>1, <3>4, <4>1, <4>2, <4>3 DEF Ref!Abs
    <3>5. CASE ~ (a < 0) /\ ~ (b < 0)
      <4>1. Lua!SDIV(a, b) = Lua!FloorDiv(a, b)
        BY <1>3, <3>5 DEF Lua!SDIV
      <4> QED  BY <1>1, <3>1, <3>5, <4>1 DEF Lua!FloorDiv, Ref!Abs
    <3> QED  BY <3>2, <3>3, <3>4, <3>5
  <2>4. Ref!SDiv(x, y) = Ref!Wrap(Ref!Sign(a * b) * q)
    BY <1>1, <1>3 DEF Ref!SDiv
  <2>5. Ref!Sign(a * b) * q = IF (a < 0) # (b < 0) THEN -q ELSE q
    <3>1. CASE a = 0
      <4>1. p = 0 /\ a * b = 0
        BY <1>1, <3>1 DEF Ref!Abs
      <4>2. q = 0
        <5> HIDE DEF p, q
        <5> QED  BY <2>2, <4>1
      <4> QED  BY <4>1, <4>2 DEF Ref!Sign
    <3>2. CASE a # 0
      <4>1. Ref!Sign(a * b) = IF (a < 0) # (b < 0) THEN -1 ELSE 1
        BY <1>1, <1>3, <3>2, SignOfProduct
      <4> HIDE DEF p, q
      <4>2. (-1) * q = -q /\ 1 * q = q
        BY <2>2
      <4> QED  BY <4>1, <4>2
    <3> QED  BY <3>1, <3>2
  <2> HIDE DEF p, q
  <2>6. Lua!SDIV(a, b) \in Lua!Exact
    <3>1. q \in Int /\ -q \in Int /\ -(2 ^ MANTISSA) < q /\ q < 2 ^ MANTISSA
          /\ -(2 ^ MANTISSA) < -q /\ -q < 2 ^ MANTISSA
      BY <2>1, <2>2
    <3>2. q \in Lua!Exact /\ -q \in Lua!Exact
      BY <3>1, ExactFacts
    <3> QED  BY <2>3, <3>2
  <2>7. Ref!SDiv(x, y) = Ref!Wrap(Lua!SDIV(a, b))
    BY <2>3, <2>4, <2>5
  <2> QED  BY <2>6, <2>7, SameWrapped
<1> QED  BY <1>2, <1>3

LEMMA LTAgrees ==
  ASSUME NEW a, NEW x, Agree(a, x), NEW b, NEW y, Agree(b, y), a >= 0, b >= 0
  PROVE  Agree(Lua!LT(a, b), Ref!LessThan(y, x)) /\ Agree(Lua!GT(a, b), Ref!GreaterThan(y, x))
<1>1. x = a /\ y = b /\ a \in Nat /\ b \in Nat
  BY AgreeNatural
<1>2. (a > b) = (y < x) /\ (a < b) = (y > x)
  BY <1>1
<1>3. (a > b) \in BOOLEAN /\ (a < b) \in BOOLEAN
  BY <1>1
<1> QED  BY <1>2, <1>3, TruthAgrees, ZenonT(30) DEF Lua!LT, Lua!GT, Ref!LessThan, Ref!GreaterThan

LEMMA SLTAgrees ==
  ASSUME NEW a, NEW x, Agree(a, x), NEW b, NEW y, Agree(b, y)
  PROVE  /\ Agree(Lua!SLT(a, b), Ref!SignedLessThan(y, x))
         /\ Agree(Lua!SGT(a, b), Ref!SignedGreaterThan(y, x))
<1>1. Ref!ToSigned(x) = a /\ Ref!ToSigned(y) = b /\ a \in Int /\ b \in Int
  BY AgreeFacts
<1>2. (a > b) = (Ref!ToSigned(y) < Ref!ToSigned(x)) /\ (a < b) = (Ref!ToSigned(y) > Ref!ToSigned(x))
  BY <1>1
<1>3. (a > b) \in BOOLEAN /\ (a < b) \in BOOLEAN
  BY <1>1
<1> QED
  BY <1>2, <1>3, TruthAgrees, ZenonT(30)
  DEF Lua!SLT, Lua!SGT, Ref!SignedLessThan, Ref!SignedGreaterThan

\* Two numbers are equal when the words they represent are.
LEMMA EQAgrees ==
  ASSUME NEW a, NEW x, Agree(a, x), NEW b, NEW y, Agree(b, y)
  PROVE  Agree(Lua!EQ(a, b), Ref!Equal(x, y))
<1>1. Ref!ToSigned(x) = a /\ Ref!ToSigned(y) = b /\ x = a % 2 ^ BITS /\ y = b % 2 ^ BITS
  BY AgreeFacts
<1>2. (a = b) = (x = y)
  BY <1>1
<1> QED  BY <1>2, TruthAgrees DEF Lua!EQ, Ref!Equal

LEMMA ISZEROAgrees ==
  ASSUME NEW a, NEW x, Agree(a, x)
  PROVE  Agree(Lua!ISZERO(a), Ref!IsZero(x))
<1>1. /\ a \in Int /\ (a >= 0 => x = a) /\ (a < 0 => x >= 2 ^ (BITS - 1))
      /\ 2 ^ (BITS - 1) \in Nat \ {0} /\ x \in Nat
  BY AgreeFacts, Moduli
<1>2. (a = 0) = (x = 0)
  BY <1>1
<1> QED  BY <1>2, TruthAgrees DEF Lua!ISZERO, Ref!IsZero

\* A quotient is no further from 0 than the dividend.
LEMMA QuotientExact ==
  ASSUME NEW v \in Lua!Exact, NEW d \in Nat \ {0}
  PROVE  v \div d \in Lua!Exact
<1> DEFINE q == v \div d
           m == 2 ^ MANTISSA
<1>1. v \in Int /\ m \in Nat
  BY ExactInt, Moduli
<1>2. -m < v /\ v < m
  BY <1>1, ExactFacts
<1>3. q \in Int /\ v % d \in 0 .. d - 1 /\ v = d * q + (v % d)
  BY <1>1, QuotientFacts
<1>4. CASE v >= 0
  <2>1. q \in Nat /\ q <= v
    BY <1>1, <1>4, NaturalQuotient
  <2> HIDE DEF q, m
  <2>2. -m < q /\ q < m
    BY <1>1, <1>2, <2>1
  <2> QED  BY <1>3, <2>2, ExactFacts DEF q, m
<1>5. CASE v < 0
  <2> HIDE DEF q, m
  <2>1. q < 0
    <3> SUFFICES ASSUME 0 <= q PROVE FALSE
      BY <1>3
    <3>1. d * 0 <= d * q
      BY <1>3, TimesMonotone
    <3> QED  BY <1>3, <1>5, <3>1
  <2>2. v <= q
    <3> SUFFICES ASSUME q <= v - 1 PROVE FALSE
      BY <1>1, <1>3
    <3>1. d * q <= d * (v - 1)
      BY <1>1, <1>3, TimesMonotone
    <3>2. d * (v - 1) = d * v - d /\ d * v \in Int
      BY <1>1
    <3>3. (-v) * 1 <= (-v) * d
      BY <1>1, <1>5, TimesMonotone
    <3>4. (-v) * 1 = -v /\ (-v) * d = -(d * v)
      BY <1>1
    <3> DEFINE t == d * q
               w == d * v
               r == v % d
    <3>5. t \in Int /\ w \in Int /\ r \in 0 .. d - 1
      BY <1>1, <1>3, TimesInt
    <3>6. t <= w - d /\ -v <= -w /\ v = t + r
      BY <1>3, <3>1, <3>2, <3>3, <3>4
    <3> HIDE DEF t, w, r
    <3> QED  BY <1>1, <3>5, <3>6
  <2>3. -m < q /\ q < m
    BY <1>1, <1>2, <1>3, <2>1, <2>2
  <2> QED  BY <1>3, <2>3, ExactFacts DEF q, m
<1> QED  BY <1>1, <1>4, <1>5

LEMMA ZeroAgrees == Agree(0, 0) /\ 0 \in Lua!Exact /\ Agree(0, Ref!Wrap(0))
<1>1. Agree(0, 0)
  BY TruthAgrees DEF Lua!Pushed, Ref!U256
<1>2. 0 \in Lua!Exact
  BY <1>1 DEF Agree
<1> QED  BY <1>1, <1>2, SameWrapped

LEMMA SHRAgrees ==
  ASSUME NEW a, NEW x, Agree(a, x), NEW b, NEW y, Agree(b, y), a >= 0, b >= 0
  PROVE  Agree(Lua!SHR(a, b), Ref!BitwiseShr(y, x))
<1>1. a \in Nat /\ x = a /\ a < 2 ^ MANTISSA /\ b \in Nat /\ y = b
  BY AgreeNatural
<1>2. BITS \in Nat /\ 2 ^ MANTISSA \in Nat
  BY Widths, Moduli
<1>3. CASE b >= BITS
  <2>1. ~ (b < 0) /\ ~ (a < 0) /\ ~ (y < BITS)
    BY <1>1, <1>2, <1>3
  <2>2. -Lua!Pushed(a < 0) = 0
    <3>1. (a < 0) = FALSE
      BY <1>1
    <3>2. Lua!Pushed(a < 0) = 0
      BY <3>1, ZenonT(30) DEF Lua!Pushed
    <3>3. \A z \in Int : -z = 0 - z
      OBVIOUS
    <3>4. 0 \in Int /\ 0 - 0 = 0
      OBVIOUS
    <3> QED  BY <3>2, <3>3, <3>4, ZenonT(30)
  <2>3. Lua!SHR(a, b) = 0 /\ Ref!BitwiseShr(y, x) = 0
    BY <1>3, <2>1, <2>2 DEF Lua!SHR, Ref!BitwiseShr
  <2> QED  BY <2>3, ZeroAgrees
<1>4. CASE b < BITS
  <2>1. 2 ^ b \in Nat \ {0}
    BY <1>1, <1>2, <1>4, Powers
  <2>2. a \div 2 ^ b \in Nat /\ a \div 2 ^ b <= a
    BY <1>1, <2>1, NaturalQuotient
  <2>3. a \div 2 ^ b < 2 ^ MANTISSA
    BY <1>1, <1>2, <2>2
  <2>4. ~ (b < 0) /\ ~ (b >= BITS) /\ y < BITS
    BY <1>1, <1>2, <1>4
  <2>5. Lua!SHR(a, b) = a \div 2 ^ b /\ Ref!BitwiseShr(y, x) = a \div 2 ^ b
    BY <1>1, <2>4 DEF Lua!SHR, Ref!BitwiseShr
  <2> QED  BY <2>2, <2>3, <2>5, SameNatural
<1> QED  BY <1>1, <1>2, <1>3, <1>4

LEMMA SHLAgrees ==
  ASSUME NEW a, NEW x, Agree(a, x), NEW b, NEW y, Agree(b, y), a >= 0, Lua!SHL(a, b) # Rounded
  PROVE  Agree(Lua!SHL(a, b), Ref!BitwiseShl(x, y))
<1>1. a \in Nat /\ x = a /\ b \in Int /\ y \in Int /\ BITS \in Nat
  BY AgreeNatural, AgreeFacts, Widths
<1>2. CASE a >= BITS
  <2>1. ~ (x < BITS)
    BY <1>1, <1>2
  <2>2. Lua!SHL(a, b) = 0 /\ Ref!BitwiseShl(x, y) = 0
    BY <1>2, <2>1 DEF Lua!SHL, Ref!BitwiseShl
  <2> QED  BY <2>2, ZeroAgrees
<1>3. CASE a < BITS
  <2>1. ~ (a >= BITS) /\ x < BITS /\ 2 ^ a \in Int
    BY <1>1, <1>3, Powers
  <2>2. Lua!SHL(a, b) = Lua!Scaled(b, a) /\ Ref!BitwiseShl(x, y) = Ref!Wrap(y * 2 ^ a)
    BY <1>1, <2>1 DEF Lua!SHL, Ref!BitwiseShl
  <2>3. CASE b = 0
    <3>1. y = 0 /\ y * 2 ^ a = 0
      BY <1>1, <2>1, <2>3, AgreeFacts
    <3>2. Lua!Scaled(b, a) = 0
      BY <2>3 DEF Lua!Scaled
    <3> QED  BY <2>2, <3>1, <3>2, ZeroAgrees
  <2>4. CASE b # 0
    <3>1. b * 2 ^ a \in Int /\ y * 2 ^ a \in Int
      BY <1>1, <2>1, TimesInt
    <3>2. Lua!Scaled(b, a) = Lua!Double(b * 2 ^ a) /\ Lua!Scaled(b, a) # Rounded
      BY <2>2, <2>4 DEF Lua!Scaled
    <3>3. Lua!Scaled(b, a) = b * 2 ^ a /\ b * 2 ^ a \in Lua!Exact
      BY <3>1, <3>2, ExactFacts
    <3>4. Congruent(2 ^ a, 2 ^ a)
      <4>1. 2 ^ a = 2 ^ BITS * 0 + 2 ^ a /\ 0 \in Int
        BY <2>1, Moduli
      <4> QED  BY <4>1 DEF Congruent
    <3>5. Congruent(b * 2 ^ a, y * 2 ^ a)
      BY <1>1, <2>1, <3>4, AgreeCongruent, Products
    <3> QED  BY <2>2, <3>1, <3>3, <3>5, CongruentAgrees
  <2> QED  BY <2>3, <2>4
<1> QED  BY <1>1, <1>2, <1>3

LEMMA SARAgrees ==
  ASSUME NEW a, NEW x, Agree(a, x), NEW b, NEW y, Agree(b, y), a >= 0, a < BITS \/ b >= 0
  PROVE  Agree(Lua!SAR(a, b), Ref!BitwiseSar(x, y))
<1>1. a \in Nat /\ x = a /\ b \in Lua!Exact /\ Ref!ToSigned(y) = b /\ BITS \in Nat
  BY AgreeNatural, AgreeFacts, Widths DEF Agree
<1>2. CASE a >= BITS
  <2>1. ~ (x < BITS) /\ b >= 0
    BY <1>1, <1>2
  <2>2. Lua!SAR(a, b) = 0 /\ Ref!BitwiseSar(x, y) = 0
    BY <1>1, <1>2, <2>1 DEF Lua!SAR, Ref!BitwiseSar
  <2> QED  BY <2>2, ZeroAgrees
<1>3. CASE a < BITS
  <2>1. ~ (a >= BITS) /\ ~ (a < 0) /\ x < BITS /\ 2 ^ a \in Nat \ {0}
    BY <1>1, <1>3, Powers
  <2>2. b \div 2 ^ a \in Lua!Exact
    BY <1>1, <2>1, QuotientExact
  <2>3. Lua!SAR(a, b) = b \div 2 ^ a /\ Ref!BitwiseSar(x, y) = Ref!Wrap(b \div 2 ^ a)
    BY <1>1, <2>1 DEF Lua!SAR, Ref!BitwiseSar
  <2> QED  BY <2>2, <2>3, SameWrapped
<1> QED  BY <1>1, <1>2, <1>3

\* A word is a whole number of bytes.
LEMMA ByteFacts ==
  /\ Lua!Bytes = Ref!Bytes /\ Lua!Bytes \in Nat /\ Lua!Bytes <= BITS
  /\ BITS = BYTEBITS * Lua!Bytes
<1>1. BITS \in Nat /\ BYTEBITS \in Nat \ {0} /\ BITS % BYTEBITS = 0
  BY Widths
<1>2. BITS \div BYTEBITS \in Nat /\ BITS \div BYTEBITS <= BITS
  BY <1>1, NaturalQuotient
<1>3. BITS = BYTEBITS * (BITS \div BYTEBITS) + (BITS % BYTEBITS)
  BY <1>1, QuotientFacts
<1>4. BITS = BYTEBITS * (BITS \div BYTEBITS)
  <2> DEFINE q == BITS \div BYTEBITS
  <2>1. BYTEBITS * q \in Int /\ BITS = BYTEBITS * q + (BITS % BYTEBITS)
    BY <1>1, <1>2, <1>3, TimesInt
  <2> HIDE DEF q
  <2>2. BITS = BYTEBITS * q
    BY <1>1, <2>1
  <2> QED  BY <2>2 DEF q
<1> QED  BY <1>2, <1>4 DEF Lua!Bytes, Ref!Bytes

LEMMA BYTEAgrees ==
  ASSUME NEW a, NEW x, Agree(a, x), NEW b, NEW y, Agree(b, y)
  PROVE  Agree(Lua!BYTE(a, b), Ref!GetByte(x, y))
<1> DEFINE n == Lua!Bytes
<1>1. Ref!Bytes = n /\ n \in Nat /\ n <= BITS /\ BITS = BYTEBITS * n /\ BITS \in Nat
  BY ByteFacts, Widths
<1>2. /\ a \in Int /\ b \in Int /\ x \in Nat /\ (a >= 0 => x = a)
      /\ (a < 0 => x >= 2 ^ (BITS - 1)) /\ y = b % 2 ^ BITS
  BY AgreeFacts
<1>3. BITS <= 2 ^ (BITS - 1) /\ 2 ^ (BITS - 1) \in Nat
  BY Moduli
<1> HIDE DEF n
<1>4. CASE a \notin 0 .. n - 1
  <2>1. x >= n
    BY <1>1, <1>2, <1>3, <1>4
  <2>2. Lua!BYTE(a, b) = 0 /\ Ref!GetByte(x, y) = 0
    BY <1>1, <1>4, <2>1 DEF Lua!BYTE, Ref!GetByte, n
  <2> QED  BY <2>2, ZeroAgrees
<1>5. CASE a \in 0 .. n - 1
  <2> DEFINE e == BYTEBITS * (n - 1 - a)
             r == (b \div 2 ^ e) % 2 ^ BYTEBITS
  <2>1. x = a /\ ~ (x >= n) /\ n - 1 - a \in Nat /\ n - a \in Nat
    BY <1>1, <1>2, <1>5
  <2>2. BYTEBITS \in Nat /\ BITS \in 0 .. BITS /\ BYTEBITS <= MANTISSA /\ MANTISSA \in Nat
        /\ MANTISSA <= BITS
    BY Widths
  <2>3. e \in Nat
    BY <2>1, <2>2, TimesNat
  <2>4. e + BYTEBITS <= BITS
    <3>1. BYTEBITS * (n - a) <= BYTEBITS * n
      BY <1>1, <1>5, <2>1, <2>2, TimesMonotone
    <3>2. BYTEBITS * (n - a) = e + BYTEBITS
      BY <1>1, <1>5, <2>2
    <3> QED  BY <1>1, <3>1, <3>2
  <2> HIDE DEF e
  <2>5. ((b % 2 ^ BITS) \div 2 ^ e) % 2 ^ BYTEBITS = r
    BY <1>2, <2>2, <2>3, <2>4, DigitOfRemainder
  <2>6. Lua!BYTE(a, b) = r /\ Ref!GetByte(x, y) = r
    BY <1>1, <1>2, <1>5, <2>1, <2>5 DEF Lua!BYTE, Ref!GetByte, n, e
  <2>7. r \in Nat /\ r < 2 ^ MANTISSA
    <3>1. 2 ^ e \in Nat \ {0} /\ 2 ^ BYTEBITS \in Nat \ {0} /\ 2 ^ MANTISSA \in Nat
          /\ 2 ^ BYTEBITS <= 2 ^ MANTISSA
      <4>1. e \in 0 .. BITS
        BY <1>1, <2>2, <2>3, <2>4
      <4> QED  BY <2>2, <4>1, Powers, PowersGrow
    <3>2. b \div 2 ^ e \in Int
      BY <1>2, <3>1, QuotientFacts
    <3>3. r \in 0 .. 2 ^ BYTEBITS - 1
      BY <3>1, <3>2, QuotientFacts
    <3> QED  BY <3>1, <3>3
  <2> HIDE DEF r
  <2> QED  BY <2>6, <2>7, SameNatural
<1> QED  BY <1>4, <1>5

\* From a sign bit of 1, a number that stays exact had its sign in the highest bit; from
\* one of 0, it loses the bits above.
LEMMA SIGNEXTENDAgrees ==
  ASSUME NEW a, NEW x, Agree(a, x), NEW b, NEW y, Agree(b, y), a >= 0,
         Lua!SIGNEXTEND(a, b) # Rounded
  PROVE  Agree(Lua!SIGNEXTEND(a, b), Ref!SignExtend(x, y))
<1> DEFINE n == Lua!Bytes
           m == 2 ^ MANTISSA
           mod == 2 ^ BITS
<1>1. Ref!Bytes = n /\ n \in Nat /\ n <= BITS /\ BITS = BYTEBITS * n
  BY ByteFacts
<1>2. BITS \in Nat /\ BYTEBITS \in Nat \ {0} /\ MANTISSA \in Nat /\ MANTISSA + 2 <= BITS
  BY Widths
<1>3. /\ a \in Nat /\ x = a /\ b \in Int /\ y \in Nat /\ y = b % mod
      /\ -m < b /\ b < m /\ (b >= 0 => y = b)
  BY AgreeNatural, AgreeFacts
<1>4. m \in Nat \ {0} /\ mod \in Nat \ {0} /\ 2 ^ (BITS - 1) \in Nat \ {0}
      /\ mod = 2 * 2 ^ (BITS - 1) /\ 2 * m <= 2 ^ (BITS - 1)
  BY Moduli
<1> HIDE DEF n, m, mod
<1>5. CASE a >= n
  <2>1. Lua!SIGNEXTEND(a, b) = b /\ Ref!SignExtend(x, y) = y
    BY <1>1, <1>3, <1>5 DEF Lua!SIGNEXTEND, Ref!SignExtend, n
  <2> QED  BY <2>1
<1>6. CASE a < n
  <2> DEFINE w == BYTEBITS * (a + 1)
             p == 2 ^ w
             low == y % p
  <2>1. w \in Nat \ {0} /\ w <= BITS
    <3>1. BYTEBITS * (a + 1) <= BYTEBITS * n /\ BYTEBITS * 1 <= BYTEBITS * (a + 1)
      BY <1>1, <1>2, <1>3, <1>6, TimesMonotone
    <3>2. BYTEBITS * (a + 1) \in Nat
      BY <1>2, <1>3, TimesNat
    <3> QED  BY <1>1, <1>2, <3>1, <3>2
  <2>2. w = BYTEBITS * (x + 1) /\ a * BYTEBITS + BYTEBITS - 1 = w - 1
        /\ (a * BYTEBITS + BYTEBITS - 1) + 1 = w
    <3>1. BYTEBITS * (a + 1) = a * BYTEBITS + BYTEBITS /\ a * BYTEBITS \in Int
      BY <1>2, <1>3
    <3> QED  BY <1>2, <1>3, <3>1
  <2> HIDE DEF w
  <2>3. p \in Nat \ {0} /\ 2 ^ (BITS - w) \in Nat \ {0} /\ mod = p * 2 ^ (BITS - w)
    BY <1>2, <2>1, PowerSplit DEF mod
  <2>4. low = b % p /\ low \in Nat /\ low < p
    <3>1. (b % (p * 2 ^ (BITS - w))) % p = b % p
      BY <1>3, <2>3, RemainderOfRemainder
    <3>2. low = b % p
      BY <1>3, <2>3, <3>1
    <3>3. b % p \in 0 .. p - 1
      BY <1>3, <2>3, QuotientFacts
    <3> QED  BY <2>3, <3>2, <3>3
  <2>5. /\ Lua!BitOf(b, w - 1) = Bit(b, w - 1) /\ Bit(b, w - 1) \in {0, 1}
        /\ Ref!BitOf(low, w - 1) = Bit(b, w - 1)
    <3>1. w \in 0 .. BITS /\ w - 1 \in 0 .. w - 1 /\ w - 1 \in 0 .. BITS /\ low \in Int
      BY <1>2, <2>1, <2>4
    <3>2. Bit(b % 2 ^ w, w - 1) = Bit(b, w - 1)
      BY <1>3, <3>1, BitOfRemainder
    <3>3. /\ Lua!BitOf(b, w - 1) = Bit(b, w - 1) /\ Bit(b, w - 1) \in {0, 1}
          /\ Ref!BitOf(low, w - 1) = Bit(low, w - 1)
      BY <1>3, <3>1, BitFacts
    <3> QED  BY <2>4, <3>2, <3>3
  <2>6. /\ Lua!SIGNEXTEND(a, b) = IF Bit(b, w - 1) = 1 THEN Lua!Double(b + mod - p) ELSE b % p
        /\ Ref!SignExtend(x, y) = IF Bit(b, w - 1) = 0 THEN low ELSE Ref!Wrap(low - p)
    <3>1. ~ (a >= Lua!Bytes) /\ ~ (a < 0) /\ ~ (x >= Ref!Bytes)
      BY <1>1, <1>3, <1>6 DEF n
    <3>2. Lua!SIGNEXTEND(a, b) =
            IF Lua!BitOf(b, w - 1) = 1 THEN Lua!Double(b + mod - p) ELSE b % p
      BY <2>2, <3>1 DEF Lua!SIGNEXTEND, mod
    <3>3. Ref!SignExtend(x, y) = IF Ref!BitOf(low, w - 1) = 0 THEN low ELSE Ref!Wrap(low - p)
      BY <2>2, <3>1 DEF Ref!SignExtend
    <3> QED  BY <2>5, <3>2, <3>3
  <2>7. CASE Bit(b, w - 1) = 1
    <3>1. b + mod - p \in Int /\ Lua!Double(b + mod - p) # Rounded
      BY <1>3, <1>4, <2>3, <2>6, <2>7
    <3>2. Lua!Double(b + mod - p) = b + mod - p /\ b + mod - p < m
      BY <3>1, ExactFacts DEF m
    <3>3. w = BITS
      <4> SUFFICES ASSUME w # BITS PROVE FALSE
        OBVIOUS
      <4>1. w < BITS /\ w \in Nat
        BY <1>2, <2>1
      <4>2. 2 * p <= mod
        BY <1>2, <4>1, PowersGrow DEF mod
      <4> HIDE DEF p
      <4> QED  BY <1>3, <1>4, <2>3, <3>2, <4>2
    <3>4. p = mod
      BY <3>3 DEF mod
    <3>5. b + mod - p = b /\ low = y
      <4>1. y \in 0 .. mod - 1 /\ y \in Nat
        BY <1>3, <1>4, QuotientFacts
      <4>2. y % mod = y
        BY <1>4, <4>1, SmallRemainder
      <4> HIDE DEF p, low
      <4>3. b + mod - p = b
        BY <1>3, <1>4, <3>4
      <4> QED  BY <3>4, <4>2, <4>3 DEF low
    <3>6. Agree(b, Ref!Wrap(y - mod))
      <4>1. PICK t \in Int : b = mod * t + y
        BY AgreeCongruent DEF Congruent, mod
      <4>2. b = mod * (t + 1) + (y - mod) /\ t + 1 \in Int /\ y - mod \in Int
        <5>1. mod \in Int /\ y \in Int /\ mod * t \in Int
          BY <1>3, <1>4, TimesInt
        <5>2. mod * (t + 1) = mod * t + mod
          BY <5>1
        <5> HIDE DEF p, low
        <5> QED  BY <4>1, <5>1, <5>2
      <4>3. Congruent(b, y - mod)
        BY <4>2 DEF Congruent, mod
      <4>4. b \in Lua!Exact
        BY DEF Agree
      <4> QED  BY <4>2, <4>3, <4>4, CongruentAgrees
    <3>7. Lua!SIGNEXTEND(a, b) = b /\ Ref!SignExtend(x, y) = Ref!Wrap(y - mod)
      <4> HIDE DEF p, low
      <4> QED  BY <2>6, <2>7, <3>2, <3>4, <3>5
    <3> QED  BY <3>6, <3>7
  <2>8. CASE Bit(b, w - 1) = 0
    <3>1. Lua!SIGNEXTEND(a, b) = low /\ Ref!SignExtend(x, y) = low
      <4> HIDE DEF p, low
      <4> QED  BY <2>4, <2>6, <2>8
    <3>2. low < m
      <4>1. CASE b >= 0
        <5>1. b \in Nat
          BY <1>3, <4>1
        <5>2. b % p <= b
          BY <2>3, <5>1, NaturalQuotient
        <5> HIDE DEF low
        <5> QED  BY <1>3, <1>4, <2>4, <5>1, <5>2
      <4>2. CASE b < 0
        <5>1. w <= MANTISSA
          <6> SUFFICES ASSUME ~ (w <= MANTISSA) PROVE FALSE
            OBVIOUS
          <6>1. w - 1 \in MANTISSA .. BITS /\ MANTISSA \in 0 .. BITS /\ -b \in 1 .. m
            BY <1>2, <1>3, <1>4, <2>1, <4>2
          <6>2. Bit(b, w - 1) = 1
            BY <1>3, <6>1, HighBits DEF m
          <6> QED  BY <2>8, <6>2
        <5>2. w \in Nat /\ MANTISSA <= BITS
          BY <1>2, <2>1
        <5>3. p <= m
          BY <1>2, <5>1, <5>2, PowersGrow DEF m
        <5> HIDE DEF p, low
        <5> QED  BY <1>4, <2>3, <2>4, <5>3
      <4> QED  BY <1>3, <4>1, <4>2
    <3> HIDE DEF low
    <3>3. Agree(low, low)
      BY <2>4, <3>2, SameNatural DEF m
    <3> QED  BY <3>1, <3>3
  <2> QED  BY <2>5, <2>7, <2>8
<1> QED  BY <1>1, <1>3, <1>5, <1>6

\* Two halves joined have the bits of the one above those of the other.
LEMMA Joined ==
  ASSUME NEW S0 \in SUBSET (0 .. LIMB - 1), NEW S1 \in SUBSET (0 .. LIMB - 1)
  PROVE  LET v == Lua!FromBits(S1) * 2 ^ LIMB + Lua!FromBits(S0)
         IN  /\ v \in 0 .. 2 ^ (2 * LIMB) - 1
             /\ \A k \in 0 .. 2 * LIMB - 1 :
                  Bit(v, k) = IF k < LIMB THEN IF k \in S0 THEN 1 ELSE 0
                                          ELSE IF k - LIMB \in S1 THEN 1 ELSE 0
<1> DEFINE p == 2 ^ LIMB
           h == Lua!FromBits(S1)
           l == Lua!FromBits(S0)
           v == h * p + l
<1>1. LIMB \in Nat \ {0} /\ LIMB \in 0 .. BITS /\ 2 * LIMB \in Nat /\ 2 * LIMB <= BITS
      /\ BITS \in Nat /\ LIMB <= 2 * LIMB /\ 2 * LIMB - LIMB = LIMB
  BY Widths
<1>2. p \in Nat \ {0} /\ 2 ^ (2 * LIMB) = p * p
  BY <1>1, PowerSplit
<1>3. /\ h \in 0 .. p - 1 /\ \A k \in 0 .. LIMB - 1 : Bit(h, k) = IF k \in S1 THEN 1 ELSE 0
      /\ l \in 0 .. p - 1 /\ \A k \in 0 .. LIMB - 1 : Bit(l, k) = IF k \in S0 THEN 1 ELSE 0
  BY <1>1, FromBitsFacts
<1> HIDE DEF p, h, l
<1>4. h \in Int /\ l \in Int /\ v = p * h + l /\ v \in Int
  <2>1. h \in Int /\ l \in Int /\ p * h \in Int
    BY <1>2, <1>3, TimesInt
  <2>2. h * p = p * h
    BY <1>2, <2>1
  <2> QED  BY <2>1, <2>2
<1>5. v \div p = h /\ v % p = l
  BY <1>2, <1>3, <1>4, QuotientUnique
<1>6. v \in 0 .. p * p - 1
  <2>1. p * 0 <= p * h /\ p * h <= p * (p - 1)
    BY <1>2, <1>3, TimesMonotone
  <2>2. p * (p - 1) = p * p - p /\ p * p \in Int /\ p * h \in Int
    BY <1>2, <1>4, TimesInt
  <2> QED  BY <1>2, <1>3, <1>4, <2>1, <2>2
<1> HIDE DEF v
<1>7. ASSUME NEW k \in 0 .. 2 * LIMB - 1
      PROVE  Bit(v, k) = IF k < LIMB THEN IF k \in S0 THEN 1 ELSE 0
                                     ELSE IF k - LIMB \in S1 THEN 1 ELSE 0
  <2>1. CASE k < LIMB
    <3>1. k \in 0 .. LIMB - 1
      BY <1>1, <2>1
    <3>2. Bit(v % 2 ^ LIMB, k) = Bit(v, k)
      BY <1>1, <1>4, <3>1, BitOfRemainder
    <3> QED  BY <1>3, <1>5, <2>1, <3>1, <3>2 DEF p
  <2>2. CASE ~ (k < LIMB)
    <3> DEFINE j == k - LIMB
    <3>1. j \in 0 .. LIMB - 1 /\ j \in Nat /\ LIMB \in Nat /\ LIMB + j = k /\ LIMB + j <= BITS
      BY <1>1, <2>2
    <3> HIDE DEF j
    <3>2. Bit(v \div 2 ^ LIMB, j) = Bit(v, LIMB + j)
      BY <1>4, <3>1, BitOfQuotient
    <3>3. Bit(v, k) = Bit(h, j)
      BY <1>5, <3>1, <3>2 DEF p
    <3> QED  BY <1>3, <2>2, <3>1, <3>3 DEF j
  <2> QED  BY <2>1, <2>2
<1> QED  BY <1>2, <1>6, <1>7 DEF v, h, l, p

LEMMA HalfBits ==
  ASSUME NEW v \in Int, NEW k \in 0 .. LIMB - 1
  PROVE  /\ Lua!BitOf(Lua!Low(v), k) = Bit(v, k)
         /\ Lua!BitOf(Lua!High(v), k) = Bit(v, LIMB + k)
<1>1. LIMB \in Nat /\ LIMB \in 0 .. BITS /\ k \in 0 .. BITS /\ k \in Nat /\ LIMB + k <= BITS
      /\ 2 ^ LIMB \in Nat \ {0}
  <2>1. LIMB \in Nat /\ LIMB \in 0 .. BITS /\ k \in 0 .. BITS /\ k \in Nat /\ LIMB + k <= BITS
    BY Widths
  <2> QED  BY <2>1, Powers
<1>2. v \div 2 ^ LIMB \in Int
  BY <1>1, QuotientFacts
<1>3. (v \div 2 ^ LIMB) % 2 ^ LIMB \in Int /\ v % 2 ^ LIMB \in Int
  BY <1>1, <1>2, QuotientFacts
<1>4. /\ Lua!BitOf(v % 2 ^ LIMB, k) = Bit(v % 2 ^ LIMB, k)
      /\ Lua!BitOf((v \div 2 ^ LIMB) % 2 ^ LIMB, k) = Bit((v \div 2 ^ LIMB) % 2 ^ LIMB, k)
  BY <1>1, <1>3, BitFacts
<1>5. /\ Bit(v % 2 ^ LIMB, k) = Bit(v, k)
      /\ Bit((v \div 2 ^ LIMB) % 2 ^ LIMB, k) = Bit(v \div 2 ^ LIMB, k)
  BY <1>1, <1>2, BitOfRemainder
<1>6. Bit(v \div 2 ^ LIMB, k) = Bit(v, LIMB + k)
  BY <1>1, BitOfQuotient
<1> QED  BY <1>4, <1>5, <1>6 DEF Lua!Low, Lua!High

\* A set of bits that a double has room for makes the same number in two halves as it
\* does at once.
LEMMA JoinAgrees ==
  ASSUME NEW B \in SUBSET (0 .. MANTISSA - 1)
  PROVE  /\ Agree(Lua!FromBits(B), Ref!FromBits(B))
         /\ Agree(Lua!Join64(Lua!FromBits({k \in 0 .. LIMB - 1 : LIMB + k \in B}),
                             Lua!FromBits({k \in 0 .. LIMB - 1 : k \in B})), Ref!FromBits(B))
<1> DEFINE S0 == {k \in 0 .. LIMB - 1 : k \in B}
           S1 == {k \in 0 .. LIMB - 1 : LIMB + k \in B}
           w == Lua!FromBits(B)
           v == Lua!FromBits(S1) * 2 ^ LIMB + Lua!FromBits(S0)
           n == 2 * LIMB
<1>1. n \in 0 .. BITS /\ MANTISSA \in 0 .. BITS /\ MANTISSA \in Nat /\ LIMB \in Nat /\ MANTISSA <= n
  BY Widths
<1>2. B \in SUBSET (0 .. n - 1)
  BY <1>1
<1>3. w \in 0 .. 2 ^ MANTISSA - 1 /\ Ref!FromBits(B) = w
  BY <1>1, FromBitsFacts
<1>4. w \in 0 .. 2 ^ n - 1 /\ \A k \in 0 .. n - 1 : Bit(w, k) = IF k \in B THEN 1 ELSE 0
  <2> HIDE DEF n
  <2> QED  BY <1>1, <1>2, FromBitsFacts
<1>5. v \in 0 .. 2 ^ n - 1
      /\ \A k \in 0 .. n - 1 : Bit(v, k) = IF k < LIMB THEN IF k \in S0 THEN 1 ELSE 0
                                           ELSE IF k - LIMB \in S1 THEN 1 ELSE 0
  BY Joined
<1>6. \A k \in 0 .. n - 1 : /\ k < LIMB => (k \in S0 <=> k \in B)
                            /\ ~ (k < LIMB) => (k - LIMB \in S1 <=> k \in B)
  BY <1>1
<1> HIDE DEF v, w, S0, S1, n
<1>7. \A k \in 0 .. n - 1 : Bit(v, k) = Bit(w, k)
  BY <1>4, <1>5, <1>6
<1>8. v = w
  BY <1>1, <1>4, <1>5, <1>7, BitsDetermine
<1>9. w \in Nat /\ w < 2 ^ MANTISSA /\ -(2 ^ MANTISSA) < w
  BY <1>3, Moduli
<1>10. Agree(w, w)
  BY <1>9, SameNatural
<1>11. Lua!Join64(Lua!FromBits(S1), Lua!FromBits(S0)) = w
  BY <1>8, <1>9 DEF Lua!Join64, Lua!Double, v
<1> QED  BY <1>3, <1>10, <1>11 DEF w, S0, S1

\* The bits of a word are those of the number that represents it.
LEMMA AgreeBits ==
  ASSUME NEW a, NEW x, Agree(a, x)
  PROVE  /\ \A k \in 0 .. BITS - 1 : Ref!BitOf(x, k) = Bit(a, k) /\ Bit(a, k) \in {0, 1}
         /\ a >= 0 => \A k \in MANTISSA .. BITS : Bit(a, k) = 0
<1>1. a \in Int /\ a < 2 ^ MANTISSA /\ x \in Int /\ x = a % 2 ^ BITS
  BY AgreeFacts
<1>2. BITS \in Nat /\ BITS \in 0 .. BITS /\ MANTISSA \in 0 .. BITS /\ MANTISSA \in Nat
      /\ 2 ^ MANTISSA \in Nat
  BY Widths, Moduli
<1>3. ASSUME NEW k \in 0 .. BITS - 1
      PROVE  Ref!BitOf(x, k) = Bit(a, k) /\ Bit(a, k) \in {0, 1}
  <2>1. k \in 0 .. BITS
    BY <1>2
  <2>2. Bit(a % 2 ^ BITS, k) = Bit(a, k)
    BY <1>1, <1>2, BitOfRemainder
  <2>3. Ref!BitOf(x, k) = Bit(x, k) /\ Bit(a, k) \in {0, 1}
    BY <1>1, <2>1, BitFacts
  <2> QED  BY <1>1, <2>2, <2>3
<1>4. ASSUME a >= 0, NEW k \in MANTISSA .. BITS
      PROVE  Bit(a, k) = 0
  <2>1. a \in 0 .. 2 ^ MANTISSA - 1
    BY <1>1, <1>2, <1>4
  <2> QED  BY <1>1, <1>2, <2>1, HighBits
<1> QED  BY <1>3, <1>4

LEMMA ANDAgrees ==
  ASSUME NEW a, NEW x, Agree(a, x), NEW b, NEW y, Agree(b, y), a >= 0 \/ b >= 0
  PROVE  Agree(Lua!AND(a, b), Ref!BitwiseAnd(x, y))
<1> DEFINE B == {k \in 0 .. BITS - 1 : Bit(a, k) = 1 /\ Bit(b, k) = 1}
<1>1. LIMB \in Nat /\ MANTISSA \in Nat /\ BITS \in Nat /\ 2 * LIMB <= BITS /\ MANTISSA + 2 <= BITS
  BY Widths
<1>2. /\ a \in Int /\ \A k \in 0 .. BITS - 1 : Ref!BitOf(x, k) = Bit(a, k)
      /\ b \in Int /\ \A k \in 0 .. BITS - 1 : Ref!BitOf(y, k) = Bit(b, k)
  BY AgreeFacts, AgreeBits
<1>3. Ref!BitwiseAnd(x, y) = Ref!FromBits(B)
  <2>1. B = {k \in 0 .. BITS - 1 : Ref!BitOf(x, k) = 1 /\ Ref!BitOf(y, k) = 1}
    BY <1>2
  <2> QED  BY <2>1 DEF Ref!BitwiseAnd
<1>4. B \in SUBSET (0 .. MANTISSA - 1)
  <2>1. ASSUME NEW k \in B
        PROVE  k < MANTISSA
    <3>1. ASSUME k >= MANTISSA
          PROVE  k \in MANTISSA .. BITS
      BY <1>1, <3>1
    <3>2. k \in Int /\ MANTISSA \in Int /\ Bit(a, k) = 1 /\ Bit(b, k) = 1
      BY <1>1
    <3> QED  BY <3>1, <3>2, AgreeBits
  <2> QED  BY <1>1, <2>1
<1>5. Lua!Band32(Lua!Low(a), Lua!Low(b)) = Lua!FromBits({k \in 0 .. LIMB - 1 : k \in B})
  <2>1. \A k \in 0 .. LIMB - 1 :
          k \in B <=> Lua!BitOf(Lua!Low(a), k) = 1 /\ Lua!BitOf(Lua!Low(b), k) = 1
    BY <1>1, <1>2, HalfBits
  <2> HIDE DEF B
  <2>2. {k \in 0 .. LIMB - 1 : k \in B} =
          {k \in 0 .. LIMB - 1 : Lua!BitOf(Lua!Low(a), k) = 1 /\ Lua!BitOf(Lua!Low(b), k) = 1}
    BY <2>1
  <2> QED  BY <2>2 DEF Lua!Band32
<1>6. Lua!Band32(Lua!High(a), Lua!High(b)) = Lua!FromBits({k \in 0 .. LIMB - 1 : LIMB + k \in B})
  <2>1. \A k \in 0 .. LIMB - 1 :
          LIMB + k \in B <=> Lua!BitOf(Lua!High(a), k) = 1 /\ Lua!BitOf(Lua!High(b), k) = 1
    BY <1>1, <1>2, HalfBits
  <2> HIDE DEF B
  <2>2. {k \in 0 .. LIMB - 1 : LIMB + k \in B} =
          {k \in 0 .. LIMB - 1 : Lua!BitOf(Lua!High(a), k) = 1 /\ Lua!BitOf(Lua!High(b), k) = 1}
    BY <2>1
  <2> QED  BY <2>2 DEF Lua!Band32
<1> HIDE DEF B
<1> QED  BY <1>3, <1>4, <1>5, <1>6, JoinAgrees DEF Lua!AND, Lua!Band64

LEMMA XORAgrees ==
  ASSUME NEW a, NEW x, Agree(a, x), NEW b, NEW y, Agree(b, y), a >= 0, b >= 0
  PROVE  Agree(Lua!XOR(a, b), Ref!BitwiseXor(x, y))
<1> DEFINE B == {k \in 0 .. BITS - 1 : Bit(a, k) # Bit(b, k)}
<1>1. LIMB \in Nat /\ MANTISSA \in Nat /\ BITS \in Nat /\ 2 * LIMB <= BITS /\ MANTISSA + 2 <= BITS
  BY Widths
<1>2. /\ a \in Int /\ \A k \in 0 .. BITS - 1 : Ref!BitOf(x, k) = Bit(a, k)
      /\ b \in Int /\ \A k \in 0 .. BITS - 1 : Ref!BitOf(y, k) = Bit(b, k)
  BY AgreeFacts, AgreeBits
<1>3. Ref!BitwiseXor(x, y) = Ref!FromBits(B)
  <2>1. B = {k \in 0 .. BITS - 1 : Ref!BitOf(x, k) # Ref!BitOf(y, k)}
    BY <1>2
  <2> QED  BY <2>1 DEF Ref!BitwiseXor
<1>4. B \in SUBSET (0 .. MANTISSA - 1)
  <2>1. ASSUME NEW k \in B
        PROVE  k < MANTISSA
    <3>1. ASSUME k >= MANTISSA
          PROVE  k \in MANTISSA .. BITS
      BY <1>1, <3>1
    <3>2. k \in Int /\ MANTISSA \in Int /\ Bit(a, k) # Bit(b, k)
      BY <1>1
    <3> QED  BY <3>1, <3>2, AgreeBits
  <2> QED  BY <1>1, <2>1
<1>5. Lua!Bxor32(Lua!Low(a), Lua!Low(b)) = Lua!FromBits({k \in 0 .. LIMB - 1 : k \in B})
  <2>1. \A k \in 0 .. LIMB - 1 :
          k \in B <=> Lua!BitOf(Lua!Low(a), k) # Lua!BitOf(Lua!Low(b), k)
    BY <1>1, <1>2, HalfBits
  <2> HIDE DEF B
  <2>2. {k \in 0 .. LIMB - 1 : k \in B} =
          {k \in 0 .. LIMB - 1 : Lua!BitOf(Lua!Low(a), k) # Lua!BitOf(Lua!Low(b), k)}
    BY <2>1
  <2> QED  BY <2>2 DEF Lua!Bxor32
<1>6. Lua!Bxor32(Lua!High(a), Lua!High(b)) = Lua!FromBits({k \in 0 .. LIMB - 1 : LIMB + k \in B})
  <2>1. \A k \in 0 .. LIMB - 1 :
          LIMB + k \in B <=> Lua!BitOf(Lua!High(a), k) # Lua!BitOf(Lua!High(b), k)
    BY <1>1, <1>2, HalfBits
  <2> HIDE DEF B
  <2>2. {k \in 0 .. LIMB - 1 : LIMB + k \in B} =
          {k \in 0 .. LIMB - 1 : Lua!BitOf(Lua!High(a), k) # Lua!BitOf(Lua!High(b), k)}
    BY <2>1
  <2> QED  BY <2>2 DEF Lua!Bxor32
<1> HIDE DEF B
<1> QED  BY <1>3, <1>4, <1>5, <1>6, JoinAgrees DEF Lua!XOR, Lua!Bxor64

\* OR's loop stops when neither operand has bits left, and misses none.
LEMMA ORAgrees ==
  ASSUME NEW a, NEW x, Agree(a, x), NEW b, NEW y, Agree(b, y), a >= 0, b >= 0
  PROVE  Agree(Lua!OR(a, b), Ref!BitwiseOr(x, y))
<1> DEFINE B == {k \in 0 .. BITS - 1 : Bit(a, k) = 1 \/ Bit(b, k) = 1}
           Going(k) == a \div 2 ^ k > 0 \/ b \div 2 ^ k > 0
<1>1. MANTISSA \in Nat /\ BITS \in Nat /\ MANTISSA + 2 <= BITS
  BY Widths
<1>2. /\ a \in Nat /\ \A k \in 0 .. BITS - 1 : Ref!BitOf(x, k) = Bit(a, k)
      /\ b \in Nat /\ \A k \in 0 .. BITS - 1 : Ref!BitOf(y, k) = Bit(b, k)
  BY AgreeNatural, AgreeBits
<1>3. Ref!BitwiseOr(x, y) = Ref!FromBits(B)
  <2>1. B = {k \in 0 .. BITS - 1 : Ref!BitOf(x, k) = 1 \/ Ref!BitOf(y, k) = 1}
    BY <1>2
  <2> QED  BY <2>1 DEF Ref!BitwiseOr
<1>4. B \in SUBSET (0 .. MANTISSA - 1)
  <2>1. ASSUME NEW k \in B
        PROVE  k < MANTISSA
    <3>1. ASSUME k >= MANTISSA
          PROVE  k \in MANTISSA .. BITS
      BY <1>1, <3>1
    <3>2. k \in Int /\ MANTISSA \in Int /\ (Bit(a, k) = 1 \/ Bit(b, k) = 1)
      BY <1>1
    <3> QED  BY <3>1, <3>2, AgreeBits
  <2> QED  BY <1>1, <2>1
<1>5. ASSUME NEW v \in Nat, NEW k \in 0 .. BITS
      PROVE  Lua!BitOf(v, k) = Bit(v, k) /\ (Bit(v, k) = 1 => v \div 2 ^ k > 0)
  <2>1. 2 ^ k \in Nat \ {0}
    BY Powers
  <2>2. v \div 2 ^ k \in Nat
    BY <2>1, NaturalQuotient
  <2>3. Lua!BitOf(v, k) = Bit(v, k)
    BY BitFacts
  <2>4. ASSUME v \div 2 ^ k = 0
        PROVE  Bit(v, k) = 0
    <3>1. 2 \in Nat \ {0} /\ 0 \in 0 .. 2 - 1
      OBVIOUS
    <3>2. 0 % 2 = 0
      BY <3>1, SmallRemainder
    <3> QED  BY <2>4, <3>2 DEF Bit
  <2> QED  BY <2>2, <2>3, <2>4
<1>6. \A k \in 0 .. MANTISSA :
        k \in B <=> Going(k) /\ (Lua!BitOf(a, k) = 1 \/ Lua!BitOf(b, k) = 1)
  <2> TAKE k \in 0 .. MANTISSA
  <2>1. k \in 0 .. BITS /\ k \in 0 .. BITS - 1
    BY <1>1
  <2> QED  BY <1>2, <1>5, <2>1
<1> HIDE DEF Going
<1>7. B = {k \in 0 .. MANTISSA : Going(k) /\ (Lua!BitOf(a, k) = 1 \/ Lua!BitOf(b, k) = 1)}
  <2> HIDE DEF B
  <2>1. B \subseteq 0 .. MANTISSA
    BY <1>1, <1>4
  <2> QED  BY <1>6, <2>1, ZenonT(30)
<1>8. Lua!OR(a, b) = Lua!FromBits(B)
  BY <1>7 DEF Lua!OR, Going
<1> HIDE DEF B
<1> QED  BY <1>3, <1>4, <1>8, JoinAgrees

\* n steps of F from e: the recursive function that EXP's loop is made of.
IsIterated(g, F, e, n) == \A i \in 0 .. n : g[i] = IF i = 0 THEN e ELSE F[g[i - 1]]

LEMMA StepsDefined ==
  ASSUME NEW S, NEW F \in [S -> S], NEW e \in S
  PROVE  \A n \in Nat : \E g \in [0 .. n -> S] : IsIterated(g, F, e, n)
<1> DEFINE Steps(g, n) == \A i \in 0 .. n : g[i] = IF i = 0 THEN e ELSE F[g[i - 1]]
           T == {n \in Nat : \E g \in [0 .. n -> S] : Steps(g, n)}
<1>1. 0 \in T
  <2> DEFINE g == [i \in 0 .. 0 |-> e]
  <2>1. g \in [0 .. 0 -> S] /\ Steps(g, 0)
    OBVIOUS
  <2> HIDE DEF g, Steps
  <2> QED  BY <2>1
<1>2. ASSUME NEW n \in T
      PROVE  n + 1 \in T
  <2>1. PICK g \in [0 .. n -> S] : Steps(g, n)
    BY <1>2
  <2>2. n \in Nat /\ n \in 0 .. n
    BY <1>2
  <2> DEFINE f == [i \in 0 .. n + 1 |-> IF i = n + 1 THEN F[g[n]] ELSE g[i]]
  <2>3. f \in [0 .. n + 1 -> S]
    <3>1. F[g[n]] \in S /\ \A i \in 0 .. n + 1 : i # n + 1 => i \in 0 .. n
      BY <2>2
    <3> QED  BY <3>1
  <2>4. ASSUME NEW i \in 0 .. n + 1
        PROVE  f[i] = IF i = 0 THEN e ELSE F[f[i - 1]]
    <3>1. CASE i = 0
      <4>1. 0 \in 0 .. n /\ 0 \in 0 .. n + 1 /\ 0 # n + 1
        BY <2>2
      <4>2. g[0] = e /\ f[0] = g[0]
        BY <2>1, <4>1
      <4> QED  BY <3>1, <4>2
    <3>2. CASE i = n + 1
      <4>1. n \in 0 .. n + 1 /\ n # n + 1 /\ n + 1 # 0 /\ (n + 1) - 1 = n /\ n + 1 \in 0 .. n + 1
        BY <2>2
      <4>2. f[n] = g[n] /\ f[n + 1] = F[g[n]]
        BY <4>1
      <4> HIDE DEF f
      <4> QED  BY <3>2, <4>1, <4>2
    <3>3. CASE i \in 1 .. n
      <4>1. i \in 0 .. n /\ i - 1 \in 0 .. n /\ i # 0 /\ i # n + 1 /\ i - 1 # n + 1
            /\ i - 1 \in 0 .. n + 1
        BY <2>2, <3>3
      <4>2. f[i] = g[i] /\ f[i - 1] = g[i - 1]
        BY <4>1
      <4>3. g[i] = F[g[i - 1]]
        BY <2>1, <4>1
      <4> HIDE DEF f
      <4> QED  BY <4>1, <4>2, <4>3
    <3>4. i = 0 \/ i = n + 1 \/ i \in 1 .. n
      BY <2>2
    <3> QED  BY <3>1, <3>2, <3>3, <3>4
  <2>5. Steps(f, n + 1)
    BY <2>4
  <2> HIDE DEF f, Steps
  <2> QED  BY <2>2, <2>3, <2>5
<1> HIDE DEF T
<1>3. T = Nat
  <2>1. T \in SUBSET Nat
    BY DEF T
  <2> QED  BY <1>1, <1>2, <2>1, Induction
<1> QED  BY <1>3 DEF T, IsIterated

LEMMA LuaPower ==
  ASSUME NEW a \in Int, NEW n \in Nat
  PROVE  \E g : /\ \A i \in 0 .. n : g[i] = IF i = 0 THEN 1
                                            ELSE IF g[i - 1] = Rounded THEN Rounded
                                            ELSE Lua!Double(g[i - 1] * a)
                /\ Lua!EXP(a, n) = g[n]
<1> DEFINE S == Lua!Exact \cup {Rounded}
           F == [v \in S |-> IF v = Rounded THEN Rounded ELSE Lua!Double(v * a)]
           Power(g) == g = [i \in 0 .. n |->
             IF i = 0 THEN 1
             ELSE IF g[i - 1] = Rounded THEN Rounded ELSE Lua!Double(g[i - 1] * a)]
<1>1. 1 \in S
  BY TruthAgrees DEF Agree, Lua!Pushed, Ref!U256
<1>2. F \in [S -> S]
  <2>1. ASSUME NEW v \in S, v # Rounded
        PROVE  Lua!Double(v * a) \in S
    <3>1. v \in Int
      BY <2>1, ExactInt
    <3>2. v * a \in Int
      BY <3>1, TimesInt
    <3> QED  BY <3>2, ExactFacts
  <2> QED  BY <2>1
<1> HIDE DEF S
<1>3. PICK g \in [0 .. n -> S] : \A i \in 0 .. n : g[i] = IF i = 0 THEN 1 ELSE F[g[i - 1]]
  <2> HIDE DEF F
  <2>1. \E g \in [0 .. n -> S] : IsIterated(g, F, 1, n)
    BY <1>1, <1>2, StepsDefined
  <2> QED  BY <2>1 DEF IsIterated
<1>4. \A i \in 0 .. n :
        g[i] = IF i = 0 THEN 1
               ELSE IF g[i - 1] = Rounded THEN Rounded ELSE Lua!Double(g[i - 1] * a)
  <2> TAKE i \in 0 .. n
  <2>1. CASE i = 0
    BY <1>3, <2>1
  <2>2. CASE i # 0
    <3>1. i - 1 \in 0 .. n
      BY <2>2
    <3>2. g[i - 1] \in S
      BY <3>1
    <3>3. g[i] = F[g[i - 1]]
      BY <1>3, <2>2
    <3> QED  BY <2>2, <3>2, <3>3
  <2> QED  BY <2>1, <2>2
<1>5. Power(g)
  <2>1. g = [i \in 0 .. n |-> g[i]]
    OBVIOUS
  <2> QED  BY <1>4, <2>1
<1> DEFINE h == CHOOSE f : Power(f)
<1>6. Power(h)
  <2> HIDE DEF Power
  <2> QED  BY <1>5
<1>7. Lua!EXP(a, n) = h[n]
  <2>1. ~ (n < 0)
    OBVIOUS
  <2> QED  BY <2>1 DEF Lua!EXP
<1> HIDE DEF h
<1>8. \A i \in 0 .. n :
        h[i] = IF i = 0 THEN 1
               ELSE IF h[i - 1] = Rounded THEN Rounded ELSE Lua!Double(h[i - 1] * a)
  BY <1>6
<1> QED  BY <1>7, <1>8

LEMMA RefPower ==
  ASSUME NEW x \in Int, NEW n \in Nat
  PROVE  \E g : /\ \A i \in 0 .. n : g[i] = IF i = 0 THEN 1 ELSE Ref!Wrap(g[i - 1] * x)
                /\ Ref!Exp(x, n) = g[n]
<1> DEFINE W(v) == Ref!Wrap(v * x)
           F == [v \in Int |-> W(v)]
           Power(g) == g = [i \in 0 .. n |-> IF i = 0 THEN 1 ELSE Ref!Wrap(g[i - 1] * x)]
<1>1. F \in [Int -> Int] /\ 1 \in Int
  <2>1. ASSUME NEW v \in Int
        PROVE  W(v) \in Int
    <3>1. v * x \in Int /\ Ref!Modulus \in Nat \ {0}
      BY TimesInt, Moduli
    <3>2. (v * x) % Ref!Modulus \in 0 .. Ref!Modulus - 1
      BY <3>1, QuotientFacts
    <3> QED  BY <3>1, <3>2 DEF Ref!Wrap
  <2> HIDE DEF W
  <2> QED  BY <2>1
<1>2. PICK g \in [0 .. n -> Int] : \A i \in 0 .. n : g[i] = IF i = 0 THEN 1 ELSE F[g[i - 1]]
  <2> HIDE DEF F
  <2>1. \E g \in [0 .. n -> Int] : IsIterated(g, F, 1, n)
    BY <1>1, StepsDefined
  <2> QED  BY <2>1 DEF IsIterated
<1>3. \A i \in 0 .. n : g[i] = IF i = 0 THEN 1 ELSE Ref!Wrap(g[i - 1] * x)
  <2> TAKE i \in 0 .. n
  <2>1. CASE i = 0
    BY <1>2, <2>1
  <2>2. CASE i # 0
    <3>1. i - 1 \in 0 .. n
      BY <2>2
    <3>2. g[i - 1] \in Int
      BY <3>1
    <3>3. g[i] = F[g[i - 1]]
      BY <1>2, <2>2
    <3> QED  BY <2>2, <3>2, <3>3
  <2> QED  BY <2>1, <2>2
<1>4. Power(g)
  <2>1. g = [i \in 0 .. n |-> g[i]]
    OBVIOUS
  <2> QED  BY <1>3, <2>1
<1> DEFINE h == CHOOSE f : Power(f)
<1>5. Power(h)
  <2> HIDE DEF Power
  <2> QED  BY <1>4
<1>6. Ref!Exp(x, n) = h[n]
  BY DEF Ref!Exp
<1> HIDE DEF h
<1>7. \A i \in 0 .. n : h[i] = IF i = 0 THEN 1 ELSE Ref!Wrap(h[i - 1] * x)
  BY <1>5
<1> QED  BY <1>6, <1>7

\* Multiplication by multiplication, until one is rounded.
LEMMA EXPAgrees ==
  ASSUME NEW a, NEW x, Agree(a, x), NEW b, NEW y, Agree(b, y), b >= 0, Lua!EXP(a, b) # Rounded
  PROVE  Agree(Lua!EXP(a, b), Ref!Exp(x, y))
<1>1. a \in Int /\ x \in Int /\ b \in Nat /\ y = b
  BY AgreeNatural, AgreeFacts
<1>2. PICK g : /\ \A i \in 0 .. b : g[i] = IF i = 0 THEN 1
                                           ELSE IF g[i - 1] = Rounded THEN Rounded
                                           ELSE Lua!Double(g[i - 1] * a)
               /\ Lua!EXP(a, b) = g[b]
  BY <1>1, LuaPower
<1>3. PICK h : /\ \A i \in 0 .. b : h[i] = IF i = 0 THEN 1 ELSE Ref!Wrap(h[i - 1] * x)
               /\ Ref!Exp(x, b) = h[b]
  BY <1>1, RefPower
<1> DEFINE T == {i \in Nat : i <= b => g[i] = Rounded \/ Agree(g[i], h[i])}
<1>4. 0 \in T
  <2>1. Agree(1, 1)
    BY TruthAgrees DEF Lua!Pushed, Ref!U256
  <2>2. 0 \in 0 .. b
    BY <1>1
  <2>3. g[0] = 1 /\ h[0] = 1
    BY <1>2, <1>3, <2>2
  <2> QED  BY <2>1, <2>3
<1>5. ASSUME NEW i \in T
      PROVE  i + 1 \in T
  <2> SUFFICES ASSUME i + 1 <= b, g[i + 1] # Rounded
               PROVE  Agree(g[i + 1], h[i + 1])
    BY <1>5
  <2>1. i \in Nat /\ i <= b /\ i + 1 \in 0 .. b /\ i + 1 # 0 /\ (i + 1) - 1 = i
    BY <1>1, <1>5
  <2>2. g[i + 1] = (IF g[i] = Rounded THEN Rounded ELSE Lua!Double(g[i] * a))
        /\ h[i + 1] = Ref!Wrap(h[i] * x)
    BY <1>2, <1>3, <2>1
  <2>3. Agree(g[i], h[i])
    BY <1>5, <2>1, <2>2
  <2>4. g[i + 1] = Lua!MUL(g[i], a) /\ h[i + 1] = Ref!Mul(h[i], x)
    BY <2>2 DEF Lua!MUL, Ref!Mul
  <2> QED  BY <2>3, <2>4, MULAgrees
<1> HIDE DEF T
<1>6. T = Nat
  <2>1. T \in SUBSET Nat
    BY DEF T
  <2> QED  BY <1>4, <1>5, <2>1, Induction
<1>7. b \in T /\ b <= b
  BY <1>1, <1>6
<1> QED  BY <1>1, <1>2, <1>3, <1>7 DEF T


------------------------------------------------------------------------------
(***************************************************************************)
(* The program.                                                            *)
(***************************************************************************)
\* On every operand an opcode of evm.lua is meant for, however it was computed, the result
\* represents the one of the reference (evm.lua:604-912 and 1360-1398, arithmetic.py,
\* comparison.py, bitwise.py): negative numbers in place of large words included.
THEOREM ResultAgrees ==
  ASSUME NEW op \in Ops, NEW s, NEW t \in Seq(Ref!Word), Len(t) >= Arity(op),
         \A i \in 1 .. Arity(op) : Agree(s[i], t[i]),
         Meant(op, s), LuaResult(op, s) # Rounded
  PROVE  Agree(LuaResult(op, s), RefResult(op, Operands(op, t)))
<1> DEFINE u == Operands(op, t)
<1>1. Arity(op) \in 1 .. 3 /\ op \in Unary \cup Binary \cup Ternary
  BY WidthAssumption DEF Arity
<1>2. op \in Reversed => u[1] = t[2] /\ u[2] = t[1]
  <2> SUFFICES ASSUME op \in Reversed PROVE u[1] = t[2] /\ u[2] = t[1]
    OBVIOUS
  <2>1. Arity(op) = 2
    BY DEF Reversed, Arity, Unary, Binary
  <2>2. 1 \in DOMAIN t /\ 2 \in DOMAIN t
    BY <2>1
  <2>3. u = [t EXCEPT ![1] = t[2], ![2] = t[1]]
    BY DEF Operands, Ref!SwapN, Ref!Item
  <2> QED  BY <2>2, <2>3
<1>3. op \notin Reversed => u = t
  BY DEF Operands
<1>4. Agree(s[1], t[1])
  BY <1>1
<1> HIDE DEF u
<1>5. CASE op = "ISZERO"
  <2>1. LuaResult(op, s) = Lua!ISZERO(s[1]) /\ RefResult(op, u) = Ref!IsZero(t[1])
    BY <1>3, <1>5 DEF LuaResult, RefResult, Reversed
  <2> QED  BY <1>4, <2>1, ISZEROAgrees DEF u
<1>6. CASE op = "ADD"
  <2>1. LuaResult(op, s) = Lua!ADD(s[1], s[2])
    BY <1>6 DEF LuaResult
  <2>2. RefResult(op, u) = Ref!Add(t[1], t[2])
    BY <1>6, <1>3 DEF RefResult, Reversed
  <2>3. Agree(s[2], t[2])
    BY <1>6 DEF Arity, Unary, Binary, Meant
  <2> QED  BY <1>4, <2>1, <2>2, <2>3, ADDAgrees DEF u
<1>7. CASE op = "MUL"
  <2>1. LuaResult(op, s) = Lua!MUL(s[1], s[2])
    BY <1>7 DEF LuaResult
  <2>2. RefResult(op, u) = Ref!Mul(t[1], t[2])
    BY <1>7, <1>3 DEF RefResult, Reversed
  <2>3. Agree(s[2], t[2])
    BY <1>7 DEF Arity, Unary, Binary, Meant
  <2> QED  BY <1>4, <2>1, <2>2, <2>3, MULAgrees DEF u
<1>8. CASE op = "SUB"
  <2>1. LuaResult(op, s) = Lua!SUB(s[1], s[2])
    BY <1>8 DEF LuaResult
  <2>2. RefResult(op, u) = Ref!Sub(t[1], t[2])
    BY <1>8, <1>3 DEF RefResult, Reversed
  <2>3. Agree(s[2], t[2])
    BY <1>8 DEF Arity, Unary, Binary, Meant
  <2> QED  BY <1>4, <2>1, <2>2, <2>3, SUBAgrees DEF u
<1>9. CASE op = "DIV"
  <2>1. LuaResult(op, s) = Lua!DIV(s[1], s[2])
    BY <1>9 DEF LuaResult
  <2>2. RefResult(op, u) = Ref!Div(t[1], t[2])
    BY <1>9, <1>3 DEF RefResult, Reversed
  <2>3. Agree(s[2], t[2]) /\ s[1] >= 0 /\ s[2] >= 0
    BY <1>9 DEF Arity, Unary, Binary, Meant
  <2> QED  BY <1>4, <2>1, <2>2, <2>3, DIVAgrees DEF u
<1>10. CASE op = "SDIV"
  <2>1. LuaResult(op, s) = Lua!SDIV(s[1], s[2])
    BY <1>10 DEF LuaResult
  <2>2. RefResult(op, u) = Ref!SDiv(t[1], t[2])
    BY <1>10, <1>3 DEF RefResult, Reversed
  <2>3. Agree(s[2], t[2])
    BY <1>10 DEF Arity, Unary, Binary, Meant
  <2> QED  BY <1>4, <2>1, <2>2, <2>3, SDIVAgrees DEF u
<1>11. CASE op = "MOD"
  <2>1. LuaResult(op, s) = Lua!MOD(s[1], s[2])
    BY <1>11 DEF LuaResult
  <2>2. RefResult(op, u) = Ref!Mod(t[1], t[2])
    BY <1>11, <1>3 DEF RefResult, Reversed
  <2>3. Agree(s[2], t[2]) /\ s[1] >= 0 /\ s[2] >= 0
    BY <1>11 DEF Arity, Unary, Binary, Meant
  <2> QED  BY <1>4, <2>1, <2>2, <2>3, MODAgrees DEF u
<1>12. CASE op = "SMOD"
  <2>1. LuaResult(op, s) = Lua!SMOD(s[1], s[2])
    BY <1>12 DEF LuaResult
  <2>2. RefResult(op, u) = Ref!SMod(t[1], t[2])
    BY <1>12, <1>3 DEF RefResult, Reversed
  <2>3. Agree(s[2], t[2]) /\ s[1] >= 0 /\ s[2] >= 0
    BY <1>12 DEF Arity, Unary, Binary, Meant
  <2> QED  BY <1>4, <2>1, <2>2, <2>3, SMODAgrees DEF u
<1>13. CASE op = "EXP"
  <2>1. LuaResult(op, s) = Lua!EXP(s[1], s[2])
    BY <1>13 DEF LuaResult
  <2>2. RefResult(op, u) = Ref!Exp(t[1], t[2])
    BY <1>13, <1>3 DEF RefResult, Reversed
  <2>3. Agree(s[2], t[2]) /\ s[2] >= 0
    BY <1>13 DEF Arity, Unary, Binary, Meant
  <2> QED  BY <1>4, <2>1, <2>2, <2>3, EXPAgrees DEF u
<1>14. CASE op = "SIGNEXTEND"
  <2>1. LuaResult(op, s) = Lua!SIGNEXTEND(s[1], s[2])
    BY <1>14 DEF LuaResult
  <2>2. RefResult(op, u) = Ref!SignExtend(t[1], t[2])
    BY <1>14, <1>3 DEF RefResult, Reversed
  <2>3. Agree(s[2], t[2]) /\ s[1] >= 0
    BY <1>14 DEF Arity, Unary, Binary, Meant
  <2> QED  BY <1>4, <2>1, <2>2, <2>3, SIGNEXTENDAgrees DEF u
<1>15. CASE op = "LT"
  <2>1. LuaResult(op, s) = Lua!LT(s[1], s[2])
    BY <1>15 DEF LuaResult
  <2>2. RefResult(op, u) = Ref!LessThan(t[2], t[1])
    BY <1>15, <1>2 DEF RefResult, Reversed
  <2>3. Agree(s[2], t[2]) /\ s[1] >= 0 /\ s[2] >= 0
    BY <1>15 DEF Arity, Unary, Binary, Meant
  <2> QED  BY <1>4, <2>1, <2>2, <2>3, LTAgrees DEF u
<1>16. CASE op = "GT"
  <2>1. LuaResult(op, s) = Lua!GT(s[1], s[2])
    BY <1>16 DEF LuaResult
  <2>2. RefResult(op, u) = Ref!GreaterThan(t[2], t[1])
    BY <1>16, <1>2 DEF RefResult, Reversed
  <2>3. Agree(s[2], t[2]) /\ s[1] >= 0 /\ s[2] >= 0
    BY <1>16 DEF Arity, Unary, Binary, Meant
  <2> QED  BY <1>4, <2>1, <2>2, <2>3, LTAgrees DEF u
<1>17. CASE op = "SLT"
  <2>1. LuaResult(op, s) = Lua!SLT(s[1], s[2])
    BY <1>17 DEF LuaResult
  <2>2. RefResult(op, u) = Ref!SignedLessThan(t[2], t[1])
    BY <1>17, <1>2 DEF RefResult, Reversed
  <2>3. Agree(s[2], t[2])
    BY <1>17 DEF Arity, Unary, Binary, Meant
  <2> QED  BY <1>4, <2>1, <2>2, <2>3, SLTAgrees DEF u
<1>18. CASE op = "SGT"
  <2>1. LuaResult(op, s) = Lua!SGT(s[1], s[2])
    BY <1>18 DEF LuaResult
  <2>2. RefResult(op, u) = Ref!SignedGreaterThan(t[2], t[1])
    BY <1>18, <1>2 DEF RefResult, Reversed
  <2>3. Agree(s[2], t[2])
    BY <1>18 DEF Arity, Unary, Binary, Meant
  <2> QED  BY <1>4, <2>1, <2>2, <2>3, SLTAgrees DEF u
<1>19. CASE op = "EQ"
  <2>1. LuaResult(op, s) = Lua!EQ(s[1], s[2])
    BY <1>19 DEF LuaResult
  <2>2. RefResult(op, u) = Ref!Equal(t[1], t[2])
    BY <1>19, <1>3 DEF RefResult, Reversed
  <2>3. Agree(s[2], t[2])
    BY <1>19 DEF Arity, Unary, Binary, Meant
  <2> QED  BY <1>4, <2>1, <2>2, <2>3, EQAgrees DEF u
<1>20. CASE op = "AND"
  <2>1. LuaResult(op, s) = Lua!AND(s[1], s[2])
    BY <1>20 DEF LuaResult
  <2>2. RefResult(op, u) = Ref!BitwiseAnd(t[1], t[2])
    BY <1>20, <1>3 DEF RefResult, Reversed
  <2>3. Agree(s[2], t[2]) /\ (s[1] >= 0 \/ s[2] >= 0)
    BY <1>20 DEF Arity, Unary, Binary, Meant
  <2> QED  BY <1>4, <2>1, <2>2, <2>3, ANDAgrees DEF u
<1>21. CASE op = "OR"
  <2>1. LuaResult(op, s) = Lua!OR(s[1], s[2])
    BY <1>21 DEF LuaResult
  <2>2. RefResult(op, u) = Ref!BitwiseOr(t[1], t[2])
    BY <1>21, <1>3 DEF RefResult, Reversed
  <2>3. Agree(s[2], t[2]) /\ s[1] >= 0 /\ s[2] >= 0
    BY <1>21 DEF Arity, Unary, Binary, Meant
  <2> QED  BY <1>4, <2>1, <2>2, <2>3, ORAgrees DEF u
<1>22. CASE op = "XOR"
  <2>1. LuaResult(op, s) = Lua!XOR(s[1], s[2])
    BY <1>22 DEF LuaResult
  <2>2. RefResult(op, u) = Ref!BitwiseXor(t[1], t[2])
    BY <1>22, <1>3 DEF RefResult, Reversed
  <2>3. Agree(s[2], t[2]) /\ s[1] >= 0 /\ s[2] >= 0
    BY <1>22 DEF Arity, Unary, Binary, Meant
  <2> QED  BY <1>4, <2>1, <2>2, <2>3, XORAgrees DEF u
<1>23. CASE op = "BYTE"
  <2>1. LuaResult(op, s) = Lua!BYTE(s[1], s[2])
    BY <1>23 DEF LuaResult
  <2>2. RefResult(op, u) = Ref!GetByte(t[1], t[2])
    BY <1>23, <1>3 DEF RefResult, Reversed
  <2>3. Agree(s[2], t[2])
    BY <1>23 DEF Arity, Unary, Binary, Meant
  <2> QED  BY <1>4, <2>1, <2>2, <2>3, BYTEAgrees DEF u
<1>24. CASE op = "SHL"
  <2>1. LuaResult(op, s) = Lua!SHL(s[1], s[2])
    BY <1>24 DEF LuaResult
  <2>2. RefResult(op, u) = Ref!BitwiseShl(t[1], t[2])
    BY <1>24, <1>3 DEF RefResult, Reversed
  <2>3. Agree(s[2], t[2]) /\ s[1] >= 0
    BY <1>24 DEF Arity, Unary, Binary, Meant
  <2> QED  BY <1>4, <2>1, <2>2, <2>3, SHLAgrees DEF u
<1>25. CASE op = "SHR"
  <2>1. LuaResult(op, s) = Lua!SHR(s[1], s[2])
    BY <1>25 DEF LuaResult
  <2>2. RefResult(op, u) = Ref!BitwiseShr(t[2], t[1])
    BY <1>25, <1>2 DEF RefResult, Reversed
  <2>3. Agree(s[2], t[2]) /\ s[1] >= 0 /\ s[2] >= 0
    BY <1>25 DEF Arity, Unary, Binary, Meant
  <2> QED  BY <1>4, <2>1, <2>2, <2>3, SHRAgrees DEF u
<1>26. CASE op = "SAR"
  <2>1. LuaResult(op, s) = Lua!SAR(s[1], s[2])
    BY <1>26 DEF LuaResult
  <2>2. RefResult(op, u) = Ref!BitwiseSar(t[1], t[2])
    BY <1>26, <1>3 DEF RefResult, Reversed
  <2>3. Agree(s[2], t[2]) /\ s[1] >= 0 /\ (s[1] < BITS \/ s[2] >= 0)
    BY <1>26 DEF Arity, Unary, Binary, Meant
  <2> QED  BY <1>4, <2>1, <2>2, <2>3, SARAgrees DEF u
<1>27. ASSUME op \in Ternary
       PROVE  Agree(s[2], t[2]) /\ Agree(s[3], t[3]) /\ s[1] >= 0 /\ s[2] >= 0 /\ s[3] >= 0
  BY <1>27 DEF Arity, Unary, Binary, Ternary, Meant
<1>28. CASE op = "ADDMOD"
  <2>1. LuaResult(op, s) = Lua!ADDMOD(s[1], s[2], s[3])
    BY <1>28 DEF LuaResult
  <2>2. RefResult(op, u) = Ref!AddMod(t[1], t[2], t[3])
    BY <1>28, <1>3 DEF RefResult, Reversed
  <2> QED  BY <1>4, <1>27, <1>28, <2>1, <2>2, ADDMODAgrees DEF u, Ternary
<1>29. CASE op = "MULMOD"
  <2>1. LuaResult(op, s) = Lua!MULMOD(s[1], s[2], s[3])
    BY <1>29 DEF LuaResult
  <2>2. RefResult(op, u) = Ref!MulMod(t[1], t[2], t[3])
    BY <1>29, <1>3 DEF RefResult, Reversed
  <2> QED  BY <1>4, <1>27, <1>29, <2>1, <2>2, MULMODAgrees DEF u, Ternary
<1> QED
  BY <1>1, <1>5, <1>6, <1>7, <1>8, <1>9, <1>10, <1>11, <1>12, <1>13, <1>14, <1>15, 
     <1>16, <1>17, <1>18, <1>19, <1>20, <1>21, <1>22, <1>23, <1>24, <1>25, <1>26, <1>28, <1>29
  DEF Unary, Binary, Ternary

\* TypeOK and InStep, item by item.
Stacks(s, t) ==
  /\ s \in Seq(Lua!Exact) /\ t \in Seq(Ref!Word) /\ Len(s) = Len(t)
  /\ \A i \in 1 .. Len(s) : Agree(s[i], t[i])

LEMMA StacksFacts ==
  ASSUME NEW s, NEW t
  PROVE  Stacks(s, t) <=> /\ s \in Seq(Lua!Exact) /\ t \in Seq(Ref!Word) /\ Len(s) = Len(t)
                          /\ \A i \in DOMAIN s : Represents(s[i], t[i])
<1>1. ASSUME s \in Seq(Lua!Exact), t \in Seq(Ref!Word), Len(s) = Len(t), NEW i \in 1 .. Len(s)
      PROVE  Agree(s[i], t[i]) <=> Represents(s[i], t[i])
  <2>1. s[i] \in Lua!Exact /\ t[i] \in Ref!Word
    BY <1>1
  <2> QED  BY <2>1 DEF Agree
<1>2. s \in Seq(Lua!Exact) => DOMAIN s = 1 .. Len(s)
  OBVIOUS
<1> QED  BY <1>1, <1>2 DEF Stacks

LEMMA StackPushed ==
  ASSUME NEW s, NEW t, Stacks(s, t), NEW v, NEW w, Agree(v, w)
  PROVE  Stacks(<<v>> \o s, <<w>> \o t) /\ Len(<<v>> \o s) = Len(s) + 1
<1> DEFINE a == <<v>> \o s
           b == <<w>> \o t
<1>1. s \in Seq(Lua!Exact) /\ t \in Seq(Ref!Word) /\ Len(s) = Len(t) /\ Len(s) \in Nat
      /\ v \in Lua!Exact /\ w \in Ref!Word
  BY DEF Stacks, Agree
<1>2. a \in Seq(Lua!Exact) /\ b \in Seq(Ref!Word) /\ Len(a) = Len(s) + 1 /\ Len(b) = Len(t) + 1
  BY <1>1
<1>3. ASSUME NEW i \in 1 .. Len(s) + 1
      PROVE  Agree(a[i], b[i])
  <2>1. CASE i = 1
    <3>1. a[1] = v /\ b[1] = w
      BY <1>1
    <3> QED  BY <2>1, <3>1
  <2>2. CASE i # 1
    <3>1. i - 1 \in 1 .. Len(s)
      BY <1>1, <2>2
    <3>2. a[i] = s[i - 1] /\ b[i] = t[i - 1]
      BY <1>1, <2>2, <3>1
    <3> QED  BY <3>1, <3>2 DEF Stacks
  <2> QED  BY <2>1, <2>2
<1> HIDE DEF a, b
<1>4. Stacks(a, b) /\ Len(a) = Len(s) + 1
  BY <1>1, <1>2, <1>3 DEF Stacks
<1> QED  BY <1>4 DEF a, b

\* The operands taken off both stacks.
LEMMA StackDropped ==
  ASSUME NEW s, NEW t, Stacks(s, t), NEW k \in Nat, k <= Len(s)
  PROVE  /\ Stacks(SubSeq(s, k + 1, Len(s)), SubSeq(t, k + 1, Len(t)))
         /\ Len(SubSeq(s, k + 1, Len(s))) = Len(s) - k
<1> DEFINE a == SubSeq(s, k + 1, Len(s))
           b == SubSeq(t, k + 1, Len(t))
<1>1. s \in Seq(Lua!Exact) /\ t \in Seq(Ref!Word) /\ Len(s) = Len(t) /\ Len(s) \in Nat
  BY DEF Stacks
<1>2. \A i \in 1 .. Len(s) - k : k + i \in 1 .. Len(s) /\ (k + 1) + i - 1 = k + i
  BY <1>1
<1>3. /\ a \in Seq(Lua!Exact) /\ Len(a) = Len(s) - k
      /\ b \in Seq(Ref!Word) /\ Len(b) = Len(s) - k
      /\ \A i \in 1 .. Len(s) - k : a[i] = s[k + i] /\ b[i] = t[k + i]
  <2>1. k + 1 \in 1 .. Len(s) + 1
    BY <1>1
  <2>2. a \in Seq(Lua!Exact) /\ b \in Seq(Ref!Word)
    BY <1>1, <2>1
  <2>3. Len(a) = Len(s) - k /\ Len(b) = Len(s) - k
    BY <1>1, <2>1
  <2>4. \A i \in 1 .. Len(s) - k : a[i] = s[k + i] /\ b[i] = t[k + i]
    BY <1>1, <1>2, <2>1
  <2> QED  BY <2>2, <2>3, <2>4
<1> HIDE DEF a, b
<1>4. Stacks(a, b) /\ Len(a) = Len(s) - k
  BY <1>1, <1>2, <1>3 DEF Stacks
<1> QED  BY <1>4 DEF a, b

LEMMA StackTail ==
  ASSUME NEW s, NEW t, Stacks(s, t), s # <<>>
  PROVE  Stacks(Tail(s), Tail(t)) /\ Len(Tail(s)) = Len(s) - 1
<1>1. s \in Seq(Lua!Exact) /\ t \in Seq(Ref!Word) /\ Len(s) = Len(t) /\ Len(s) \in Nat
  BY DEF Stacks
<1>2. t # <<>> /\ 1 <= Len(s)
  BY <1>1
<1>3. /\ Tail(s) \in Seq(Lua!Exact) /\ Len(Tail(s)) = Len(s) - 1
      /\ Tail(t) \in Seq(Ref!Word) /\ Len(Tail(t)) = Len(s) - 1
  BY <1>1, <1>2
<1>4. \A i \in 1 .. Len(s) - 1 :
        i + 1 \in 1 .. Len(s) /\ Tail(s)[i] = s[i + 1] /\ Tail(t)[i] = t[i + 1]
  BY <1>1, <1>2
<1> QED  BY <1>1, <1>3, <1>4 DEF Stacks

LEMMA StackSwapped ==
  ASSUME NEW s, NEW t, Stacks(s, t), NEW n \in Nat, 1 <= n, n < Len(s)
  PROVE  Stacks(Lua!SWAP(s, n), Ref!SwapN(t, n)) /\ Len(Lua!SWAP(s, n)) = Len(s)
<1> DEFINE a == [s EXCEPT ![1] = s[n + 1], ![n + 1] = s[1]]
           b == [t EXCEPT ![1] = t[n + 1], ![n + 1] = t[1]]
<1>1. s \in Seq(Lua!Exact) /\ t \in Seq(Ref!Word) /\ Len(s) = Len(t) /\ Len(s) \in Nat
  BY DEF Stacks
<1>2. 1 \in 1 .. Len(s) /\ n + 1 \in 1 .. Len(s)
  BY <1>1
<1>3. Lua!SWAP(s, n) = a /\ Ref!SwapN(t, n) = b
  BY DEF Lua!SWAP, Ref!SwapN, Ref!Item
<1>4. /\ a \in Seq(Lua!Exact) /\ Len(a) = Len(s)
      /\ b \in Seq(Ref!Word) /\ Len(b) = Len(s)
  BY <1>1, <1>2
<1>5. \A i \in 1 .. Len(s) :
        /\ a[i] = IF i = n + 1 THEN s[1] ELSE IF i = 1 THEN s[n + 1] ELSE s[i]
        /\ b[i] = IF i = n + 1 THEN t[1] ELSE IF i = 1 THEN t[n + 1] ELSE t[i]
  BY <1>1, <1>2
<1> HIDE DEF a, b
<1> QED  BY <1>1, <1>2, <1>3, <1>4, <1>5 DEF Stacks

------------------------------------------------------------------------------
LEMMA StartsInStep == Init => TypeOK /\ InStep
<1> SUFFICES ASSUME Init PROVE Stacks(lua, ref) /\ Len(lua) <= MaxDepth
  BY StacksFacts DEF TypeOK, InStep
<1>1. lua = <<>> /\ ref = <<>> /\ MaxDepth \in Nat
  BY Widths DEF Init
<1> QED  BY <1>1 DEF Stacks

LEMMA StepsInStep == TypeOK /\ InStep /\ [Next]_vars => (TypeOK /\ InStep)'
<1> SUFFICES ASSUME TypeOK, InStep, [Next]_vars
             PROVE  Stacks(lua', ref') /\ Len(lua') <= MaxDepth
  <2>1. Stacks(lua', ref') /\ Len(lua') <= MaxDepth <=> (TypeOK /\ InStep)'
    BY StacksFacts DEF TypeOK, InStep
  <2> QED  BY <2>1
<1>1. Stacks(lua, ref) /\ Len(lua) <= MaxDepth
  BY StacksFacts DEF TypeOK, InStep
<1>2. MaxDepth \in Nat /\ Len(lua) \in Nat /\ Len(ref) = Len(lua)
      /\ lua \in Seq(Lua!Exact) /\ ref \in Seq(Ref!Word)
  BY <1>1, Widths DEF Stacks
<1>3. ASSUME NEW v \in Immediates, Push(v)
      PROVE  Stacks(lua', ref') /\ Len(lua') <= MaxDepth
  <2>1. v \in Nat /\ v < 2 ^ MANTISSA
    BY WidthAssumption, Moduli
  <2>2. Agree(v, v)
    BY <2>1, SameNatural
  <2>3. lua' = <<v>> \o lua /\ ref' = <<v>> \o ref /\ Len(lua) < MaxDepth
    BY <1>3 DEF Push, Lua!PUSH, Ref!PushN
  <2>4. Stacks(<<v>> \o lua, <<v>> \o ref) /\ Len(<<v>> \o lua) = Len(lua) + 1
    BY <1>1, <2>2, StackPushed
  <2> QED  BY <1>2, <2>3, <2>4
<1>4. ASSUME Pop
      PROVE  Stacks(lua', ref') /\ Len(lua') <= MaxDepth
  <2>1. lua' = Tail(lua) /\ ref' = Tail(ref) /\ lua # <<>>
    BY <1>4 DEF Pop, Lua!POP, Ref!PopItem
  <2>2. Stacks(Tail(lua), Tail(ref)) /\ Len(Tail(lua)) = Len(lua) - 1
    BY <1>1, <2>1, StackTail
  <2> QED  BY <1>1, <1>2, <2>1, <2>2
<1>5. ASSUME NEW n \in 1 .. MaxDepth, Dup(n)
      PROVE  Stacks(lua', ref') /\ Len(lua') <= MaxDepth
  <2>1. n \in 1 .. Len(lua) /\ (n - 1) + 1 = n /\ Len(lua) < MaxDepth
    BY <1>2, <1>5 DEF Dup
  <2>2. Agree(lua[n], ref[n])
    BY <1>1, <2>1 DEF Stacks
  <2>3. lua' = <<lua[n]>> \o lua /\ ref' = <<ref[n]>> \o ref
    BY <1>5, <2>1 DEF Dup, Lua!DUP, Ref!DupN, Ref!PushN, Ref!Item
  <2>4. Stacks(<<lua[n]>> \o lua, <<ref[n]>> \o ref) /\ Len(<<lua[n]>> \o lua) = Len(lua) + 1
    BY <1>1, <2>2, StackPushed
  <2> QED  BY <1>2, <2>1, <2>3, <2>4
<1>6. ASSUME NEW n \in 1 .. MaxDepth, Swap(n)
      PROVE  Stacks(lua', ref') /\ Len(lua') <= MaxDepth
  <2>1. n \in Nat /\ 1 <= n /\ n < Len(lua) /\ lua' = Lua!SWAP(lua, n) /\ ref' = Ref!SwapN(ref, n)
    BY <1>6 DEF Swap
  <2>2. Stacks(Lua!SWAP(lua, n), Ref!SwapN(ref, n)) /\ Len(Lua!SWAP(lua, n)) = Len(lua)
    BY <1>1, <2>1, StackSwapped
  <2> QED  BY <1>1, <2>1, <2>2
<1>7. ASSUME NEW op \in Ops, Apply(op)
      PROVE  Stacks(lua', ref') /\ Len(lua') <= MaxDepth
  <2> DEFINE v == LuaResult(op, lua)
             w == RefResult(op, Operands(op, ref))
             k == Arity(op)
             below == SubSeq(lua, k + 1, Len(lua))
             under == SubSeq(ref, k + 1, Len(ref))
  <2>1. k \in Nat /\ 1 <= k /\ k <= Len(lua) /\ k <= Len(ref)
    BY <1>2, <1>7 DEF Apply, Arity
  <2>2. Meant(op, lua) /\ v # Rounded /\ lua' = <<v>> \o below /\ ref' = <<w>> \o under
    BY <1>7 DEF Apply, Below
  <2>3. \A i \in 1 .. k : Agree(lua[i], ref[i])
    BY <1>1, <1>2, <2>1 DEF Stacks
  <2>4. Agree(v, w)
    <3>1. Len(ref) >= Arity(op)
      BY <1>2, <2>1
    <3> HIDE DEF k
    <3> QED  BY <1>2, <2>2, <2>3, <3>1, ResultAgrees DEF k
  <2> HIDE DEF v, w, k
  <2>5. Stacks(below, under) /\ Len(below) = Len(lua) - k
    BY <1>1, <2>1, StackDropped
  <2> HIDE DEF below, under
  <2>6. Stacks(<<v>> \o below, <<w>> \o under) /\ Len(<<v>> \o below) = Len(below) + 1
    BY <2>4, <2>5, StackPushed
  <2>7. Stacks(lua', ref') /\ Len(lua') = Len(below) + 1
    BY <2>2, <2>6, ZenonT(30)
  <2>8. Len(lua) - k + 1 <= MaxDepth
    BY <1>1, <1>2, <2>1
  <2> QED  BY <2>5, <2>7, <2>8
<1>8. CASE UNCHANGED vars
  BY <1>1, <1>8 DEF vars
<1> QED  BY <1>3, <1>4, <1>5, <1>6, <1>7, <1>8 DEF Next

\* However long the program, the stacks hold exact doubles and words (evm.lua:605-912 and
\* 1360-1398): an opcode in the operands it is meant for leaves no other number.
THEOREM WordTypeCorrect == Spec => []TypeOK
<1>1. Init => TypeOK /\ InStep
  BY StartsInStep
<1>2. TypeOK /\ InStep /\ [Next]_vars => (TypeOK /\ InStep)'
  BY StepsInStep
<1> QED  BY <1>1, <1>2, PTL DEF Spec

\* However long the program and however wide the word, evm.lua's stack of doubles
\* represents the reference's stack of words, as long as no result is rounded and the
\* opcodes meet the operands they are meant for (evm.lua:605-912 and 1360-1398).
THEOREM StacksInStep == Spec => []InStep
<1>1. Init => TypeOK /\ InStep
  BY StartsInStep
<1>2. TypeOK /\ InStep /\ [Next]_vars => (TypeOK /\ InStep)'
  BY StepsInStep
<1> QED  BY <1>1, <1>2, PTL DEF Spec

=============================================================================
