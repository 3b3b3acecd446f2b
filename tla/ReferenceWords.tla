----------------------------- MODULE ReferenceWords -----------------------------
(***************************************************************************)
(* What the arithmetic, comparison and bitwise opcodes compute, by the     *)
(* reference semantics kept in instructions/: functions of unsigned words. *)
(* x is the top of the stack, y is below it.  A stack s has its top first, *)
(* and its items are numbered from 0.                                      *)
(***************************************************************************)
EXTENDS Integers, Sequences, FiniteSetsExt

CONSTANTS
  BITS,      \* width of a word, 256
  BYTEBITS   \* width of a byte, 8

Modulus == 2 ^ BITS
Word    == 0 .. Modulus - 1
Bytes   == BITS \div BYTEBITS

Wrap(v)     == v % Modulus
ToSigned(x) == IF x >= 2 ^ (BITS - 1) THEN x - Modulus ELSE x
Abs(v)      == IF v < 0 THEN -v ELSE v
Sign(v)     == IF v < 0 THEN -1 ELSE IF v = 0 THEN 0 ELSE 1
U256(b)     == IF b THEN 1 ELSE 0

BitOf(x, k)    == (x \div 2 ^ k) % 2
FromBits(bits) == MapThenSumSet(LAMBDA k : 2 ^ k, bits)

------------------------------------------------------------------------------
Add(x, y) == Wrap(x + y)
Sub(x, y) == Wrap(x - y)
Mul(x, y) == Wrap(x * y)
Div(x, y) == IF y = 0 THEN 0 ELSE x \div y
Mod(x, y) == IF y = 0 THEN 0 ELSE x % y

\* The lowest number divided by -1 wraps to itself.
SDiv(x, y) ==
  LET a == ToSigned(x)
      b == ToSigned(y)
  IN  IF b = 0 THEN 0 ELSE Wrap(Sign(a * b) * (Abs(a) \div Abs(b)))

\* The sign is the dividend's.
SMod(x, y) ==
  LET a == ToSigned(x)
      b == ToSigned(y)
  IN  IF b = 0 THEN 0 ELSE Wrap(Sign(a) * (Abs(a) % Abs(b)))

AddMod(x, y, z) == IF z = 0 THEN 0 ELSE (x + y) % z
MulMod(x, y, z) == IF z = 0 THEN 0 ELSE (x * y) % z

Exp(x, y) ==
  LET power[i \in 0 .. y] == IF i = 0 THEN 1 ELSE Wrap(power[i - 1] * x)
  IN  power[y]

SignExtend(x, y) ==
  IF x >= Bytes THEN y
  ELSE LET width == BYTEBITS * (x + 1)
           low   == y % 2 ^ width
       IN  IF BitOf(low, width - 1) = 0 THEN low ELSE Wrap(low - 2 ^ width)

LessThan(x, y)          == U256(x < y)
SignedLessThan(x, y)    == U256(ToSigned(x) < ToSigned(y))
GreaterThan(x, y)       == U256(x > y)
SignedGreaterThan(x, y) == U256(ToSigned(x) > ToSigned(y))
Equal(x, y)             == U256(x = y)
IsZero(x)               == U256(x = 0)

BitwiseAnd(x, y) == FromBits({k \in 0 .. BITS - 1 : BitOf(x, k) = 1 /\ BitOf(y, k) = 1})
BitwiseOr(x, y)  == FromBits({k \in 0 .. BITS - 1 : BitOf(x, k) = 1 \/ BitOf(y, k) = 1})
BitwiseXor(x, y) == FromBits({k \in 0 .. BITS - 1 : BitOf(x, k) # BitOf(y, k)})

\* Byte 0 is the most significant.
GetByte(x, y) ==
  IF x >= Bytes THEN 0 ELSE (y \div 2 ^ (BYTEBITS * (Bytes - 1 - x))) % 2 ^ BYTEBITS

BitwiseShl(x, y) == IF x < BITS THEN Wrap(y * 2 ^ x) ELSE 0
BitwiseShr(x, y) == IF x < BITS THEN y \div 2 ^ x ELSE 0
BitwiseSar(x, y) ==
  IF x < BITS THEN Wrap(ToSigned(y) \div 2 ^ x)
  ELSE IF ToSigned(y) >= 0 THEN 0 ELSE Modulus - 1

------------------------------------------------------------------------------
PopItem(s)          == Tail(s)
PushN(s, v)         == <<v>> \o s
Item(s, number)     == s[number + 1]
DupN(s, number)     == PushN(s, Item(s, number))
SwapN(s, number)    == [s EXCEPT ![1] = Item(s, number), ![number + 1] = Item(s, 0)]
=============================================================================
