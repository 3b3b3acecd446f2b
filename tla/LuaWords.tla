-------------------------------- MODULE LuaWords --------------------------------
(***************************************************************************)
(* What the same opcodes compute in evm.lua, on Lua numbers: doubles, here *)
(* the integers below 2^MANTISSA, beyond which a result is Rounded.  They  *)
(* may be negative.  a is the top of the stack, b is below it.  A stack s  *)
(* has its top first.                                                      *)
(***************************************************************************)
EXTENDS Integers, Sequences, FiniteSetsExt

CONSTANTS
  BITS,      \* width of a word, 256
  BYTEBITS,  \* width of a byte, 8
  LIMB,      \* width of split64's halves, 32
  MANTISSA,  \* width of the integers a double holds exactly, 53
  Rounded    \* a result outside of them

Exact     == {v \in -(2 ^ MANTISSA) .. 2 ^ MANTISSA : v # -(2 ^ MANTISSA) /\ v # 2 ^ MANTISSA}
Double(v) == IF -(2 ^ MANTISSA) < v /\ v < 2 ^ MANTISSA THEN v ELSE Rounded
Pushed(b) == IF b THEN 1 ELSE 0
Bytes     == BITS \div BYTEBITS

\* math.floor(a / b) and Lua's a % b, which has the sign of b.
FloorDiv(a, b) == IF b > 0 THEN a \div b ELSE (-a) \div (-b)
LuaMod(a, b)   == a - FloorDiv(a, b) * b

SignedArithmetic(v) == IF v >= 2 ^ (BITS - 1) THEN v - 2 ^ BITS ELSE v

------------------------------------------------------------------------------
\* band64 and bxor64: bit by bit in two halves. Halves that join beyond 2^MANTISSA, those
\* of a negative number, are rounded before the modulus of join64.
High(v) == (v \div 2 ^ LIMB) % 2 ^ LIMB
Low(v)  == v % 2 ^ LIMB
Join64(high, low) == Double(high * 2 ^ LIMB + low)

BitOf(v, k)    == (v \div 2 ^ k) % 2
FromBits(bits) == MapThenSumSet(LAMBDA k : 2 ^ k, bits)

Band32(v, w) == FromBits({k \in 0 .. LIMB - 1 : BitOf(v, k) = 1 /\ BitOf(w, k) = 1})
Bxor32(v, w) == FromBits({k \in 0 .. LIMB - 1 : BitOf(v, k) # BitOf(w, k)})

Band64(a, b) == Join64(Band32(High(a), High(b)), Band32(Low(a), Low(b)))
Bxor64(a, b) == Join64(Bxor32(High(a), High(b)), Bxor32(Low(a), Low(b)))

------------------------------------------------------------------------------
ADD(a, b) == Double(a + b)
MUL(a, b) == Double(a * b)
SUB(a, b) == Double(a - b)
DIV(a, b) == IF b = 0 THEN 0 ELSE FloorDiv(a, b)
MOD(a, b) == IF b = 0 THEN 0 ELSE LuaMod(a, b)

\* Bug: the quotient is rounded down, as in DIV.
BugSDIVRoundsDown(a, b) == IF b = 0 THEN 0 ELSE FloorDiv(a, b)

\* The quotient rounded towards 0.
SDIV(a, b) ==
  IF b = 0 THEN 0
  ELSE IF (a < 0) # (b < 0) THEN -FloorDiv(-a, b) ELSE FloorDiv(a, b)

\* The remainder already has the divisor's sign when the divisor is added.
SMOD(a, b) ==
  LET c == SignedArithmetic(a)
      d == SignedArithmetic(b)
      remainder == LuaMod(c, d)
  IN  IF d = 0 THEN 0
      ELSE IF (c < 0) # (d < 0) /\ remainder # 0 THEN remainder + d ELSE remainder

Modulo(v, n) == IF n = 0 THEN 0 ELSE IF v = Rounded THEN Rounded ELSE LuaMod(v, n)
ADDMOD(a, b, n) == Modulo(Double(a + b), n)
MULMOD(a, b, n) == Modulo(Double(a * b), n)

\* A loop of b multiplications, none when b is negative.
EXP(a, b) ==
  LET power[i \in 0 .. b] ==
        IF i = 0 THEN 1
        ELSE LET before == power[i - 1]
             IN  IF before = Rounded THEN Rounded ELSE Double(before * a)
  IN  IF b < 0 THEN 1 ELSE power[b]

\* From a sign bit of 1, the higher bits are added, not set.
SIGNEXTEND(i, x) ==
  LET position == i * BYTEBITS + BYTEBITS - 1
  IN  IF i >= Bytes THEN x
      ELSE IF i < 0 THEN Rounded
      ELSE IF BitOf(x, position) = 1 THEN Double(x + 2 ^ BITS - 2 ^ (position + 1))
      ELSE x % 2 ^ (position + 1)

\* LT and GT, and their signed twins, compare the second operand with the first.
LT(a, b)  == Pushed(a > b)
GT(a, b)  == Pushed(a < b)
SLT(a, b) == Pushed(a > b)
SGT(a, b) == Pushed(a < b)
EQ(a, b)  == Pushed(a = b)
ISZERO(a) == Pushed(a = 0)

AND(a, b) == Band64(a, b)
XOR(a, b) == Bxor64(a, b)

\* As long as one operand is positive, a bit at a time from the lowest.
OR(a, b) ==
  LET Going(k) == a \div 2 ^ k > 0 \/ b \div 2 ^ k > 0
      Bit(k)   == BitOf(a, k) = 1 \/ BitOf(b, k) = 1
  IN  FromBits({k \in 0 .. MANTISSA : Going(k) /\ Bit(k)})

BYTE(i, v) ==
  IF i \notin 0 .. Bytes - 1 THEN 0
  ELSE (v \div 2 ^ (BYTEBITS * (Bytes - 1 - i))) % 2 ^ BYTEBITS

\* A left shift by a negative number leaves the integers, a right shift is a left one.
Scaled(v, k) == IF v = 0 THEN 0 ELSE IF k < 0 \/ k >= MANTISSA THEN Rounded ELSE Double(v * 2 ^ k)

SHL(shift, v) == IF shift >= BITS THEN 0 ELSE Scaled(v, shift)

\* The value is popped first and the shift second.
SHR(v, shift) ==
  IF shift < 0 THEN Scaled(v, -shift)
  ELSE IF shift >= BITS THEN -Pushed(v < 0) ELSE v \div 2 ^ shift

SAR(shift, v) ==
  IF shift >= BITS THEN 0
  ELSE IF shift < 0 THEN Scaled(v, -shift) ELSE v \div 2 ^ shift

------------------------------------------------------------------------------
POP(s)     == Tail(s)
PUSH(s, v) == <<v>> \o s
DUP(s, n)  == <<s[n]>> \o s
SWAP(s, n) == [s EXCEPT ![1] = s[n + 1], ![n + 1] = s[1]]
=============================================================================
