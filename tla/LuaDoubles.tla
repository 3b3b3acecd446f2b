------------------------------ MODULE LuaDoubles ------------------------------
(***************************************************************************)
(* The numbers of Redis's Lua are IEEE-754 doubles: integers are exact up  *)
(* to 2^53, and further apart the larger they are.  What is needed of them *)
(* here ends at 2^63, where string.format's "%d" leaves the range of the   *)
(* long that it converts to.                                               *)
(***************************************************************************)
EXTENDS Integers

CONSTANT MaxExact   \* 2^53; small instances take another power of two

ASSUME ExactAssumption == MaxExact \in Nat /\ MaxExact >= 2

\* How far neighbouring doubles are apart, up to 2^63 = 1024 * 2^53.
Spacings == {1, 2, 4, 8, 16, 32, 64, 128, 256, 512, 1024}
MaxLong  == 1024 * MaxExact

Spacing(v) == CHOOSE u \in Spacings : v <= u * MaxExact /\ \A w \in Spacings : v <= w * MaxExact => u <= w

\* The nearest double of a natural number, the even one of two.
Nearest(v) ==
  LET u == Spacing(v)
      q == v \div u
      up == 2 * (v % u) > u \/ (2 * (v % u) = u /\ q % 2 = 1)
  IN  u * (IF up THEN q + 1 ELSE q)

\* Beyond 2^63 it makes no difference here which double a number becomes.
Double(v) == CASE v >= MaxLong -> v [] v <= -MaxLong -> v
               [] v \in 0 .. MaxLong - 1 -> Nearest(v)
               [] v \in -MaxLong + 1 .. -1 -> -Nearest(-v)

\* string.format("%d"): the conversion of a double that no long holds is undefined in C; it
\* gives the smallest long on x86-64 and the nearest one on ARM.
Formats(v) == IF v < MaxLong THEN {v} ELSE {-MaxLong, MaxLong - 1}
=============================================================================
