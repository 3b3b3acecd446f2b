-------------------------- MODULE MCCallAgreement --------------------------
EXTENDS CallAgreement

CONSTANTS a, b, c, n, p, other

\* a and b have code, that of c is the empty string ("0x"), n is where creations end up.
MCInstalled == [x \in Addrs |-> CASE x \in {a, b} -> p [] x = c -> Empty [] OTHER -> NoCode]

MCDerive == [x \in Creators \X Seeds |-> n]

MCComputed == [x \in (Creators \X (0 .. MaxNonce)) \cup (Creators \X Salts \X Data) |-> n]

\* Bound: with these charges the cap is the number of opcodes that do not halt their frame.
MCOpCosts == [op \in Ops |-> IF op \in HaltOps \cup {"badjump"} THEN {0} ELSE {1}]

\* With numbers exact up to 2, and the even ones up to 4, 3 is rounded and 1 is not.
MCSupply == [x \in Addrs |-> CASE x = a -> 3 [] x = b -> 1 [] OTHER -> 0]

MCKeys == {[caller |-> Sender, value |-> 1], [caller |-> other, value |-> 0]}
=============================================================================
