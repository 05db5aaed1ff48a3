------------------------------ MODULE BitField ------------------------------
(***************************************************************************)
(* Words as the sets of their one bits: "|" is a union, a shift moves the  *)
(* members, and fields that overlap in the code overlap here as well.      *)
(***************************************************************************)
EXTENDS Integers, FiniteSetsExt

Bits(n, width) == {b \in 0 .. width - 1 : (n \div 2^b) % 2 = 1}
Shifted(s, by) == {b + by : b \in s}
Field(w, low, width) == {b - low : b \in w \intersect (low .. low + width - 1)}
Unsigned(s) == MapThenSumSet(LAMBDA b : 2^b, s)
Signed(s, width) == Unsigned(s) - (IF width - 1 \in s THEN 2^width ELSE 0)
Int16(n) == Signed(Bits(n, 16), 16)
=============================================================================
