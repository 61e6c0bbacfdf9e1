------------------------------ MODULE FullMath ------------------------------
(***************************************************************************)
(* OpenZeppelin Math as every CipherDEX contract uses it: full-precision   *)
(* mulDiv rounding down or up, and min.  Overflow of a result beyond 256   *)
(* bits reverts the call, so the integers are unbounded here.              *)
(***************************************************************************)
EXTENDS Integers

MulDiv(a, b, d) == (a * b) \div d
MulDivUp(a, b, d) == (a * b + (d - 1)) \div d
Least(a, b) == IF a <= b THEN a ELSE b
=============================================================================
