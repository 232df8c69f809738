-------------------------------- MODULE U64 --------------------------------
(***************************************************************************)
(* The uint64_t arithmetic of libminimk/integer/u64.h.                     *)
(*                                                                         *)
(* The width is a parameter: U64Max stands for UINT64_MAX.  C computes     *)
(* the sum and the difference of two uint64_t modulo U64Max + 1, so the    *)
(* operators below wrap instead of assuming that no overflow happens.      *)
(***************************************************************************)
EXTENDS Integers

CONSTANT U64Max    \* UINT64_MAX

ASSUME U64MaxAssumption == U64Max \in Nat \ {0}

U64 == 0 .. U64Max

(***************************************************************************)
(* a + b and a - b on uint64_t, for a and b in U64.                        *)
(***************************************************************************)
Add(a, b) == IF a + b > U64Max THEN a + b - (U64Max + 1) ELSE a + b
Sub(a, b) == IF a < b THEN a - b + (U64Max + 1) ELSE a - b

(***************************************************************************)
(* minimk_integer_u64_satadd.                                              *)
(***************************************************************************)
\* Slips: the sum wraps around, or has no width.
AddWraps(left, right) == Add(left, right)
AddUnbounded(left, right) == left + right
SatAdd(left, right) ==
    IF left <= Sub(U64Max, right) THEN Add(left, right) ELSE U64Max

\* The sum that a client means, without the code's arithmetic: for what the
\* modules remember of its requests.
SumOrMax(a, b) == IF a + b <= U64Max THEN a + b ELSE U64Max

(***************************************************************************)
(* minimk_integer_u64_satmul.  The code divides by right: zero is not an   *)
(* argument a caller may pass (it is undefined behaviour in C).            *)
(***************************************************************************)
\* Slips: the product wraps around, or saturates one too early.
MulWraps(left, right) == (left * right) % (U64Max + 1)
MulTooEarly(left, right) == IF left < U64Max \div right THEN left * right ELSE U64Max
SatMul(left, right) ==
    IF left <= U64Max \div right
    THEN (left * right) % (U64Max + 1)
    ELSE U64Max
=============================================================================
