----------------------------- MODULE U64Proofs -----------------------------
(***************************************************************************)
(* The saturating operations never overflow, whatever the width.           *)
(***************************************************************************)
EXTENDS U64, TLAPS

LEMMA SatAddSaturates ==
    ASSUME NEW a \in U64, NEW b \in U64
    PROVE  SatAdd(a, b) = IF a + b <= U64Max THEN a + b ELSE U64Max
BY U64MaxAssumption DEF SatAdd, Add, Sub, U64

LEMMA SatAddIsMeant ==
    ASSUME NEW a \in U64, NEW b \in U64
    PROVE  SatAdd(a, b) = SumOrMax(a, b)
BY SatAddSaturates DEF SumOrMax

LEMMA SatAddType ==
    ASSUME NEW a \in U64, NEW b \in U64
    PROVE  SatAdd(a, b) \in U64
BY U64MaxAssumption, SatAddSaturates DEF U64

\* The test by division decides whether the product fits.
LEMMA DivisionTest ==
    ASSUME NEW a \in Nat, NEW b \in Nat \ {0}, NEW m \in Nat
    PROVE  a <= m \div b <=> a * b <= m
<1> DEFINE q == m \div b
<1>1. q \in Nat /\ q * b <= m /\ m < q * b + b
  OBVIOUS
<1> HIDE DEF q
<1>2. ASSUME a <= q PROVE a * b <= m
  <2>1. PICK d \in Nat : q = a + d
    <3>1. q - a \in Nat /\ q = a + (q - a)
      BY <1>1, <1>2
    <3> QED BY <3>1
  <2>2. (a + d) * b = a * b + d * b /\ d * b \in Nat /\ a * b \in Nat
    OBVIOUS
  <2> QED BY <1>1, <2>1, <2>2
<1>3. ASSUME a > q PROVE a * b > m
  <2>1. PICK d \in Nat : a = (q + 1) + d
    <3>1. a - (q + 1) \in Nat /\ a = (q + 1) + (a - (q + 1))
      BY <1>1, <1>3
    <3> QED BY <3>1
  <2>2. ((q + 1) + d) * b = (q + 1) * b + d * b /\ (q + 1) * b = q * b + b
        /\ d * b \in Nat /\ q * b \in Nat
    BY <1>1
  <2> QED BY <1>1, <2>1, <2>2
<1>4. a * b \in Nat
  OBVIOUS
<1> QED BY <1>1, <1>2, <1>3, <1>4 DEF q

LEMMA SatMulSaturates ==
    ASSUME NEW a \in U64, NEW b \in U64 \ {0}
    PROVE  SatMul(a, b) = IF a * b <= U64Max THEN a * b ELSE U64Max
<1>1. a \in Nat /\ b \in Nat \ {0} /\ U64Max \in Nat /\ a * b \in Nat
  BY U64MaxAssumption DEF U64
<1>2. a <= U64Max \div b <=> a * b <= U64Max
  BY <1>1, DivisionTest
<1>3. ASSUME a * b <= U64Max PROVE (a * b) % (U64Max + 1) = a * b
  <2> DEFINE p == a * b
  <2>1. p \in Nat /\ p <= U64Max
    BY <1>1, <1>3
  <2> HIDE DEF p
  <2>2. p % (U64Max + 1) = p
    BY <1>1, <2>1
  <2> QED BY <2>2 DEF p
<1> QED BY <1>2, <1>3 DEF SatMul

LEMMA SatMulType ==
    ASSUME NEW a \in U64, NEW b \in U64 \ {0}
    PROVE  SatMul(a, b) \in U64
<1>1. a * b \in Nat /\ U64Max \in Nat
  BY U64MaxAssumption DEF U64
<1> QED BY <1>1, SatMulSaturates DEF U64
=============================================================================
