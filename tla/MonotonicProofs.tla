-------------------------- MODULE MonotonicProofs --------------------------
(***************************************************************************)
(* The clock of the runtime never overflows and never goes back, for any   *)
(* width of uint64_t.  Both rest on NeverAhead: a reading is the time that *)
(* had passed, which only grows.                                           *)
(***************************************************************************)
EXTENDS Monotonic, U64Proofs

ClockInv == ClockTypeOK /\ NeverAhead

\* A reading is what has passed, or the largest number there is.
LEMMA Reading ==
    ASSUME ClockTypeOK
    PROVE  /\ monotonic_now(sec, nsec) = IF Elapsed <= U64Max THEN Elapsed ELSE U64Max
           /\ Elapsed \in Nat
<1> DEFINE p == sec * NsPerSec
<1>1. /\ sec \in U64 /\ sec \in Nat /\ nsec \in U64 /\ nsec \in Nat /\ U64Max \in Nat
      /\ NsPerSec \in U64 \ {0} /\ NsPerSec \in Nat
  BY U64MaxAssumption, MonotonicAssumption DEF ClockTypeOK, U64
<1>2. p \in Nat
  BY <1>1
<1>3. SatMul(sec, NsPerSec) = IF p <= U64Max THEN p ELSE U64Max
  BY <1>1, SatMulSaturates
<1> HIDE DEF p
<1>4. SatMul(sec, NsPerSec) \in U64
  BY <1>1, <1>2, <1>3 DEF U64
<1>5. monotonic_now(sec, nsec)
        = IF SatMul(sec, NsPerSec) + nsec <= U64Max
          THEN SatMul(sec, NsPerSec) + nsec ELSE U64Max
  BY <1>1, <1>4, SatAddSaturates DEF monotonic_now
<1>6. Elapsed = p + nsec
  BY DEF Elapsed, p
<1> QED BY <1>1, <1>2, <1>3, <1>5, <1>6

LEMMA ClockStep == ClockInv /\ [ClockNext]_clockVars => ClockInv'
<1> SUFFICES ASSUME ClockInv, [ClockNext]_clockVars PROVE ClockInv'
  OBVIOUS
<1>1. /\ ClockTypeOK /\ NeverAhead
      /\ U64Max \in Nat /\ NsPerSec \in Nat \ {0} /\ SecBound \in Nat
  BY U64MaxAssumption, MonotonicAssumption DEF ClockInv, U64
<1>2. CASE Pass
  <2>1. ClockTypeOK'
    BY <1>1, <1>2 DEF Pass, ClockTypeOK
  <2>2. Elapsed' = Elapsed + 1 /\ Elapsed \in Nat /\ now' = now
    <3> DEFINE p == sec * NsPerSec
    <3>1. p \in Nat /\ (sec + 1) * NsPerSec = p + NsPerSec
      BY <1>1 DEF ClockTypeOK
    <3>2. Elapsed = p + nsec
      BY DEF Elapsed
    <3> HIDE DEF p
    <3>3. CASE nsec + 1 = NsPerSec
      <4>1. Elapsed' = (sec + 1) * NsPerSec + 0
        BY <1>2, <3>3 DEF Pass, Elapsed
      <4> QED BY <1>1, <1>2, <3>1, <3>2, <3>3, <4>1 DEF Pass, ClockTypeOK
    <3>4. CASE nsec + 1 # NsPerSec
      <4>1. Elapsed' = p + (nsec + 1)
        BY <1>2, <3>4 DEF Pass, Elapsed, p
      <4> QED BY <1>1, <1>2, <3>1, <3>2, <3>4, <4>1 DEF Pass, ClockTypeOK
    <3> QED BY <3>3, <3>4
  <2> QED BY <1>1, <2>1, <2>2 DEF ClockInv, NeverAhead, ClockTypeOK, U64
<1>3. CASE Read
  <2>1. Elapsed' = Elapsed /\ now' = monotonic_now(sec, nsec)
    BY <1>3 DEF Read, Elapsed
  <2>2. now' \in U64 /\ now' <= Elapsed /\ now' <= U64Max
    BY <1>1, <2>1, Reading DEF U64
  <2> QED BY <1>1, <1>3, <2>1, <2>2 DEF Read, ClockInv, ClockTypeOK, NeverAhead
<1>4. CASE ReadFails \/ UNCHANGED clockVars
  BY <1>1, <1>4 DEF ReadFails, clockVars, ClockInv, ClockTypeOK, NeverAhead, Elapsed
<1> QED BY <1>2, <1>3, <1>4 DEF ClockNext

LEMMA ClockInvariant == ClockSpec => []ClockInv
<1>1. ClockInit => ClockInv
  <2> SUFFICES ASSUME ClockInit PROVE ClockInv
    OBVIOUS
  <2>1. ClockTypeOK
    BY U64MaxAssumption DEF ClockInit, ClockTypeOK, U64
  <2>2. now = 0 /\ Elapsed \in Nat /\ U64Max \in Nat
    BY <2>1, Reading, U64MaxAssumption DEF ClockInit
  <2> QED BY <2>1, <2>2 DEF ClockInv, NeverAhead
<1> QED BY <1>1, ClockStep, PTL DEF ClockSpec

(***************************************************************************)
(* A reading fits a uint64_t, whatever the kernel's clock has come to.     *)
(***************************************************************************)
THEOREM ReadingsFit == ClockSpec => []ClockTypeOK
<1>1. ClockInv => ClockTypeOK
  BY DEF ClockInv
<1> QED BY ClockInvariant, <1>1, PTL

(***************************************************************************)
(* A reading is never ahead of the kernel's clock (monotonic.c).           *)
(***************************************************************************)
THEOREM ClockNeverAhead == ClockSpec => []NeverAhead
<1>1. ClockInv => NeverAhead
  BY DEF ClockInv
<1> QED BY ClockInvariant, <1>1, PTL

(***************************************************************************)
(* The seconds and nanoseconds of the kernel become their sum, or          *)
(* UINT64_MAX if it does not fit: no product and no sum wraps around.      *)
(***************************************************************************)
THEOREM ReadingsAreExact == ClockSpec => ReadingIsElapsed
<1>1. ClockInv => (Read => now' = IF Elapsed <= U64Max THEN Elapsed ELSE U64Max)
  BY Reading DEF ClockInv, Read
<1> QED BY ClockInvariant, <1>1, PTL DEF ReadingIsElapsed

(***************************************************************************)
(* Readings never decrease.                                                *)
(***************************************************************************)
THEOREM ClockNeverGoesBack == ClockSpec => NeverGoesBack
<1>1. ClockInv /\ [ClockNext]_clockVars => [now' >= now]_clockVars
  <2> SUFFICES ASSUME ClockInv, [ClockNext]_clockVars PROVE now' >= now \/ UNCHANGED clockVars
    OBVIOUS
  <2>1. now \in Nat /\ U64Max \in Nat /\ now <= Elapsed /\ now <= U64Max /\ Elapsed \in Nat
    BY U64MaxAssumption, Reading DEF ClockInv, ClockTypeOK, NeverAhead, U64
  <2>2. CASE Read
    <3>1. now' = IF Elapsed <= U64Max THEN Elapsed ELSE U64Max
      BY <2>2, Reading DEF Read, ClockInv
    <3> QED BY <2>1, <3>1
  <2>3. CASE Pass \/ ReadFails
    BY <2>1, <2>3 DEF Pass, ReadFails
  <2> QED BY <2>2, <2>3 DEF ClockNext
<1> QED BY ClockInvariant, <1>1, PTL DEF ClockSpec, NeverGoesBack
=============================================================================
