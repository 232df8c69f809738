----------------------------- MODULE Monotonic -----------------------------
(***************************************************************************)
(* minimk_time_monotonic_now (libminimk/time/monotonic.c) over             *)
(* CLOCK_MONOTONIC: seconds and nanoseconds, both 64 bits wide, become one *)
(* uint64_t of nanoseconds, saturating.                                    *)
(***************************************************************************)
EXTENDS U64

CONSTANTS
    NsPerSec,    \* 1000000000
    SecBound     \* bound: the kernel's clock stops at this second

ASSUME MonotonicAssumption ==
    /\ NsPerSec \in U64 \ {0}
    /\ SecBound \in U64

VARIABLES
    sec, nsec,   \* the kernel's clock
    now,         \* what the last call returned
    calls        \* "none" yet, or "ok", or "abort" when the system call failed

clockVars == <<sec, nsec, now, calls>>

-----------------------------------------------------------------------------
monotonic_now(s, ns) == SatAdd(SatMul(s, NsPerSec), ns)

ClockInit ==
    /\ sec \in 0 .. SecBound /\ nsec \in 0 .. NsPerSec - 1
    /\ now = 0
    /\ calls = "none"

\* Time passes: nanoseconds carry into seconds.
Pass ==
    /\ IF nsec + 1 = NsPerSec
       THEN sec < SecBound /\ sec' = sec + 1 /\ nsec' = 0
       ELSE nsec' = nsec + 1 /\ UNCHANGED sec
    /\ UNCHANGED <<now, calls>>

Read ==
    /\ calls # "abort"
    /\ now' = monotonic_now(sec, nsec)
    /\ calls' = "ok"
    /\ UNCHANGED <<sec, nsec>>

\* clock_gettime fails, and MINIMK_ASSERT(rv == 0) aborts.
ReadFails ==
    /\ calls # "abort"
    /\ calls' = "abort"
    /\ UNCHANGED <<sec, nsec, now>>

ClockNext == Pass \/ Read \/ ReadFails
ClockSpec == ClockInit /\ [][ClockNext]_clockVars

-----------------------------------------------------------------------------
(***************************************************************************)
(* Type correctness: a reading fits a uint64_t.                            *)
(***************************************************************************)
ClockTypeOK ==
    /\ sec \in 0 .. SecBound /\ nsec \in 0 .. NsPerSec - 1
    /\ now \in U64
    /\ calls \in {"none", "ok", "abort"}

Elapsed == sec * NsPerSec + nsec

(***************************************************************************)
(* A reading is never ahead of the kernel's clock, so that a deadline that *)
(* a reading has passed has really passed.                                 *)
(***************************************************************************)
NeverAhead == now <= Elapsed /\ now <= U64Max

(***************************************************************************)
(* "Avoids overflow" (time.h): a reading is exactly the time that has      *)
(* passed or, when that does not fit, UINT64_MAX.                          *)
(***************************************************************************)
ReadingIsElapsed ==
    [][Read => now' = IF Elapsed <= U64Max THEN Elapsed ELSE U64Max]_clockVars

(***************************************************************************)
(* The clock that the scheduler compares deadlines with never goes back,   *)
(* not even when the nanoseconds since boot overflow a uint64_t.           *)
(***************************************************************************)
NeverGoesBack == [][now' >= now]_clockVars
=============================================================================
