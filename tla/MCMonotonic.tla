---------------------------- MODULE MCMonotonic ----------------------------
(***************************************************************************)
(* Instance of Monotonic for TLC: seconds of five nanoseconds, a uint64_t  *)
(* that overflows in the fifth one, and a kernel clock that goes on.       *)
(***************************************************************************)
EXTENDS Monotonic
=============================================================================
