----------------------------- MODULE MCSockets -----------------------------
(***************************************************************************)
(* Instances of Sockets for TLC.                                           *)
(***************************************************************************)
EXTENDS Sockets, TLC

OneFd == {3}
TwoFds == {3, 4}
ThreeFds == {3, 4, 5}
NoTimeouts == {}
ShortTimeout == {1}

\* Nothing distinguishes one coroutine from another.
CoroSymmetry == Permutations(Coros)
=============================================================================
