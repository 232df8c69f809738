---------------------------- MODULE MCScheduler ----------------------------
(***************************************************************************)
(* Instances of Scheduler for TLC.                                         *)
(***************************************************************************)
EXTENDS Scheduler, TLC

\* Descriptors: stdin and one socket.
OneSocket == {0, 3}

\* nanosec arguments.  19 is U64Max here: a wait without a timeout.
NoTime == {0}
ShortAndForever == {2, 19}
ZeroShortAndForever == {0, 2, 19}
Forever == {19}

\* Nothing distinguishes one job from another.
JobSymmetry == Permutations(Jobs)

InOnly == {"in"}
InErr == {"in", "err"}

(***************************************************************************)
(* A run without signals and without poll errors.                          *)
(***************************************************************************)
QuietNext == Go \/ Run \/ LoopStep \/ PollReturns \/ CoroutineGivesBack \/ Environment
QuietSpec == Init /\ [][QuietNext]_vars /\ Fairness

(***************************************************************************)
(* A run in which no descriptor ever changes its readiness.                *)
(***************************************************************************)
SteadyNext == Next /\ UNCHANGED ready
SteadySpec == Init /\ [][SteadyNext]_vars

(***************************************************************************)
(* A fair run in which stdin may hang up or fail at any time and the       *)
(* socket reports input only: a bound on the environment, not on the       *)
(* program, for whom one failing descriptor is like another.               *)
(***************************************************************************)
SocketIsFine(r) == \A f \in Fds \ {0} : r[f] \subseteq {"in"}
StdinSpec ==
    /\ Init /\ SocketIsFine(ready)
    /\ [][Next /\ SocketIsFine(ready')]_vars
    /\ Fairness
=============================================================================
