---------------------------- MODULE MCRoundRobin ----------------------------
(***************************************************************************)
(* Instance of RoundRobin, Stacks and ContextSwitch for TLC: three slots   *)
(* for four jobs, three places for their stacks, and coroutines that       *)
(* yield, sleep and exit (neither picking nor a stack depends on what a    *)
(* sleeper waits for), with one or two words on a stack at a switch.       *)
(***************************************************************************)
EXTENDS RoundRobin, ContextSwitch, TLC

OnlyStdin == {0}
NoBits == {}
Short == {0, 1}

RRStacksInit == RRInit /\ StacksInit /\ ContextInit
RRStacksNext == StacksNext /\ Remembers /\ Machine
RRStacksSpec == RRStacksInit /\ [][RRStacksNext]_<<vars, passed, memVars, machine>>

\* Nothing distinguishes one job from another, nor one region from another.
JobRegionSymmetry == Permutations(Jobs) \union Permutations(Regions)
=============================================================================
