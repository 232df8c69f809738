----------------------------- MODULE RoundRobin -----------------------------
(***************************************************************************)
(* What "fair" means in minimk_runtime_scheduler_pick_runnable ("Select    *)
(* the first runnable coroutine using a fair algorithm", scheduler.h): the *)
(* Scheduler with a history variable that remembers, for every coroutine   *)
(* that can run and was not picked, who was picked instead.                *)
(***************************************************************************)
EXTENDS Scheduler

VARIABLE passed    \* per slot: who was picked since it became runnable

rrVars == <<vars, passed>>

Picks == pc = "pick" /\ pc' = "switch"

RRInit == Init /\ passed = [c \in Slots |-> {}]

Remembers ==
    passed' = [c \in Slots |->
                IF ~ Runnable(c)' \/ current' = c THEN {}
                ELSE IF Picks THEN passed[c] \union {current'}
                ELSE passed[c]]

RRNext == Next /\ Remembers

RRSpec == RRInit /\ [][RRNext]_rrVars

-----------------------------------------------------------------------------
(***************************************************************************)
(* While a coroutine waits to run, nobody runs twice: it gets the CPU      *)
(* after at most MaxCoros - 1 others, although slots are freed and reused, *)
(* sleepers wake up and the cursor advances by more than one slot at every *)
(* pick.                                                                   *)
(***************************************************************************)
NobodyRunsTwice == [][Picks => \A c \in Slots : current' \notin passed[c]]_rrVars

(***************************************************************************)
(* Why: whoever was picked instead of c is now behind c in the order in    *)
(* which the cursor will probe the slots.                                  *)
(***************************************************************************)
PassedAreBehind ==
    \A c \in Slots : \A d \in passed[c] :
        /\ Runnable(c) /\ c # current
        /\ Dist(fair, c) < Dist(fair, d)

NothingPassedBeforeRun == pc = "main" => \A c \in Slots : passed[c] = {}
=============================================================================
