------------------------------ MODULE Runtime ------------------------------
(***************************************************************************)
(* What the runtime promises its clients (minimk/runtime.h), with neither  *)
(* slots nor stacks, nor a run loop that polls: the coroutines of an       *)
(* entry and opaque pair each, the one that has the CPU, and what the      *)
(* others wait for.  Scheduler implements it.                              *)
(***************************************************************************)
EXTENDS U64

CONSTANTS
    Jobs,        \* what is passed to go: an (entry, opaque) pair each
    Fds,         \* the file descriptors
    PollBits,    \* the poll(2) bits the kernel may report
    Durations    \* the nanosec arguments a client passes

VARIABLES
    phase,     \* main() before, in, and after minimk_runtime_run
    doing,     \* what the coroutine of each job is doing
    noticed,   \* the jobs whose descriptor was seen to be ready
    ret,       \* what the last call returned to its caller
    clock, ready

promise == <<phase, doing, noticed, ret, clock, ready>>

-----------------------------------------------------------------------------
Doing(what) == [at |-> what, until |-> 0, sock |-> -1, events |-> {}]
Idle == Doing("idle")
Running == Doing("running")

HasCpu(j) == doing[j].at = "running"
CanCall == phase = "main" \/ \E j \in Jobs : HasCpu(j)

\* The coroutine of j waits for a descriptor, and what it waits for is there,
\* or an error is.
IsReady(j) ==
    /\ doing[j].at = "waiting"
    /\ ready[doing[j].sock] \intersect (doing[j].events \union {"err"}) # {}

RuntimeInit ==
    /\ phase = "main"
    /\ doing = [j \in Jobs |-> Idle]
    /\ noticed = {}
    /\ ret = "none"
    /\ clock = 0
    /\ ready \in [Fds -> SUBSET PollBits]

Becomes(j, what) == doing' = [doing EXCEPT ![j] = what]

(***************************************************************************)
(* minimk_runtime_go: entry will be called with opaque, once; or it fails, *)
(* and the caller may try again.                                           *)
(***************************************************************************)
Start(j) ==
    /\ CanCall /\ doing[j] = Idle
    /\ \/ Becomes(j, Doing("queued")) /\ ret' = "OK"
       \/ ret' \in {"EAGAIN", "ENOMEM"} /\ UNCHANGED doing
    /\ UNCHANGED <<phase, noticed, clock, ready>>

\* minimk_runtime_run returns when every coroutine has returned.
StartRun ==
    /\ phase = "main" /\ phase' = "run"
    /\ ret' = "none"
    /\ UNCHANGED <<doing, noticed, clock, ready>>
EndRun ==
    /\ phase = "run" /\ phase' = "done"
    /\ \A j \in Jobs : doing[j] = Idle
    /\ UNCHANGED <<doing, noticed, ret, clock, ready>>

(***************************************************************************)
(* A coroutine gets the CPU, which nobody has: to call entry, after yield, *)
(* when it slept as long as it asked to, or when what it waited for was    *)
(* seen to be there, or with ETIMEDOUT when its time is over.              *)
(***************************************************************************)
Resumes(j) ==
    /\ phase = "run" /\ \A k \in Jobs : ~ HasCpu(k)
    /\ \/ doing[j].at \in {"queued", "paused"} /\ ret' = "none"
       \/ doing[j].at = "asleep" /\ clock >= doing[j].until /\ ret' = "none"
       \/ doing[j].at = "waiting" /\ j \in noticed /\ ret' = "OK"
       \/ doing[j].at = "waiting" /\ clock >= doing[j].until /\ ret' = "ETIMEDOUT"
    /\ Becomes(j, Running)
    /\ noticed' = noticed \ {j}
    /\ UNCHANGED <<phase, clock, ready>>

(***************************************************************************)
(* It gives the CPU back: yield, nanosleep, suspend_read or suspend_write, *)
(* or the return of entry, after which the caller of go has opaque again.  *)
(***************************************************************************)
GivesBack(j) ==
    /\ HasCpu(j)
    /\ \/ Becomes(j, Doing("paused"))
       \/ \E d \in Durations :
            Becomes(j, [Doing("asleep") EXCEPT !.until = SumOrMax(clock, d)])
       \/ \E f \in Fds, e \in PollBits \intersect {"in", "out"}, d \in Durations :
            Becomes(j, [at |-> "waiting", until |-> SumOrMax(clock, d),
                        sock |-> f, events |-> {e}])
       \/ Becomes(j, Idle)
    /\ ret' = "none"
    /\ UNCHANGED <<phase, noticed, clock, ready>>

(***************************************************************************)
(* The runtime looks at the descriptors.  What it saw it may also forget,  *)
(* and look again, but it never sees what is not there.                    *)
(***************************************************************************)
Looks ==
    /\ phase = "run" /\ \A k \in Jobs : ~ HasCpu(k)
    /\ noticed' \in SUBSET (noticed \union {j \in Jobs : IsReady(j)})
    /\ UNCHANGED <<phase, doing, ret, clock, ready>>

\* Time passes and descriptors change.
Passes ==
    /\ \/ clock' = clock + 1 /\ UNCHANGED ready
       \/ ready' \in [Fds -> SUBSET PollBits] /\ UNCHANGED clock
    /\ UNCHANGED <<phase, doing, noticed, ret>>

RuntimeNext ==
    \/ \E j \in Jobs : Start(j) \/ Resumes(j) \/ GivesBack(j)
    \/ StartRun \/ EndRun \/ Looks \/ Passes

RuntimeSpec == RuntimeInit /\ [][RuntimeNext]_promise
=============================================================================
