----------------------------- MODULE Scheduler -----------------------------
(***************************************************************************)
(* The minimk cooperative runtime: the coroutine slots, the run loop, and  *)
(* the calls a coroutine makes to give the CPU back                        *)
(* (libminimk/runtime/{scheduler,coroutine}.hpp behind runtime.cpp).       *)
(*                                                                         *)
(* One thread runs everything.  pc says where it is: in main(), at a step  *)
(* of minimk_runtime_scheduler_run, inside poll(2), or inside the entry    *)
(* function of the current coroutine.  What happens beside that thread is  *)
(* the passing of time and the readiness of descriptors in the kernel:     *)
(* both change between any two of its steps.                               *)
(*                                                                         *)
(* Entry functions are the client's, so a coroutine on the CPU makes any   *)
(* legal sequence of runtime calls.                                        *)
(***************************************************************************)
EXTENDS U64

CONSTANTS
    MaxCoros,        \* MAX_COROS, the number of slots
    Jobs,            \* what is passed to go: an (entry, opaque) pair each
    NoJob,           \* the null opaque of an unused slot
    Fds,             \* the file descriptors, 0 (stdin) included
    PollBits,        \* the poll(2) bits the kernel may report
    Durations,       \* the nanosec arguments a client passes
    DefaultTimeout,  \* the longest time spent in one poll: 10 s, in ns
    NsPerMs,         \* 1000000
    IntMax,          \* INT_MAX
    SleepBound,      \* bound: no finite deadline is later than this
    ClockBound       \* bound: the clock stops here

ASSUME SchedulerAssumption ==
    /\ MaxCoros \in Nat \ {0}
    /\ NoJob \notin Jobs
    /\ Fds \subseteq Nat /\ 0 \in Fds
    /\ PollBits \subseteq {"in", "out", "err", "hup"}
    /\ Durations \subseteq U64
    /\ DefaultTimeout \in U64
    /\ NsPerMs \in Nat \ {0}
    /\ IntMax \in Nat \ {0}
    /\ SleepBound \in U64 /\ ClockBound \in U64
    /\ SleepBound <= ClockBound /\ ClockBound < U64Max

VARIABLES
    coro,      \* sched->coroutines
    frame,     \* what each coroutine's own stack holds (its saved sp)
    current,   \* sched->current
    fair,      \* the round-robin cursor of run, modulo MaxCoros
    pc,        \* where the thread is
    poll,      \* the locals of block_on_poll
    ret,       \* what the last runtime call returned to its caller
    jobs,      \* who owns each opaque pointer
    clock,     \* CLOCK_MONOTONIC, in ns
    ready      \* the poll bits each descriptor has in the kernel

runtime == <<coro, frame, current, fair, pc, poll, ret, jobs>>
vars == <<coro, frame, current, fair, pc, poll, ret, jobs, clock, ready>>

-----------------------------------------------------------------------------
(***************************************************************************)
(* Coroutine slots.                                                        *)
(***************************************************************************)
Slots == 0 .. MaxCoros - 1
Null == -1                \* nullptr, as a value of current
InvalidSocket == -1       \* minimk_syscall_invalid_socket
Requestable == PollBits \intersect {"in", "out"}  \* what events may ask for
Unrequested == {"err", "hup"}                      \* reported in any case

States == {"NULL", "RUNNABLE", "EXITED", "TIMER", "IO"}

Coroutine ==
    [state : States, stack : {"none", "held"}, opaque : Jobs \union {NoJob},
     deadline : U64, sock : Fds \union {InvalidSocket},
     events : SUBSET PollBits, revents : SUBSET (PollBits \union Unrequested)]

(***************************************************************************)
(* The code that a coroutine continues with when it is switched to, which  *)
(* is what its stack remembers: the trampoline that calls coroutine_main,  *)
(* the end of yield, the rest of suspend_timer or of suspend_io (with the  *)
(* deadline and the arguments of the call, its locals), or the point after *)
(* the last yield of coroutine_main.  "none" is a stack with no saved      *)
(* context: a coroutine that is on the CPU, or no stack at all.            *)
(***************************************************************************)
Frame == [at : {"none", "main", "yield", "timer", "io", "dead"},
          until : U64, sock : Fds \union {InvalidSocket},
          events : SUBSET PollBits]

NoFrame == [at |-> "none", until |-> 0, sock |-> InvalidSocket, events |-> {}]
At(label) == [NoFrame EXCEPT !.at = label]

(***************************************************************************)
(* *coro = {}: every field is zero, and zero is a descriptor too (stdin),  *)
(* not the invalid socket.                                                 *)
(***************************************************************************)
ZeroCoroutine ==
    [state |-> "NULL", stack |-> "none", opaque |-> NoJob, deadline |-> 0,
     sock |-> 0, events |-> {}, revents |-> {}]

(***************************************************************************)
(* minimk_runtime_coroutine_init before and after the stack is allocated;  *)
(* when the allocation fails the slot stays NULL but is no longer zeroed.  *)
(***************************************************************************)
\* Slip: the slot is marked before its stack is allocated.
DirtyMarkedRunnable(j) == [ZeroCoroutine EXCEPT !.sock = InvalidSocket, !.opaque = j,
                                                !.state = "RUNNABLE"]
Dirty(j) == [ZeroCoroutine EXCEPT !.sock = InvalidSocket, !.opaque = j]
Fresh(j) == [Dirty(j) EXCEPT !.stack = "held", !.state = "RUNNABLE"]

(***************************************************************************)
(* minimk_runtime_coroutine_finish: free the stack, zero the slot.         *)
(***************************************************************************)
Finish(co) == ZeroCoroutine

(***************************************************************************)
(* minimk_runtime_coroutine_maybe_resume: co at time now when poll         *)
(* reported revents for it.                                                *)
(***************************************************************************)
\* Slips: any blocked coroutine is a sleeper; deadlines are rounded to ms.
AnyDeadlineExpired(co, now) == co.state \in {"TIMER", "IO"} /\ now >= co.deadline
TimerExpiredRounded(co, now) == co.state = "TIMER" /\ now + NsPerMs > co.deadline

TimerExpired(co, now) == co.state = "TIMER" /\ now >= co.deadline
IoResumable(co, now, revents) ==
    /\ co.state = "IO"
    /\ \/ co.events \intersect revents # {}
       \/ now >= co.deadline

\* Slip: the events of a coroutine that was resumed are left armed.
MaybeResumeArmed(co, now, revents) ==
    IF TimerExpired(co, now)
    THEN [co EXCEPT !.deadline = 0, !.state = "RUNNABLE"]
    ELSE IF IoResumable(co, now, revents)
         THEN [co EXCEPT !.deadline = 0, !.state = "RUNNABLE",
                         !.sock = InvalidSocket, !.revents = revents]
         ELSE co

MaybeResume(co, now, revents) ==
    IF TimerExpired(co, now)
    THEN [co EXCEPT !.deadline = 0, !.state = "RUNNABLE"]
    ELSE IF IoResumable(co, now, revents)
         THEN [co EXCEPT !.deadline = 0, !.state = "RUNNABLE",
                         !.sock = InvalidSocket, !.events = {},
                         !.revents = revents]
         ELSE co

(***************************************************************************)
(* minimk_runtime_coroutine_suspend_timer and _suspend_io, after their     *)
(* deadline was computed.                                                  *)
(***************************************************************************)
SuspendedTimer(co, deadline) ==
    [co EXCEPT !.state = "TIMER", !.deadline = deadline]
SuspendedIo(co, sock, events, deadline) ==
    [co EXCEPT !.state = "IO", !.deadline = deadline, !.sock = sock,
               !.events = events, !.revents = {}]

(***************************************************************************)
(* minimk_runtime_coroutine_resume_io: what it asserts of the slot, and    *)
(* what suspend_io returns to a coroutine that asked for events.           *)
(***************************************************************************)
ResumeIoAsserts(co) ==
    co.deadline = 0 /\ co.sock = InvalidSocket /\ co.events = {}
\* Slip: a wait that timed out is a success, too.
IoAlwaysOk(co, events) == "OK"
IoResult(co, events) ==
    IF co.revents \intersect events # {} \/ "err" \in co.revents
    THEN "OK" ELSE "ETIMEDOUT"

-----------------------------------------------------------------------------
(***************************************************************************)
(* The run loop.                                                           *)
(***************************************************************************)
AllNull == \A c \in Slots : coro[c].state = "NULL"
Runnable(c) == coro[c].state = "RUNNABLE"
Blocked(c) == coro[c].state \in {"TIMER", "IO"}

(***************************************************************************)
(* pick_runnable probes fair, fair + 1, ... modulo MaxCoros: a slot c is   *)
(* probed after Dist(fair, c) others.  fair itself is only used modulo     *)
(* MaxCoros, and MAX_COROS = 16 divides 2^64, so that the wrap of size_t   *)
(* is invisible.                                                           *)
(***************************************************************************)
Dist(from, c) == IF c >= from THEN c - from ELSE c + MaxCoros - from
\* Slips: the cursor is not reduced, stays at the slot it found, or starts over.
NextUnreduced(c) == c + 1
NextStays(c) == c
NextStartsOver(c) == 0
Next1(c) == IF c + 1 = MaxCoros THEN 0 ELSE c + 1
PickedFirst(c) ==
    /\ Runnable(c)
    /\ \A d \in Slots : Runnable(d) => Dist(fair, c) <= Dist(fair, d)

(***************************************************************************)
(* block_on_poll.  A slot that is not blocked on I/O leaves its pollfd     *)
(* zeroed, and a zeroed pollfd asks for no event of descriptor 0.          *)
(***************************************************************************)
PollFd(c) ==
    IF coro[c].state = "IO"
    THEN [fd |-> coro[c].sock, events |-> coro[c].events]
    ELSE [fd |-> 0, events |-> {}]
ScanAsserts(c) ==
    coro[c].state = "IO" =>
        /\ coro[c].sock # InvalidSocket
        /\ coro[c].events # {}
        /\ coro[c].revents = {}

\* The nearest of the default deadline and the deadlines of the sleepers.
IsNearest(d, now) ==
    LET limit == SatAdd(now, DefaultTimeout)
    IN /\ (d = limit) \/ \E c \in Slots : Blocked(c) /\ d = coro[c].deadline
       /\ d <= limit
       /\ \A c \in Slots : Blocked(c) => d <= coro[c].deadline

\* The milliseconds to wait for d when it is now, and a slip that rounds them down.
PollTimeoutDown(now, d) ==
    LET ms == (IF d > now THEN d - now ELSE 0) \div NsPerMs
    IN IF ms < IntMax THEN ms ELSE IntMax
PollTimeout(now, d) ==
    LET ms == (IF d > now THEN d - now ELSE 0) \div NsPerMs + 1
    IN IF ms < IntMax THEN ms ELSE IntMax

NoPoll == [timeout |-> 0, until |-> 0, revents |-> [c \in Slots |-> {}]]

(***************************************************************************)
(* poll(2): a descriptor reports the bits asked for, POLLERR and POLLHUP   *)
(* (which stands for POLLNVAL too) even when not asked for.                *)
(***************************************************************************)
Reported(c) == ready[PollFd(c).fd] \intersect (PollFd(c).events \union Unrequested)

-----------------------------------------------------------------------------
Init ==
    /\ coro = [c \in Slots |-> ZeroCoroutine]
    /\ frame = [c \in Slots |-> NoFrame]
    /\ current = Null
    /\ fair = 0
    /\ pc = "main"
    /\ poll = NoPoll
    /\ ret = "none"
    /\ jobs = [j \in Jobs |-> "caller"]
    /\ clock = 0
    /\ ready \in [Fds -> SUBSET PollBits]

(***************************************************************************)
(* minimk_runtime_go, called by main() before run or by a coroutine.  The  *)
(* first NULL slot is taken; the caller keeps opaque unless go succeeds.   *)
(***************************************************************************)
InClient == pc \in {"main", "coro"}

FreeSlot(c) == coro[c].state = "NULL"
FirstFree(c) == FreeSlot(c) /\ \A d \in Slots : FreeSlot(d) => c <= d

GoCreates(j) ==
    /\ InClient /\ jobs[j] = "caller"
    /\ \E c \in Slots :
        /\ FirstFree(c)
        /\ coro' = [coro EXCEPT ![c] = Fresh(j)]
        /\ frame' = [frame EXCEPT ![c] = At("main")]
    /\ jobs' = [jobs EXCEPT ![j] = "queued"]
    /\ ret' = "OK"
    /\ UNCHANGED <<current, fair, pc, poll, clock, ready>>

GoStackAllocFails(j) ==
    /\ InClient /\ jobs[j] = "caller"
    /\ \E c \in Slots :
        /\ FirstFree(c)
        /\ coro' = [coro EXCEPT ![c] = Dirty(j)]
        /\ frame' = [frame EXCEPT ![c] = NoFrame]
    /\ ret' = "ENOMEM"
    /\ UNCHANGED <<current, fair, pc, poll, jobs, clock, ready>>

GoNoSlot(j) ==
    /\ InClient /\ jobs[j] = "caller"
    /\ ~ \E c \in Slots : FreeSlot(c)
    /\ ret' = "EAGAIN"
    /\ UNCHANGED <<coro, frame, current, fair, pc, poll, jobs, clock, ready>>

(***************************************************************************)
(* minimk_runtime_run and the steps of its loop.                           *)
(***************************************************************************)
Run ==
    /\ pc = "main"
    /\ pc' = IF current = Null THEN "loop" ELSE "abort"
    /\ fair' = 0
    /\ ret' = "none"
    /\ UNCHANGED <<coro, frame, current, poll, jobs, clock, ready>>

LoopEnds ==
    /\ pc = "loop"
    /\ AllNull
    /\ pc' = "done"
    /\ UNCHANGED <<coro, frame, current, fair, poll, ret, jobs, clock, ready>>

CleanExited ==
    /\ pc = "loop"
    /\ ~ AllNull
    /\ coro' = [c \in Slots |->
                    IF coro[c].state = "EXITED" THEN Finish(coro[c]) ELSE coro[c]]
    /\ frame' = [c \in Slots |->
                    IF coro[c].state = "EXITED" THEN NoFrame ELSE frame[c]]
    /\ pc' = "expire"
    /\ UNCHANGED <<current, fair, poll, ret, jobs, clock, ready>>

MaybeExpireDeadlines ==
    /\ pc = "expire"
    /\ coro' = [c \in Slots |-> MaybeResume(coro[c], clock, {})]
    /\ pc' = "pick"
    /\ UNCHANGED <<frame, current, fair, poll, ret, jobs, clock, ready>>

PickRunnable ==
    /\ pc = "pick"
    /\ \E c \in Slots :
        /\ PickedFirst(c)
        /\ current' = c
        /\ fair' = Next1(c)
    /\ pc' = "switch"
    /\ UNCHANGED <<coro, frame, poll, ret, jobs, clock, ready>>

\* All MaxCoros slots were probed in vain: fair is back where it was.
PickNothing ==
    /\ pc = "pick"
    /\ ~ \E c \in Slots : Runnable(c)
    /\ current' = Null
    /\ pc' = IF AllNull THEN "loop" ELSE "scan"
    /\ UNCHANGED <<coro, frame, fair, poll, ret, jobs, clock, ready>>

(***************************************************************************)
(* block_on_poll: read the clock and compute the timeout; enter poll, some *)
(* time later; leave it because something is reported or because the       *)
(* timeout elapsed, or interrupted by a signal, or with an error that the  *)
(* code turns into an abort; read the clock again and resume.              *)
(***************************************************************************)
PollScan ==
    /\ pc = "scan"
    /\ IF \A c \in Slots : ScanAsserts(c)
       THEN /\ \E d \in U64 :
                /\ IsNearest(d, clock)
                /\ poll' = [poll EXCEPT !.timeout = PollTimeout(clock, d)]
            /\ pc' = "enter"
       ELSE pc' = "abort" /\ UNCHANGED poll
    /\ UNCHANGED <<coro, frame, current, fair, ret, jobs, clock, ready>>

\* Where the bounded clock stops, a timeout that would end later elapses.
CappedToBound(t) == IF t < ClockBound THEN t ELSE ClockBound

PollEnter ==
    /\ pc = "enter"
    /\ poll' = [poll EXCEPT !.until = CappedToBound(clock + poll.timeout * NsPerMs)]
    /\ pc' = "wait"
    /\ UNCHANGED <<coro, frame, current, fair, ret, jobs, clock, ready>>

PollReturns ==
    /\ pc = "wait"
    /\ \/ \E c \in Slots : Reported(c) # {}
       \/ clock >= poll.until
    /\ poll' = [poll EXCEPT !.revents = [c \in Slots |-> Reported(c)]]
    /\ pc' = "resume"
    /\ UNCHANGED <<coro, frame, current, fair, ret, jobs, clock, ready>>

PollInterrupted ==
    /\ pc = "wait"
    /\ poll' = NoPoll
    /\ pc' = "loop"
    /\ UNCHANGED <<coro, frame, current, fair, ret, jobs, clock, ready>>

PollFails ==
    /\ pc = "wait"
    /\ pc' = "pollfailed"
    /\ UNCHANGED <<coro, frame, current, fair, poll, ret, jobs, clock, ready>>

\* Slip: a report for an entry without a waiter ends the loop over the results.
PollResumeGivesUp ==
    /\ pc = "resume"
    /\ coro' = [c \in Slots |->
                  IF \E d \in 0 .. c - 1 : coro[d].state # "IO" /\ poll.revents[d] # {}
                  THEN coro[c]
                  ELSE MaybeResume(coro[c], clock, poll.revents[c])]
    /\ poll' = NoPoll
    /\ pc' = "loop"
    /\ UNCHANGED <<frame, current, fair, ret, jobs, clock, ready>>

PollResume ==
    /\ pc = "resume"
    /\ coro' = [c \in Slots |-> MaybeResume(coro[c], clock, poll.revents[c])]
    /\ poll' = NoPoll
    /\ pc' = "loop"
    /\ UNCHANGED <<frame, current, fair, ret, jobs, clock, ready>>

(***************************************************************************)
(* minimk_runtime_scheduler_switch to the current coroutine, which goes on *)
(* where its frame says.                                                   *)
(***************************************************************************)
ValidStack(c) == coro[c].stack = "held" /\ frame[c].at # "none"

SwitchTo(label) ==
    /\ pc = "switch"
    /\ ValidStack(current)
    /\ frame[current].at = label
    /\ frame' = [frame EXCEPT ![current] = NoFrame]
    /\ pc' = "coro"
    /\ UNCHANGED <<current, fair, poll, clock, ready>>

StartEntry ==
    /\ SwitchTo("main")
    /\ jobs' = [jobs EXCEPT ![coro[current].opaque] = "running"]
    /\ ret' = "none"
    /\ UNCHANGED coro

ReturnFromYield ==
    /\ SwitchTo("yield")
    /\ ret' = "none"
    /\ UNCHANGED <<coro, jobs>>

ResumeTimer ==
    /\ SwitchTo("timer")
    /\ coro' = [coro EXCEPT ![current].deadline = 0]
    /\ ret' = "none"
    /\ UNCHANGED jobs

ResumeIo ==
    /\ SwitchTo("io")
    /\ ret' = IoResult(coro[current], frame[current].events)
    /\ coro' = [coro EXCEPT ![current].revents = {}]
    /\ UNCHANGED jobs

\* What is asserted on the way: by validate_stack_pointer, by resume_io, and,
\* for a coroutine that already exited, by the end of coroutine_main.
SwitchAsserts ==
    /\ ValidStack(current)
    /\ frame[current].at # "dead"
    /\ frame[current].at = "io" => ResumeIoAsserts(coro[current])

Switch ==
    /\ pc = "switch"
    /\ IF SwitchAsserts
       THEN StartEntry \/ ReturnFromYield \/ ResumeTimer \/ ResumeIo
       ELSE /\ pc' = "abort"
            /\ UNCHANGED <<coro, frame, current, fair, poll, ret, jobs, clock, ready>>

\* Back in the scheduler: validate the saved sp, forget the coroutine.
SwitchBack ==
    /\ pc = "back"
    /\ IF ValidStack(current)
       THEN current' = Null /\ pc' = "loop"
       ELSE pc' = "abort" /\ UNCHANGED current
    /\ UNCHANGED <<coro, frame, fair, poll, ret, jobs, clock, ready>>

(***************************************************************************)
(* The calls of the coroutine that is on the CPU.  Each of them saves its  *)
(* frame and gives the CPU back.                                           *)
(***************************************************************************)
GiveBack(f) ==
    /\ pc = "coro"
    /\ frame' = [frame EXCEPT ![current] = f]
    /\ pc' = "back"
    /\ ret' = "none"
    /\ UNCHANGED <<current, fair, poll, clock, ready>>

\* A finite sleep must end within the bounded clock; an infinite one never does.
InBound(d) == clock + d <= SleepBound \/ d > ClockBound

\* History: when the sleep or the wait that is asked for is over.
Until(d) == SumOrMax(clock, d)

Yield ==
    /\ GiveBack(At("yield"))
    /\ UNCHANGED <<coro, jobs>>

Nanosleep(d) ==
    /\ InBound(d)
    /\ LET deadline == SatAdd(clock, d)
       IN /\ GiveBack([NoFrame EXCEPT !.at = "timer", !.until = Until(d)])
          /\ coro' = [coro EXCEPT ![current] = SuspendedTimer(@, deadline)]
    /\ UNCHANGED jobs

SuspendIo(s, e, d) ==
    /\ InBound(d)
    /\ LET deadline == SatAdd(clock, d)
       IN /\ GiveBack([at |-> "io", until |-> Until(d), sock |-> s, events |-> {e}])
          /\ coro' = [coro EXCEPT ![current] = SuspendedIo(@, s, {e}, deadline)]
    /\ UNCHANGED jobs

\* The entry function returns and coroutine_main marks the slot EXITED.
EntryReturns ==
    /\ GiveBack(At("dead"))
    /\ coro' = [coro EXCEPT ![current].state = "EXITED"]
    /\ jobs' = [jobs EXCEPT ![coro[current].opaque] = "caller"]

(***************************************************************************)
(* Beside the thread: time passes, and descriptors become ready or not.    *)
(***************************************************************************)
Tick ==
    /\ clock < ClockBound
    /\ clock' = clock + 1
    /\ UNCHANGED <<runtime, ready>>

ReadyChanges(f, bits) ==
    /\ ready[f] # bits
    /\ ready' = [ready EXCEPT ![f] = bits]
    /\ UNCHANGED <<runtime, clock>>

-----------------------------------------------------------------------------
Go == \E j \in Jobs : GoCreates(j) \/ GoStackAllocFails(j) \/ GoNoSlot(j)
LoopStep ==
    \/ LoopEnds \/ CleanExited \/ MaybeExpireDeadlines
    \/ PickRunnable \/ PickNothing \/ PollScan \/ PollEnter \/ PollResume
    \/ Switch \/ SwitchBack
PollOutcome == PollReturns \/ PollInterrupted \/ PollFails
CoroutineGivesBack ==
    \/ Yield
    \/ \E d \in Durations : Nanosleep(d)
    \/ \E s \in Fds, e \in Requestable, d \in Durations : SuspendIo(s, e, d)
    \/ EntryReturns
Environment ==
    \/ Tick
    \/ \E f \in Fds, bits \in SUBSET PollBits : ReadyChanges(f, bits)

Next ==
    \/ Go \/ Run
    \/ LoopStep \/ PollOutcome
    \/ CoroutineGivesBack
    \/ Environment

Spec == Init /\ [][Next]_vars

(***************************************************************************)
(* Fairness.  The thread is not preempted forever; poll(2) returns when it *)
(* has something to report or its timeout elapsed; time passes.  That a    *)
(* coroutine gives the CPU back is the contract of a cooperative runtime:  *)
(* the client owes it, and nothing in the runtime enforces it.             *)
(***************************************************************************)
Fairness ==
    /\ WF_vars(LoopStep)
    /\ WF_vars(PollReturns)
    /\ WF_vars(CoroutineGivesBack)
    /\ WF_vars(Tick)

FairSpec == Spec /\ Fairness

-----------------------------------------------------------------------------
(***************************************************************************)
(* Type correctness of the runtime's state.                                *)
(***************************************************************************)
TypeOK ==
    /\ coro \in [Slots -> Coroutine]
    /\ frame \in [Slots -> Frame]
    /\ current \in Slots \union {Null}
    /\ fair \in Slots
    /\ pc \in {"main", "loop", "expire", "pick", "scan", "enter", "wait", "resume",
               "switch", "coro", "back", "done", "abort", "pollfailed"}
    /\ poll \in [timeout : Nat, until : Nat,
                 revents : [Slots -> SUBSET (PollBits \union Unrequested)]]
    /\ ret \in {"none", "OK", "EAGAIN", "ENOMEM", "ETIMEDOUT"}
    /\ jobs \in [Jobs -> {"caller", "queued", "running"}]
    /\ clock \in 0 .. ClockBound
    /\ ready \in [Fds -> SUBSET PollBits]

(***************************************************************************)
(* Whatever legal calls the coroutines make, in whatever order descriptors *)
(* become ready and time passes, no MINIMK_ASSERT of the scheduler or of a *)
(* coroutine fires: a slot that is polled has a socket, events and no      *)
(* stale revents (scheduler.hpp:138), one that continues after I/O was     *)
(* disarmed by maybe_resume (coroutine.hpp:161), one that is switched to   *)
(* has a stack with a saved context (coroutine.hpp:113), and no exited     *)
(* coroutine is ever switched to again (scheduler.hpp:243).                *)
(***************************************************************************)
NoAssertFires == pc # "abort"

(***************************************************************************)
(* The slot, the stack and the thread agree.  What the fields of a slot    *)
(* say is what the suspended call on its stack is waiting for, from the    *)
(* moment it suspends to the moment it continues, although run, poll and   *)
(* maybe_resume change the fields in between; only the coroutine on the    *)
(* CPU has no saved context; a slot has a stack exactly if it is not NULL. *)
(* This is the strengthening that makes the other invariants inductive.    *)
(***************************************************************************)
OnCpu(c) == pc = "coro" /\ current = c

SlotConsistent(c) ==
    LET co == coro[c]
        f == frame[c]
    IN  /\ co.stack = (IF co.state = "NULL" THEN "none" ELSE "held")
        /\ co.state = "NULL" => f.at = "none"
        /\ co.state = "EXITED" => f.at = "dead"
        /\ co.state = "TIMER" => f.at = "timer" /\ co.deadline = f.until
        /\ co.state = "IO" => /\ f.at = "io" /\ co.deadline = f.until
                              /\ co.sock = f.sock /\ co.events = f.events
                              /\ ScanAsserts(c)
        /\ co.state = "RUNNABLE" => /\ (f.at = "none") <=> OnCpu(c)
                                    /\ f.at # "dead"
                                    /\ f.at = "io" => ResumeIoAsserts(co)

CurrentConsistent ==
    /\ pc \in {"switch", "coro"} => current # Null /\ Runnable(current)
    /\ pc = "back" => current # Null /\ ~ FreeSlot(current) /\ frame[current].at # "none"
    /\ pc \notin {"switch", "coro", "back", "abort"} => current = Null

SlotsConsistent == CurrentConsistent /\ \A c \in Slots : SlotConsistent(c)

(***************************************************************************)
(* Ownership of opaque (runtime.h, minimk_runtime_go): while the caller    *)
(* owns it no live coroutine has it, and from the moment go succeeds until *)
(* its entry function returns exactly one live coroutine does, which has   *)
(* called the entry function unless the job is still queued.  A slot       *)
(* reused too early, or freed too late, breaks it.                         *)
(***************************************************************************)
Live(c) == coro[c].state \notin {"NULL", "EXITED"}
Holds(c, j) == Live(c) /\ coro[c].opaque = j

JobsHaveOneOwner ==
    \A j \in Jobs :
        IF jobs[j] = "caller"
        THEN \A c \in Slots : ~ Holds(c, j)
        ELSE \E c \in Slots :
                /\ Holds(c, j)
                /\ (jobs[j] = "queued") <=> (frame[c].at = "main")
                /\ \A d \in Slots : Holds(d, j) => d = c

(***************************************************************************)
(* A sleeper is made runnable no earlier than the deadline it asked for,   *)
(* and a coroutine that waits for I/O is given ETIMEDOUT no earlier than   *)
(* its deadline: a poll that times out, is interrupted, or reports another *)
(* coroutine's descriptor wakes nobody early, nor does a sum of clock and  *)
(* timeout that does not fit a uint64_t.                                   *)
(***************************************************************************)
WokenOnTime(c) ==
    Runnable(c) =>
        \/ frame[c].at \notin {"timer", "io"}
        \/ /\ frame[c].at = "io"
           /\ IoResult(coro[c], frame[c].events) = "OK"
        \/ clock >= frame[c].until

NoEarlyWake == \A c \in Slots : WokenOnTime(c)

(***************************************************************************)
(* The timeout that block_on_poll computes fits the sleepers: it is at     *)
(* most one millisecond longer than what each of them still has to sleep,  *)
(* so that poll(2) makes nobody oversleep by more, and it is longer than   *)
(* what some sleeper (or the default timeout) still asks for, so that poll *)
(* does not return just before a deadline only to be called again.         *)
(***************************************************************************)
Remaining(c) == IF frame[c].until > clock THEN frame[c].until - clock ELSE 0

PollTimeoutFits ==
    [][PollScan /\ pc' = "enter" =>
          LET wait == poll'.timeout * NsPerMs
          IN /\ \A c \in Slots : Blocked(c) => wait <= Remaining(c) + NsPerMs
             /\ \/ \E c \in Slots : Blocked(c) /\ wait > Remaining(c)
                \/ wait > SatAdd(clock, DefaultTimeout) - clock
                \/ poll'.timeout = IntMax]_vars

-----------------------------------------------------------------------------
(***************************************************************************)
(* What a job is doing, as its clients see it: what its stack remembers,   *)
(* unless it is on the CPU.  That its descriptor was seen to be ready is   *)
(* in what poll reported, and then in what its slot keeps of that.         *)
(***************************************************************************)
SlotOf(j) == CHOOSE c \in Slots : Holds(c, j)

Activity ==
    [none |-> "running", main |-> "queued", yield |-> "paused",
     timer |-> "asleep", io |-> "waiting", dead |-> "idle"]

DoingOf(j) ==
    IF jobs[j] = "caller" THEN At("idle")
    ELSE [frame[SlotOf(j)] EXCEPT !.at = Activity[frame[SlotOf(j)].at]]

SeenReady(c) ==
    /\ frame[c].at = "io"
    /\ \/ Runnable(c) /\ IoResult(coro[c], frame[c].events) = "OK"
       \/ /\ coro[c].state = "IO" /\ pc = "resume"
          /\ poll.revents[c] \intersect (coro[c].events \union {"err"}) # {}

Phase ==
    CASE pc = "main" -> "main"
      [] pc = "done" -> "done"
      [] OTHER -> "run"

JobsDoing == [j \in Jobs |-> DoingOf(j)]
JobsNoticed == {j \in Jobs : jobs[j] # "caller" /\ SeenReady(SlotOf(j))}

R == INSTANCE Runtime WITH phase <- Phase, doing <- JobsDoing, noticed <- JobsNoticed

(***************************************************************************)
(* The scheduler implements the runtime that runtime.h describes: entry is *)
(* called exactly once for a go that succeeded, one coroutine at a time    *)
(* has the CPU, run returns only when all of them returned, a sleep lasts, *)
(* suspend_read and suspend_write return zero only if poll reported the    *)
(* descriptor while they waited, and ETIMEDOUT only when their time was    *)
(* over: however many others sleep, wait and exit, whatever slots they     *)
(* reuse, and whatever else the same poll reported.                        *)
(***************************************************************************)
ImplementsRuntime == R!RuntimeSpec

-----------------------------------------------------------------------------
(***************************************************************************)
(* Liveness.  A failed poll(2) aborts the process, and nothing is owed     *)
(* after that.                                                             *)
(***************************************************************************)
Stopped == pc \in {"abort", "pollfailed"}
Started == pc \notin {"main", "done"}

\* A coroutine with a claim to the CPU: it can run, or it sleeps, or waits
\* for I/O, with a deadline that the clock will reach.
Due(c) == Runnable(c) \/ (Blocked(c) /\ coro[c].deadline <= ClockBound)

(***************************************************************************)
(* Nobody is starved of the CPU: once run was called, every runnable       *)
(* coroutine, every sleeper and every I/O wait with a timeout gets to run, *)
(* however the others use their turns and however often a signal           *)
(* interrupts poll.                                                        *)
(***************************************************************************)
EveryDueCoroutineRuns ==
    \A c \in Slots : (Started /\ Due(c)) ~> (OnCpu(c) \/ Stopped)

(***************************************************************************)
(* An I/O wait ends if the scheduler keeps polling: a coroutine whose      *)
(* descriptor stays ready for what it asked is not passed over forever,    *)
(* whatever the other descriptors do, stdin (the descriptor of unused      *)
(* pollfd entries) included.                                               *)
(***************************************************************************)
ReadyWaiter(c) ==
    coro[c].state = "IO" /\ coro[c].events \intersect ready[coro[c].sock] # {}

PolledWaiterIsServed ==
    \A c \in Slots : []<>(pc = "resume") => ~ <>[] ReadyWaiter(c)

(***************************************************************************)
(* coroutine.h says of suspend_io: "Parks the coroutine until I/O occurs   *)
(* or the given timeout expires".  A coroutine whose descriptor stays      *)
(* ready is then not parked forever.                                       *)
(***************************************************************************)
ReadyWaiterIsServed ==
    \A c \in Slots : ~ <>[](ReadyWaiter(c) /\ ~ Stopped)

(***************************************************************************)
(* resume_io says that with POLLERR "the caller should retry the I/O       *)
(* operation to get the error".  A coroutine whose descriptor stays in     *)
(* error is then not parked forever, if the scheduler keeps polling.       *)
(***************************************************************************)
ErrorWaiter(c) == coro[c].state = "IO" /\ "err" \in ready[coro[c].sock]

PolledErrorIsServed ==
    \A c \in Slots : []<>(pc = "resume") => ~ <>[] ErrorWaiter(c)

(***************************************************************************)
(* runtime.h says of suspend_read: "Returns zero if read would not block   *)
(* and an error otherwise".  A wait does not end in ETIMEDOUT while its    *)
(* descriptor has what it waited for.                                      *)
(***************************************************************************)
TimeoutMeansNotReady ==
    [][ResumeIo /\ ret' = "ETIMEDOUT" =>
          frame[current].events \intersect ready[frame[current].sock] = {}]_vars
=============================================================================
