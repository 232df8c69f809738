# Verification of minimk

minimk is a single-threaded runtime for stackful coroutines with nonblocking
sockets on top. This directory holds TLA+ models of it, the TLC configurations
that check them, and proofs that TLAPS checks. Paths below are relative to the
repository.

## 1. The system

| Component | State | Operations | Talks to |
|---|---|---|---|
| scheduler (`src/libminimk/runtime/scheduler.hpp`, `runtime.cpp`) | 16 coroutine slots, `current`, the saved stack pointer of the scheduler, the cursor `fair` of `run` | `go`, `run` (clean exited, expire deadlines, pick, switch, block on poll), `yield`, `nanosleep`, `suspend_read`, `suspend_write` | coroutines (context switch), clock, `poll(2)`, stack allocator |
| coroutine (`runtime/coroutine.hpp`) | per slot: `state`, `stack`, `sp`, `entry`, `opaque`, `deadline`, `sock`, `events`, `revents` | `init`, `finish`, `maybe_resume`, `suspend_timer`/`resume_timer`, `suspend_io`/`resume_io`, `mark_exited`, `validate_stack_pointer` | stack allocator |
| context switch (`runtime/switch_linux_amd64.S`) | six registers and a return address on the stack that is left, its stack pointer in `sp` | `switch`, `init_coro_stack`, the trampoline | scheduler |
| stack allocator (`runtime/stack_linux.hpp`) | a mapping with a guard page per live coroutine | `alloc`, `free` | `mmap`, `mprotect`, `munmap` |
| saturating arithmetic (`integer/u64.h`) | none | `satadd`, `satmul` | clock, scheduler |
| monotonic clock (`time/monotonic.c`) | none (the kernel's) | `monotonic_now` | `clock_gettime` |
| socket table and handles (`socket/info.cpp`, `socket/handle.hpp`) | 256 entries (handle, descriptor, two timeouts), `generation`, `next_slot` | `create`, `find`, `get`, `forget` | every socket operation |
| socket operations (`socket/*.hpp`) | that of the table and of the kernel | `create`, `destroy`, `bind`, `listen`, `accept`, `connect`, `recv`, `send`, `set_read_timeout`, `set_write_timeout`, `setsockopt_reuseaddr` | table, scheduler (suspension), system calls |
| all-or-nothing I/O (`include/minimk/io.hpp`) | the locals of a loop | `sendall`, `recvall` | socket operations |
| system-call wrappers (`syscall/*_posix.hpp`) | none | one per system call: clears `errno`, calls, maps the result | kernel |
| error codes (`errno/`) | none | map of `errno`, names | everybody |
| logging, tracing, assertions | none | output; `MINIMK_ASSERT` aborts | everybody |
| examples (`src/examples`, the echo server first) | that of a client | echo server, echo test, ping-pong | runtime, sockets |

**How they interact.** Exactly one of `main()`, the run loop and one coroutine
has the CPU. A coroutine gives it back only by a runtime call or by returning
from its entry function; the run loop cleans up, expires deadlines, picks a
runnable coroutine round-robin and switches to it, and blocks in `poll(2)` only
when there is none. A socket operation tries its system call, suspends the
coroutine when the call would block, and tries again.

**What is hard.** Nothing runs in parallel with the library but time and the
kernel, and both change between any two of its steps. A slot's fields are
written by a coroutine that suspends, read by the scan of `block_on_poll`,
changed by `maybe_resume` from two places, and asserted by the coroutine when it
continues: three contexts, none of which sees the others. Deadlines are computed
from a clock read at one time, compared with a clock read at another, and
rounded to milliseconds in between. Handles are made from two counters that are
kept in step by hand. Socket operations keep a pointer into the table across a
suspension. `PROJECT.json` lists these hazards at their lines.

**What makes each part correct.**

* *Scheduler*: no assertion fires; a slot says what its suspended call waits
  for; nobody runs before its deadline, nobody that can run is passed over
  twice by the same coroutine, everybody that is due runs; `opaque` has one
  owner; poll waits neither too long nor too short.
* *Runtime, as its clients see it*: `entry` is called once for a `go` that
  succeeded; `run` returns when all have returned; a sleep lasts; a wait returns
  zero only for its own descriptor, and `ETIMEDOUT` only when its time is over.
* *Stacks and context switch*: every coroutine has a guarded stack of its own,
  nothing stays mapped after it; whoever is switched to finds its registers, its
  locals and its return address as it left them.
* *Clock and arithmetic*: readings are exact or saturated and never go back.
* *Socket table*: a handle never names a second socket; counters agree; every
  open descriptor has one entry; operations on one socket leave the others alone.
* *Socket operations*: an operation that continues after a suspension works on
  the socket it began with; no call times out early.
* *All-or-nothing I/O*: success means everything was transferred, in order, once.
* *Echo server*: every open socket has one owner, `main` leaves nothing open, and
  every client that hangs up is noticed.

## 2. The modules

| Module | Models | Correspondence |
|---|---|---|
| `Runtime` | the abstract promise of the runtime, from the comments of `include/minimk/runtime.h`: neither slots nor stacks nor polling | `doing` says of each (entry, opaque) pair what its coroutine does; `noticed` whose descriptor was seen to be ready |
| `U64` | `integer/u64.h` | C's `+` and `-` on `uint64_t` wrap at the parameter `U64Max`; `SatAdd`, `SatMul` are the two functions; `SumOrMax` is not code but what a client means by a timeout from now |
| `Scheduler` | `scheduler.hpp`, `coroutine.hpp` behind `runtime.cpp` | `coro`, `current`, `fair` are the fields and the cursor of the same names; `frame` is what a coroutine's own stack holds; `poll` the locals of `block_on_poll`; `pc` where the thread is |
| `RoundRobin` | `Scheduler` with one history variable | for each runnable coroutine, who was picked instead of it |
| `Stacks` | `runtime/stack_linux.hpp` beside `Scheduler` | `stacks` is the field `stack` of each slot; `memory` what the kernel has mapped, and with which protection |
| `ContextSwitch` | `runtime/switch_linux_amd64.S` beside `Stacks` | `words` is the contents of the stacks, `sp` the field of the same name, `cpu` the stack pointer, the callee-saved registers and the return address after a switch; `held` is history |
| `Monotonic` | `time/monotonic.c` over `CLOCK_MONOTONIC` | |
| `SocketMap` | the abstract promise of the table: a map from handles to sockets in which no handle is reused | "We never reuse socket IDs", `socket/handle.hpp` |
| `SocketTable` | `info.cpp`, `handle.hpp`, and `create`, `destroy`, `set_read_timeout`, `set_write_timeout` | `sockets`, `generation`, `next_slot` are the static variables; `open` the descriptors in the kernel |
| `Sockets` | `accept`, `connect`, `recv`, `send` beside `create`, `destroy`, `bind`, `listen` and the timeouts, over `SocketTable`, by several coroutines | `call` is the frame of a suspended call: its handle, its pointer to the entry (`index` for `info`), and the descriptor and deadline the scheduler has |
| `EchoServer` | `examples/socket/00_echo_server.c` over `Sockets` | `task` is where `main` and each coroutine are in their program, with their locals; `cpu` who has the CPU |
| `Errno` | `errno/errno_posix.c` | an error is its name; what has no code becomes `EUNKNOWN` |
| `IoAll` | `sendall` and `recvall`: the loops of `minimk/io.hpp` over the wrappers of `send(2)` and `recv(2)` | `snd` and `rcv` are the locals of the two loops, `pipe` what the kernel buffers |
| `MC...` | instances for TLC | |
| `...Proofs` | theorems and proofs of the module before the suffix; `SchedulerProofs` has those of `RoundRobin` too, and `StacksProofs` those of `ContextSwitch` | |

`Scheduler` in detail. The thread's position `pc` follows `run_impl`: `loop`
(test for live coroutines, `clean_exited_coroutines`), `expire`
(`maybe_expire_deadlines`), `pick` (`pick_runnable`), then either `switch`,
`coro` and `back` (a coroutine has the CPU) or `scan`, `enter`, `wait`, `resume`
(`block_on_poll`, with the clock read at `scan` and again at `resume`). `main` and
`done` are before and after `run`; `abort` is a failed assertion; `pollfailed`
the abort of `block_on_poll` when `poll` fails. One action stands for one of the
functions, with everything it changes; the actions of a coroutine are the five
runtime calls (`Go`, `Yield`, `Nanosleep`, `SuspendIo`, `EntryReturns`), in any
order. `Tick` and `ReadyChanges` are the environment and are possible between
any two steps. A zeroed slot has descriptor 0 where an initialised one has the
invalid socket, and a slot that does not wait for I/O leaves a zeroed `pollfd`,
which polls descriptor 0 for nothing but errors: both are as in the code. A
failed stack allocation leaves a `NULL` slot that is not zeroed any more (`Dirty`).
`frame.until` is history: when the sleep or wait that was asked for is over. It is
computed without `SatAdd`, as are the deadlines of `Runtime` and the limits of
`Sockets`, so that a sum that wraps would show as an early wake-up.

`Scheduler` implements `Runtime`: `Scheduler!R` maps a slot's state and the frame on
its stack to what the job of that slot is doing (`JobsDoing`), and what poll
reported, then what the slot keeps of it, to what was noticed (`JobsNoticed`).
In `Runtime` any waiting coroutine may be noticed when its descriptor is ready,
and any that is entitled to the CPU may get it next; that one poll reports several
descriptors, that results are kept in slots, and that slots are reused is
`Scheduler`'s business and must not show.

`Stacks` and `ContextSwitch` in detail. Both add variables to `Scheduler` and say
for each of its steps what the step does to them: a step that creates a coroutine
maps and protects a stack, with every outcome of `mmap` and `mprotect`, and puts
the initial frame on it; one that cleans up exited coroutines unmaps theirs; a
switch pushes the callee-saved registers of the context that is left, saves its
stack pointer, and pops those of the other one. The registers and the locals of a
context are arbitrary words that name their owner, so that a word in the wrong
place or on the wrong stack shows. `RoundRobin`, `Stacks` and `ContextSwitch` are
checked together (`MCRoundRobin`): their variables do not influence the scheduler.

`SocketTable` in detail. A probe `k` of `create` looks at slot
`(next_slot + k) % MaxSockets`; the counters advance per probe, also in a search
that fails. `Create`, `CreateTableFull` and `CreateExhausted` are the outcomes
of `minimk_socket_create` once the kernel gave it a descriptor: an entry, a full
table (the descriptor is closed again), and the assertion in `make_handle`.
Failures before that change no state of the library. A client may use every
handle it was ever given (`used`) and zero.

`Sockets` in detail. A coroutine has the CPU until it suspends, so a call is one
step from its lookup of the handle to its return or its first suspension
(`Begin`), and one step per round after that (`Continue`). `Wakes` and `Expires`
are what `maybe_resume` does to a waiting coroutine; that it gets the CPU only
later is what makes stale pointers and two readers of one socket possible. `kern`
is the kernel's view of a descriptor: what it is, whether there is something to
read or room to write. `recv` and `send` on a socket that still connects would
block, so they suspend, and on one that was refused they fail and take the error
with them (`RoundFails`), which `connect` and `getsockopt(SO_ERROR)` then no longer
see. With `Disciplined = TRUE` clients do not destroy, connect or set timeouts on a
socket while a call on it is suspended (`MayDisturb`), and begin no call on one whose
`connect` is (`MayBegin`); with `FALSE` they may, and nothing in the library prevents
it. Calls with a handle that names
nothing change nothing, except that they return `EBADF`.

`EchoServer` in detail. `main`, `accept_loop` and `handle_client` are programs whose
steps are the socket operations of `Sockets`. One of them has the CPU until its
operation suspends or it ends, as in the code: an operation that can go on at once
does not give the CPU back. `poll` is reached only when nobody can run. `go` may
fail for want of a slot or a stack, and then its result is ignored, as in the
code; `lost` remembers the sockets that were lost that way. The peers connect,
send, hang up and read in any order.

`IoAll` in detail. A round of either loop makes one system call, whose result is
any that the kernel may give (a short count, `EAGAIN`, `EINTR`, a reset, end of
file), maps it (`send`, `recv`), and goes on (`AfterRound`). After `EAGAIN` the
coroutine is suspended until the descriptor is ready or its timeout expires.

Operators whose comment starts with *Slip* are wrong variants of the operator
beside them (an off-by-one, a dropped reset, a missing close). No specification
uses them; they are there to show that a property notices.

## 3. What is model-checked

| Run | Checks | Shows |
|---|---|---|
| `safety` | `TypeOK`, `NoAssertFires`, `SlotsConsistent`, `JobsHaveOneOwner`, `NoEarlyWake`, `PollTimeoutFits` | two slots for three jobs, stdin and a socket, `POLLIN` and `POLLERR`, sleeps of 0, 2 and for ever: all sequences of calls, interleaved with time, readiness, signals, poll errors, failed allocations (1.1 million states up to renaming of jobs) |
| `live` | `ImplementsRuntime`, `EveryDueCoroutineRuns`, `PolledWaiterIsServed` | `Scheduler` implements `Runtime`; under fairness nobody that is due starves, whatever the others do, however often a signal interrupts poll, and while stdin hangs up or fails, so that the entries of `pollfd` without a waiter report something and poll returns at once |
| `round_robin` | `PassedAreBehind`, `NobodyRunsTwice`, `EveryCoroutineHasItsStack`, `NoMappingLeaks`, `ContinuesWhereItStopped`, `EntersMainAligned` | three slots for four jobs, freed and reused, and so are three regions of memory; allocations fail half-way; every switch finds what the context had left, and a new coroutine an aligned stack |
| `monotonic` | `ClockTypeOK`, `NeverAhead`, `ReadingIsElapsed`, `NeverGoesBack` | the kernel's clock runs past what the (small) integer holds |
| `sockets_entries` | `TableTypeOK`, `TableConsistent`, `ImplementsMap`, `OnlyItsOwnSocket`, `KeepsItsEntry`, `KernelAgrees`, `AcceptGivesOneHandle` | two entries go around until generations run out, over three descriptors; the table refines `SocketMap`, and no `destroy` reaches another socket than that of its handle (there are no timeouts here: for `set_read_timeout` and `set_write_timeout` see `sockets_timeouts` and the theorem `HandlesAreNotMistaken`); with disciplined clients a suspended call keeps its entry, no descriptor leaks whatever step of `accept` or `create` fails, and `accept` gives out exactly one handle or none |
| `sockets_timeouts` | `SocketsTypeOK`, `ImplementsMap`, `NeverTimesOutEarly`, `ConnectTellsTheTruth` | calls and changes of timeouts that race the clock: no call times out early however often it tries, and `connect` succeeds only when connected, also after one that timed out or was refused, or whose refusal a `recv` or `send` was told of |
| `echo` | `EchoTypeOK`, `SocketsHaveOneOwner`, `KeepsItsEntry`, `ExitsClean`, `EveryHangUpIsSeen` | the echo server with three slots and three table entries: sockets and slots are reused by clients that come and go, every step of `main` may fail, `go` may fail |
| `io` | `IoTypeOK`, `IoNoAssertFires`, `ExactlyOnce`, `SuccessMeansAll`, `TransferCompletes` | short transfers, signals, a full buffer, timeouts and a reset (`ECONNRESET`, or `EPIPE`, which has no code) at any point of a transfer; without a reset or a timeout both ends finish although the buffer holds less than half of the message |
| `starved` | `ReadyWaiterIsServed` (violated) | poll is called only when nothing is runnable: a coroutine that keeps yielding starves one that waits for a ready descriptor without a timeout |
| `pollerr` | `PolledErrorIsServed` (violated) | a descriptor that reports only `POLLERR` never resumes its waiter |
| `unpolled` | `TimeoutMeansNotReady` (violated) | a wait whose deadline passes before the next poll ends in `ETIMEDOUT` although its descriptor was ready all along |
| `sockets_stale` | `SucceedsOnItsOwnSocket` (violated) | a socket is destroyed while a call on it is suspended: the call continues on the socket that reuses the entry, and succeeds there |

The four violations are disagreements between the code and its comments, quoted
in `PROJECT.json` under "findings". `starved` uses a specification without
signals and poll errors (`QuietSpec`), `unpolled` one in which readiness never
changes (`SteadySpec`), so that nothing but the code is to blame.

**Bounds.** `U64Max`, `IntMax`, `NsPerMs` and `NsPerSec` are small so that sums,
products and timeouts reach saturation; 19 is the largest integer and "no
timeout". `NsPerMs = 2` makes rounding visible. `ClockBound` stops the clock and
`SleepBound` keeps finite deadlines before it, so that every finite sleep can
end; `CappedToBound` lets a poll whose timeout lies beyond the clock's end
elapse there. The run `live` has both bounds at 3, the sum of clock and default timeout beyond them, and
bounds the environment too (`StdinSpec`): stdin may hang up or fail at any time, the
socket reports input only, since with both the state graph is too large to search for
cycles. To the scheduler one failing descriptor is like another, and `safety` has
errors on both. Two slots are enough for every pair of coroutines to interact
(one suspends while the other is picked, expires, exits, is created); three are
used where order among several matters (`RoundRobin`), with three regions of
memory, so that a new coroutine gets the stack of one that exited. `run` calls
`switch` from one place, so `RunDepth`, the words it has on its stack by then, is
one number (1); a coroutine may have 1 or 2 (`Depths`), so that what it leaves
there differs from one switch to the next. Two table entries with
generations 0 and 1, of which `ProbeBound` 5 (4 with a clock) exhausts both, cover
going around, reuse of an entry and of a descriptor, a full table, and exhausted
generations; how the counters behave further on is proved (`TableStaysConsistent`). `SecBound` lets the
clock run to about twice the largest integer. Theorems (below) hold for every
value of these constants.

`Sockets` is checked with disciplined clients twice because table and clock together are too much: once
with three descriptors and no clock (`sockets_entries`: two entries that both go
around, a full table, exhausted generations, a listener with the connection it
accepts), once with one descriptor and a clock (`sockets_timeouts`, where
descriptor and entry are reused and a deadline may pass at any point). Two
coroutines are enough for one to act while the other is suspended. `IoAll`
transfers 9 bytes through a buffer of 4 with at most 3 per system call, so that
transfers are cut short by each of the three limits. In `EchoServer` two bytes per
read are enough for a send to be cut short; the fourth coroutine in `Coros` is `main`;
of the three descriptors one is the listener's, so that a third client at a time finds none
and `accept` fails; `ProbeBound` 6 is enough for the entry of a client that left to be used
again; and no socket has a timeout, as in the example.

Jobs are interchangeable, and so are coroutines and regions of memory, and the runs that check no
liveness use that (`JobSymmetry`, `JobRegionSymmetry`, `CoroSymmetry`).

**Deadlock** is checked in the scheduler's runs: the environment never stops, so
the check is of use only with the liveness properties. It is off where the
bound of a counter is the end of the behaviours (`RoundRobin`, `Monotonic`,
`Sockets`), in `EchoServer`, where `main` may exit, in `unpolled`, where time and readiness end, and in `IoAll`,
where a transfer ends.

**Fairness** (`Scheduler!Fairness`). The thread is not preempted forever
(`LoopStep`); poll returns when something is reported or its timeout elapsed
(`PollReturns`); time passes (`Tick`); and a coroutine gives the CPU back
(`CoroutineGivesBack`). The last one is the client's contract in a cooperative
runtime: nothing in the code enforces it, and without it there is nothing to be
shown about the others. No fairness is assumed of readiness, signals, errors or
`go`.

`IoAll!IoFairSpec` assumes what `Scheduler` shows of each coroutine (it gets the CPU
when it can run and is resumed when its descriptor stays ready), and that a
system call which could transfer something again and again is not interrupted
every time (strong fairness of a round that makes progress or suspends).

`EchoServer!EchoFairness`: a coroutine that can run again and again when the run
loop has the CPU gets it (strong fairness of each coroutine, which is what
`BoundedBypass` gives), poll returns when something is reported, and a client reads
what it is sent. `EveryHangUpIsSeen` is also conditional on the run loop getting the
CPU again and again. The code does not guarantee that: `accept_loop` tries again
without yielding when `accept` fails, and an operation that need not wait never
suspends.

## 4. What is proved

Every theorem holds for every value of the constants that satisfies the named
assumptions of its module (`U64MaxAssumption`, `SchedulerAssumption`,
`SocketTableAssumption`, `MonotonicAssumption`, `IoAllAssumption`, and those of `Stacks`,
`ContextSwitch`, `Sockets` and `EchoServer`), which ask only for types, at least
one slot (two table entries), a buffer of at least one byte, and a clock that stays
below `U64Max`. Every safety property and action property of the passing runs is a
theorem, and so are both refinements.

* `U64Proofs`: `SatAdd` and `SatMul` compute the minimum of the exact result and
  `U64Max` although the arithmetic inside wraps (so that `SatAdd` is `SumOrMax`, `SatAddIsMeant`); `SatMulSaturates` rests on
  `DivisionTest`, that `a <= M \div b` is `a * b <= M`.
* `SchedulerProofs`: `TypeCorrect`, `Consistent`, `AssertionFree`, `NeverEarly`,
  `OneOwner`, `TimeoutFits`. `NoAssertFires` is not inductive: that `resume_io`
  finds its fields reset depends on what `maybe_resume` did to the slot while
  another coroutine ran. The inductive invariant is `TypeOK`, `NoAssertFires` and
  `SlotsConsistent` together, which says of every slot how its fields relate to
  the frame saved on its stack. `NeverEarly` needs in addition that saved deadlines
  are those of the slot, which is where `SatAdd` has to be the sum that was meant; `OneOwner` that a `RUNNABLE` slot with a `main` frame is
  exactly a queued job; `TimeoutFits` the facts about `SatAdd` and rounded
  division.
  `RuntimeImplemented` is the refinement: with the same invariant each step of
  `Scheduler` is a step of `Runtime` or leaves its variables alone. Two lemmas carry
  it: a job's slot is the only one that holds it, so that a step which changes one
  slot changes what one job does; and what is noticed survives from poll's report
  to `resume_io` (or is forgotten, when another deadline comes first).
  `BoundedBypass` is about `RoundRobin`: the invariant `PassedAreBehind`
  (`PassedStayBehind`) says that who was picked instead of `c` is now probed after
  `c`; it survives cursor moves because `c`, being runnable, is never skipped.
* `StacksProofs`: `StackSizeFits`, `StacksOwned`, `MappingsReleased`; and
  `SwitchesAreTransparent` and `EntersMain` about `ContextSwitch`. For the first the
  invariant says that the mappings are exactly the stacks of the slots that
  `Scheduler` calls used, each at a base of its own. For the others it says that
  whoever does not have the CPU is intact: its `sp` points into its own stack, and
  the words below hold, in the order in which `switch` will pop them, its registers,
  its return address and its locals (`Intact`, `PointsTo`). A step writes the stack of
  one context only, which is where the first invariant is needed.
* `SocketTableProofs`: `TableTypeCorrect`, `TableStaysConsistent`,
  `DescriptorsOwned`, `TableImplementsMap`, `HandlesAreNotMistaken`. The key fact is that the handle made
  for the probe with number `n` since the start is `FirstHandle + n`: generations
  and indices are the digits of one counter, so that a new handle is larger than
  all before it.
* `SocketsProofs`: `SocketsTypeCorrect`, `NothingLeaks`, `SocketsUseTheTable`,
  `SocketsImplementMap`, `CallsKeepTheirEntries`, `TimeoutsAreNotEarly`,
  `AcceptIsAllOrNothing`, `ConnectIsTruthful`. Every step of
  the socket operations is one of `SocketTable` or leaves it alone, so the theorems
  about the table hold here. `CallsKeepTheirEntries`, `TimeoutsAreNotEarly` and
  `ConnectIsTruthful` assume disciplined clients (for the first, `sockets_stale` is the
  counterexample without them).
  `AcceptIsAllOrNothing` needs no invariant but that of the table: it is what a round
  of `accept` does to the table, the descriptors and the kernel, outcome by outcome.
  `ConnectIsTruthful` does: `connect` asks `SO_ERROR` when it is awake, and no error
  means success, so that it must not be awake while the kernel still connects.
  `ConnectInv` says that a descriptor that connects has no room to write
  (`ConnectingHasNoRoom`), that the kernel has decided for who is awake (`Decides`),
  and that no other call is in flight on the handle of one who is in `connect`; the last
  makes the second inductive, since otherwise another coroutine could start the connection
  again, or be told of its failure in place of the one that waits for it.
* `IoAllProofs`: `IoTypeCorrect`, `IoAssertionFree`, `BytesArriveOnce`,
  `SuccessIsComplete`. The inductive invariant says of each byte where it is
  (`BytesInOrder`: the receiver has the bytes 1 to `rcv.total`, the kernel those up
  to `snd.total`) and relates a loop's end to its result (`EndsHaveResults`); that an
  end of file follows only a sender that failed needs both.
* `EchoServerProofs`: `EchoServerIsAClient`, `EchoServerTypeCorrect`,
  `OwnershipIsPassedOn`, `MainExitsClean`, `EchoCallsKeepTheirEntries`. Each step of the
  echo server is one of `Sockets`, so what is proved there holds here. Ownership alone is
  not inductive: a socket that a coroutine destroys must have been live, and who is
  handed one must have been free. `EchoInv` adds that a call in flight is the one its
  program is at, on its entry (`CallsOk`); that `main` has the CPU except while it is
  in `run` (`CpuOk`); and that who accepts uses `main`'s socket while `main` is in `run`,
  that there are no clients before and after, and that who lost a socket still
  accepts (`Server`), which is why nothing is lost when `main` exits. TLC checked
  `EchoInv` on the instance of the run `echo` before it was proved.
  `EchoCallsKeepTheirEntries` does not assume `Disciplined`: a socket is destroyed by its
  one owner, whose own calls are over then (`OtherCallsEntry`), so that ownership
  gives what `Sockets` has to assume of its clients.
* `MonotonicProofs`: `ReadingsFit`, `ClockNeverAhead`, `ReadingsAreExact`, `ClockNeverGoesBack`.

Only model-checked: the liveness properties (`EveryDueCoroutineRuns`,
`PolledWaiterIsServed`, `TransferCompletes`, `EveryHangUpIsSeen`), which need fairness and
`ENABLED`, beyond the prover; and the violations, which are counterexamples.

## 5. Not modelled

How long a retried call may last: every retry after a wake-up that found nothing
waits for the whole timeout again, so that there is no bound to check
(`NeverTimesOutEarly` is the other direction). What a client does after a `sendall`
that failed half-way: the code does not say how much was sent.

Stack overflow: a coroutine's locals are a few words, and nothing in the code
bounds them but the guard page. Floating-point control words, which the ABI has a
callee save and `switch` does not. The contents of buffers and addresses; logging and
tracing, which are output only; the names of errors. A descriptor is an integer with a set of
poll bits; `POLLHUP` stands for `POLLNVAL` too. Datagram sockets: every socket
is a stream, of which `send(2)` is assumed never to return 0 for a count above 0 (the wrapper
would call that success, and `io.hpp` would abort). A `munmap` that fails in
`minimk_runtime_stack_free`, whose result `finish` ignores: for a mapping that the module made
it does not fail. That `recv(2)` on a socket whose attempt to connect failed may say end of file instead of
an error. Platforms other than Linux on amd64. A failed
`MINIMK_ASSERT` is a state that nothing leaves.

The wrappers of `socket(2)`, `bind(2)`, `setsockopt(2)` and `fcntl(2)` are one call and one
error mapping each; in `Sockets` they succeed or fail, with every effect of a failure.
The examples other than the echo server make a few calls in a fixed order, which are
among the calls of `Scheduler` and `IoAll` in any order.

`Sockets` is not composed with `Scheduler` itself: the product of a table, a kernel and
the slots is too large for TLC. What `Sockets` needs of the scheduler are two actions
(`Wakes`, `Expires`); that a wait ends only in one of these two ways is what
`ImplementsRuntime` says of `Scheduler`.

## 6. Findings

The four `violation` runs, in short: a yielding coroutine starves those that wait for
descriptors (`starved`); an error reported alone wakes nobody (`pollerr`); a deadline
beats an answer that is already there (`unpolled`); a call on a destroyed socket goes
on with the socket that reuses its entry (`sockets_stale`). Two more are visible in the
echo server, and part of what its properties say: an accepted socket leaks when `go`
fails (`lost`), and a failed `accept` is repeated without giving the CPU back.

What would be worth adding: a proof that `Sockets` and `Scheduler` fit together, that is,
that the waits of `Sockets` are those of `Runtime`, for which TLC's instances are too
large but the prover does not need any.
